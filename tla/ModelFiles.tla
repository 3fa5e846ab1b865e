------------------------------ MODULE ModelFiles ------------------------------
(***************************************************************************)
(* The model files of desktop_perceive (crates/nuphus-mcp/src/models.rs):  *)
(* every server process downloads what is missing into one directory, from *)
(* one source after another, by way of a scratch file that is checked and  *)
(* then renamed; and loads its engines from there (crates/desktop-api/src/ *)
(* vision).  Processes run at once and die at any moment, and a server     *)
(* answers a request with an error, a broken stream, or something else     *)
(* than the file.                                                          *)
(***************************************************************************)
EXTENDS Naturals, Sequences

CONSTANTS
    Server,         \* processes
    Detector, Dictionary, Yolo,     \* an OCR model, the character list, the icon model
    Sources,        \* sources of a file
    MaxDeaths       \* bound: processes that die

ASSUME FilesAssumption ==
    /\ Detector # Dictionary /\ Yolo \notin {Detector, Dictionary}
    /\ Sources \in Nat \ {0} /\ MaxDeaths \in Nat

VARIABLES
    models,         \* of each file what is at its place
    parts,          \* of each scratch file, by its name, what is in it
    loader,         \* of each process: [at, todo, source]
    engine,         \* SHARED_OCR of each process: the engine is built
    icons,          \* SHARED_YOLO of each process: its session is loaded
    deaths

fileVars == <<models, parts, loader, engine, icons, deaths>>

File == {Detector, Dictionary, Yolo}
OcrFiles == <<Detector, Dictionary>>

\* "page": something small instead of the file; "cut": large enough, and broken.
Content == {"absent", "empty", "page", "cut", "whole"}
Exists(f) == models[f] # "absent"
OcrComplete == \A i \in DOMAIN OcrFiles : Exists(OcrFiles[i])

Resting == [at |-> "idle", todo |-> <<>>, source |-> 0]
IsAt(p, place) == loader[p].at = place
Fetching(p) == Head(loader[p].todo)
Becomes(p, at, todo, source) ==
    loader' = [loader EXCEPT ![p] = [at |-> at, todo |-> todo, source |-> source]]
Turns(p, place) == Becomes(p, place, loader[p].todo, loader[p].source)

\* Mutant: one scratch file for all processes.
SharedPart(p, f) == f

\* download_file: the process's number is in the name.
PartOf(p, f) == <<p, f>>

PartIs(p, c) == parts' = [parts EXCEPT ![PartOf(p, Fetching(p))] = c]

-----------------------------------------------------------------------------
(* ensure_models *)

Ensure(p, skipDownload) ==
    /\ IsAt(p, "idle")
    /\ LET ocr == IF OcrComplete THEN <<>> ELSE OcrFiles
           yolo == IF Exists(Yolo) THEN <<>> ELSE <<Yolo>>
       IN  Becomes(p, "next", IF skipDownload THEN <<>> ELSE ocr \o yolo, 0)
    /\ UNCHANGED <<models, parts, engine, icons, deaths>>

\* The next file, if it is still missing; the icon model is not looked for again.
NextFile(p) ==
    /\ IsAt(p, "next")
    /\ IF loader[p].todo = <<>> THEN Turns(p, IF OcrComplete THEN "ready" ELSE "idle")
       ELSE IF Exists(Fetching(p)) /\ Fetching(p) # Yolo
            THEN Becomes(p, "next", Tail(loader[p].todo), loader[p].source)
            ELSE Becomes(p, "get", loader[p].todo, 1)
    /\ UNCHANGED <<models, parts, engine, icons, deaths>>

\* download_with_fallback: the next source, or the file could not be had, which is
\* the end of the call unless it is the icon model.
SourceFails(p) ==
    IF loader[p].source < Sources THEN Becomes(p, "get", loader[p].todo, loader[p].source + 1)
    ELSE IF Fetching(p) = Yolo THEN Becomes(p, "next", Tail(loader[p].todo), loader[p].source)
    ELSE Becomes(p, "idle", <<>>, 0)

\* The request fails before there is a scratch file.
GetFails(p) ==
    /\ IsAt(p, "get") /\ SourceFails(p)
    /\ PartIs(p, "absent")
    /\ UNCHANGED <<models, engine, icons, deaths>>

Get(p) ==
    /\ IsAt(p, "get") /\ Turns(p, "body")
    /\ PartIs(p, "empty")
    /\ UNCHANGED <<models, engine, icons, deaths>>

\* The stream ends; what came may be anything.
Body(p, c) ==
    /\ IsAt(p, "body") /\ Turns(p, "check")
    /\ PartIs(p, c)
    /\ UNCHANGED <<models, engine, icons, deaths>>

\* A download that fails deletes its scratch file.
Discards(p) == SourceFails(p) /\ PartIs(p, "absent")

BodyFails(p) ==
    /\ IsAt(p, "body") /\ Discards(p)
    /\ UNCHANGED <<models, engine, icons, deaths>>

Downloaded(p) == parts[PartOf(p, Fetching(p))]

\* min_expected_bytes and, if a digest is given for the file, expected_sha256.
BytesFit(p, pinned) == Downloaded(p) \in IF pinned THEN {"whole"} ELSE {"cut", "whole"}

ChecksBytes(p, pinned) ==
    /\ IsAt(p, "check")
    /\ IF BytesFit(p, pinned) THEN Turns(p, "load") /\ UNCHANGED parts ELSE Discards(p)
    /\ UNCHANGED <<models, engine, icons, deaths>>

\* Mutant: the size is trusted.
TrustsSize(p) == TRUE

\* onnx_session_loadable; there is nothing of the kind for the character list.
TrialLoads(p) == Fetching(p) = Dictionary \/ Downloaded(p) = "whole"

TrialLoad(p) ==
    /\ IsAt(p, "load")
    /\ IF TrialLoads(p) THEN Turns(p, "rename") /\ UNCHANGED parts ELSE Discards(p)
    /\ UNCHANGED <<models, engine, icons, deaths>>

\* The rename replaces what is there; it may be refused.
Rename(p) ==
    /\ IsAt(p, "rename")
    /\ \/ /\ Downloaded(p) # "absent"
          /\ models' = [models EXCEPT ![Fetching(p)] = Downloaded(p)]
          /\ PartIs(p, "absent")
          /\ Becomes(p, "next", Tail(loader[p].todo), loader[p].source)
       \/ Discards(p) /\ UNCHANGED models
    /\ UNCHANGED <<engine, icons, deaths>>

-----------------------------------------------------------------------------
(* perceive_image *)

\* PaddleOcr::with_shared builds the engine once; a character list that is too
\* short, or a model that does not load, fails this call and the next.
BuildsEngine(p) ==
    /\ IsAt(p, "ready")
    /\ \/ engine[p] /\ UNCHANGED engine /\ Turns(p, "icons")
       \/ /\ ~engine[p] /\ models[Detector] = "whole" /\ models[Dictionary] \in {"cut", "whole"}
          /\ engine' = [engine EXCEPT ![p] = TRUE]
          /\ Turns(p, "icons")
       \/ ~engine[p] /\ UNCHANGED engine /\ Turns(p, "idle")
    /\ UNCHANGED <<models, parts, icons, deaths>>

\* YoloDetector::init: without its file, or if it does not load, text only.
LoadsIcons(p) ==
    /\ IsAt(p, "icons") /\ Turns(p, "idle")
    /\ icons' = [icons EXCEPT ![p] = @ \/ models[Yolo] = "whole"]
    /\ UNCHANGED <<models, parts, engine, deaths>>

-----------------------------------------------------------------------------
\* The process is gone; another may bear its number later.
Dies(p) ==
    /\ ~IsAt(p, "idle") /\ deaths < MaxDeaths /\ deaths' = deaths + 1
    /\ loader' = [loader EXCEPT ![p] = Resting]
    /\ engine' = [engine EXCEPT ![p] = FALSE] /\ icons' = [icons EXCEPT ![p] = FALSE]
    /\ UNCHANGED <<models, parts>>

FilesInit ==
    /\ models = [f \in File |-> "absent"]
    /\ parts = [n \in {PartOf(p, f) : p \in Server, f \in File} |-> "absent"]
    /\ loader = [p \in Server |-> Resting]
    /\ engine = [p \in Server |-> FALSE] /\ icons = [p \in Server |-> FALSE] /\ deaths = 0

LoaderRuns(p) ==
    \/ NextFile(p) \/ GetFails(p) \/ Get(p) \/ BodyFails(p)
    \/ \E c \in {"page", "cut", "whole"} : Body(p, c)
    \/ \E pinned \in BOOLEAN : ChecksBytes(p, pinned)
    \/ TrialLoad(p) \/ Rename(p) \/ BuildsEngine(p) \/ LoadsIcons(p)

FilesNext ==
    \E p \in Server : (\E skip \in BOOLEAN : Ensure(p, skip)) \/ LoaderRuns(p) \/ Dies(p)

\* Requests time out, so every step of a download ends.
FilesFair == \A p \in Server : WF_fileVars(LoaderRuns(p))

FilesSpec == FilesInit /\ [][FilesNext]_fileVars /\ FilesFair

-----------------------------------------------------------------------------
FilesTypeOK ==
    /\ models \in [File -> Content]
    /\ \A n \in DOMAIN parts : parts[n] \in Content
    /\ {engine, icons} \subseteq [Server -> BOOLEAN] /\ deaths \in 0 .. MaxDeaths

\* A model at its place is whole and loads, and no file there is less than its
\* floor: whoever downloads at the same time, dies half-way, or was sent something
\* else ("avoid a partial or tampered file being treated as a valid model",
\* models.rs 205-300).
ModelsAreWhole ==
    /\ {models[Detector], models[Yolo]} \subseteq {"absent", "whole"}
    /\ models[Dictionary] \in {"absent", "cut", "whole"}

\* Every call ends, whatever the sources send.
EnsureEnds == \A p \in Server : ~IsAt(p, "idle") ~> IsAt(p, "idle")
=============================================================================
