----------------------------- MODULE ScreenTools -----------------------------
(***************************************************************************)
(* The screen-space tools (crates/nuphus-mcp/src/tools/desktop.rs on       *)
(* crates/desktop-api/src/input, clipboard.rs and vision/capture.rs), as   *)
(* built for Windows: desktop_input types or pastes a text into a window,  *)
(* desktop_mouse and _drag press at a place or at an element of an earlier *)
(* desktop_perceive.  One call runs at a time; between any two of its      *)
(* awaits, and between two keys, the user turns to another window,         *)
(* something else writes the clipboard, or a display is moved.             *)
(*                                                                         *)
(* Places are along one axis.  One element is followed, wherever it is.    *)
(***************************************************************************)
EXTENDS Integers, Sequences

CONSTANTS
    Hwnd, NoHwnd,
    Edges,          \* where the first monitor, or a region, may begin
    Spot,           \* where the element is on the screen
    MaxCaptures,    \* captures kept (8)
    TextLength,     \* of a short text (at most 500)
    DragSteps,      \* of a drag (20)
    MaxSlips        \* bound: what the user, programs and displays do

ASSUME ScreenAssumption ==
    /\ NoHwnd \notin Hwnd /\ Edges \subseteq Int /\ Spot \in Int
    /\ {MaxCaptures, TextLength, DragSteps} \subseteq Nat \ {0} /\ MaxSlips \in Nat

VARIABLES
    focused,        \* the window in the foreground
    clipboard,      \* "old", "image" (no text), "text", "new" (copied meanwhile), "empty"
    monitor,        \* where the first monitor begins
    tool,           \* the call under way: [op, hwnd, whole, edge]
    step,           \* what it does next
    left,           \* characters, clicks or steps of a drag left
    previous,       \* the clipboard's text as read, or "unread"
    failing,        \* the paste has failed
    held,           \* keys and buttons the call has put down and not let go of
    pasting,        \* a window has yet to handle ctrl+v
    shot,           \* the capture being made: [geometry, centre, whole, moves]
    captures,       \* the capture registry
    goal,           \* where the mouse is to press: [at, of, done]
    temp,           \* the temporary image is on disk
    answer,         \* of the last call
    seen,           \* history: this call's window was in the foreground when it looked
    strayed,        \* history: a key of this call went elsewhere before that
    spoilt,         \* history: in this call something else wrote the clipboard, or
                    \* the write that gives it back failed
    slips

screenVars == <<focused, clipboard, monitor, tool, step, left, previous, failing, held, pasting,
                shot, captures, goal, temp, answer, seen, strayed, spoilt, slips>>
pointer == <<shot, captures, goal, temp>>
input == <<previous, failing, seen, spoilt>>
surroundings == <<focused, clipboard, monitor, slips>>

NoTool == [op |-> "none", hwnd |-> NoHwnd, whole |-> TRUE, edge |-> 0]
NoShot == [geometry |-> 0, centre |-> 0, whole |-> FALSE, moves |-> 0]
NoGoal == [at |-> 0, of |-> NoShot, done |-> FALSE]

EndsSpoilt(a, s) ==
    /\ tool' = NoTool /\ step' = "idle" /\ left' = 0 /\ answer' = a
    /\ previous' = "unread" /\ failing' = FALSE /\ seen' = FALSE /\ spoilt' = s
    /\ shot' = NoShot /\ goal' = NoGoal
Ends(a) == EndsSpoilt(a, FALSE)
GoesOn == UNCHANGED <<tool, left, answer, input, shot, goal>>
Goes(s) == step' = s /\ GoesOn

Starts(op, w, first, n) ==
    /\ step = "idle"
    /\ tool' = [op |-> op, hwnd |-> w, whole |-> TRUE, edge |-> 0]
    /\ step' = first /\ left' = n /\ answer' = "none" /\ held' = {} /\ spoilt' = FALSE
    /\ UNCHANGED <<surroundings, previous, failing, seen, pasting, strayed, shot, captures, temp>>

-----------------------------------------------------------------------------
(* desktop_input: the window named, or the one in the foreground. *)

CallInput(op, w) ==
    /\ Starts(op, w, IF op = "long" THEN "read" ELSE "activate", IF op = "short" THEN TextLength ELSE 0)
    /\ UNCHANGED goal

\* What typing leaves alone, but for what its steps say of themselves.
Typing == UNCHANGED <<focused, monitor, slips, captures, temp>>

\* The error of a paste waits until the clipboard has been given back.
InputError ==
    IF tool.op = "long"
    THEN /\ failing' = TRUE /\ step' = "restore"
         /\ UNCHANGED <<tool, left, answer, previous, seen, spoilt, shot, goal>>
    ELSE Ends("error")

Verified ==
    /\ step' = IF tool.op = "short" THEN "session" ELSE "keys"
    /\ seen' = (focused = tool.hwnd)
    /\ UNCHANGED <<tool, left, answer, previous, failing, spoilt, shot, goal>>

\* Mutant: activation is believed to have worked.
Believed(w) == TRUE

\* is_foreground
IsForeground(w) == focused = w

\* ensure_active: SetForegroundWindow may be refused; once verified it is skipped.
Activates ==
    /\ step \in {"activate", "force"}
    /\ focused' \in {focused, tool.hwnd}
    /\ Goes(IF step = "activate" THEN "look" ELSE "look again")
    /\ UNCHANGED <<clipboard, monitor, slips, pasting, strayed, held, captures, temp>>

LooksAtForeground ==
    /\ step \in {"look", "look again"}
    /\ \/ IsForeground(tool.hwnd) /\ Verified
       \/ ~IsForeground(tool.hwnd) /\ step = "look" /\ Goes("force")
       \/ ~IsForeground(tool.hwnd) /\ step = "look again" /\ InputError
    /\ Typing /\ UNCHANGED <<clipboard, pasting, strayed, held>>

\* nuphus_input, with verify_foreground: the session looks once.
BeginsSession ==
    /\ step = "session"
    /\ IF IsForeground(tool.hwnd) THEN Goes("characters") ELSE Ends("error")
    /\ Typing /\ UNCHANGED <<clipboard, pasting, strayed, held>>

\* A key goes to whatever is in the foreground.
Sends == strayed' = (strayed \/ (focused # tool.hwnd /\ ~seen))

\* SendInput puts in the key down and the key up, or only the first, or neither.
Character ==
    /\ step = "characters" /\ left > 0
    /\ \/ /\ Sends /\ left' = left - 1
          /\ UNCHANGED <<tool, step, answer, input, shot, goal, held>>
       \/ Sends /\ held' = {"character"} /\ Ends("error")
       \/ Ends("error") /\ UNCHANGED <<held, strayed>>
    /\ Typing /\ UNCHANGED <<clipboard, pasting>>

CharactersSent ==
    /\ step = "characters" /\ left = 0
    /\ Goes("after")
    /\ Typing /\ UNCHANGED <<clipboard, pasting, strayed, held>>

\* More than 500 bytes are pasted.  read_text fails if there is no text, or if
\* another program has the clipboard open.
ReadsClipboard ==
    /\ step = "read"
    /\ previous' \in IF clipboard = "image" THEN {"unread"} ELSE {"unread", clipboard}
    /\ step' = "write"
    /\ UNCHANGED <<tool, left, answer, failing, seen, spoilt, shot, goal>>
    /\ Typing /\ UNCHANGED <<clipboard, pasting, strayed, held>>

\* write_text: it cannot open the clipboard, or has emptied it when it fails.
Writes(text) == clipboard' = text
WriteFails == clipboard' \in {clipboard, "empty"}

WritesClipboard ==
    /\ step = "write"
    /\ (Writes("text") /\ Goes("activate")) \/ (WriteFails /\ InputError)
    /\ Typing /\ UNCHANGED <<pasting, strayed, held>>

\* keyboard::hotkey: one key after the other, 30 ms apart.
KeyDown ==
    /\ step = "keys" /\ Sends
    /\ \/ held = {} /\ held' = {"first"} /\ step' = step /\ UNCHANGED pasting
       \/ held # {} /\ held' = held \cup {"second"} /\ step' = "keys up" /\ pasting' = (tool.op = "long")
    /\ GoesOn /\ Typing /\ UNCHANGED clipboard

\* key_to_vk knows no such key, and none is pressed.
UnknownKey ==
    /\ (step = "keys" /\ tool.op = "hotkey" /\ held = {}) \/ step = "after"
    /\ Ends("error")
    /\ Typing /\ UNCHANGED <<clipboard, pasting, strayed, held>>

KeysUp ==
    /\ step = "keys up" /\ held' = {}
    /\ IF tool.op = "long" THEN Goes("restore") ELSE Ends("ok")
    /\ Typing /\ UNCHANGED <<clipboard, pasting, strayed>>

\* Mutant: the clipboard is given back after a paste that worked.
GivesBackOnSuccess == previous # "unread" /\ ~failing

GivesBack == previous # "unread"

Restores ==
    /\ step = "restore"
    /\ \/ /\ IF GivesBack THEN Writes(previous) ELSE UNCHANGED clipboard
          /\ IF failing THEN Ends("error") ELSE Goes("after")
       \/ GivesBack /\ WriteFails /\ EndsSpoilt("error", TRUE)
    /\ Typing /\ UNCHANGED <<pasting, strayed, held>>

\* send_after: none, or a key; the window is not looked at again.
SendsNothing ==
    /\ step = "after" /\ Ends("ok")
    /\ Typing /\ UNCHANGED <<clipboard, pasting, strayed, held>>

SendsKey ==
    /\ \/ step = "after" /\ Sends /\ held' = {"first"} /\ Goes("after up")
       \/ step = "after up" /\ held' = {} /\ Ends("ok") /\ UNCHANGED strayed
    /\ Typing /\ UNCHANGED <<clipboard, pasting>>

-----------------------------------------------------------------------------
(* desktop_perceive: the whole monitor, or a region. *)

CallPerceive(whole, edge) ==
    /\ step = "idle"
    /\ tool' = [op |-> "perceive", hwnd |-> NoHwnd, whole |-> whole, edge |-> edge]
    /\ step' = "before" /\ answer' = "none" /\ held' = {} /\ spoilt' = FALSE
    /\ UNCHANGED <<surroundings, left, previous, failing, seen, pasting, strayed, shot, captures, goal, temp>>

Pointing == UNCHANGED <<surroundings, pasting, strayed>>
SeenAs(s, next) == shot' = s /\ step' = next /\ UNCHANGED <<tool, left, answer, input, goal>>

\* scope_geometry: of a region it is what was asked for.
Geometry == IF tool.whole THEN monitor ELSE tool.edge

SamplesGeometry ==
    /\ step = "before"
    /\ SeenAs([geometry |-> Geometry, centre |-> 0, whole |-> tool.whole, moves |-> shot.moves], "image") \/ Ends("error")
    /\ Pointing /\ UNCHANGED <<held, captures, temp>>

\* capture: the pixels are the first monitor's, cropped to the region.
TakesImage ==
    /\ step = "image"
    /\ LET edge == monitor + (IF tool.whole THEN 0 ELSE tool.edge)
       IN  SeenAs([shot EXCEPT !.centre = Spot - edge], "compare") \/ Ends("error")
    /\ Pointing /\ UNCHANGED <<held, captures, temp>>

\* Mutant: the geometry is sampled once.
SampledOnce == TRUE

\* verify_stable_geometry
StableGeometry == shot.geometry = Geometry

\* TempCapture::capture writes the image; its guard deletes it on every way out.
ComparesGeometry ==
    /\ step = "compare"
    /\ \/ StableGeometry /\ temp' = TRUE /\ Goes("infer")
       \/ UNCHANGED temp /\ Ends("error")
    /\ Pointing /\ UNCHANGED <<held, captures>>

\* capture_register: the centres in the image, the oldest capture dropped.
Registered ==
    LET kept == IF Len(captures) >= MaxCaptures THEN Tail(captures) ELSE captures
    IN  Append(kept, shot)

Infers ==
    /\ step = "infer" /\ temp' = FALSE
    /\ (captures' = Registered /\ Ends("ok")) \/ (UNCHANGED captures /\ Ends("error"))
    /\ Pointing /\ UNCHANGED held

-----------------------------------------------------------------------------
(* desktop_mouse and desktop_mouse_drag: capture_resolve gives the place. *)

CallMouse(op, i, clicks) ==
    /\ i \in DOMAIN captures
    /\ Starts(op, NoHwnd, "move", IF op = "drag" THEN DragSteps ELSE clicks)
    /\ goal' = [at |-> captures[i].centre, of |-> captures[i], done |-> FALSE]

\* move_to: the cursor is there, or the move was refused.
MovesMouse ==
    /\ step = "move"
    /\ Goes("press") \/ Ends("error")
    /\ Pointing /\ UNCHANGED <<held, captures, temp>>

Presses ==
    /\ step = "press"
    /\ held' = {"button"} /\ goal' = [goal EXCEPT !.done = TRUE]
    /\ step' = IF tool.op = "drag" THEN "drag" ELSE "release"
    /\ Pointing /\ UNCHANGED <<tool, left, answer, input, shot, captures, temp>>

\* drag: each step is a move, which may be refused.
Drags ==
    /\ step = "drag"
    /\ \/ left > 0 /\ left' = left - 1 /\ UNCHANGED <<tool, step, answer, input, shot, goal>>
       \/ left = 0 /\ Goes("release")
       \/ left > 0 /\ Ends("error")
    /\ Pointing /\ UNCHANGED <<held, captures, temp>>

Releases ==
    /\ step = "release" /\ held' = {}
    /\ IF tool.op = "click" /\ left > 1
       THEN step' = "move" /\ left' = left - 1 /\ UNCHANGED <<tool, answer, input, shot, goal>>
       ELSE Ends("ok")
    /\ Pointing /\ UNCHANGED <<captures, temp>>

-----------------------------------------------------------------------------
(* The user, other programs, displays. *)

Slips == slips < MaxSlips /\ slips' = slips + 1
Unaware == UNCHANGED <<tool, step, left, previous, failing, held, captures, goal, temp, answer, seen, strayed>>

FocusMoves(w) ==
    /\ w # focused /\ Slips /\ focused' = w
    /\ Unaware /\ UNCHANGED <<clipboard, monitor, pasting, spoilt, shot>>

SomeoneCopies(c) ==
    /\ c # clipboard /\ Slips /\ clipboard' = c /\ spoilt' = (step # "idle")
    /\ Unaware /\ UNCHANGED <<focused, monitor, pasting, shot>>

DisplayMoves(e) ==
    /\ e # monitor /\ Slips /\ monitor' = e
    /\ IF step = "idle" THEN UNCHANGED shot ELSE shot' = [shot EXCEPT !.moves = @ + 1]
    /\ Unaware /\ UNCHANGED <<focused, clipboard, pasting, spoilt>>

\* The window comes to the message.
Pastes ==
    /\ pasting /\ pasting' = FALSE
    /\ Unaware /\ UNCHANGED <<surroundings, spoilt, shot>>

ScreenInit ==
    /\ focused \in Hwnd \cup {NoHwnd} /\ clipboard \in {"old", "image"} /\ monitor \in Edges
    /\ tool = NoTool /\ step = "idle" /\ left = 0 /\ previous = "unread" /\ failing = FALSE
    /\ held = {} /\ pasting = FALSE /\ shot = NoShot /\ captures = <<>>
    /\ goal = NoGoal
    /\ temp = FALSE /\ answer = "none" /\ seen = FALSE /\ strayed = FALSE /\ spoilt = FALSE
    /\ slips = 0

ToolRuns ==
    \/ Activates \/ LooksAtForeground \/ BeginsSession \/ Character \/ CharactersSent
    \/ ReadsClipboard \/ WritesClipboard \/ KeyDown \/ KeysUp \/ UnknownKey \/ Restores \/ SendsNothing \/ SendsKey
    \/ SamplesGeometry \/ TakesImage \/ ComparesGeometry \/ Infers
    \/ MovesMouse \/ Presses \/ Drags \/ Releases

ScreenNext ==
    \/ \E op \in {"short", "long", "hotkey"}, w \in Hwnd : CallInput(op, w)
    \/ CallPerceive(TRUE, 0) \/ \E e \in Edges : CallPerceive(FALSE, e)
    \/ \E op \in {"click", "drag"}, i \in 1 .. MaxCaptures, n \in 1 .. 2 : CallMouse(op, i, n)
    \/ ToolRuns \/ Pastes
    \/ \E w \in Hwnd : FocusMoves(w)
    \/ \E c \in {"new", "image"} : SomeoneCopies(c)
    \/ \E e \in Edges : DisplayMoves(e)

ScreenFair == WF_screenVars(ToolRuns)

ScreenSpec == ScreenInit /\ [][ScreenNext]_screenVars /\ ScreenFair

-----------------------------------------------------------------------------
ScreenTypeOK ==
    /\ focused \in Hwnd \cup {NoHwnd} /\ monitor \in Edges
    /\ clipboard \in {"old", "image", "text", "new", "empty"}
    /\ previous \in {"unread", "old", "text", "new", "empty"}
    /\ left \in Nat /\ Len(captures) <= MaxCaptures
    /\ temp <=> step = "infer"

\* No key of a call reaches another window than the one it is for, before the call
\* has found that window in the foreground: an activation that was refused is an
\* error ("callers must never type/click into the wrong window believing activation
\* succeeded", input/mod.rs 81-84).
TypesWhereAsked == ~strayed

\* A call that is answered ok has no key and no button down; and one that pasted
\* gives the text it found in the clipboard back whatever became of the paste,
\* unless something else wrote there, or that write failed (desktop.rs 697-739).
LeavesNothingBehind ==
    [][step # "idle" /\ step' = "idle" =>
          /\ answer' = "ok" => held' = {}
          /\ tool.op = "long" /\ previous # "unread" => clipboard' = previous \/ spoilt \/ spoilt']_screenVars

\* What desktop_perceive says of the whole screen is where the element was, and a
\* press by its capture id is there if the monitor begins at the origin: a display
\* that moved while the image was taken fails the call, unless it moved back
\* (capture_with_geometry 41-69, capture_register 41-55).
PlacesAreTrue ==
    /\ \A i \in DOMAIN captures :
          captures[i].whole /\ captures[i].moves < 2 =>
             captures[i].geometry + captures[i].centre = Spot
    /\ goal.done /\ goal.of.whole /\ goal.of.moves < 2 /\ goal.of.geometry = 0 => goal.at = Spot

\* Not so: a press by capture id is where the element was seen.  capture_register
\* keeps the centre in the image, which is another place than on the screen when a
\* region, or a monitor to the right of the origin, was captured.
PressesAreThere == goal.done => goal.at = Spot

\* Not so: a window that handles ctrl+v finds the text there.  The clipboard is
\* given back 60 ms after the keys.
PastesItsText == [][pasting /\ ~pasting' /\ spoilt = FALSE => clipboard = "text"]_screenVars

\* Not so: a call that fails lets go of what it has pressed; a drag does not.
NothingStaysDown == step = "idle" => held = {}

\* Every call ends.
ScreenCallsEnd == step # "idle" ~> step = "idle"
=============================================================================
