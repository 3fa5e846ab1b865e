---------------------------- MODULE DesktopProofs ----------------------------
(* Theorems about the layers below the desktop tools: typing, pointing and      *)
(* perceiving, and model files; and all layers together, of which one runs.     *)
EXTENDS MCDesktop, DesktopLayerProofs, UiaTreeProofs

-----------------------------------------------------------------------------
(* Typing, pointing and perceiving. *)

\* The keys of a call, from when its window has been looked at.
Keyed == {"session", "characters", "keys", "keys up", "after", "after up"}
KeysInv ==
    /\ ~strayed
    /\ step \in Keyed => seen
    /\ step = "restore" /\ ~failing => seen

\* What is pressed is let go of before the next thing is done.
Pressing == {"idle", "keys", "keys up", "after up", "drag", "release"}
HeldInv == step \notin Pressing => held = {}

\* Of a paste what it read is in the clipboard again when its keys have been sent.
PasteSteps == {"read", "write", "activate", "force", "look", "look again", "keys", "keys up",
               "restore", "after", "after up"}
PasteInv ==
    /\ tool.op = "long" => step \in PasteSteps
    /\ tool.op = "long" /\ step \in {"after", "after up"} /\ previous # "unread" =>
           clipboard = previous \/ spoilt

\* Types.
Clips == {"old", "image", "text", "new", "empty"}
WindowInv == focused \in Hwnd \cup {NoHwnd} /\ tool.hwnd \in Hwnd \cup {NoHwnd}
ClipInv == clipboard \in Clips /\ previous \in (Clips \ {"image"}) \cup {"unread"}
EdgeInv == monitor \in Edges /\ tool.whole \in BOOLEAN /\ tool.edge \in Edges \cup {0}
LeftInv == left \in Nat
TempInv == temp = (step = "infer")

\* A capture of the whole screen says where the element was, unless a display moved
\* twice while it was made.
IsTrue(s) == s.whole /\ s.moves < 2 => s.geometry + s.centre = Spot
Shots == [geometry : Int, centre : Int, whole : BOOLEAN, moves : Nat]
Goals == [at : Int, of : Shots, done : BOOLEAN]
CapturesInv ==
    /\ shot \in Shots /\ captures \in Seq(Shots) /\ goal \in Goals
    /\ Len(captures) <= MaxCaptures
    /\ \A i \in 1 .. Len(captures) : IsTrue(captures[i])
    /\ goal.at = goal.of.centre /\ IsTrue(goal.of)

\* And while it is made: what differs costs a move, and two to look the same again.
MakingInv ==
    /\ step \in {"image", "compare"} => shot.whole = tool.whole
    /\ step = "image" /\ shot.whole /\ shot.geometry # monitor => shot.moves >= 1
    /\ step = "compare" /\ shot.whole /\ shot.geometry + shot.centre # Spot =>
           shot.moves >= 1 /\ (monitor = shot.geometry => shot.moves >= 2)
    /\ step = "infer" => IsTrue(shot)

ScreenInv ==
    /\ KeysInv /\ HeldInv /\ PasteInv /\ WindowInv /\ ClipInv /\ EdgeInv /\ LeftInv /\ TempInv
    /\ CapturesInv /\ MakingInv

LEMMA NoToolFields ==
    NoTool.op = "none" /\ NoTool.hwnd = NoHwnd /\ NoTool.whole \in BOOLEAN /\ NoTool.edge = 0
BY DEF NoTool

\* What a step may do to what KeysInv speaks of.
KeyMoves ==
    \/ UNCHANGED <<step, seen, failing, strayed>>
    \/ step' \notin Keyed \cup {"restore"} /\ UNCHANGED strayed
    \/ seen' /\ UNCHANGED strayed
    \/ step' = "restore" /\ failing' /\ UNCHANGED strayed
    \/ /\ step \in Keyed \/ (step = "restore" /\ ~failing)
       /\ seen' = seen \/ step' = "idle"
       /\ UNCHANGED strayed \/ Sends

LEMMA StepsMoveKeys == ASSUME TRUE, [ScreenNext]_screenVars PROVE KeyMoves
<1>. USE DEF KeyMoves, Keyed
<1>1. ASSUME NEW op, NEW w \in Hwnd, op \in {"short", "long", "hotkey"}, CallInput(op, w) PROVE KeyMoves
  BY <1>1 DEF CallInput, Starts
<1>2. ASSUME NEW whole \in BOOLEAN, NEW e \in Edges \cup {0}, CallPerceive(whole, e) PROVE KeyMoves
  BY <1>2 DEF CallPerceive
<1>3. ASSUME NEW op, op \in {"click", "drag"}, NEW i, NEW n \in 1 .. 2, CallMouse(op, i, n) PROVE KeyMoves
  BY <1>3 DEF CallMouse, Starts
<1>4. CASE Activates \/ LooksAtForeground \/ BeginsSession
  BY <1>4 DEF Activates, LooksAtForeground, IsForeground, Verified, InputError, BeginsSession, Goes, GoesOn,
     Ends, EndsSpoilt, input
<1>5. CASE Character \/ CharactersSent
  BY <1>5 DEF Character, CharactersSent, Goes, GoesOn, Ends, EndsSpoilt, input
<1>6. CASE SendsNothing \/ SendsKey
  BY <1>6 DEF SendsNothing, SendsKey, Goes, GoesOn, Ends, EndsSpoilt, input
<1>7. CASE ReadsClipboard \/ WritesClipboard \/ Restores
  BY <1>7 DEF ReadsClipboard, WritesClipboard, Restores, GivesBack, Writes, WriteFails, InputError, Goes,
     GoesOn, Ends, EndsSpoilt, input
<1>8. CASE KeyDown \/ KeysUp \/ UnknownKey
  BY <1>8 DEF KeyDown, KeysUp, UnknownKey, Goes, GoesOn, Ends, EndsSpoilt, input
<1>9. CASE SamplesGeometry \/ TakesImage \/ ComparesGeometry \/ Infers
  BY <1>9 DEF SamplesGeometry, TakesImage, ComparesGeometry, Infers, SeenAs, Goes, Ends, EndsSpoilt, Pointing
<1>10. CASE MovesMouse \/ Presses \/ Drags \/ Releases
  BY <1>10 DEF MovesMouse, Presses, Drags, Releases, Goes, Ends, EndsSpoilt, Pointing
<1>11. ASSUME NEW w, FocusMoves(w) \/ SomeoneCopies(w) \/ DisplayMoves(w) \/ Pastes PROVE KeyMoves
  BY <1>11 DEF FocusMoves, SomeoneCopies, DisplayMoves, Pastes, Unaware
<1>12. CASE UNCHANGED screenVars
  BY <1>12 DEF screenVars
<1>. QED
  BY <1>1, <1>2, <1>3, <1>4, <1>5, <1>6, <1>7, <1>8, <1>9, <1>10, <1>11, <1>12 DEF ScreenNext, ToolRuns

LEMMA SeenSends == ASSUME ~strayed, seen, Sends PROVE ~strayed'
BY DEF Sends

LEMMA KeyMovesKeep == ASSUME KeysInv, KeyMoves PROVE KeysInv'
<1>1. CASE UNCHANGED <<step, seen, failing, strayed>>
  BY <1>1 DEF KeysInv, Keyed
<1>2. CASE step' \notin Keyed \cup {"restore"} /\ UNCHANGED strayed
  BY <1>2 DEF KeysInv
<1>3. CASE seen' /\ UNCHANGED strayed
  BY <1>3 DEF KeysInv
<1>4. CASE step' = "restore" /\ failing' /\ UNCHANGED strayed
  BY <1>4 DEF KeysInv, Keyed
<1>5. CASE /\ step \in Keyed \/ (step = "restore" /\ ~failing)
           /\ seen' = seen \/ step' = "idle"
           /\ UNCHANGED strayed \/ Sends
  <2>1. seen /\ ~strayed
    BY <1>5 DEF KeysInv
  <2>2. ~strayed'
    BY <1>5, <2>1, SeenSends
  <2>3. seen' \/ step' = "idle"
    BY <1>5, <2>1
  <2>. QED
    BY <2>2, <2>3 DEF KeysInv, Keyed
<1>. QED
  BY <1>1, <1>2, <1>3, <1>4, <1>5 DEF KeyMoves

LEMMA StepsKeepHeld == ASSUME HeldInv, [ScreenNext]_screenVars PROVE HeldInv'
<1>. USE DEF HeldInv, Pressing
<1>1. ASSUME NEW op, NEW w \in Hwnd, op \in {"short", "long", "hotkey"}, CallInput(op, w) PROVE HeldInv'
  BY <1>1 DEF CallInput, Starts
<1>2. ASSUME NEW whole \in BOOLEAN, NEW e \in Edges \cup {0}, CallPerceive(whole, e) PROVE HeldInv'
  BY <1>2 DEF CallPerceive
<1>3. ASSUME NEW op, op \in {"click", "drag"}, NEW i, NEW n \in 1 .. 2, CallMouse(op, i, n) PROVE HeldInv'
  BY <1>3 DEF CallMouse, Starts
<1>4. CASE Activates \/ LooksAtForeground \/ BeginsSession
  BY <1>4 DEF Activates, LooksAtForeground, Verified, InputError, BeginsSession, Goes, GoesOn, Ends, EndsSpoilt, input
<1>5. CASE Character \/ CharactersSent
  BY <1>5 DEF Character, CharactersSent, Goes, GoesOn, Ends, EndsSpoilt, input
<1>6. CASE SendsNothing \/ SendsKey
  BY <1>6 DEF SendsNothing, SendsKey, Goes, GoesOn, Ends, EndsSpoilt, input
<1>7. CASE ReadsClipboard \/ WritesClipboard \/ Restores
  BY <1>7 DEF ReadsClipboard, WritesClipboard, Restores, GivesBack, Writes, WriteFails, InputError, Goes,
     GoesOn, Ends, EndsSpoilt, input
<1>8. CASE KeyDown \/ KeysUp \/ UnknownKey
  BY <1>8 DEF KeyDown, KeysUp, UnknownKey, Goes, GoesOn, Ends, EndsSpoilt, input
<1>9. CASE SamplesGeometry \/ TakesImage \/ ComparesGeometry \/ Infers
  BY <1>9 DEF SamplesGeometry, TakesImage, ComparesGeometry, Infers, SeenAs, Goes, GoesOn, Ends, EndsSpoilt, input
<1>10. CASE MovesMouse \/ Presses \/ Drags \/ Releases
  BY <1>10 DEF MovesMouse, Presses, Drags, Releases, Goes, GoesOn, Ends, EndsSpoilt, input
<1>11. ASSUME NEW w, FocusMoves(w) \/ SomeoneCopies(w) \/ DisplayMoves(w) \/ Pastes PROVE HeldInv'
  BY <1>11 DEF FocusMoves, SomeoneCopies, DisplayMoves, Pastes, Unaware
<1>12. CASE UNCHANGED screenVars
  BY <1>12 DEF screenVars
<1>. QED
  BY <1>1, <1>2, <1>3, <1>4, <1>5, <1>6, <1>7, <1>8, <1>9, <1>10, <1>11, <1>12 DEF ScreenNext, ToolRuns

LEMMA StepsKeepPaste == ASSUME PasteInv, [ScreenNext]_screenVars PROVE PasteInv'
<1>. USE NoToolFields DEF PasteInv, PasteSteps
<1>1. ASSUME NEW op, NEW w \in Hwnd, op \in {"short", "long", "hotkey"}, CallInput(op, w) PROVE PasteInv'
  BY <1>1 DEF CallInput, Starts, surroundings, Typing
<1>2. ASSUME NEW whole \in BOOLEAN, NEW e \in Edges \cup {0}, CallPerceive(whole, e) PROVE PasteInv'
  BY <1>2 DEF CallPerceive, surroundings, Typing
<1>3. ASSUME NEW op, op \in {"click", "drag"}, NEW i, NEW n \in 1 .. 2, CallMouse(op, i, n) PROVE PasteInv'
  BY <1>3 DEF CallMouse, Starts, surroundings, Typing
<1>4. CASE Activates \/ LooksAtForeground \/ BeginsSession
  BY <1>4 DEF Activates, LooksAtForeground, Verified, InputError, BeginsSession, Goes, GoesOn, Ends,
     EndsSpoilt, input, surroundings, Typing
<1>5. CASE Character \/ CharactersSent
  BY <1>5 DEF Character, CharactersSent, Goes, GoesOn, Ends, EndsSpoilt, input, surroundings, Typing
<1>6. CASE SendsNothing \/ SendsKey
  BY <1>6 DEF SendsNothing, SendsKey, Goes, GoesOn, Ends, EndsSpoilt, input, surroundings, Typing
<1>7. CASE ReadsClipboard \/ WritesClipboard \/ Restores
  BY <1>7 DEF ReadsClipboard, WritesClipboard, Restores, GivesBack, Writes, WriteFails, InputError, Goes,
     GoesOn, Ends, EndsSpoilt, input, surroundings, Typing
<1>8. CASE KeyDown \/ KeysUp \/ UnknownKey
  BY <1>8 DEF KeyDown, KeysUp, UnknownKey, Goes, GoesOn, Ends, EndsSpoilt, input, surroundings, Typing
<1>9. CASE SamplesGeometry \/ TakesImage \/ ComparesGeometry \/ Infers
  BY <1>9 DEF SamplesGeometry, TakesImage, ComparesGeometry, Infers, SeenAs, Goes, GoesOn, Ends, EndsSpoilt,
     input, surroundings, Typing
<1>10. CASE MovesMouse \/ Presses \/ Drags \/ Releases
  BY <1>10 DEF MovesMouse, Presses, Drags, Releases, Goes, GoesOn, Ends, EndsSpoilt, input, surroundings, Typing
<1>11. ASSUME NEW w, FocusMoves(w) \/ SomeoneCopies(w) \/ DisplayMoves(w) \/ Pastes PROVE PasteInv'
  BY <1>11 DEF FocusMoves, SomeoneCopies, DisplayMoves, Pastes, Unaware, surroundings, Typing
<1>12. CASE UNCHANGED screenVars
  BY <1>12 DEF screenVars, surroundings, Typing
<1>. QED
  BY <1>1, <1>2, <1>3, <1>4, <1>5, <1>6, <1>7, <1>8, <1>9, <1>10, <1>11, <1>12 DEF ScreenNext, ToolRuns

LEMMA StepsKeepWindow == ASSUME WindowInv, [ScreenNext]_screenVars PROVE WindowInv'
<1>. USE NoToolFields DEF WindowInv
<1>1. ASSUME NEW op, NEW w \in Hwnd, op \in {"short", "long", "hotkey"}, CallInput(op, w) PROVE WindowInv'
  BY <1>1 DEF CallInput, Starts, Typing, Pointing, surroundings
<1>2. ASSUME NEW whole \in BOOLEAN, NEW e \in Edges \cup {0}, CallPerceive(whole, e) PROVE WindowInv'
  BY <1>2 DEF CallPerceive, Typing, Pointing, surroundings
<1>3. ASSUME NEW op, op \in {"click", "drag"}, NEW i, NEW n \in 1 .. 2, CallMouse(op, i, n) PROVE WindowInv'
  BY <1>3 DEF CallMouse, Starts, Typing, Pointing, surroundings
<1>4. CASE Activates \/ LooksAtForeground \/ BeginsSession
  BY <1>4 DEF Activates, LooksAtForeground, Verified, InputError, BeginsSession, Goes, GoesOn, Ends,
     EndsSpoilt, input, Typing, Pointing, surroundings
<1>5. CASE Character \/ CharactersSent
  BY <1>5 DEF Character, CharactersSent, Goes, GoesOn, Ends, EndsSpoilt, input, Typing, Pointing, surroundings
<1>6. CASE SendsNothing \/ SendsKey
  BY <1>6 DEF SendsNothing, SendsKey, Goes, GoesOn, Ends, EndsSpoilt, input, Typing, Pointing, surroundings
<1>7. CASE ReadsClipboard \/ WritesClipboard \/ Restores
  BY <1>7 DEF ReadsClipboard, WritesClipboard, Restores, GivesBack, Writes, WriteFails, InputError, Goes,
     GoesOn, Ends, EndsSpoilt, input, Typing, Pointing, surroundings
<1>8. CASE KeyDown \/ KeysUp \/ UnknownKey
  BY <1>8 DEF KeyDown, KeysUp, UnknownKey, Goes, GoesOn, Ends, EndsSpoilt, input, Typing, Pointing, surroundings
<1>9. CASE SamplesGeometry \/ TakesImage \/ ComparesGeometry \/ Infers
  BY <1>9 DEF SamplesGeometry, TakesImage, ComparesGeometry, Infers, SeenAs, Goes, GoesOn, Ends, EndsSpoilt,
     input, Typing, Pointing, surroundings
<1>10. CASE MovesMouse \/ Presses \/ Drags \/ Releases
  BY <1>10 DEF MovesMouse, Presses, Drags, Releases, Goes, GoesOn, Ends, EndsSpoilt, input, Typing, Pointing,
     surroundings
<1>11. ASSUME NEW w, (w \in Hwnd /\ FocusMoves(w)) \/ (w \in {"new", "image"} /\ SomeoneCopies(w)) \/ (w \in Edges /\ DisplayMoves(w)) \/ Pastes PROVE WindowInv'
  BY <1>11 DEF FocusMoves, SomeoneCopies, DisplayMoves, Pastes, Unaware, surroundings
<1>12. CASE UNCHANGED screenVars
  BY <1>12 DEF screenVars, Typing, Pointing, surroundings
<1>. QED
  BY <1>1, <1>2, <1>3, <1>4, <1>5, <1>6, <1>7, <1>8, <1>9, <1>10, <1>11, <1>12 DEF ScreenNext, ToolRuns

LEMMA StepsKeepClip == ASSUME ClipInv, [ScreenNext]_screenVars PROVE ClipInv'
<1>. USE DEF ClipInv, Clips
<1>1. ASSUME NEW op, NEW w \in Hwnd, op \in {"short", "long", "hotkey"}, CallInput(op, w) PROVE ClipInv'
  BY <1>1 DEF CallInput, Starts, Typing, Pointing, surroundings
<1>2. ASSUME NEW whole \in BOOLEAN, NEW e \in Edges \cup {0}, CallPerceive(whole, e) PROVE ClipInv'
  BY <1>2 DEF CallPerceive, Typing, Pointing, surroundings
<1>3. ASSUME NEW op, op \in {"click", "drag"}, NEW i, NEW n \in 1 .. 2, CallMouse(op, i, n) PROVE ClipInv'
  BY <1>3 DEF CallMouse, Starts, Typing, Pointing, surroundings
<1>4. CASE Activates \/ LooksAtForeground \/ BeginsSession
  BY <1>4 DEF Activates, LooksAtForeground, Verified, InputError, BeginsSession, Goes, GoesOn, Ends,
     EndsSpoilt, input, Typing, Pointing, surroundings
<1>5. CASE Character \/ CharactersSent
  BY <1>5 DEF Character, CharactersSent, Goes, GoesOn, Ends, EndsSpoilt, input, Typing, Pointing, surroundings
<1>6. CASE SendsNothing \/ SendsKey
  BY <1>6 DEF SendsNothing, SendsKey, Goes, GoesOn, Ends, EndsSpoilt, input, Typing, Pointing, surroundings
<1>7. CASE ReadsClipboard \/ WritesClipboard \/ Restores
  BY <1>7 DEF ReadsClipboard, WritesClipboard, Restores, GivesBack, Writes, WriteFails, InputError, Goes,
     GoesOn, Ends, EndsSpoilt, input, Typing, Pointing, surroundings
<1>8. CASE KeyDown \/ KeysUp \/ UnknownKey
  BY <1>8 DEF KeyDown, KeysUp, UnknownKey, Goes, GoesOn, Ends, EndsSpoilt, input, Typing, Pointing, surroundings
<1>9. CASE SamplesGeometry \/ TakesImage \/ ComparesGeometry \/ Infers
  BY <1>9 DEF SamplesGeometry, TakesImage, ComparesGeometry, Infers, SeenAs, Goes, GoesOn, Ends, EndsSpoilt,
     input, Typing, Pointing, surroundings
<1>10. CASE MovesMouse \/ Presses \/ Drags \/ Releases
  BY <1>10 DEF MovesMouse, Presses, Drags, Releases, Goes, GoesOn, Ends, EndsSpoilt, input, Typing, Pointing,
     surroundings
<1>11. ASSUME NEW w, (w \in Hwnd /\ FocusMoves(w)) \/ (w \in {"new", "image"} /\ SomeoneCopies(w)) \/ (w \in Edges /\ DisplayMoves(w)) \/ Pastes PROVE ClipInv'
  BY <1>11 DEF FocusMoves, SomeoneCopies, DisplayMoves, Pastes, Unaware, surroundings
<1>12. CASE UNCHANGED screenVars
  BY <1>12 DEF screenVars, Typing, Pointing, surroundings
<1>. QED
  BY <1>1, <1>2, <1>3, <1>4, <1>5, <1>6, <1>7, <1>8, <1>9, <1>10, <1>11, <1>12 DEF ScreenNext, ToolRuns

LEMMA StepsKeepEdge == ASSUME EdgeInv, [ScreenNext]_screenVars PROVE EdgeInv'
<1>. USE NoToolFields DEF EdgeInv
<1>1. ASSUME NEW op, NEW w \in Hwnd, op \in {"short", "long", "hotkey"}, CallInput(op, w) PROVE EdgeInv'
  BY <1>1 DEF CallInput, Starts, Typing, Pointing, surroundings
<1>2. ASSUME NEW whole \in BOOLEAN, NEW e \in Edges \cup {0}, CallPerceive(whole, e) PROVE EdgeInv'
  BY <1>2 DEF CallPerceive, Typing, Pointing, surroundings
<1>3. ASSUME NEW op, op \in {"click", "drag"}, NEW i, NEW n \in 1 .. 2, CallMouse(op, i, n) PROVE EdgeInv'
  BY <1>3 DEF CallMouse, Starts, Typing, Pointing, surroundings
<1>4. CASE Activates \/ LooksAtForeground \/ BeginsSession
  BY <1>4 DEF Activates, LooksAtForeground, Verified, InputError, BeginsSession, Goes, GoesOn, Ends,
     EndsSpoilt, input, Typing, Pointing, surroundings
<1>5. CASE Character \/ CharactersSent
  BY <1>5 DEF Character, CharactersSent, Goes, GoesOn, Ends, EndsSpoilt, input, Typing, Pointing, surroundings
<1>6. CASE SendsNothing \/ SendsKey
  BY <1>6 DEF SendsNothing, SendsKey, Goes, GoesOn, Ends, EndsSpoilt, input, Typing, Pointing, surroundings
<1>7. CASE ReadsClipboard \/ WritesClipboard \/ Restores
  BY <1>7 DEF ReadsClipboard, WritesClipboard, Restores, GivesBack, Writes, WriteFails, InputError, Goes,
     GoesOn, Ends, EndsSpoilt, input, Typing, Pointing, surroundings
<1>8. CASE KeyDown \/ KeysUp \/ UnknownKey
  BY <1>8 DEF KeyDown, KeysUp, UnknownKey, Goes, GoesOn, Ends, EndsSpoilt, input, Typing, Pointing, surroundings
<1>9. CASE SamplesGeometry \/ TakesImage \/ ComparesGeometry \/ Infers
  BY <1>9 DEF SamplesGeometry, TakesImage, ComparesGeometry, Infers, SeenAs, Goes, GoesOn, Ends, EndsSpoilt,
     input, Typing, Pointing, surroundings
<1>10. CASE MovesMouse \/ Presses \/ Drags \/ Releases
  BY <1>10 DEF MovesMouse, Presses, Drags, Releases, Goes, GoesOn, Ends, EndsSpoilt, input, Typing, Pointing,
     surroundings
<1>11. ASSUME NEW w, (w \in Hwnd /\ FocusMoves(w)) \/ (w \in {"new", "image"} /\ SomeoneCopies(w)) \/ (w \in Edges /\ DisplayMoves(w)) \/ Pastes PROVE EdgeInv'
  BY <1>11 DEF FocusMoves, SomeoneCopies, DisplayMoves, Pastes, Unaware, surroundings
<1>12. CASE UNCHANGED screenVars
  BY <1>12 DEF screenVars, Typing, Pointing, surroundings
<1>. QED
  BY <1>1, <1>2, <1>3, <1>4, <1>5, <1>6, <1>7, <1>8, <1>9, <1>10, <1>11, <1>12 DEF ScreenNext, ToolRuns

LeftMoves ==
    \/ left' \in {left, 0, 1, 2, TextLength, DragSteps}
    \/ (left > 0 \/ left > 1) /\ left' = left - 1

LEMMA StepsMoveLeft == ASSUME TRUE, [ScreenNext]_screenVars PROVE LeftMoves
<1>. USE DEF LeftMoves
<1>1. ASSUME NEW op, NEW w \in Hwnd, op \in {"short", "long", "hotkey"}, CallInput(op, w) PROVE LeftMoves
  BY <1>1 DEF CallInput, Starts
<1>2. ASSUME NEW whole \in BOOLEAN, NEW e \in Edges \cup {0}, CallPerceive(whole, e) PROVE LeftMoves
  BY <1>2 DEF CallPerceive
<1>3. ASSUME NEW op, op \in {"click", "drag"}, NEW i, NEW n \in 1 .. 2, CallMouse(op, i, n) PROVE LeftMoves
  BY <1>3 DEF CallMouse, Starts
<1>4. CASE Activates \/ LooksAtForeground \/ BeginsSession
  BY <1>4 DEF Activates, LooksAtForeground, Verified, InputError, BeginsSession, Goes, GoesOn, Ends, EndsSpoilt, input
<1>5. CASE Character \/ CharactersSent
  BY <1>5 DEF Character, CharactersSent, Goes, GoesOn, Ends, EndsSpoilt, input
<1>6. CASE SendsNothing \/ SendsKey
  BY <1>6 DEF SendsNothing, SendsKey, Goes, GoesOn, Ends, EndsSpoilt, input
<1>7. CASE ReadsClipboard \/ WritesClipboard \/ Restores
  BY <1>7 DEF ReadsClipboard, WritesClipboard, Restores, GivesBack, Writes, WriteFails, InputError, Goes,
     GoesOn, Ends, EndsSpoilt, input
<1>8. CASE KeyDown \/ KeysUp \/ UnknownKey
  BY <1>8 DEF KeyDown, KeysUp, UnknownKey, Goes, GoesOn, Ends, EndsSpoilt, input
<1>9. CASE SamplesGeometry \/ TakesImage \/ ComparesGeometry \/ Infers
  BY <1>9 DEF SamplesGeometry, TakesImage, ComparesGeometry, Infers, SeenAs, Goes, GoesOn, Ends, EndsSpoilt, input
<1>10. CASE MovesMouse \/ Presses \/ Drags \/ Releases
  BY <1>10 DEF MovesMouse, Presses, Drags, Releases, Goes, GoesOn, Ends, EndsSpoilt, input
<1>11. ASSUME NEW w, FocusMoves(w) \/ SomeoneCopies(w) \/ DisplayMoves(w) \/ Pastes PROVE LeftMoves
  BY <1>11 DEF FocusMoves, SomeoneCopies, DisplayMoves, Pastes, Unaware
<1>12. CASE UNCHANGED screenVars
  BY <1>12 DEF screenVars
<1>. QED
  BY <1>1, <1>2, <1>3, <1>4, <1>5, <1>6, <1>7, <1>8, <1>9, <1>10, <1>11, <1>12 DEF ScreenNext, ToolRuns

TempMoves ==
    \/ step # "infer" /\ step' # "infer" /\ UNCHANGED temp
    \/ UNCHANGED <<step, temp>>
    \/ ComparesGeometry \/ Infers

LEMMA StepsMoveTemp == ASSUME TRUE, [ScreenNext]_screenVars PROVE TempMoves
<1>. USE DEF TempMoves
<1>1. ASSUME NEW op, NEW w \in Hwnd, op \in {"short", "long", "hotkey"}, CallInput(op, w) PROVE TempMoves
  BY <1>1 DEF CallInput, Starts, Typing, Pointing, surroundings
<1>2. ASSUME NEW whole \in BOOLEAN, NEW e \in Edges \cup {0}, CallPerceive(whole, e) PROVE TempMoves
  BY <1>2 DEF CallPerceive, Typing, Pointing, surroundings
<1>3. ASSUME NEW op, op \in {"click", "drag"}, NEW i, NEW n \in 1 .. 2, CallMouse(op, i, n) PROVE TempMoves
  BY <1>3 DEF CallMouse, Starts, Typing, Pointing, surroundings
<1>4. CASE Activates \/ LooksAtForeground \/ BeginsSession
  BY <1>4 DEF Activates, LooksAtForeground, Verified, InputError, BeginsSession, Goes, GoesOn, Ends,
     EndsSpoilt, input, Typing, Pointing, surroundings
<1>5. CASE Character \/ CharactersSent
  BY <1>5 DEF Character, CharactersSent, Goes, GoesOn, Ends, EndsSpoilt, input, Typing, Pointing, surroundings
<1>6. CASE SendsNothing \/ SendsKey
  BY <1>6 DEF SendsNothing, SendsKey, Goes, GoesOn, Ends, EndsSpoilt, input, Typing, Pointing, surroundings
<1>7. CASE ReadsClipboard \/ WritesClipboard \/ Restores
  BY <1>7 DEF ReadsClipboard, WritesClipboard, Restores, GivesBack, Writes, WriteFails, InputError, Goes,
     GoesOn, Ends, EndsSpoilt, input, Typing, Pointing, surroundings
<1>8. CASE KeyDown \/ KeysUp \/ UnknownKey
  BY <1>8 DEF KeyDown, KeysUp, UnknownKey, Goes, GoesOn, Ends, EndsSpoilt, input, Typing, Pointing, surroundings
<1>9. CASE SamplesGeometry \/ TakesImage \/ ComparesGeometry \/ Infers
  BY <1>9 DEF SamplesGeometry, TakesImage, ComparesGeometry, Infers, SeenAs, Goes, GoesOn, Ends, EndsSpoilt,
     input, Typing, Pointing, surroundings
<1>10. CASE MovesMouse \/ Presses \/ Drags \/ Releases
  BY <1>10 DEF MovesMouse, Presses, Drags, Releases, Goes, GoesOn, Ends, EndsSpoilt, input, Typing, Pointing,
     surroundings
<1>11. ASSUME NEW w, FocusMoves(w) \/ SomeoneCopies(w) \/ DisplayMoves(w) \/ Pastes PROVE TempMoves
  BY <1>11 DEF FocusMoves, SomeoneCopies, DisplayMoves, Pastes, Unaware, Typing, Pointing, surroundings
<1>12. CASE UNCHANGED screenVars
  BY <1>12 DEF screenVars, Typing, Pointing, surroundings
<1>. QED
  BY <1>1, <1>2, <1>3, <1>4, <1>5, <1>6, <1>7, <1>8, <1>9, <1>10, <1>11, <1>12 DEF ScreenNext, ToolRuns

LEMMA MovesKeepLeftAndTemp ==
    ASSUME LeftInv, TempInv, LeftMoves, TempMoves PROVE LeftInv' /\ TempInv'
<1>1. LeftInv'
  BY ScreenAssumption DEF LeftInv, LeftMoves
<1>2. CASE UNCHANGED <<step, temp>> \/ (step # "infer" /\ step' # "infer" /\ UNCHANGED temp)
  BY <1>1, <1>2 DEF TempInv
<1>3. CASE ComparesGeometry
  BY <1>1, <1>3 DEF ComparesGeometry, TempInv, Goes, Ends, EndsSpoilt
<1>4. CASE Infers
  BY <1>1, <1>4 DEF Infers, TempInv, Ends, EndsSpoilt
<1>. QED
  BY <1>1, <1>2, <1>3, <1>4 DEF TempMoves

\* What a step may do to captures and to what is made of them.
ImageSteps == {"image", "compare", "infer"}
ShotMoves ==
    \/ /\ UNCHANGED captures /\ step' \notin ImageSteps
       /\ shot' = shot \/ shot' = NoShot
       /\ goal' = goal \/ goal' = NoGoal \/ goal' = [goal EXCEPT !.done = TRUE]
    \/ UNCHANGED <<shot, captures, goal, step, tool, monitor>>
    \/ \E op, i, n : CallMouse(op, i, n)
    \/ SamplesGeometry /\ step' = "image"
    \/ TakesImage /\ step' = "compare"
    \/ ComparesGeometry /\ step' = "infer"
    \/ Infers /\ captures' = Registered /\ goal' = NoGoal
    \/ \E e \in Edges : DisplayMoves(e)

LEMMA ShotMove == ASSUME TRUE, [ScreenNext]_screenVars PROVE ShotMoves
<1>. USE DEF ShotMoves, ImageSteps
<1>1. ASSUME NEW op, NEW w \in Hwnd, op \in {"short", "long", "hotkey"}, CallInput(op, w) PROVE ShotMoves
  BY <1>1 DEF CallInput, Starts, Typing, pointer, Pointing, surroundings
<1>2. ASSUME NEW whole \in BOOLEAN, NEW e \in Edges \cup {0}, CallPerceive(whole, e) PROVE ShotMoves
  BY <1>2 DEF CallPerceive, Typing, pointer, Pointing, surroundings
<1>3. ASSUME NEW op, NEW i, NEW n, CallMouse(op, i, n) PROVE ShotMoves
  BY <1>3
<1>4. CASE Activates \/ LooksAtForeground \/ BeginsSession
  BY <1>4 DEF Activates, LooksAtForeground, Verified, InputError, BeginsSession, Goes, GoesOn, Ends,
     EndsSpoilt, input, Typing, pointer, Pointing, surroundings
<1>5. CASE Character \/ CharactersSent
  BY <1>5 DEF Character, CharactersSent, Goes, GoesOn, Ends, EndsSpoilt, input, Typing, pointer, Pointing, surroundings
<1>6. CASE SendsNothing \/ SendsKey
  BY <1>6 DEF SendsNothing, SendsKey, Goes, GoesOn, Ends, EndsSpoilt, input, Typing, pointer, Pointing, surroundings
<1>7. CASE ReadsClipboard \/ WritesClipboard \/ Restores
  BY <1>7 DEF ReadsClipboard, WritesClipboard, Restores, GivesBack, Writes, WriteFails, InputError, Goes,
     GoesOn, Ends, EndsSpoilt, input, Typing, pointer, Pointing, surroundings
<1>8. CASE KeyDown \/ KeysUp \/ UnknownKey
  BY <1>8 DEF KeyDown, KeysUp, UnknownKey, Goes, GoesOn, Ends, EndsSpoilt, input, Typing, pointer, Pointing,
     surroundings
<1>9. CASE SamplesGeometry \/ TakesImage \/ ComparesGeometry \/ Infers
  BY <1>9 DEF SamplesGeometry, TakesImage, ComparesGeometry, Infers, SeenAs, Goes, GoesOn, Ends, EndsSpoilt, Pointing
<1>10. CASE MovesMouse \/ Presses \/ Drags \/ Releases
  BY <1>10 DEF MovesMouse, Presses, Drags, Releases, Goes, GoesOn, Ends, EndsSpoilt, input, Typing, pointer,
     Pointing, surroundings
<1>11. ASSUME NEW w, FocusMoves(w) \/ SomeoneCopies(w) \/ Pastes PROVE ShotMoves
  BY <1>11 DEF FocusMoves, SomeoneCopies, Pastes, Unaware, surroundings
<1>12. CASE UNCHANGED screenVars
  BY <1>12 DEF screenVars, Typing, pointer, Pointing, surroundings
<1>. QED
  BY <1>1, <1>2, <1>3, <1>4, <1>5, <1>6, <1>7, <1>8, <1>9, <1>10, <1>11, <1>12 DEF ScreenNext, ToolRuns


LEMMA NoShotIs ==
    /\ NoShot \in Shots /\ IsTrue(NoShot)
    /\ NoGoal \in Goals /\ NoGoal.at = NoGoal.of.centre /\ NoGoal.of = NoShot
BY DEF NoShot, NoGoal, Shots, IsTrue, Goals

LEMMA ShotKept ==
    ASSUME CapturesInv, MakingInv, EdgeInv, ShotMoves
    PROVE  CapturesInv' /\ MakingInv'
<1>0. monitor \in Int /\ tool.whole \in BOOLEAN /\ tool.edge \in Int
  <2>1. tool.whole \in BOOLEAN
    BY DEF EdgeInv
  <2>2. monitor \in Edges /\ tool.edge \in Edges \cup {0}
    BY DEF EdgeInv
  <2>3. Edges \subseteq Int
    BY ScreenAssumption
  <2>4. \A e \in Edges \cup {0} : e \in Int
    BY <2>3
  <2>5. monitor \in Int /\ tool.edge \in Int
    BY <2>2, <2>4, Zenon
  <2>. QED
    BY <2>1, <2>5
<1>1. CASE /\ UNCHANGED captures /\ step' \notin ImageSteps
           /\ shot' = shot \/ shot' = NoShot
           /\ goal' = goal \/ goal' = NoGoal \/ goal' = [goal EXCEPT !.done = TRUE]
  <2>1. MakingInv'
    BY <1>1 DEF MakingInv, ImageSteps
  <2>2. shot' \in Shots /\ goal' \in Goals /\ goal'.at = goal'.of.centre /\ IsTrue(goal'.of)
    BY <1>1, NoShotIs DEF CapturesInv, Goals
  <2>. QED
    BY <1>1, <2>1, <2>2 DEF CapturesInv, IsTrue
<1>2. CASE UNCHANGED <<shot, captures, goal, step, tool, monitor>>
  BY <1>2 DEF CapturesInv, MakingInv, IsTrue
<1>3. ASSUME NEW op, NEW i, NEW n, CallMouse(op, i, n) PROVE CapturesInv' /\ MakingInv'
  <2>1. i \in 1 .. Len(captures) /\ captures[i] \in Shots /\ IsTrue(captures[i])
    BY <1>3 DEF CallMouse, CapturesInv
  <2>2. goal' = [at |-> captures[i].centre, of |-> captures[i], done |-> FALSE]
    BY <1>3 DEF CallMouse
  <2>3. UNCHANGED <<shot, captures>> /\ step' = "move"
    BY <1>3 DEF CallMouse, Starts
  <2>4. goal' \in Goals /\ goal'.at = goal'.of.centre /\ IsTrue(goal'.of)
    BY <2>1, <2>2 DEF Goals, Shots
  <2>. QED
    BY <2>3, <2>4 DEF CapturesInv, MakingInv, IsTrue
<1>4. CASE SamplesGeometry /\ step' = "image"
  <2>1. /\ shot' = [geometry |-> Geometry, centre |-> 0, whole |-> tool.whole, moves |-> shot.moves]
        /\ UNCHANGED <<tool, captures, goal, monitor>>
    BY <1>4 DEF SamplesGeometry, SeenAs, Ends, EndsSpoilt, Pointing, surroundings
  <2>2. Geometry \in Int /\ (tool.whole => Geometry = monitor)
    BY <1>0 DEF Geometry
  <2>3. shot' \in Shots /\ shot'.geometry = Geometry /\ shot'.whole = tool.whole
    BY <1>0, <2>1, <2>2 DEF Shots, CapturesInv
  <2>4. CapturesInv'
    BY <2>1, <2>3 DEF CapturesInv, IsTrue
  <2>. QED
    BY <1>4, <2>1, <2>2, <2>3, <2>4 DEF MakingInv
<1>5. CASE TakesImage /\ step' = "compare"
  <2>1. PICK edge \in Int :
           /\ tool.whole => edge = monitor
           /\ shot' = [shot EXCEPT !.centre = Spot - edge]
           /\ step = "image"
           /\ UNCHANGED <<tool, captures, goal, monitor>>
    <3>. DEFINE edge == monitor + (IF tool.whole THEN 0 ELSE tool.edge)
    <3>1. edge \in Int /\ (tool.whole => edge = monitor)
      BY <1>0
    <3>2. /\ shot' = [shot EXCEPT !.centre = Spot - edge] /\ step = "image"
          /\ UNCHANGED <<tool, captures, goal, monitor>>
      BY <1>5 DEF TakesImage, SeenAs, Ends, EndsSpoilt, Pointing, surroundings
    <3>. QED
      BY <3>1, <3>2
  <2>2. /\ shot' \in Shots /\ shot'.geometry = shot.geometry /\ shot'.centre = Spot - edge
        /\ shot'.whole = shot.whole /\ shot'.moves = shot.moves
    <3>1. Spot - edge \in Int /\ shot \in Shots
      BY <2>1, ScreenAssumption DEF CapturesInv
    <3>. QED
      BY <2>1, <3>1 DEF Shots
  <2>3. CapturesInv'
    BY <2>1, <2>2 DEF CapturesInv, IsTrue
  <2>4. shot.whole = tool.whole /\ (shot.whole /\ shot.geometry # monitor => shot.moves >= 1)
    BY <2>1 DEF MakingInv
  <2>5. shot'.geometry \in Int /\ monitor \in Int /\ Spot \in Int
    BY <1>0, <2>2, ScreenAssumption DEF Shots, CapturesInv
  <2>6. shot'.whole /\ shot'.geometry + shot'.centre # Spot => shot'.moves >= 1 /\ monitor' # shot'.geometry
    BY <2>1, <2>2, <2>4, <2>5
  <2>7. shot'.whole = tool'.whole
    BY <2>1, <2>2, <2>4
  <2>. QED
    BY <1>5, <2>3, <2>6, <2>7 DEF MakingInv
<1>6. CASE ComparesGeometry /\ step' = "infer"
  <2>1. /\ step = "compare" /\ shot.geometry = Geometry
        /\ UNCHANGED <<shot, tool, captures, goal, monitor>>
    BY <1>6 DEF ComparesGeometry, StableGeometry, Goes, GoesOn, Ends, EndsSpoilt, Pointing, surroundings
  <2>2. shot.whole => shot.geometry = monitor
    BY <2>1 DEF MakingInv, Geometry
  <2>3. IsTrue(shot)
    BY <2>1, <2>2 DEF MakingInv, IsTrue, CapturesInv, Shots
  <2>. QED
    BY <1>6, <2>1, <2>3 DEF MakingInv, CapturesInv, IsTrue
<1>7. CASE Infers /\ captures' = Registered /\ goal' = NoGoal
  <2>1. step = "infer" /\ step' = "idle" /\ shot' = NoShot
    BY <1>7 DEF Infers, Ends, EndsSpoilt
  <2>. DEFINE kept == IF Len(captures) >= MaxCaptures THEN Tail(captures) ELSE captures
  <2>2. shot \in Shots /\ IsTrue(shot)
    BY <2>1 DEF MakingInv, CapturesInv
  <2>3. kept \in Seq(Shots) /\ Len(kept) + 1 <= MaxCaptures /\ \A i \in 1 .. Len(kept) : IsTrue(kept[i])
    <3>1. CASE Len(captures) >= MaxCaptures
      <4>1. captures \in Seq(Shots) /\ captures # <<>>
        BY <3>1, ScreenAssumption DEF CapturesInv
      <4>2. /\ Tail(captures) \in Seq(Shots) /\ Len(Tail(captures)) = Len(captures) - 1
            /\ \A i \in 1 .. Len(Tail(captures)) : Tail(captures)[i] = captures[i + 1]
        BY <4>1, HeadTailProperties
      <4>3. \A i \in 1 .. Len(Tail(captures)) : i + 1 \in 1 .. Len(captures)
        BY <4>1, <4>2
      <4>. QED
        BY <3>1, <4>1, <4>2, <4>3, ScreenAssumption DEF CapturesInv
    <3>2. CASE ~(Len(captures) >= MaxCaptures)
      BY <3>2, ScreenAssumption DEF CapturesInv
    <3>. QED
      BY <3>1, <3>2
  <2>4. captures' = Append(kept, shot)
    BY <1>7 DEF Registered
  <2>. HIDE DEF kept
  <2>5. captures' \in Seq(Shots) /\ Len(captures') <= MaxCaptures /\ \A i \in 1 .. Len(captures') : IsTrue(captures'[i])
    BY <2>2, <2>3, <2>4
  <2>6. CapturesInv'
    BY <1>7, <2>1, <2>5, NoShotIs DEF CapturesInv, IsTrue
  <2>. QED
    BY <2>1, <2>6 DEF MakingInv
<1>8. ASSUME NEW e \in Edges, DisplayMoves(e) PROVE CapturesInv' /\ MakingInv'
  <2>1. /\ e # monitor /\ monitor' = e
        /\ UNCHANGED <<tool, captures, goal, step>>
        /\ (step = "idle" /\ shot' = shot) \/ (step # "idle" /\ shot' = [shot EXCEPT !.moves = @ + 1])
    BY <1>8 DEF DisplayMoves, Unaware
  <2>2. CASE step = "idle"
    BY <2>1, <2>2 DEF MakingInv, CapturesInv, IsTrue
  <2>3. CASE step # "idle"
    <3>1. /\ shot' \in Shots /\ shot'.geometry = shot.geometry /\ shot'.centre = shot.centre
          /\ shot'.whole = shot.whole /\ shot'.moves = shot.moves + 1 /\ shot.moves \in Nat
      BY <2>1, <2>3 DEF Shots, CapturesInv
    <3>2. CapturesInv'
      BY <2>1, <3>1 DEF CapturesInv, IsTrue
    <3>3. step' = "compare" /\ shot'.whole /\ shot'.geometry + shot'.centre # Spot =>
             shot'.moves >= 1 /\ (monitor' = shot'.geometry => shot'.moves >= 2)
      BY <2>1, <3>1 DEF MakingInv
    <3>4. step' = "infer" => IsTrue(shot)'
      BY <2>1, <3>1 DEF MakingInv, IsTrue
    <3>5. /\ step' \in {"image", "compare"} => shot'.whole = tool'.whole
          /\ step' = "image" /\ shot'.whole /\ shot'.geometry # monitor' => shot'.moves >= 1
      BY <2>1, <3>1 DEF MakingInv
    <3>. QED
      BY <3>2, <3>3, <3>4, <3>5 DEF MakingInv
  <2>. QED
    BY <2>2, <2>3
<1>. QED
  BY <1>1, <1>2, <1>3, <1>4, <1>5, <1>6, <1>7, <1>8 DEF ShotMoves

LEMMA ScreenInvInit == ScreenInit => ScreenInv
<1>. SUFFICES ASSUME ScreenInit PROVE ScreenInv
  OBVIOUS
<1>1. KeysInv /\ HeldInv
  BY DEF ScreenInit, KeysInv, Keyed, HeldInv, Pressing
<1>2. PasteInv /\ WindowInv /\ EdgeInv
  BY NoToolFields DEF ScreenInit, PasteInv, PasteSteps, WindowInv, EdgeInv
<1>3. ClipInv
  BY DEF ScreenInit, ClipInv, Clips
<1>4. LeftInv
  BY DEF ScreenInit, LeftInv
<1>5. TempInv
  BY DEF ScreenInit, TempInv
<1>6. CapturesInv
  BY NoShotIs, ScreenAssumption DEF ScreenInit, CapturesInv
<1>7. MakingInv
  BY DEF ScreenInit, MakingInv
<1>. QED
  BY <1>1, <1>2, <1>3, <1>4, <1>5, <1>6, <1>7 DEF ScreenInv

LEMMA ScreenInvStep == ScreenInv /\ [ScreenNext]_screenVars => ScreenInv'
<1>. SUFFICES ASSUME ScreenInv, [ScreenNext]_screenVars PROVE ScreenInv'
  OBVIOUS
<1>1. KeysInv'
  BY StepsMoveKeys, KeyMovesKeep DEF ScreenInv
<1>2. HeldInv' /\ PasteInv' /\ WindowInv' /\ ClipInv' /\ EdgeInv'
  BY StepsKeepHeld, StepsKeepPaste, StepsKeepWindow, StepsKeepClip, StepsKeepEdge DEF ScreenInv
<1>3. LeftInv' /\ TempInv'
  BY StepsMoveLeft, StepsMoveTemp, MovesKeepLeftAndTemp DEF ScreenInv
<1>4. CapturesInv' /\ MakingInv'
  BY ShotMove, ShotKept DEF ScreenInv
<1>. QED
  BY <1>1, <1>2, <1>3, <1>4 DEF ScreenInv

LEMMA ScreenInvHolds == ScreenSpec => []ScreenInv
BY ScreenInvInit, ScreenInvStep, PTL DEF ScreenSpec

\* The types of the screen tools (ScreenTypeOK).
THEOREM ScreenTypeCorrect == ScreenSpec => []ScreenTypeOK
<1>1. ScreenInv => ScreenTypeOK
  <2>. SUFFICES ASSUME ScreenInv PROVE ScreenTypeOK
    OBVIOUS
  <2>1. focused \in Hwnd \cup {NoHwnd} /\ monitor \in Edges
    BY DEF ScreenInv, WindowInv, EdgeInv
  <2>2. clipboard \in {"old", "image", "text", "new", "empty"} /\ previous \in {"unread", "old", "text", "new", "empty"}
    BY DEF ScreenInv, ClipInv, Clips
  <2>3. left \in Nat /\ Len(captures) <= MaxCaptures
    BY DEF ScreenInv, LeftInv, CapturesInv
  <2>4. temp <=> step = "infer"
    BY DEF ScreenInv, TempInv
  <2>. QED
    BY <2>1, <2>2, <2>3, <2>4 DEF ScreenTypeOK
<1>. QED
  BY <1>1, ScreenInvHolds, PTL

\* No key of a call goes to another window than its own before that was found in the
\* foreground (TypesWhereAsked).
THEOREM KeysGoWhereAsked == ScreenSpec => []TypesWhereAsked
<1>1. ScreenInv => TypesWhereAsked
  BY DEF ScreenInv, KeysInv, TypesWhereAsked
<1>. QED
  BY <1>1, ScreenInvHolds, PTL

\* What is said of the whole screen is where the element was, and a press by it is
\* there if the monitor begins at the origin, unless a display moved twice meanwhile
\* (PlacesAreTrue).
THEOREM PlacesTold == ScreenSpec => []PlacesAreTrue
<1>1. ScreenInv => PlacesAreTrue
  <2>. SUFFICES ASSUME ScreenInv PROVE PlacesAreTrue
    OBVIOUS
  <2>1. \A i \in DOMAIN captures : IsTrue(captures[i])
    BY DEF ScreenInv, CapturesInv
  <2>2. IsTrue(goal.of) /\ goal.at = goal.of.centre /\ goal.of.centre \in Int
    BY DEF ScreenInv, CapturesInv, Goals, Shots
  <2>3. goal.of.whole /\ goal.of.moves < 2 /\ goal.of.geometry = 0 => goal.at = Spot
    BY <2>2 DEF IsTrue
  <2>. QED
    BY <2>1, <2>3 DEF PlacesAreTrue, IsTrue
<1>. QED
  BY <1>1, ScreenInvHolds, PTL

\* A call that ends ok holds nothing down.
EndsLetGo == step # "idle" /\ step' = "idle" /\ answer' = "ok" => held' = {}
\* A paste that ends has given back what it read.
EndsGiveBack ==
    step # "idle" /\ step' = "idle" /\ tool.op = "long" /\ previous # "unread" =>
        clipboard' = previous \/ spoilt \/ spoilt'

LEMMA StepsLetGo == ASSUME HeldInv, [ScreenNext]_screenVars PROVE EndsLetGo
<1>. USE DEF HeldInv, Pressing, EndsLetGo
<1>1. ASSUME NEW op, NEW w \in Hwnd, op \in {"short", "long", "hotkey"}, CallInput(op, w) PROVE EndsLetGo
  BY <1>1 DEF CallInput, Starts
<1>2. ASSUME NEW whole \in BOOLEAN, NEW e \in Edges \cup {0}, CallPerceive(whole, e) PROVE EndsLetGo
  BY <1>2 DEF CallPerceive
<1>3. ASSUME NEW op, op \in {"click", "drag"}, NEW i, NEW n \in 1 .. 2, CallMouse(op, i, n) PROVE EndsLetGo
  BY <1>3 DEF CallMouse, Starts
<1>4. CASE Activates \/ LooksAtForeground \/ BeginsSession
  BY <1>4 DEF Activates, LooksAtForeground, Verified, InputError, BeginsSession, Goes, GoesOn, Ends, EndsSpoilt, input
<1>5. CASE Character \/ CharactersSent
  BY <1>5 DEF Character, CharactersSent, Goes, GoesOn, Ends, EndsSpoilt, input
<1>6. CASE SendsNothing \/ SendsKey
  BY <1>6 DEF SendsNothing, SendsKey, Goes, GoesOn, Ends, EndsSpoilt, input
<1>7. CASE ReadsClipboard \/ WritesClipboard \/ Restores
  BY <1>7 DEF ReadsClipboard, WritesClipboard, Restores, GivesBack, Writes, WriteFails, InputError, Goes,
     GoesOn, Ends, EndsSpoilt, input
<1>8. CASE KeyDown \/ KeysUp \/ UnknownKey
  BY <1>8 DEF KeyDown, KeysUp, UnknownKey, Goes, GoesOn, Ends, EndsSpoilt, input
<1>9. CASE SamplesGeometry \/ TakesImage \/ ComparesGeometry \/ Infers
  BY <1>9 DEF SamplesGeometry, TakesImage, ComparesGeometry, Infers, SeenAs, Goes, GoesOn, Ends, EndsSpoilt, input
<1>10. CASE MovesMouse \/ Presses \/ Drags \/ Releases
  BY <1>10 DEF MovesMouse, Presses, Drags, Releases, Goes, GoesOn, Ends, EndsSpoilt, input
<1>11. ASSUME NEW w, FocusMoves(w) \/ SomeoneCopies(w) \/ DisplayMoves(w) \/ Pastes PROVE EndsLetGo
  BY <1>11 DEF FocusMoves, SomeoneCopies, DisplayMoves, Pastes, Unaware
<1>12. CASE UNCHANGED screenVars
  BY <1>12 DEF screenVars
<1>. QED
  BY <1>1, <1>2, <1>3, <1>4, <1>5, <1>6, <1>7, <1>8, <1>9, <1>10, <1>11, <1>12 DEF ScreenNext, ToolRuns

LEMMA StepsGiveBack == ASSUME PasteInv, [ScreenNext]_screenVars PROVE EndsGiveBack
<1>. USE DEF PasteInv, PasteSteps, EndsGiveBack
<1>1. ASSUME NEW op, NEW w \in Hwnd, op \in {"short", "long", "hotkey"}, CallInput(op, w) PROVE EndsGiveBack
  BY <1>1 DEF CallInput, Starts, surroundings, Typing
<1>2. ASSUME NEW whole \in BOOLEAN, NEW e \in Edges \cup {0}, CallPerceive(whole, e) PROVE EndsGiveBack
  BY <1>2 DEF CallPerceive, surroundings, Typing
<1>3. ASSUME NEW op, op \in {"click", "drag"}, NEW i, NEW n \in 1 .. 2, CallMouse(op, i, n) PROVE EndsGiveBack
  BY <1>3 DEF CallMouse, Starts, surroundings, Typing
<1>4. CASE Activates \/ LooksAtForeground \/ BeginsSession
  BY <1>4 DEF Activates, LooksAtForeground, Verified, InputError, BeginsSession, Goes, GoesOn, Ends,
     EndsSpoilt, input, surroundings, Typing
<1>5. CASE Character \/ CharactersSent
  BY <1>5 DEF Character, CharactersSent, Goes, GoesOn, Ends, EndsSpoilt, input, surroundings, Typing
<1>6. CASE SendsNothing \/ SendsKey
  BY <1>6 DEF SendsNothing, SendsKey, Goes, GoesOn, Ends, EndsSpoilt, input, surroundings, Typing
<1>7. CASE ReadsClipboard \/ WritesClipboard \/ Restores
  BY <1>7 DEF ReadsClipboard, WritesClipboard, Restores, GivesBack, Writes, WriteFails, InputError, Goes,
     GoesOn, Ends, EndsSpoilt, input, surroundings, Typing
<1>8. CASE KeyDown \/ KeysUp \/ UnknownKey
  BY <1>8 DEF KeyDown, KeysUp, UnknownKey, Goes, GoesOn, Ends, EndsSpoilt, input, surroundings, Typing
<1>9. CASE SamplesGeometry \/ TakesImage \/ ComparesGeometry \/ Infers
  BY <1>9 DEF SamplesGeometry, TakesImage, ComparesGeometry, Infers, SeenAs, Goes, GoesOn, Ends, EndsSpoilt,
     input, surroundings, Typing
<1>10. CASE MovesMouse \/ Presses \/ Drags \/ Releases
  BY <1>10 DEF MovesMouse, Presses, Drags, Releases, Goes, GoesOn, Ends, EndsSpoilt, input, surroundings, Typing
<1>11. ASSUME NEW w, FocusMoves(w) \/ SomeoneCopies(w) \/ DisplayMoves(w) \/ Pastes PROVE EndsGiveBack
  BY <1>11 DEF FocusMoves, SomeoneCopies, DisplayMoves, Pastes, Unaware, surroundings, Typing
<1>12. CASE UNCHANGED screenVars
  BY <1>12 DEF screenVars, surroundings, Typing
<1>. QED
  BY <1>1, <1>2, <1>3, <1>4, <1>5, <1>6, <1>7, <1>8, <1>9, <1>10, <1>11, <1>12 DEF ScreenNext, ToolRuns

\* What is answered ok has let go of its keys and buttons, and what has pasted has
\* given the clipboard's text back (LeavesNothingBehind).
THEOREM NothingLeftBehind == ScreenSpec => LeavesNothingBehind
<1>1. ScreenInv /\ [ScreenNext]_screenVars => EndsLetGo /\ EndsGiveBack
  BY StepsLetGo, StepsGiveBack DEF ScreenInv
<1>2. ScreenInv /\ [ScreenNext]_screenVars =>
        [step # "idle" /\ step' = "idle" =>
          /\ answer' = "ok" => held' = {}
          /\ tool.op = "long" /\ previous # "unread" => clipboard' = previous \/ spoilt \/ spoilt']_screenVars
  BY <1>1 DEF EndsLetGo, EndsGiveBack
<1>. QED
  BY <1>2, ScreenInvHolds, PTL DEF ScreenSpec, LeavesNothingBehind

-----------------------------------------------------------------------------
(* Model files. *)

Transfers == {"get", "body", "check", "load", "rename"}
Loaders == [at : {"idle", "next", "ready", "icons"} \cup Transfers, todo : Seq(File), source : Nat]

\* What a process has checked is in its own scratch file.
InScratch(p) ==
    /\ loader[p].at \in Transfers => loader[p].todo # <<>>
    /\ loader[p].at = "load" => Downloaded(p) \in {"cut", "whole"}
    /\ loader[p].at = "rename" =>
          Downloaded(p) \in {"cut", "whole"} /\ (Fetching(p) # Dictionary => Downloaded(p) = "whole")

FilesInv ==
    /\ loader \in [Server -> Loaders] /\ parts \in [Server \X File -> Content]
    /\ \A p \in Server : InScratch(p)
    /\ models \in [File -> Content] /\ ModelsAreWhole
ProcessInv ==
    /\ engine \in [Server -> BOOLEAN] /\ icons \in [Server -> BOOLEAN]
    /\ deaths \in 0 .. MaxDeaths

\* A process goes on at another place, and has changed one of its own scratch files
\* or none.
OwnMove(p, new, f, c) ==
    /\ loader' = [loader EXCEPT ![p] = new]
    /\ parts' = parts \/ parts' = [parts EXCEPT ![PartOf(p, f)] = c]

LEMMA OwnFileOnly ==
    ASSUME FilesInv, NEW p \in Server, NEW f \in File, NEW c \in Content, NEW new \in Loaders,
           OwnMove(p, new, f, c)
    PROVE  /\ loader' \in [Server -> Loaders] /\ parts' \in [Server \X File -> Content]
           /\ loader'[p] = new
           /\ \A q \in Server \ {p} : InScratch(q)'
<1>1. /\ loader' = [loader EXCEPT ![p] = new]
      /\ parts' = parts \/ parts' = [parts EXCEPT ![<<p, f>>] = c]
  BY DEF OwnMove, PartOf
<1>2. loader' \in [Server -> Loaders] /\ loader'[p] = new /\ \A q \in Server \ {p} : loader'[q] = loader[q]
  BY <1>1 DEF FilesInv
<1>3. <<p, f>> \in Server \X File
  OBVIOUS
<1>4. parts' \in [Server \X File -> Content]
  BY <1>1, <1>3 DEF FilesInv
<1>5. ASSUME NEW q \in Server \ {p}, NEW g \in File PROVE parts'[<<q, g>>] = parts[<<q, g>>]
  <2>1. <<q, g>> \in Server \X File /\ <<q, g>> # <<p, f>>
    OBVIOUS
  <2>. QED
    BY <1>1, <2>1 DEF FilesInv
<1>6. ASSUME NEW q \in Server \ {p} PROVE InScratch(q)'
  <2>1. InScratch(q) /\ loader'[q] = loader[q] /\ loader[q] \in Loaders
    BY <1>2 DEF FilesInv
  <2>2. CASE loader[q].todo = <<>>
    BY <2>1, <2>2 DEF InScratch, Transfers
  <2>3. CASE loader[q].todo # <<>>
    <3>1. Fetching(q) \in File
      BY <2>1, <2>3, HeadTailProperties DEF Loaders, Fetching
    <3>2. Fetching(q)' = Fetching(q)
      BY <2>1 DEF Fetching
    <3>3. Downloaded(q)' = Downloaded(q)
      BY <1>5, <3>1, <3>2 DEF Downloaded, PartOf
    <3>. QED
      BY <2>1, <3>2, <3>3 DEF InScratch
  <2>. QED
    BY <2>2, <2>3
<1>. QED
  BY <1>2, <1>4, <1>6

LEMMA FileNames == Detector \in File /\ Dictionary \in File /\ Yolo \in File /\ OcrFiles \in Seq(File)
BY DEF File, OcrFiles

\* A process whose file has been checked, or that is not that far.
LEMMA MoveKeeps ==
    ASSUME FilesInv, NEW p \in Server, NEW f \in File, NEW c \in Content, NEW new \in Loaders,
           OwnMove(p, new, f, c), InScratch(p)', models' \in [File -> Content], ModelsAreWhole'
    PROVE  FilesInv'
BY OwnFileOnly DEF FilesInv

LEMMA PlainMoveKeeps ==
    ASSUME FilesInv, NEW p \in Server, NEW f \in File, NEW c \in Content, NEW new \in Loaders,
           OwnMove(p, new, f, c), models' \in [File -> Content], ModelsAreWhole',
           new.at \notin {"load", "rename"}, new.at \in Transfers => new.todo # <<>>
    PROVE  FilesInv'
<1>1. loader'[p] = new
  BY OwnFileOnly
<1>2. InScratch(p)'
  BY <1>1 DEF InScratch
<1>. QED
  BY <1>2, MoveKeeps

LEMMA ModelsStay == ASSUME FilesInv, UNCHANGED models PROVE models' \in [File -> Content] /\ ModelsAreWhole'
BY DEF FilesInv, ModelsAreWhole

\* The loader of a process that transfers a file.
LEMMA Transferring ==
    ASSUME FilesInv, NEW p \in Server, loader[p].at \in Transfers
    PROVE  /\ Fetching(p) \in File /\ loader[p].todo \in Seq(File) /\ loader[p].todo # <<>>
           /\ Tail(loader[p].todo) \in Seq(File) /\ loader[p].source \in Nat
           /\ Downloaded(p) \in Content
<1>1. loader[p] \in Loaders /\ InScratch(p)
  BY DEF FilesInv
<1>2. loader[p].todo \in Seq(File) /\ loader[p].todo # <<>> /\ loader[p].source \in Nat
  BY <1>1 DEF Loaders, InScratch
<1>3. Fetching(p) \in File /\ Tail(loader[p].todo) \in Seq(File)
  BY <1>2, HeadTailProperties DEF Fetching
<1>4. <<p, Fetching(p)>> \in Server \X File
  BY <1>3
<1>5. Downloaded(p) \in Content
  BY <1>4 DEF Downloaded, PartOf, FilesInv
<1>. QED
  BY <1>2, <1>3, <1>5

LEMMA FailingMoves ==
    ASSUME FilesInv, NEW p \in Server, loader[p].at \in Transfers, SourceFails(p), NEW c \in Content,
           UNCHANGED parts \/ PartIs(p, c), UNCHANGED models
    PROVE  FilesInv'
<1>. DEFINE f == Fetching(p)
            next(onto, todo, source) == [at |-> onto, todo |-> todo, source |-> source]
<1>0. /\ f \in File /\ loader[p].todo \in Seq(File) /\ loader[p].todo # <<>>
      /\ Tail(loader[p].todo) \in Seq(File) /\ loader[p].source \in Nat
      /\ models' \in [File -> Content] /\ ModelsAreWhole'
  BY Transferring, ModelsStay
<1>1. parts' = parts \/ parts' = [parts EXCEPT ![PartOf(p, f)] = c]
  BY DEF PartIs
<1>2. CASE Becomes(p, "get", loader[p].todo, loader[p].source + 1)
  <2>. DEFINE new == next("get", loader[p].todo, loader[p].source + 1)
  <2>1. new \in Loaders /\ new.at = "get" /\ new.todo # <<>> /\ OwnMove(p, new, f, c)
    BY <1>0, <1>1, <1>2 DEF Loaders, Becomes, OwnMove, Transfers
  <2>. HIDE DEF new, f
  <2>. QED
    BY <1>0, <2>1, PlainMoveKeeps
<1>3. CASE Becomes(p, "next", Tail(loader[p].todo), loader[p].source)
  <2>. DEFINE new == next("next", Tail(loader[p].todo), loader[p].source)
  <2>1. new \in Loaders /\ new.at = "next" /\ OwnMove(p, new, f, c)
    BY <1>0, <1>1, <1>3 DEF Loaders, Becomes, OwnMove
  <2>. HIDE DEF new, f
  <2>. QED
    BY <1>0, <2>1, PlainMoveKeeps DEF Transfers
<1>4. CASE Becomes(p, "idle", <<>>, 0)
  <2>. DEFINE new == next("idle", <<>>, 0)
  <2>1. new \in Loaders /\ new.at = "idle" /\ OwnMove(p, new, f, c)
    BY <1>0, <1>1, <1>4 DEF Loaders, Becomes, OwnMove
  <2>. HIDE DEF new, f
  <2>. QED
    BY <1>0, <2>1, PlainMoveKeeps DEF Transfers
<1>. QED
  BY <1>2, <1>3, <1>4 DEF SourceFails

\* Elsewhere, with nothing transferred yet or nothing checked.
LEMMA TurningKeeps ==
    ASSUME FilesInv, NEW p \in Server, NEW onto \in {"idle", "next", "ready", "icons", "body", "check"},
           loader[p].at \in Transfers \/ onto \notin Transfers,
           Turns(p, onto), NEW c \in Content, UNCHANGED models,
           UNCHANGED parts \/ (loader[p].at \in Transfers /\ PartIs(p, c))
    PROVE  FilesInv'
<1>. DEFINE new == [at |-> onto, todo |-> loader[p].todo, source |-> loader[p].source]
<1>1. new \in Loaders /\ new.at = onto /\ loader' = [loader EXCEPT ![p] = new]
  <2>1. loader[p] \in Loaders
    BY DEF FilesInv
  <2>2. loader[p].todo \in Seq(File) /\ loader[p].source \in Nat
    BY <2>1 DEF Loaders
  <2>. QED
    BY <2>2 DEF Loaders, Transfers, Turns, Becomes
<1>2. onto \in Transfers => new.todo # <<>>
  BY Transferring
<1>3. PICK f \in File : parts' = parts \/ parts' = [parts EXCEPT ![PartOf(p, f)] = c]
  <2>1. CASE UNCHANGED parts
    BY <2>1, FileNames
  <2>2. CASE loader[p].at \in Transfers /\ PartIs(p, c)
    BY <2>2, Transferring DEF PartIs
  <2>. QED
    BY <2>1, <2>2
<1>. HIDE DEF new
<1>4. OwnMove(p, new, f, c)
  BY <1>1, <1>3 DEF OwnMove
<1>. QED
  BY <1>1, <1>2, <1>4, PlainMoveKeeps, ModelsStay

LEMMA EnsureKeeps == ASSUME FilesInv, NEW p \in Server, NEW skip \in BOOLEAN, Ensure(p, skip) PROVE FilesInv'
<1>. DEFINE ocr == IF OcrComplete THEN <<>> ELSE OcrFiles
            yolo == IF Exists(Yolo) THEN <<>> ELSE <<Yolo>>
            todo == IF skip THEN <<>> ELSE ocr \o yolo
            new == [at |-> "next", todo |-> todo, source |-> 0]
<1>1. ocr \in Seq(File) /\ yolo \in Seq(File)
  BY FileNames
<1>2. loader' = [loader EXCEPT ![p] = new] /\ UNCHANGED <<models, parts>>
  BY DEF Ensure, Becomes
<1>. HIDE DEF ocr, yolo
<1>3. todo \in Seq(File)
  <2>1. ocr \o yolo \in Seq(File)
    BY <1>1, ConcatProperties
  <2>. QED
    BY <2>1
<1>. HIDE DEF todo
<1>4. new \in Loaders /\ new.at = "next"
  BY <1>3 DEF Loaders
<1>. HIDE DEF new
<1>5. OwnMove(p, new, Yolo, "absent")
  BY <1>2 DEF OwnMove
<1>. QED
  BY <1>2, <1>4, <1>5, FileNames, PlainMoveKeeps, ModelsStay DEF Transfers, Content

LEMMA NextFileKeeps == ASSUME FilesInv, NEW p \in Server, NextFile(p) PROVE FilesInv'
<1>1. UNCHANGED <<models, parts>> /\ loader[p].at = "next" /\ loader[p] \in Loaders
  BY DEF NextFile, IsAt, FilesInv
<1>2. CASE loader[p].todo = <<>>
  <2>1. \E onto \in {"idle", "ready"} : Turns(p, onto)
    BY <1>2 DEF NextFile
  <2>. QED
    BY <1>1, <2>1, TurningKeeps DEF Transfers, Content
<1>3. CASE loader[p].todo # <<>>
  <2>1. loader[p].todo \in Seq(File) /\ Tail(loader[p].todo) \in Seq(File) /\ loader[p].source \in Nat
    BY <1>1, <1>3, HeadTailProperties DEF Loaders
  <2>2. \/ Becomes(p, "next", Tail(loader[p].todo), loader[p].source)
        \/ Becomes(p, "get", loader[p].todo, 1)
    BY <1>3 DEF NextFile
  <2>3. PICK new \in Loaders :
           /\ loader' = [loader EXCEPT ![p] = new]
           /\ new.at \in {"next", "get"} /\ (new.at = "get" => new.todo # <<>>)
    <3>1. CASE Becomes(p, "next", Tail(loader[p].todo), loader[p].source)
      <4>. DEFINE new == [at |-> "next", todo |-> Tail(loader[p].todo), source |-> loader[p].source]
      <4>1. new \in Loaders /\ loader' = [loader EXCEPT ![p] = new] /\ new.at = "next"
        BY <2>1, <3>1 DEF Loaders, Becomes
      <4>. QED
        BY <4>1
    <3>2. CASE Becomes(p, "get", loader[p].todo, 1)
      <4>. DEFINE new == [at |-> "get", todo |-> loader[p].todo, source |-> 1]
      <4>1. new \in Loaders /\ loader' = [loader EXCEPT ![p] = new] /\ new.at = "get" /\ new.todo # <<>>
        BY <1>3, <2>1, <3>2 DEF Loaders, Transfers, Becomes
      <4>. QED
        BY <4>1
    <3>. QED
      BY <2>2, <3>1, <3>2
  <2>4. OwnMove(p, new, Yolo, "absent")
    BY <1>1, <2>3 DEF OwnMove
  <2>. QED
    BY <1>1, <2>3, <2>4, FileNames, PlainMoveKeeps, ModelsStay DEF Transfers, Content
<1>. QED
  BY <1>2, <1>3

LEMMA TransferKeeps ==
    ASSUME FilesInv, NEW p \in Server,
           GetFails(p) \/ Get(p) \/ BodyFails(p) \/ \E c \in {"page", "cut", "whole"} : Body(p, c)
    PROVE  FilesInv'
<1>1. CASE GetFails(p) \/ BodyFails(p)
  <2>1. loader[p].at \in Transfers /\ SourceFails(p) /\ PartIs(p, "absent") /\ UNCHANGED models
    BY <1>1 DEF GetFails, BodyFails, Discards, IsAt, Transfers
  <2>. QED
    BY <2>1, FailingMoves DEF Content
<1>2. CASE Get(p)
  <2>1. loader[p].at \in Transfers /\ Turns(p, "body") /\ PartIs(p, "empty") /\ UNCHANGED models
    BY <1>2 DEF Get, IsAt, Transfers
  <2>. QED
    BY <2>1, TurningKeeps DEF Content
<1>3. ASSUME NEW c \in {"page", "cut", "whole"}, Body(p, c) PROVE FilesInv'
  <2>1. loader[p].at \in Transfers /\ Turns(p, "check") /\ PartIs(p, c) /\ UNCHANGED models /\ c \in Content
    BY <1>3 DEF Body, IsAt, Transfers, Content
  <2>. QED
    BY <2>1, TurningKeeps
<1>. QED
  BY <1>1, <1>2, <1>3

\* A check that succeeds says what is in the scratch file; nobody writes there.
LEMMA CheckKeeps ==
    ASSUME FilesInv, NEW p \in Server, TrialLoad(p) \/ \E pinned \in BOOLEAN : ChecksBytes(p, pinned)
    PROVE  FilesInv'
<1>1. loader[p].at \in Transfers /\ UNCHANGED models
  BY DEF TrialLoad, ChecksBytes, IsAt, Transfers
<1>2. CASE Discards(p)
  BY <1>1, <1>2, FailingMoves DEF Discards, Content
<1>3. CASE /\ UNCHANGED parts
           /\ \/ Turns(p, "load") /\ Downloaded(p) \in {"cut", "whole"}
              \/ /\ Turns(p, "rename") /\ Downloaded(p) \in {"cut", "whole"}
                 /\ Fetching(p) # Dictionary => Downloaded(p) = "whole"
  <2>1. PICK onto \in {"load", "rename"} :
           /\ Turns(p, onto) /\ Downloaded(p) \in {"cut", "whole"}
           /\ onto = "rename" => (Fetching(p) # Dictionary => Downloaded(p) = "whole")
    BY <1>3
  <2>. DEFINE new == [at |-> onto, todo |-> loader[p].todo, source |-> loader[p].source]
  <2>2. new \in Loaders /\ new.at = onto /\ new.todo = loader[p].todo /\ loader' = [loader EXCEPT ![p] = new]
    BY <1>1, <2>1, Transferring DEF Loaders, Transfers, Turns, Becomes
  <2>. HIDE DEF new
  <2>3. OwnMove(p, new, Yolo, "absent")
    BY <1>3, <2>2 DEF OwnMove
  <2>0. Yolo \in File /\ "absent" \in Content /\ new \in Loaders
    BY <2>2, FileNames DEF Content
  <2>4. loader'[p] = new
    BY <2>0, <2>3, OwnFileOnly
  <2>5. Fetching(p)' = Fetching(p)
    BY <2>2, <2>4 DEF Fetching
  <2>6. Downloaded(p)' = Downloaded(p)
    BY <1>3, <2>5 DEF Downloaded, PartOf
  <2>7. InScratch(p)'
    BY <1>1, <2>1, <2>2, <2>4, <2>5, <2>6, Transferring DEF InScratch
  <2>. QED
    BY <1>1, <2>0, <2>3, <2>7, MoveKeeps, ModelsStay
<1>. QED
  <2>1. CASE TrialLoad(p)
    <3>1. Downloaded(p) \in {"cut", "whole"}
      BY <2>1 DEF TrialLoad, IsAt, FilesInv, InScratch
    <3>. QED
      BY <1>2, <1>3, <2>1, <3>1 DEF TrialLoad, TrialLoads
  <2>2. ASSUME NEW pinned \in BOOLEAN, ChecksBytes(p, pinned) PROVE FilesInv'
    BY <1>2, <1>3, <2>2 DEF ChecksBytes, BytesFit
  <2>. QED
    BY <2>1, <2>2

LEMMA RenameKeeps == ASSUME FilesInv, NEW p \in Server, Rename(p) PROVE FilesInv'
<1>1. loader[p].at = "rename" /\ loader[p].at \in Transfers
  BY DEF Rename, IsAt, Transfers
<1>2. CASE Discards(p) /\ UNCHANGED models
  BY <1>1, <1>2, FailingMoves DEF Discards, Content
<1>3. CASE /\ models' = [models EXCEPT ![Fetching(p)] = Downloaded(p)]
           /\ PartIs(p, "absent")
           /\ Becomes(p, "next", Tail(loader[p].todo), loader[p].source)
  <2>. DEFINE f == Fetching(p)
              new == [at |-> "next", todo |-> Tail(loader[p].todo), source |-> loader[p].source]
  <2>1. /\ f \in File /\ Downloaded(p) \in {"cut", "whole"}
        /\ f # Dictionary => Downloaded(p) = "whole"
    BY <1>1, Transferring DEF FilesInv, InScratch
  <2>2. models' \in [File -> Content]
    BY <1>3, <2>1 DEF FilesInv, Content
  <2>3. ModelsAreWhole'
    <3>1. Detector # Dictionary /\ Yolo # Dictionary
      BY FilesAssumption
    <3>2. models' = [models EXCEPT ![f] = Downloaded(p)] /\ models \in [File -> Content] /\ ModelsAreWhole
      BY <1>3 DEF FilesInv
    <3>. HIDE DEF f
    <3>3. /\ models'[Detector] \in {models[Detector], "whole"} /\ models'[Yolo] \in {models[Yolo], "whole"}
          /\ models'[Dictionary] \in {models[Dictionary], "cut", "whole"}
      BY <2>1, <3>1, <3>2, FileNames
    <3>. QED
      BY <3>2, <3>3 DEF ModelsAreWhole
  <2>4. new \in Loaders /\ new.at = "next" /\ OwnMove(p, new, f, "absent")
    BY <1>1, <1>3, Transferring DEF Loaders, Becomes, OwnMove, PartIs
  <2>. HIDE DEF new, f
  <2>. QED
    BY <2>1, <2>2, <2>3, <2>4, PlainMoveKeeps DEF Transfers, Content
<1>. QED
  BY <1>2, <1>3 DEF Rename

LEMMA UsingKeeps == ASSUME FilesInv, NEW p \in Server, BuildsEngine(p) \/ LoadsIcons(p) PROVE FilesInv'
<1>1. UNCHANGED <<models, parts>> /\ \E onto \in {"icons", "idle"} : Turns(p, onto)
  BY DEF BuildsEngine, LoadsIcons
<1>. QED
  BY <1>1, TurningKeeps DEF Transfers, Content

LEMMA DyingKeeps == ASSUME FilesInv, NEW p \in Server, Dies(p) PROVE FilesInv'
<1>1. Resting \in Loaders /\ Resting.at = "idle" /\ OwnMove(p, Resting, Yolo, "absent") /\ UNCHANGED models
  BY DEF Resting, Loaders, OwnMove, Dies
<1>. QED
  BY <1>1, PlainMoveKeeps, ModelsStay, FileNames DEF Transfers, Content

LEMMA FilesStep == FilesInv /\ [FilesNext]_fileVars => FilesInv'
<1>. SUFFICES ASSUME FilesInv, [FilesNext]_fileVars PROVE FilesInv'
  OBVIOUS
<1>1. CASE UNCHANGED fileVars
  BY <1>1 DEF fileVars, FilesInv, InScratch, ModelsAreWhole, Downloaded, Fetching
<1>2. ASSUME NEW p \in Server, (\E skip \in BOOLEAN : Ensure(p, skip)) \/ LoaderRuns(p) \/ Dies(p) PROVE FilesInv'
  BY <1>2, EnsureKeeps, NextFileKeeps, TransferKeeps, CheckKeeps, RenameKeeps, UsingKeeps, DyingKeeps DEF LoaderRuns
<1>. QED
  BY <1>1, <1>2 DEF FilesNext

LEMMA FilesStart == FilesInit => FilesInv /\ ProcessInv
<1>. SUFFICES ASSUME FilesInit PROVE FilesInv /\ ProcessInv
  OBVIOUS
<1>1. parts = [n \in Server \X File |-> "absent"]
  BY DEF FilesInit, PartOf
<1>2. Resting \in Loaders /\ Resting.at = "idle"
  BY DEF Resting, Loaders
<1>3. FilesInv
  BY <1>1, <1>2, FileNames DEF FilesInit, FilesInv, InScratch, Transfers, Content, ModelsAreWhole
<1>. QED
  BY <1>3, FilesAssumption DEF FilesInit, ProcessInv

\* What a process keeps in memory.
LEMMA ProcessStep == ProcessInv /\ [FilesNext]_fileVars => ProcessInv'
<1>. SUFFICES ASSUME ProcessInv, [FilesNext]_fileVars PROVE ProcessInv'
  OBVIOUS
<1>1. CASE UNCHANGED <<engine, icons, deaths>>
  BY <1>1 DEF ProcessInv
<1>2. ASSUME NEW p \in Server, BuildsEngine(p) PROVE ProcessInv'
  BY <1>2 DEF BuildsEngine, ProcessInv
<1>3. ASSUME NEW p \in Server, LoadsIcons(p) PROVE ProcessInv'
  BY <1>3 DEF LoadsIcons, ProcessInv
<1>4. ASSUME NEW p \in Server, Dies(p) PROVE ProcessInv'
  BY <1>4, FilesAssumption DEF Dies, ProcessInv
<1>5. ASSUME NEW p \in Server, \/ \E skip \in BOOLEAN : Ensure(p, skip)
                              \/ NextFile(p) \/ GetFails(p) \/ Get(p) \/ BodyFails(p)
                              \/ \E c \in {"page", "cut", "whole"} : Body(p, c)
                              \/ \E pinned \in BOOLEAN : ChecksBytes(p, pinned)
                              \/ TrialLoad(p) \/ Rename(p)
      PROVE  UNCHANGED <<engine, icons, deaths>>
  BY <1>5 DEF Ensure, NextFile, GetFails, Get, BodyFails, Body, ChecksBytes, TrialLoad, Rename
<1>6. UNCHANGED fileVars => UNCHANGED <<engine, icons, deaths>>
  BY DEF fileVars
<1>. QED
  BY <1>1, <1>2, <1>3, <1>4, <1>5, <1>6 DEF FilesNext, LoaderRuns

LEMMA FilesInvHolds == FilesSpec => []FilesInv /\ []ProcessInv
BY FilesStart, FilesStep, ProcessStep, PTL DEF FilesSpec

\* The types of the model files.
THEOREM FilesTypeCorrect == FilesSpec => []FilesTypeOK
<1>1. FilesInv /\ ProcessInv => FilesTypeOK
  BY DEF FilesInv, ProcessInv, FilesTypeOK
<1>. QED
  BY <1>1, FilesInvHolds, PTL

\* Models at their places are whole, whichever processes download them at once, die, or
\* are sent something else (ModelsAreWhole).
THEOREM ModelsStayWhole == FilesSpec => []ModelsAreWhole
<1>1. FilesInv => ModelsAreWhole
  BY DEF FilesInv
<1>. QED
  BY <1>1, FilesInvHolds, PTL

-----------------------------------------------------------------------------
(* All layers. *)

\* One layer runs and the others rest, so each of them does what it does alone.
THEOREM LayersRunAlone ==
    DesktopSpec => /\ TargetsSpec /\ VerifySpec /\ AxSpec /\ ServiceSpec /\ HudSpec
                   /\ ScreenSpec /\ FilesSpec
                   /\ ListingsInit /\ [][ListingsNext]_listVars
                   /\ TreeInit /\ [][TreeNext]_treeVars
<1>1. DesktopInit => /\ TargetsInit /\ VerifyInit /\ AxInit /\ ServiceInit /\ HudInit
                     /\ ScreenInit /\ FilesInit /\ ListingsInit /\ TreeInit
    BY DEF DesktopInit
<1>2. [DesktopNext]_desktopVars =>
          /\ [TargetsNext]_targetVars /\ [VerifyNext]_verifyVars /\ [AxNext]_axVars
          /\ [ServiceNext]_serviceVars /\ [HudNext]_hudVars
          /\ [ScreenNext]_screenVars /\ [FilesNext]_fileVars
          /\ [ListingsNext]_listVars /\ [TreeNext]_treeVars
    BY DEF DesktopNext, desktopVars
<1> QED
    BY <1>1, <1>2, PTL DEF DesktopSpec, TargetsSpec, VerifySpec, AxSpec, ServiceSpec, HudSpec, ScreenSpec,
                           FilesSpec

\* Nothing is done for a caller that has stopped waiting (NothingLate).
THEOREM NothingIsLate == DesktopSpec => []NothingLate
<1>1. NothingAfterGivingUp /\ NoLateStart => NothingLate
    BY DEF NothingLate
<1> QED BY <1>1, LayersRunAlone, NothingStartsLate, NotAfterGivingUp, PTL

\* The state of every layer is what it should be (DesktopTypeOK).
THEOREM DesktopTypeCorrect == DesktopSpec => []DesktopTypeOK
<1>1. DesktopInit => part \in Parts
    BY DEF DesktopInit
<1>2. part \in Parts /\ [DesktopNext]_desktopVars => (part \in Parts)'
    BY DEF DesktopNext, desktopVars
<1>3. DesktopSpec => [](part \in Parts)
    BY <1>1, <1>2, PTL DEF DesktopSpec
<1>4. DesktopSpec => [](/\ TargetsTypeOK /\ VerifyTypeOK /\ AxTypeOK /\ ServiceTypeOK /\ HudTypeOK
                        /\ ScreenTypeOK /\ FilesTypeOK /\ ListingsTypeOK /\ TreeTypeOK)
    BY LayersRunAlone, TargetsTypeCorrect, VerifyTypeCorrect, AxTypeCorrect, ServiceTypeCorrect, HudTypeCorrect,
       ScreenTypeCorrect, FilesTypeCorrect, ListingsTypeCorrect, TreeTypeCorrect, PTL
<1>5. part \in Parts /\ (/\ TargetsTypeOK /\ VerifyTypeOK /\ AxTypeOK /\ ServiceTypeOK /\ HudTypeOK
                         /\ ScreenTypeOK /\ FilesTypeOK /\ ListingsTypeOK /\ TreeTypeOK)
        => DesktopTypeOK
    BY DEF DesktopTypeOK
<1> QED BY <1>3, <1>4, <1>5, PTL

\* No model file, list of registered applications, listing followed to its end or tree
\* read page by page is passed off as whole that is not (NothingPartial).
THEOREM NothingIsPartial == DesktopSpec => []NothingPartial
<1>1. ModelsAreWhole /\ RegisteredStays /\ ListingIsWhole /\ PagesTile => NothingPartial
    BY DEF NothingPartial
<1> QED BY <1>1, LayersRunAlone, ModelsStayWhole, RegistrationsStay, ListingsAreWhole, TreePagesTile, PTL

\* And what each layer keeps to alone it keeps to among the others: what is answered has
\* lived, saved locators stick, verdicts are true, input goes where it was asked for and
\* leaves nothing behind, places are true, an action is its window's, a handle is forever.
THEOREM LayersKeepTheirWord ==
    DesktopSpec => /\ AnswersWhatLived /\ SavedSticks /\ VerdictsAreTrue /\ LeavesNothingBehind
                   /\ [](TypesWhereAsked /\ PlacesAreTrue /\ ActsOnItsWindow /\ HandleIsForever)
<1>1. DesktopSpec => AnswersWhatLived /\ SavedSticks /\ VerdictsAreTrue /\ LeavesNothingBehind
    BY LayersRunAlone, AnswersLived, SavedLocatorsStick, VerdictsHold, NothingLeftBehind
<1>2. DesktopSpec => [](TypesWhereAsked /\ PlacesAreTrue /\ ActsOnItsWindow /\ HandleIsForever)
    BY LayersRunAlone, KeysGoWhereAsked, PlacesTold, InItsWindow, HandlesAreForever, PTL
<1> QED BY <1>1, <1>2
==============================================================================
