----------------------------- MODULE LineServer -----------------------------
(***************************************************************************)
(* What the stdio server promises its client, whatever the pieces its      *)
(* input arrives in: lines are handled one at a time and in order, a line  *)
(* of more than MaxLine bytes (with its line feed) is rejected as a whole, *)
(* and the input after it is read from the next line on.                   *)
(***************************************************************************)
EXTENDS McpSession

VARIABLES
    inbox,          \* bytes received and not yet handled
    eof,            \* the client has closed our stdin
    faults          \* reads that failed

lineVars == <<inbox, eof, faults, sessionVars>>

LineInit == SessionInit /\ inbox = <<>> /\ eof = FALSE /\ faults = 0

HasLine == \E i \in DOMAIN inbox : inbox[i] = "LF"

\* The length of the first line of the inbox, which need not be complete.
FirstLine ==
    CHOOSE n \in 0 .. Len(inbox) :
        /\ \A i \in 1 .. n - 1 : inbox[i] # "LF"
        /\ n < Len(inbox) => n > 0 /\ inbox[n] = "LF"

Receive ==
    /\ Serving /\ ~eof
    /\ \/ eof' = TRUE /\ UNCHANGED inbox
       \/ /\ UNCHANGED eof
          /\ Len(inbox') > Len(inbox) /\ SubSeq(inbox', 1, Len(inbox)) = inbox
    /\ UNCHANGED <<faults, sessionVars>>

HandleLine ==
    /\ Serving
    /\ HasLine \/ (eof /\ inbox # <<>>)
    /\ inbox' = SubSeq(inbox, FirstLine + 1, Len(inbox))
    /\ IF FirstLine > MaxLine THEN Reject ELSE Process(SubSeq(inbox, 1, FirstLine))
    /\ UNCHANGED <<eof, faults>>

\* Reading fails: what has been received of a line is lost, and answered.
LoseLine ==
    /\ Serving /\ ~HasLine
    /\ inbox' = <<>>
    /\ faults' = faults + 1
    /\ Reject
    /\ UNCHANGED eof

Finish ==
    /\ Serving /\ eof /\ inbox = <<>>
    /\ EndOfInput
    /\ UNCHANGED <<inbox, eof, faults>>

LineNext ==
    \/ Receive \/ HandleLine \/ LoseLine \/ Finish
    \/ ClientGone /\ UNCHANGED <<inbox, eof, faults>>

LineSpec == LineInit /\ [][LineNext]_lineVars
=============================================================================
