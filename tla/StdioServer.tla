---------------------------- MODULE StdioServer ----------------------------
(***************************************************************************)
(* The stdio loop (serve and read_line_capped in                           *)
(* crates/nuphus-mcp/src/main.rs): the input arrives in chunks that need   *)
(* not end where lines do, a line is collected under a cap, and the rest   *)
(* of a line over the cap is drained.                                      *)
(***************************************************************************)
EXTENDS McpSession

CONSTANTS
    MaxChunk,       \* bound: bytes one read of stdin returns
    MaxBytes,       \* bound: bytes a client sends
    MaxFaults       \* bound: failing reads of stdin

ASSUME BoundsAssumption == MaxChunk \in Nat /\ MaxBytes \in Nat /\ MaxFaults \in Nat

VARIABLES
    buffer,         \* what BufReader holds
    line,           \* the bytes of the current line
    draining,       \* the current line is over the cap
    rest,           \* what has been drained of it
    eof,            \* the client has closed our stdin
    sent,           \* bytes read from stdin so far
    faults          \* failed reads so far

inputVars == <<buffer, line, draining, rest, eof, sent, faults>>
vars == <<inputVars, sessionVars>>

Init ==
    /\ SessionInit
    /\ buffer = <<>> /\ line = <<>> /\ rest = <<>>
    /\ draining = FALSE /\ eof = FALSE
    /\ sent = 0 /\ faults = 0

Chunk == UNION {[1 .. n -> Byte] : n \in 1 .. MaxChunk}

\* Where the next line feed of the buffer is, or its length.
Newline ==
    CHOOSE n \in 1 .. Len(buffer) :
        /\ \A i \in 1 .. n - 1 : buffer[i] # "LF"
        /\ n = Len(buffer) \/ buffer[n] = "LF"

Taken == SubSeq(buffer, 1, Newline)
Left == SubSeq(buffer, Newline + 1, Len(buffer))
Ended == buffer[Newline] = "LF"

\* The next line starts with empty buffers of its own.
NextLine == line' = <<>> /\ rest' = <<>> /\ draining' = FALSE

-----------------------------------------------------------------------------
\* fill_buf waits for the client.
Fill ==
    /\ Serving /\ buffer = <<>> /\ ~eof
    /\ \E chunk \in Chunk :
          /\ sent + Len(chunk) <= MaxBytes
          /\ sent' = sent + Len(chunk)
          /\ buffer' = chunk
    /\ UNCHANGED <<line, draining, rest, eof, faults, sessionVars>>

ClientCloses ==
    /\ Serving /\ buffer = <<>> /\ ~eof
    /\ eof' = TRUE
    /\ UNCHANGED <<buffer, line, draining, rest, sent, faults, sessionVars>>

\* A read of stdin fails: the loop answers as if the line were too long, and the
\* next iteration starts in the middle of it.
ReadFails ==
    /\ Serving /\ buffer = <<>> /\ ~eof
    /\ faults < MaxFaults
    /\ faults' = faults + 1
    /\ NextLine
    /\ Reject
    /\ UNCHANGED <<buffer, eof, sent>>

\* Mutant: the line feed is not counted.
OverCapLate == Len(line) + Newline > MaxLine + 1

\* The cap counts the line feed.
OverCap == Len(line) + Newline > MaxLine

Collect ==
    /\ Serving /\ buffer # <<>> /\ ~draining
    /\ IF OverCap
       THEN draining' = TRUE /\ UNCHANGED <<buffer, line, rest, sessionVars>>
       ELSE /\ buffer' = Left
            /\ IF Ended
               THEN NextLine /\ Process(line \o Taken)
               ELSE line' = line \o Taken /\ UNCHANGED <<draining, rest, sessionVars>>
    /\ UNCHANGED <<eof, sent, faults>>

\* Mutant: the answer does not wait for the end of the line.
DrainOneChunk ==
    /\ Serving /\ buffer # <<>> /\ draining
    /\ buffer' = Left
    /\ NextLine /\ Reject
    /\ UNCHANGED <<eof, sent, faults>>

Drain ==
    /\ Serving /\ buffer # <<>> /\ draining
    /\ buffer' = Left
    /\ IF Ended
       THEN NextLine /\ Reject
       ELSE rest' = rest \o Taken /\ UNCHANGED <<line, draining, sessionVars>>
    /\ UNCHANGED <<eof, sent, faults>>

\* The last line need not end with a line feed.
AtEof ==
    /\ Serving /\ buffer = <<>> /\ eof
    /\ NextLine
    /\ IF draining THEN Reject ELSE IF line # <<>> THEN Process(line) ELSE EndOfInput
    /\ UNCHANGED <<buffer, eof, sent, faults>>

ServerStep == Collect \/ Drain \/ AtEof

Next ==
    \/ Fill \/ ClientCloses \/ ReadFails
    \/ ClientGone /\ UNCHANGED inputVars
    \/ ServerStep

Spec == Init /\ [][Next]_vars

\* The loop handles what it has read.
FairSpec == Spec /\ WF_vars(ServerStep)

-----------------------------------------------------------------------------
TypeOK ==
    /\ SessionTypeOK
    /\ buffer \in Chunk \cup {<<>>}
    /\ line \in Seq(Byte) /\ Len(line) <= MaxLine
    /\ rest \in Seq(Byte) /\ draining \in BOOLEAN
    /\ eof \in BOOLEAN /\ sent \in 0 .. MaxBytes /\ faults \in 0 .. MaxFaults

\* However the input is cut into chunks, the server answers as if it read whole
\* lines: one answer to each line that is not a notification or blank, in order,
\* and after a line over the cap it goes on with the next one (main.rs lines 138 to
\* 141).
Lines == INSTANCE LineServer WITH inbox <- line \o rest \o buffer
ImplementsLines == Lines!LineSpec

\* Once the client has closed the input, what it sent is worked off and the process
\* ends, and it leaves no browser behind unless the client stopped reading answers
\* (main.rs lines 117 to 122).
ServesToTheEnd == eof ~> (~Serving /\ (browser => gone))

\* A process that has ended leaves no browser behind, however it ended.
NoOrphanedBrowser == ~Serving => ~browser

\* No line makes the reader hold more than the cap and one chunk of it.
BufferBounded == Len(line) + Len(rest) <= MaxLine + MaxChunk
=============================================================================
