-------------------------- MODULE StdioServerProofs --------------------------
(* Theorems about the stdio loop, for any cap, any input and any way it is cut  *)
(* into chunks.                                                                 *)
EXTENDS StdioServer, SequenceTheorems, WellFoundedInduction, TLAPS

-----------------------------------------------------------------------------
(* What a handler of the session does to the types. *)

LEMMA WritesTypes ==
    ASSUME SessionTypeOK, NEW answer, NEW after \in BOOLEAN,
           answer \in {"none", "error", "result", "tool_failure", "invalid_params",
                       "not_initialized", "too_large"},
           Writes(answer, after), UNCHANGED gone,
           session' \in [initialized : BOOLEAN, shutdown : BOOLEAN, exit : BOOLEAN]
    PROVE  SessionTypeOK'
BY DEF SessionTypeOK, Writes

LEMMA AnswersTypes ==
    ASSUME NEW message, NEW answer \in Answers(message)
    PROVE  answer \in {"none", "error", "result", "tool_failure", "invalid_params", "not_initialized"}
BY DEF Answers

LEMMA ProcessTypes == ASSUME SessionTypeOK, NEW text, Process(text) PROVE SessionTypeOK'
<1>. DEFINE message == Meaning(text)
<1>. HIDE DEF message
<1>1. session' = After(message) /\ UNCHANGED gone
  BY DEF Process, message
<1>2. session' \in [initialized : BOOLEAN, shutdown : BOOLEAN, exit : BOOLEAN]
  BY <1>1 DEF After, SessionTypeOK
<1>3. PICK answer \in Answers(message), after \in Launches(message) :
          IF session'.exit /\ ~(answer # "none" /\ gone)
          THEN reply' = answer /\ Leaves(IF session.shutdown THEN 0 ELSE 1)
          ELSE Writes(answer, after)
  BY DEF Process, message
<1>4. after \in BOOLEAN
  BY DEF Launches, SessionTypeOK
<1>5. answer \in {"none", "error", "result", "tool_failure", "invalid_params", "not_initialized"}
  BY AnswersTypes
<1>6. CASE Writes(answer, after)
  BY <1>1, <1>2, <1>4, <1>5, <1>6, WritesTypes
<1>7. CASE reply' = answer /\ Leaves(IF session.shutdown THEN 0 ELSE 1)
  BY <1>1, <1>2, <1>5, <1>7 DEF Leaves, ShutdownBrowser, SessionTypeOK
<1>. QED
  BY <1>3, <1>6, <1>7

LEMMA RejectTypes == ASSUME SessionTypeOK, Reject PROVE SessionTypeOK'
<1>1. session' \in [initialized : BOOLEAN, shutdown : BOOLEAN, exit : BOOLEAN] /\ browser \in BOOLEAN
  BY DEF Reject, SessionTypeOK
<1>. QED
  BY <1>1, WritesTypes DEF Reject

-----------------------------------------------------------------------------
(* Where the next line feed is. *)

Clean(text) == \A i \in 1 .. Len(text) : text[i] # "LF"

\* A set of numbers that is not empty has a least element.
LEMMA Least ==
    ASSUME NEW S \in SUBSET Nat, S # {}
    PROVE  \E n \in S : \A m \in S : n <= m
<1>. DEFINE Below == {ss \in Nat \X Nat : ss[1] < ss[2]}
<1>1. IsWellFoundedOn(Below, Nat)
  BY NatLessThanWellFounded DEF OpToRel
<1>2. PICK n \in S : \A m \in S : ~ (<<m, n>> \in Below)
  <2>. HIDE DEF Below
  <2>. QED
    BY <1>1, WFMin
<1>3. ASSUME NEW m \in S PROVE n <= m
  <2>1. m \in Nat /\ n \in Nat
    OBVIOUS
  <2>2. m < n => <<m, n>> \in Below
    BY <2>1
  <2>3. ~ (m < n)
    BY <1>2, <2>2
  <2>. QED
    BY <2>1, <2>3
<1>. QED
  BY <1>3

\* A text that is not empty has a first line, which need not be complete.
LEMMA FirstStop ==
    ASSUME NEW text \in Seq(Byte), text # <<>>
    PROVE  \E n \in 1 .. Len(text) : /\ \A i \in 1 .. n - 1 : text[i] # "LF"
                                     /\ n = Len(text) \/ text[n] = "LF"
<1>. DEFINE Stops == {n \in 1 .. Len(text) : n = Len(text) \/ text[n] = "LF"}
<1>1. Len(text) \in Stops
  BY EmptySeq
<1>2. PICK n \in Stops : \A m \in Stops : n <= m
  BY <1>1, Least, Stops \in SUBSET Nat
<1>3. n \in 1 .. Len(text) /\ (n = Len(text) \/ text[n] = "LF")
  OBVIOUS
<1>4. ASSUME NEW i \in 1 .. n - 1 PROVE text[i] # "LF"
  <2>1. i \in 1 .. Len(text) /\ ~(n <= i)
    BY <1>3, LenProperties
  <2>. QED
    BY <1>2, <2>1
<1>. QED
  BY <1>3, <1>4

LEMMA NewlineProperties ==
    ASSUME buffer \in Seq(Byte), buffer # <<>>
    PROVE  /\ Newline \in 1 .. Len(buffer)
           /\ \A i \in 1 .. Newline - 1 : buffer[i] # "LF"
           /\ Newline = Len(buffer) \/ buffer[Newline] = "LF"
BY FirstStop DEF Newline

\* What is taken of the buffer and what is left are the buffer.
LEMMA TakenAndLeft ==
    ASSUME buffer \in Seq(Byte), buffer # <<>>
    PROVE  /\ Taken \in Seq(Byte) /\ Len(Taken) = Newline
           /\ \A i \in 1 .. Newline : Taken[i] = buffer[i]
           /\ Left \in Seq(Byte) /\ Len(Left) = Len(buffer) - Newline
           /\ Taken \o Left = buffer
           /\ ~Ended => Clean(Taken) /\ Left = <<>>
<1>1. Newline \in 1 .. Len(buffer) /\ Len(buffer) \in Nat
  BY NewlineProperties, LenProperties
<1>2. \A i \in 1 .. Len(buffer) : buffer[i] \in Byte
  BY ElementOfSeq
<1>3. /\ Taken \in Seq(Byte) /\ Len(Taken) = Newline
      /\ \A i \in 1 .. Newline : Taken[i] = buffer[i]
  <2>1. \A i \in 1 .. Newline : buffer[i] \in Byte
    BY <1>1, <1>2
  <2>2. /\ SubSeq(buffer, 1, Newline) \in Seq(Byte)
        /\ Len(SubSeq(buffer, 1, Newline)) = IF 1 <= Newline THEN Newline - 1 + 1 ELSE 0
        /\ \A i \in 1 .. Newline - 1 + 1 : SubSeq(buffer, 1, Newline)[i] = buffer[1 + i - 1]
    <3>. HIDE DEF Newline
    <3>. QED
      BY <1>1, <2>1, SubSeqProperties
  <2>. QED
    BY <1>1, <2>2 DEF Taken
<1>4. Left \in Seq(Byte) /\ Len(Left) = Len(buffer) - Newline
  <2>1. \A i \in Newline + 1 .. Len(buffer) : buffer[i] \in Byte
    BY <1>1, <1>2
  <2>2. /\ SubSeq(buffer, Newline + 1, Len(buffer)) \in Seq(Byte)
        /\ Len(SubSeq(buffer, Newline + 1, Len(buffer)))
              = IF Newline + 1 <= Len(buffer) THEN Len(buffer) - (Newline + 1) + 1 ELSE 0
    BY <1>1, <2>1, SubSeqProperties
  <2>. QED
    BY <1>1, <2>2 DEF Left
<1>5. Taken \o Left = buffer
  <2>1. SubSeq(buffer, 1, Newline) \o SubSeq(buffer, Newline + 1, Len(buffer)) = SubSeq(buffer, 1, Len(buffer))
    BY <1>1, ConcatAdjacentSubSeq
  <2>. QED
    BY <2>1, SubSeqFull DEF Taken, Left
<1>6. ASSUME ~Ended PROVE Clean(Taken) /\ Left = <<>>
  <2>1. Newline = Len(buffer) /\ buffer[Newline] # "LF"
    BY <1>6, NewlineProperties DEF Ended
  <2>2. Left = <<>>
    BY <1>4, <2>1, EmptySeq
  <2>3. \A i \in 1 .. Newline : buffer[i] # "LF"
    BY <1>1, <2>1, NewlineProperties
  <2>. QED
    BY <1>3, <2>2, <2>3 DEF Clean
<1>. QED
  BY <1>3, <1>4, <1>5, <1>6

-----------------------------------------------------------------------------
(* The types, and what the reader knows of the line it is in. *)

\* How much of the current line is at hand: what has been read of it, and what the buffer
\* holds of it.
AtHand == Len(line) + Len(rest) + (IF buffer = <<>> THEN 0 ELSE Newline)

\* A line is only drained when it is over the cap, and what has been read of it has no
\* line feed.
StdioInv ==
    /\ TypeOK
    /\ Clean(line) /\ Clean(rest)
    /\ ~draining => rest = <<>>
    /\ draining => AtHand > MaxLine

LEMMA BufferIsSeq == ASSUME TypeOK PROVE buffer \in Seq(Byte)
<1>1. CASE buffer = <<>>
  BY <1>1, EmptySeq
<1>2. CASE buffer \in Chunk
  BY <1>2, SeqDef, BoundsAssumption DEF Chunk
<1>. QED
  BY <1>1, <1>2 DEF TypeOK

\* What a read leaves is a shorter chunk.
LEMMA LeftIsChunk ==
    ASSUME TypeOK, buffer # <<>>
    PROVE  Left \in Chunk \cup {<<>>}
<1>1. buffer \in Seq(Byte) /\ Newline \in 1 .. Len(buffer)
  BY BufferIsSeq, NewlineProperties
<1>2. Left \in Seq(Byte) /\ Len(Left) = Len(buffer) - Newline
  BY <1>1, TakenAndLeft
<1>3. Len(buffer) \in 1 .. MaxChunk
  <2>1. PICK n \in 1 .. MaxChunk : buffer \in [1 .. n -> Byte]
    BY DEF TypeOK, Chunk
  <2>2. DOMAIN buffer = 1 .. n /\ DOMAIN buffer = 1 .. Len(buffer) /\ Len(buffer) \in Nat
    BY <1>1, <2>1, LenProperties
  <2>. QED
    BY <2>1, <2>2, BoundsAssumption
<1>4. CASE Len(Left) = 0
  BY <1>2, <1>4, EmptySeq
<1>5. CASE Len(Left) # 0
  <2>1. Len(Left) \in 1 .. MaxChunk
    BY <1>1, <1>2, <1>3, <1>5, BoundsAssumption
  <2>2. Left \in [1 .. Len(Left) -> Byte]
    BY <1>2, LenProperties
  <2>. QED
    BY <2>1, <2>2 DEF Chunk
<1>. QED
  BY <1>4, <1>5

\* A line is joined with what follows it.
LEMMA Joins ==
    ASSUME NEW s \in Seq(Byte), NEW t \in Seq(Byte)
    PROVE  /\ s \o t \in Seq(Byte) /\ Len(s \o t) = Len(s) + Len(t)
           /\ Clean(s) /\ Clean(t) => Clean(s \o t)
<1>1. /\ s \o t \in Seq(Byte) /\ Len(s \o t) = Len(s) + Len(t)
      /\ \A i \in 1 .. Len(s) + Len(t) :
            (s \o t)[i] = IF i <= Len(s) THEN s[i] ELSE t[i - Len(s)]
  BY ConcatProperties
<1>2. Len(s) \in Nat /\ Len(t) \in Nat
  BY LenProperties
<1>3. ASSUME Clean(s), Clean(t), NEW i \in 1 .. Len(s \o t) PROVE (s \o t)[i] # "LF"
  <2>1. CASE i <= Len(s)
    BY <1>1, <1>2, <1>3, <2>1 DEF Clean
  <2>2. CASE ~(i <= Len(s))
    <3>1. i - Len(s) \in 1 .. Len(t) /\ (s \o t)[i] = t[i - Len(s)]
      BY <1>1, <1>2, <2>2
    <3>. QED
      BY <1>3, <3>1 DEF Clean
  <2>. QED
    BY <2>1, <2>2
<1>. QED
  BY <1>1, <1>3 DEF Clean

LEMMA StdioInit == ASSUME Init PROVE StdioInv
<1>1. SessionTypeOK
  BY DEF Init, SessionInit, SessionTypeOK
<1>2. <<>> \in Seq(Byte) /\ Len(<<>>) = 0 /\ Clean(<<>>)
  BY EmptySeq DEF Clean
<1>3. draining \in BOOLEAN /\ eof \in BOOLEAN
  BY DEF Init
<1>4. sent \in 0 .. MaxBytes /\ faults \in 0 .. MaxFaults
  BY BoundsAssumption DEF Init
<1>5. line \in Seq(Byte) /\ Len(line) <= MaxLine
  BY <1>2, SessionAssumption DEF Init
<1>6. rest \in Seq(Byte) /\ buffer \in Chunk \cup {<<>>}
  BY <1>2 DEF Init
<1>7. Clean(line) /\ Clean(rest) /\ rest = <<>> /\ ~draining
  BY <1>2 DEF Init
<1>. QED
  BY <1>1, <1>3, <1>4, <1>5, <1>6, <1>7 DEF TypeOK, StdioInv

\* The next line starts well, whatever the buffer holds.
LEMMA FreshLine ==
    ASSUME NextLine, SessionTypeOK', buffer' \in Chunk \cup {<<>>}, eof' \in BOOLEAN,
           sent' \in 0 .. MaxBytes, faults' \in 0 .. MaxFaults
    PROVE  StdioInv'
<1>1. <<>> \in Seq(Byte) /\ Len(<<>>) = 0 /\ Clean(<<>>)
  BY EmptySeq DEF Clean
<1>2. line' \in Seq(Byte) /\ Len(line') <= MaxLine /\ rest' \in Seq(Byte)
  BY <1>1, SessionAssumption DEF NextLine
<1>3. Clean(line)' /\ Clean(rest)'
  BY <1>1 DEF NextLine, Clean
<1>4. draining' = FALSE /\ draining' \in BOOLEAN /\ rest' = <<>>
  BY DEF NextLine
<1>. QED
  BY <1>2, <1>3, <1>4 DEF StdioInv, TypeOK

LEMMA StdioStep == ASSUME StdioInv, [Next]_vars PROVE StdioInv'
<1>. USE SessionAssumption, BoundsAssumption
<1>0. /\ buffer \in Seq(Byte) /\ line \in Seq(Byte) /\ rest \in Seq(Byte)
      /\ Len(line) \in Nat /\ Len(rest) \in Nat /\ SessionTypeOK
      /\ <<>> \in Seq(Byte) /\ Len(<<>>) = 0 /\ Clean(<<>>)
  BY BufferIsSeq, LenProperties, EmptySeq DEF StdioInv, TypeOK, Clean
<1>1. CASE Fill
  <2>1. UNCHANGED <<line, draining, rest, eof, faults, sessionVars>> /\ buffer = <<>>
    BY <1>1 DEF Fill
  <2>2. PICK chunk \in Chunk : sent + Len(chunk) <= MaxBytes /\ sent' = sent + Len(chunk) /\ buffer' = chunk
    BY <1>1 DEF Fill
  <2>3. Len(chunk) \in Nat /\ chunk \in Seq(Byte)
    BY <2>2, SeqDef, LenProperties DEF Chunk
  <2>4. TypeOK'
    BY <2>1, <2>2, <2>3 DEF StdioInv, TypeOK, SessionTypeOK, sessionVars
  <2>5. draining => AtHand' > MaxLine
    <3>1. buffer' # <<>> => Newline' \in 1 .. Len(buffer')
      BY <2>2, <2>3, FirstStop DEF Newline
    <3>. QED
      BY <1>0, <2>1, <2>2, <2>3, <3>1 DEF StdioInv, AtHand
  <2>. QED
    BY <2>1, <2>4, <2>5 DEF StdioInv, Clean
<1>2. CASE ClientCloses
  BY <1>2 DEF ClientCloses, StdioInv, TypeOK, SessionTypeOK, sessionVars, AtHand, Newline, Clean
<1>3. CASE ReadFails
  <2>1. SessionTypeOK'
    BY <1>0, <1>3, RejectTypes DEF ReadFails
  <2>2. UNCHANGED <<buffer, eof, sent>> /\ faults' \in 0 .. MaxFaults /\ NextLine
    BY <1>3 DEF ReadFails, StdioInv, TypeOK
  <2>. QED
    BY <1>0, <2>1, <2>2, FreshLine DEF StdioInv, TypeOK
<1>4. CASE ClientGone /\ UNCHANGED inputVars
  BY <1>4 DEF ClientGone, inputVars, StdioInv, TypeOK, SessionTypeOK, AtHand, Newline, Clean
<1>5. ASSUME buffer # <<>>
      PROVE  /\ Newline \in 1 .. Len(buffer) /\ Taken \in Seq(Byte) /\ Len(Taken) = Newline
             /\ Left \in Chunk \cup {<<>>}
             /\ ~Ended => Clean(Taken) /\ Left = <<>>
  BY <1>0, <1>5, NewlineProperties, TakenAndLeft, LeftIsChunk DEF StdioInv
<1>6. CASE Collect
  <2>1. UNCHANGED <<eof, sent, faults>> /\ buffer # <<>> /\ ~draining /\ rest = <<>>
    BY <1>6 DEF Collect, StdioInv
  <2>2. CASE OverCap
    <3>1. draining' = TRUE /\ UNCHANGED <<buffer, line, rest, sessionVars>>
      BY <1>6, <2>2 DEF Collect
    <3>2. Newline' = Newline /\ AtHand > MaxLine
      BY <1>0, <1>5, <2>1, <2>2, <3>1 DEF Newline, AtHand, OverCap
    <3>. QED
      BY <2>1, <3>1, <3>2 DEF StdioInv, TypeOK, SessionTypeOK, sessionVars, AtHand, Clean
  <2>3. CASE ~OverCap /\ Ended
    <3>1. buffer' = Left /\ NextLine /\ Process(line \o Taken)
      BY <1>6, <2>3 DEF Collect
    <3>2. SessionTypeOK'
      BY <1>0, <3>1, ProcessTypes
    <3>. QED
      BY <1>0, <1>5, <2>1, <3>1, <3>2, FreshLine DEF StdioInv, TypeOK
  <2>4. CASE ~OverCap /\ ~Ended
    <3>1. buffer' = Left /\ line' = line \o Taken /\ UNCHANGED <<draining, rest, sessionVars>>
      BY <1>6, <2>4 DEF Collect
    <3>2. line' \in Seq(Byte) /\ Len(line') <= MaxLine /\ Clean(line')
      BY <1>0, <1>5, <2>1, <2>4, <3>1, Joins DEF OverCap, StdioInv
    <3>. QED
      BY <1>5, <2>1, <3>1, <3>2 DEF StdioInv, TypeOK, SessionTypeOK, sessionVars, Clean
  <2>. QED
    BY <2>2, <2>3, <2>4
<1>7. CASE Drain
  <2>1. UNCHANGED <<eof, sent, faults>> /\ buffer # <<>> /\ draining /\ buffer' = Left
    BY <1>7 DEF Drain
  <2>2. CASE Ended
    <3>1. NextLine /\ SessionTypeOK'
      BY <1>0, <1>7, <2>2, RejectTypes DEF Drain
    <3>. QED
      BY <1>0, <1>5, <2>1, <3>1, FreshLine DEF StdioInv, TypeOK
  <2>3. CASE ~Ended
    <3>1. rest' = rest \o Taken /\ UNCHANGED <<line, draining, sessionVars>>
      BY <1>7, <2>3 DEF Drain
    <3>2. rest' \in Seq(Byte) /\ Len(rest') = Len(rest) + Newline /\ Clean(rest')
      BY <1>0, <1>5, <2>1, <2>3, <3>1, Joins DEF StdioInv
    <3>3. buffer' = <<>>
      BY <1>5, <2>1, <2>3
    <3>4. AtHand' > MaxLine
      BY <1>0, <1>5, <2>1, <3>1, <3>2, <3>3 DEF AtHand, StdioInv
    <3>. QED
      BY <2>1, <3>1, <3>2, <3>3, <3>4 DEF StdioInv, TypeOK, SessionTypeOK, sessionVars, Clean
  <2>. QED
    BY <2>2, <2>3
<1>8. CASE AtEof
  <2>1. UNCHANGED <<buffer, eof, sent, faults>> /\ NextLine
    BY <1>8 DEF AtEof
  <2>2. CASE Reject
    BY <1>0, <2>1, <2>2, RejectTypes, FreshLine DEF StdioInv, TypeOK
  <2>3. CASE Process(line)
    BY <1>0, <2>1, <2>3, ProcessTypes, FreshLine DEF StdioInv, TypeOK
  <2>4. CASE EndOfInput
    <3>1. SessionTypeOK'
      BY <1>0, <2>4 DEF EndOfInput, Leaves, ShutdownBrowser, SessionTypeOK
    <3>. QED
      BY <1>0, <2>1, <3>1, FreshLine DEF StdioInv, TypeOK
  <2>. QED
    BY <1>8, <2>2, <2>3, <2>4 DEF AtEof
<1>9. CASE UNCHANGED vars
  BY <1>9 DEF vars, inputVars, sessionVars, StdioInv, TypeOK, SessionTypeOK, AtHand, Newline, Clean
<1>. QED
  BY <1>1, <1>2, <1>3, <1>4, <1>6, <1>7, <1>8, <1>9 DEF Next, ServerStep

LEMMA StdioInvariant == Spec => []StdioInv
BY StdioInit, StdioStep, PTL DEF Spec

\* The reader's buffers and the session stay what they are meant to be: no line that is
\* collected passes the cap (read_line_capped, main.rs).
THEOREM TypeCorrect == Spec => []TypeOK
<1>1. StdioInv => TypeOK
  BY DEF StdioInv
<1>. QED
  BY <1>1, StdioInvariant, PTL

-----------------------------------------------------------------------------
(* The server implements LineServer. *)

\* What the abstract server has received and not handled.
Unread == line \o rest \o buffer

\* The two modules mean the same by the handler of a line.
LEMMA SameHandlers ==
    /\ \A text : Process(text) => Lines!Process(text)
    /\ Reject => Lines!Reject
    /\ EndOfInput => Lines!EndOfInput
    /\ ClientGone => Lines!ClientGone
    /\ Serving <=> Lines!Serving
    /\ UNCHANGED sessionVars => UNCHANGED Lines!sessionVars
<1>1. \A text : Meaning(text) = Lines!Meaning(text)
  BY DEF Meaning, Words, Lines!Meaning, Lines!Words
<1>2. \A message : /\ After(message) = Lines!After(message)
                   /\ Answers(message) = Lines!Answers(message)
                   /\ Launches(message) = Lines!Launches(message)
  BY DEF After, Answers, Launches, Lines!After, Lines!Answers, Lines!Launches
<1>3. \A answer, after : Writes(answer, after) <=> Lines!Writes(answer, after)
  BY DEF Writes, Lines!Writes
<1>4. \A exitCode : Leaves(exitCode) <=> Lines!Leaves(exitCode)
  BY DEF Leaves, ShutdownBrowser, Lines!Leaves, Lines!ShutdownBrowser
<1>5. ASSUME NEW text, Process(text) PROVE Lines!Process(text)
  BY <1>1, <1>2, <1>3, <1>4, <1>5 DEF Process, Lines!Process
<1>. QED
  BY <1>3, <1>4, <1>5 DEF Reject, EndOfInput, ClientGone, Serving, sessionVars,
     Lines!Reject, Lines!EndOfInput, Lines!ClientGone, Lines!Serving, Lines!sessionVars

\* Two texts that were joined come apart again.
LEMMA Cut ==
    ASSUME NEW s \in Seq(Byte), s # <<>>, NEW t \in Seq(Byte)
    PROVE  /\ SubSeq(s \o t, 1, Len(s)) = s
           /\ SubSeq(s \o t, Len(s) + 1, Len(s \o t)) = t
<1>1. Len(s) \in Nat \ {0} /\ Len(t) \in Nat /\ Len(s \o t) = Len(s) + Len(t)
  BY EmptySeq, LenProperties, ConcatProperties
<1>2. SubSeq(s \o t, 1, Len(s)) = s
  <2>1. SubSeq(s \o t, 1, Len(s)) = SubSeq(s, 1, Len(s))
    BY <1>1, SubSeqOfConcat1
  <2>. QED
    BY <2>1, SubSeqFull
<1>3. CASE t = <<>>
  <2>1. SubSeq(s \o t, Len(s) + 1, Len(s \o t)) = <<>>
    BY <1>1, <1>3, EmptySeq, SubSeqEmpty
  <2>. QED
    BY <1>2, <1>3, <2>1
<1>4. CASE t # <<>>
  <2>1. Len(t) > 0
    BY <1>1, <1>4, EmptySeq
  <2>2. SubSeq(s \o t, Len(s) + 1, Len(s) + Len(t)) = SubSeq(t, Len(s) + 1 - Len(s), Len(s) + Len(t) - Len(s))
    BY <1>1, <2>1, SubSeqOfConcat2
  <2>3. Len(s) + 1 - Len(s) = 1 /\ Len(s) + Len(t) - Len(s) = Len(t)
    BY <1>1
  <2>. QED
    BY <1>1, <1>2, <2>2, <2>3, SubSeqFull
<1>. QED
  BY <1>3, <1>4

\* Where the first line ends is settled.
LEMMA FirstLineIs ==
    ASSUME Unread \in Seq(Byte), NEW n \in 0 .. Len(Unread),
           \A i \in 1 .. n - 1 : Unread[i] # "LF",
           n < Len(Unread) => n > 0 /\ Unread[n] = "LF"
    PROVE  Lines!FirstLine = n
<1>. DEFINE Ends(k) == /\ \A i \in 1 .. k - 1 : Unread[i] # "LF"
                       /\ k < Len(Unread) => k > 0 /\ Unread[k] = "LF"
<1>1. Len(Unread) \in Nat
  BY LenProperties
<1>2. ASSUME NEW k \in 0 .. Len(Unread), Ends(k) PROVE k = n
  <2>1. CASE k < n
    BY <1>1, <1>2, <2>1
  <2>2. CASE n < k
    BY <1>1, <1>2, <2>2
  <2>. QED
    BY <1>1, <2>1, <2>2
<1>3. Ends(n)
  OBVIOUS
<1>4. Lines!FirstLine = CHOOSE k \in 0 .. Len(Unread) : Ends(k)
  BY DEF Lines!FirstLine, Unread
<1>. HIDE DEF Ends
<1>. QED
  BY <1>2, <1>3, <1>4

\* With a line feed in the buffer, the first line is what has been read of it and what is
\* taken now.
LEMMA FirstLineEnded ==
    ASSUME NEW text \in Seq(Byte), Clean(text), buffer \in Seq(Byte), buffer # <<>>,
           Unread = text \o buffer, Ended
    PROVE  /\ Lines!HasLine
           /\ Lines!FirstLine = Len(text) + Newline
           /\ SubSeq(Unread, 1, Lines!FirstLine) = text \o Taken
           /\ SubSeq(Unread, Lines!FirstLine + 1, Len(Unread)) = Left
<1>. DEFINE end == Len(text) + Newline
<1>1. /\ Newline \in 1 .. Len(buffer) /\ buffer[Newline] = "LF"
      /\ \A i \in 1 .. Newline - 1 : buffer[i] # "LF"
      /\ Len(text) \in Nat /\ Len(buffer) \in Nat
  BY NewlineProperties, LenProperties DEF Ended
<1>2. /\ Taken \in Seq(Byte) /\ Len(Taken) = Newline /\ Left \in Seq(Byte)
      /\ Taken \o Left = buffer
  BY TakenAndLeft
<1>3. /\ Unread \in Seq(Byte) /\ Len(Unread) = Len(text) + Len(buffer)
      /\ \A i \in 1 .. Len(text) + Len(buffer) :
            Unread[i] = IF i <= Len(text) THEN text[i] ELSE buffer[i - Len(text)]
  BY ConcatProperties
<1>4. end \in 1 .. Len(Unread) /\ Unread[end] = "LF"
  BY <1>1, <1>3
<1>5. Lines!HasLine
  BY <1>3, <1>4, LenProperties DEF Lines!HasLine, Unread
<1>6. Lines!FirstLine = end
  <2>1. ASSUME NEW i \in 1 .. end - 1 PROVE Unread[i] # "LF"
    <3>1. CASE i <= Len(text)
      BY <1>1, <1>3, <3>1 DEF Clean
    <3>2. CASE ~(i <= Len(text))
      <4>1. i - Len(text) \in 1 .. Newline - 1 /\ Unread[i] = buffer[i - Len(text)]
        BY <1>1, <1>3, <3>2
      <4>. QED
        BY <1>1, <4>1
    <3>. QED
      BY <3>1, <3>2
  <2>. HIDE DEF end
  <2>. QED
    BY <1>3, <1>4, <2>1, FirstLineIs
<1>7. text \o Taken \in Seq(Byte) /\ Len(text \o Taken) = end
  BY <1>2, Joins
<1>8. text \o Taken # <<>>
  <2>1. Len(<<>>) = 0 /\ end # 0
    BY <1>1, EmptySeq
  <2>2. Len(text \o Taken) # Len(<<>>)
    BY <1>7, <2>1
  <2>. QED
    BY <2>2
<1>9. Unread = (text \o Taken) \o Left
  <2>1. Taken \in Seq(Byte)
    BY <1>2
  <2>2. Left \in Seq(Byte)
    BY <1>2
  <2>3. text \in Seq(Byte)
    OBVIOUS
  <2>4. (text \o Taken) \o Left = text \o (Taken \o Left)
    BY <2>1, <2>2, <2>3, ConcatAssociative
  <2>. QED
    BY <1>2, <2>4
<1>10. /\ SubSeq(Unread, 1, end) = text \o Taken
       /\ SubSeq(Unread, end + 1, Len(Unread)) = Left
  <2>. DEFINE first == text \o Taken
  <2>. HIDE DEF first, end
  <2>1. first \in Seq(Byte) /\ first # <<>> /\ Len(first) = end /\ Unread = first \o Left
    BY <1>7, <1>8, <1>9 DEF first
  <2>2. SubSeq(first \o Left, 1, Len(first)) = first /\ SubSeq(first \o Left, Len(first) + 1, Len(first \o Left)) = Left
    BY <1>2, <2>1, Cut
  <2>. QED
    BY <2>1, <2>2 DEF first
<1>. QED
  BY <1>5, <1>6, <1>10

\* Without one, all that has been received is the first line.
LEMMA FirstLineOpen ==
    ASSUME Unread \in Seq(Byte), Clean(Unread)
    PROVE  ~Lines!HasLine /\ Lines!FirstLine = Len(Unread)
<1>1. Len(Unread) \in Nat /\ DOMAIN Unread = 1 .. Len(Unread)
  BY LenProperties
<1>2. Lines!FirstLine = Len(Unread)
  BY <1>1, FirstLineIs DEF Clean
<1>. QED
  BY <1>1, <1>2 DEF Lines!HasLine, Unread, Clean

\* What there is to know of the pieces before a step.
LEMMA Pieces ==
    ASSUME StdioInv
    PROVE  /\ buffer \in Seq(Byte) /\ line \in Seq(Byte) /\ rest \in Seq(Byte)
           /\ Len(line) \in Nat /\ Len(rest) \in Nat
           /\ line \o rest \in Seq(Byte) /\ Clean(line \o rest)
           /\ Len(line \o rest) = Len(line) + Len(rest)
           /\ Unread \in Seq(Byte)
           /\ buffer = <<>> => Unread = line \o rest
           /\ ~draining => line \o rest = line
<1>1. buffer \in Seq(Byte) /\ line \in Seq(Byte) /\ rest \in Seq(Byte)
  BY BufferIsSeq DEF StdioInv, TypeOK
<1>2. line \o rest \in Seq(Byte) /\ Clean(line \o rest) /\ Len(line \o rest) = Len(line) + Len(rest)
  BY <1>1, Joins DEF StdioInv
<1>3. Unread \in Seq(Byte)
  BY <1>1, <1>2, ConcatProperties DEF Unread
<1>4. buffer = <<>> => Unread = line \o rest
  BY <1>2, ConcatEmptySeq DEF Unread
<1>5. ~draining => line \o rest = line
  BY <1>1, ConcatEmptySeq DEF StdioInv
<1>. QED
  BY <1>1, <1>2, <1>3, <1>4, <1>5, LenProperties

\* After a line has been handled nothing is left but the buffer.
LEMMA OnlyTheBuffer ==
    ASSUME NextLine, buffer' \in Seq(Byte)
    PROVE  Unread' = buffer'
<1>1. <<>> \o <<>> = <<>>
  BY EmptySeq, ConcatEmptySeq
<1>. QED
  BY <1>1, ConcatEmptySeq DEF NextLine, Unread

LEMMA LinesStep == ASSUME StdioInv, [Next]_vars PROVE [Lines!LineNext]_(Lines!lineVars)
<1>. USE DEF Lines!LineNext
<1>0. /\ buffer \in Seq(Byte) /\ line \in Seq(Byte) /\ rest \in Seq(Byte)
      /\ Len(line) \in Nat /\ Len(rest) \in Nat
      /\ line \o rest \in Seq(Byte) /\ Clean(line \o rest)
      /\ Len(line \o rest) = Len(line) + Len(rest) /\ Unread \in Seq(Byte)
      /\ Unread = (line \o rest) \o buffer
      /\ buffer = <<>> => Unread = line \o rest
      /\ ~draining => line \o rest = line
  BY Pieces DEF Unread
<1>a. Unread' = Unread /\ UNCHANGED <<eof, faults, sessionVars>> => UNCHANGED Lines!lineVars
  BY SameHandlers DEF Lines!lineVars, Unread
<1>1. CASE Fill
  <2>1. /\ Serving /\ ~eof /\ buffer = <<>>
        /\ UNCHANGED <<line, draining, rest, eof, faults, sessionVars>>
    BY <1>1 DEF Fill
  <2>2. buffer' \in Seq(Byte) /\ buffer' # <<>>
    <3>1. PICK n \in 1 .. MaxChunk : buffer' \in [1 .. n -> Byte]
      BY <1>1 DEF Fill, Chunk
    <3>2. n \in Nat /\ buffer' \in Seq(Byte)
      BY <3>1, SeqDef, BoundsAssumption
    <3>3. DOMAIN buffer' = 1 .. n /\ 1 \in 1 .. n
      BY <3>1, BoundsAssumption
    <3>. QED
      BY <3>2, <3>3, LenProperties, EmptySeq
  <2>3. Unread' = Unread \o buffer'
    BY <1>0, <2>1 DEF Unread
  <2>4. Len(Unread') > Len(Unread) /\ SubSeq(Unread', 1, Len(Unread)) = Unread
    <3>1. Len(buffer') \in Nat \ {0} /\ Len(Unread) \in Nat
      BY <1>0, <2>2, EmptySeq, LenProperties
    <3>2. Len(Unread') = Len(Unread) + Len(buffer')
      BY <1>0, <2>2, <2>3, ConcatProperties
    <3>3. CASE Unread # <<>>
      <4>1. SubSeq(Unread \o buffer', 1, Len(Unread)) = Unread
        BY <1>0, <2>2, <3>3, Cut
      <4>. QED
        BY <2>3, <3>1, <3>2, <4>1
    <3>4. CASE Unread = <<>>
      <4>1. SubSeq(Unread', 1, 0) = <<>>
        BY SubSeqEmpty
      <4>. QED
        BY <3>1, <3>2, <3>4, <4>1, EmptySeq
    <3>. QED
      BY <3>3, <3>4
  <2>. QED
    BY <2>1, <2>4, SameHandlers DEF Lines!Receive, Unread
<1>2. CASE ClientCloses
  BY <1>2, <1>a, SameHandlers DEF ClientCloses, Lines!Receive, Unread
<1>3. CASE ReadFails
  <2>1. /\ Serving /\ buffer = <<>> /\ faults' = faults + 1 /\ NextLine /\ Reject
        /\ UNCHANGED <<buffer, eof, sent>>
    BY <1>3 DEF ReadFails
  <2>2. Unread' = <<>>
    BY <1>0, <2>1, OnlyTheBuffer
  <2>3. ~Lines!HasLine
    BY <1>0, <2>1, FirstLineOpen
  <2>. QED
    BY <2>1, <2>2, <2>3, SameHandlers DEF Lines!LoseLine, Unread
<1>4. CASE ClientGone /\ UNCHANGED inputVars
  BY <1>4, SameHandlers DEF inputVars, Unread
<1>5. CASE Collect
  <2>1. Serving /\ buffer # <<>> /\ ~draining /\ UNCHANGED <<eof, sent, faults>>
    BY <1>5 DEF Collect
  <2>2. CASE OverCap
    BY <1>5, <1>a, <2>2 DEF Collect, Unread
  <2>3. CASE ~OverCap /\ Ended
    <3>1. buffer' = Left /\ NextLine /\ Process(line \o Taken)
      BY <1>5, <2>3 DEF Collect
    <3>2. /\ Lines!HasLine /\ Lines!FirstLine = Len(line) + Newline
          /\ SubSeq(Unread, 1, Lines!FirstLine) = line \o Taken
          /\ SubSeq(Unread, Lines!FirstLine + 1, Len(Unread)) = Left
      BY <1>0, <2>1, <2>3, FirstLineEnded
    <3>3. Unread' = Left
      BY <1>0, <2>1, <3>1, TakenAndLeft, OnlyTheBuffer
    <3>4. ~(Lines!FirstLine > MaxLine)
      BY <2>3, <3>2 DEF OverCap
    <3>. QED
      BY <2>1, <3>1, <3>2, <3>3, <3>4, SameHandlers DEF Lines!HandleLine, Unread
  <2>4. CASE ~OverCap /\ ~Ended
    <3>1. buffer' = Left /\ line' = line \o Taken /\ UNCHANGED <<draining, rest, sessionVars>>
      BY <1>5, <2>4 DEF Collect
    <3>2. Taken \in Seq(Byte) /\ Taken \o Left = buffer /\ Left = <<>>
      BY <1>0, <2>1, <2>4, TakenAndLeft
    <3>3. Taken = buffer
      BY <3>2, ConcatEmptySeq
    <3>4. rest = <<>>
      BY <2>1 DEF StdioInv
    <3>5. line \o buffer \in Seq(Byte) /\ Unread = line \o buffer
      BY <1>0, <2>1, ConcatProperties
    <3>6. (line \o buffer) \o <<>> = line \o buffer
      BY <3>5, ConcatEmptySeq
    <3>7. Unread' = (line \o buffer) \o <<>> \o <<>>
      BY <3>1, <3>2, <3>3, <3>4 DEF Unread
    <3>. QED
      BY <1>a, <2>1, <3>1, <3>5, <3>6, <3>7
  <2>. QED
    BY <2>2, <2>3, <2>4
<1>6. CASE Drain
  <2>1. Serving /\ buffer # <<>> /\ draining /\ buffer' = Left /\ UNCHANGED <<eof, sent, faults>>
    BY <1>6 DEF Drain
  <2>2. CASE Ended
    <3>1. NextLine /\ Reject
      BY <1>6, <2>2 DEF Drain
    <3>2. /\ Lines!HasLine /\ Lines!FirstLine = Len(line) + Len(rest) + Newline
          /\ SubSeq(Unread, Lines!FirstLine + 1, Len(Unread)) = Left
      BY <1>0, <2>1, <2>2, FirstLineEnded
    <3>3. Unread' = Left
      BY <1>0, <2>1, <3>1, TakenAndLeft, OnlyTheBuffer
    <3>4. Lines!FirstLine > MaxLine
      BY <2>1, <3>2 DEF StdioInv, AtHand
    <3>. QED
      BY <2>1, <3>1, <3>2, <3>3, <3>4, SameHandlers DEF Lines!HandleLine, Unread
  <2>3. CASE ~Ended
    <3>1. rest' = rest \o Taken /\ UNCHANGED <<line, draining, sessionVars>>
      BY <1>6, <2>3 DEF Drain
    <3>2. Taken \in Seq(Byte) /\ Taken \o Left = buffer /\ Left = <<>>
      BY <1>0, <2>1, <2>3, TakenAndLeft
    <3>3. Taken = buffer
      BY <3>2, ConcatEmptySeq
    <3>4. line' \o rest' = line \o rest \o buffer /\ line' \o rest' \in Seq(Byte)
      BY <1>0, <3>1, <3>3, ConcatAssociative, ConcatProperties
    <3>5. (line' \o rest') \o <<>> = line' \o rest'
      BY <3>4, ConcatEmptySeq
    <3>6. Unread' = (line' \o rest') \o <<>>
      BY <2>1, <3>2 DEF Unread
    <3>. QED
      BY <1>a, <2>1, <3>1, <3>4, <3>5, <3>6 DEF Unread
  <2>. QED
    BY <2>2, <2>3
<1>7. CASE AtEof
  <2>1. Serving /\ buffer = <<>> /\ eof /\ NextLine /\ UNCHANGED <<buffer, eof, sent, faults>>
    BY <1>7 DEF AtEof
  <2>2. /\ Unread' = <<>> /\ Lines!FirstLine = Len(Unread) /\ Unread = line \o rest
    BY <1>0, <2>1, OnlyTheBuffer, FirstLineOpen
  <2>3. /\ SubSeq(Unread, 1, Len(Unread)) = Unread /\ SubSeq(Unread, Len(Unread) + 1, Len(Unread)) = <<>>
    BY <1>0, LenProperties, SubSeqFull, SubSeqEmpty
  <2>4. CASE draining
    <3>1. Reject
      BY <1>7, <2>4 DEF AtEof
    <3>2. Len(Unread) > MaxLine
      BY <1>0, <2>1, <2>2, <2>4 DEF StdioInv, AtHand
    <3>3. Unread # <<>>
      BY <3>2, EmptySeq, SessionAssumption
    <3>. QED
      BY <2>1, <2>2, <2>3, <3>1, <3>2, <3>3, SameHandlers DEF Lines!HandleLine, Unread
  <2>5. CASE ~draining /\ line # <<>>
    <3>1. Process(line) /\ Unread = line
      BY <1>7, <1>0, <2>2, <2>5 DEF AtEof
    <3>2. ~(Len(Unread) > MaxLine)
      BY <1>0, <3>1, SessionAssumption DEF StdioInv, TypeOK
    <3>. QED
      BY <2>1, <2>2, <2>3, <2>5, <3>1, <3>2, SameHandlers DEF Lines!HandleLine, Unread
  <2>6. CASE ~draining /\ line = <<>>
    <3>1. EndOfInput /\ Unread = <<>>
      BY <1>7, <1>0, <2>2, <2>6 DEF AtEof
    <3>. QED
      BY <2>1, <2>2, <3>1, SameHandlers DEF Lines!Finish, Unread
  <2>. QED
    BY <2>4, <2>5, <2>6
<1>8. CASE UNCHANGED vars
  BY <1>8, <1>a DEF vars, inputVars, Unread
<1>. QED
  BY <1>1, <1>2, <1>3, <1>4, <1>5, <1>6, <1>7, <1>8 DEF Next, ServerStep

\* However the input is cut into chunks, the server answers as if it read whole lines
\* (ImplementsLines; read_line_capped and serve, main.rs).
THEOREM Refinement == Spec => ImplementsLines
<1>1. Init => Lines!LineInit
  <2>. HAVE Init
  <2>1. <<>> \o <<>> \o <<>> = <<>>
    BY EmptySeq, ConcatEmptySeq
  <2>. QED
    BY <2>1 DEF Init, SessionInit, Lines!LineInit, Lines!SessionInit
<1>2. StdioInv /\ [Next]_vars => [Lines!LineNext]_(Lines!lineVars)
  BY LinesStep
<1>. QED
  BY <1>1, <1>2, StdioInvariant, PTL DEF Spec, ImplementsLines, Lines!LineSpec
=============================================================================
