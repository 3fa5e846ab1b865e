----------------------------- MODULE McpSession -----------------------------
(***************************************************************************)
(* What the server does with one line of its input: McpServer              *)
(* (crates/nuphus-mcp/src/server.rs) and the part of the stdio loop        *)
(* (crates/nuphus-mcp/src/main.rs) that follows a line.  Where the lines   *)
(* come from is left to the modules that extend this one.                  *)
(*                                                                         *)
(* A byte is "LF", a blank, or a whole message: a line with one message is *)
(* that message, and any other line that is not blank is invalid.          *)
(***************************************************************************)
EXTENDS Naturals, Sequences

CONSTANTS
    Message,        \* the messages a client sends, a subset of Messages
    MaxLine         \* MAX_LINE_BYTES

\* Requests, and notifications: messages without an id, which are not answered.
Request == {"initialize", "ping", "call", "shutdown", "exit_request"}
Notification == {"note", "call_note", "exit"}
Byte == Message \cup {"blank", "LF"}

ASSUME SessionAssumption ==
    /\ Message \subseteq Request \cup Notification
    /\ MaxLine \in Nat \ {0}

VARIABLES
    session,        \* the flags of McpServer
    browser,        \* does a browser launched by this process run?
    gone,           \* the client has closed its end of our stdout
    proc,           \* the process: serving, exited in order, or failed
    code,           \* its exit code
    reply           \* the last line written, or none for the last line read

sessionVars == <<session, browser, gone, proc, code, reply>>

Serving == proc = "serving"

SessionInit ==
    /\ session = [initialized |-> FALSE, shutdown |-> FALSE, exit |-> FALSE]
    /\ browser = FALSE /\ gone = FALSE
    /\ proc = "serving" /\ code = 0
    /\ reply = "none"

\* The client dies or closes the pipe it reads our answers from.
ClientGone ==
    /\ Serving /\ ~gone
    /\ gone' = TRUE
    /\ UNCHANGED <<session, browser, proc, code, reply>>

-----------------------------------------------------------------------------
\* What a line says.
Words(line) == SelectSeq(line, LAMBDA b : b \notin {"blank", "LF"})
Meaning(line) ==
    CASE Words(line) = <<>> -> "blank"
      [] Len(Words(line)) = 1 -> Words(line)[1]
      [] OTHER -> "invalid"

\* dispatch: the flags afterwards, and the answers a request may get.
After(message) ==
    [initialized |-> session.initialized \/ message = "initialize",
     shutdown |-> session.shutdown \/ message = "shutdown",
     exit |-> session.exit \/ message \in {"exit", "exit_request"}]

Answers(message) ==
    CASE message = "invalid" -> {"error"}
      [] message \in {"initialize", "ping", "shutdown", "exit_request"} -> {"result"}
      [] message = "call" -> IF session.initialized
                             THEN {"result", "tool_failure", "invalid_params"}
                             ELSE {"not_initialized"}
      [] OTHER -> {"none"}

\* A tool that ran may have launched the shared browser.
Launches(message) ==
    IF message \in {"call", "call_note"} /\ session.initialized THEN {browser, TRUE} ELSE {browser}

\* Writing an answer: with nobody to read it the loop ends with an error, and the
\* process with it.
Writes(answer, after) ==
    /\ reply' = answer
    /\ IF answer # "none" /\ gone
       THEN proc' = "failed" /\ code' = 1 /\ browser' = after
       ELSE UNCHANGED <<proc, code>> /\ browser' = after

\* Mutant: the shared client is left to the process's exit.
BrowserKept == browser' = browser

\* shutdown_browser, before the process leaves.
ShutdownBrowser == browser' = FALSE

Leaves(exitCode) == proc' = "exited" /\ code' = exitCode /\ ShutdownBrowser

\* handle_line, and the check for a received exit after it.
Process(line) ==
    LET message == Meaning(line)
    IN  /\ session' = After(message)
        /\ UNCHANGED gone
        /\ \E answer \in Answers(message), after \in Launches(message) :
              IF session'.exit /\ ~(answer # "none" /\ gone)
              THEN reply' = answer /\ Leaves(IF session.shutdown THEN 0 ELSE 1)
              ELSE Writes(answer, after)

\* The answer to a line that is too long, or could not be read.
Reject ==
    /\ Writes("too_large", browser)
    /\ UNCHANGED <<session, gone>>

\* The end of the input.
EndOfInput ==
    /\ reply' = "none"
    /\ Leaves(0)
    /\ UNCHANGED <<session, gone>>

SessionTypeOK ==
    /\ session \in [initialized : BOOLEAN, shutdown : BOOLEAN, exit : BOOLEAN]
    /\ browser \in BOOLEAN /\ gone \in BOOLEAN
    /\ proc \in {"serving", "exited", "failed"} /\ code \in {0, 1}
    /\ reply \in {"none", "error", "result", "tool_failure", "invalid_params",
                  "not_initialized", "too_large"}
=============================================================================
