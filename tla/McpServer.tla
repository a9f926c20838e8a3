------------------------------ MODULE McpServer ------------------------------
(***************************************************************************)
(* The MCP server over stdin and stdout: one line in, at most one line     *)
(* out, until stdin is closed; then OpenOCD and the adapter are shut down. *)
(* The session's state moves meanwhile.  Nothing tells the client so: the  *)
(* list_changed it was promised at the handshake is never sent here.       *)
(***************************************************************************)
EXTENDS McpRouter, SequencesExt

CONSTANTS
  InputLines,     \* lines a client may write, blank ones apart
  MaxLines,       \* bound: lines written
  MaxMoves        \* bound: state changes

VARIABLES
  stdioInput,     \* the lines written so far
  stdioRead,      \* how many of them have been read
  stdioStep,      \* the loop: "read", "call", "write", "cleanup" or "end"
  stdioMessage,   \* the message being handled
  stdioAnswer,    \* its answer
  stdioOutput,    \* the lines written to stdout
  stdioClosed,    \* stdin has been closed
  stdioInitialized,    \* McpRouter.initialized
  stdioState,     \* the session's state
  stdioMoves      \* state changes so far

stdioVars == <<stdioInput, stdioRead, stdioStep, stdioMessage, stdioAnswer, stdioOutput,
               stdioClosed, stdioInitialized, stdioState, stdioMoves>>

Blank == [json |-> "blank", method |-> "none", id |-> "absent", number |-> 0, tool |-> "none"]

Init ==
  /\ stdioInput = <<>> /\ stdioRead = 0 /\ stdioStep = "read"
  /\ stdioMessage = Message("malformed", Blank) /\ stdioAnswer = <<>> /\ stdioOutput = <<>>
  /\ stdioClosed = FALSE /\ stdioInitialized = FALSE
  /\ stdioState = "Disconnected" /\ stdioMoves = 0

\* The client writes a line, and goes away in the end.
WriteLine ==
  /\ ~stdioClosed /\ Len(stdioInput) < MaxLines
  /\ \E line \in InputLines \cup {Blank} : stdioInput' = Append(stdioInput, line)
  /\ UNCHANGED <<stdioRead, stdioStep, stdioMessage, stdioAnswer, stdioOutput, stdioClosed,
                 stdioInitialized, stdioState, stdioMoves>>
CloseStdin ==
  /\ ~stdioClosed /\ stdioClosed' = TRUE
  /\ UNCHANGED <<stdioInput, stdioRead, stdioStep, stdioMessage, stdioAnswer, stdioOutput,
                 stdioInitialized, stdioState, stdioMoves>>

\* next_message skips a blank line.
Skip ==
  /\ stdioStep = "read" /\ stdioRead < Len(stdioInput)
  /\ stdioInput[stdioRead + 1].json = "blank"
  /\ stdioRead' = stdioRead + 1
  /\ UNCHANGED <<stdioInput, stdioStep, stdioMessage, stdioAnswer, stdioOutput, stdioClosed,
                 stdioInitialized, stdioState, stdioMoves>>

\* A line is read and handled: a tool that runs takes its time, the rest is answered,
\* or not, at once.
Handle ==
  LET m == parse_incoming(stdioInput[stdioRead + 1]) IN
  /\ stdioStep = "read" /\ stdioRead < Len(stdioInput)
  /\ stdioInput[stdioRead + 1].json # "blank"
  /\ stdioRead' = stdioRead + 1 /\ stdioMessage' = m
  /\ stdioInitialized' = InitializedAfter(m, stdioInitialized)
  /\ IF Runs(m, stdioInitialized, stdioState)
       THEN stdioStep' = "call" /\ stdioAnswer' = <<>>
       ELSE /\ stdioStep' = "write"
            /\ stdioAnswer' = IF m.kind = "malformed" THEN <<ParseError>>
                              ELSE handle_message(m, stdioInitialized, stdioState)
  /\ UNCHANGED <<stdioInput, stdioOutput, stdioClosed, stdioState, stdioMoves>>

\* The tool returns.
Return ==
  /\ stdioStep = "call" /\ stdioStep' = "write"
  /\ stdioAnswer' = handle_message(stdioMessage, stdioInitialized, stdioState)
  /\ UNCHANGED <<stdioInput, stdioRead, stdioMessage, stdioOutput, stdioClosed, stdioInitialized,
                 stdioState, stdioMoves>>

\* send_json_rpc_message.
Write ==
  /\ stdioStep = "write" /\ stdioStep' = "read"
  /\ stdioOutput' = stdioOutput \o stdioAnswer
  /\ UNCHANGED <<stdioInput, stdioRead, stdioMessage, stdioAnswer, stdioClosed, stdioInitialized,
                 stdioState, stdioMoves>>

\* End of input: cleanup_session, which shuts a session down that is not Disconnected.
EndOfInput ==
  /\ stdioStep = "read" /\ stdioClosed /\ stdioRead = Len(stdioInput)
  /\ stdioStep' = "cleanup"
  /\ UNCHANGED <<stdioInput, stdioRead, stdioMessage, stdioAnswer, stdioOutput, stdioClosed,
                 stdioInitialized, stdioState, stdioMoves>>
cleanup_session ==
  /\ stdioStep = "cleanup" /\ stdioStep' = "end"
  /\ stdioState' = "Disconnected"
  /\ UNCHANGED <<stdioInput, stdioRead, stdioMessage, stdioAnswer, stdioOutput, stdioClosed,
                 stdioInitialized, stdioMoves>>

\* The tool that runs, or an event of the adapter, moves the session on.
Move ==
  /\ stdioMoves < MaxMoves /\ stdioMoves' = stdioMoves + 1
  /\ stdioStep # "end" /\ (stdioState = "Disconnected" => stdioStep = "call")
  /\ stdioState' \in {s \in SessionStates : can_transition_to(stdioState, s)}
  /\ UNCHANGED <<stdioInput, stdioRead, stdioStep, stdioMessage, stdioAnswer, stdioOutput,
                 stdioClosed, stdioInitialized>>

Next ==
  WriteLine \/ CloseStdin \/ Skip \/ Handle \/ Return \/ Write \/ EndOfInput \/ cleanup_session \/ Move

-----------------------------------------------------------------------------
\* The loop is at one of its steps, and has read no more than was written.
TypeOK ==
  /\ stdioStep \in {"read", "call", "write", "cleanup", "end"}
  /\ stdioRead \in 0..Len(stdioInput) /\ Len(stdioAnswer) <= 1
  /\ stdioState \in SessionStates

\* transport.rs, after JSON-RPC 2.0: a line with a method and a numeric id is answered
\* once, under its id; one without an id, or with null, not at all; any other one by
\* an error without an id.
Owed(line) ==
  CASE line.json = "blank" \/ (line.json = "object" /\ line.method # "none"
                               /\ line.id \in {"absent", "null"})      -> <<>>
    [] line.json = "object" /\ line.method # "none" /\ line.id = "number" -> <<line.number>>
    [] OTHER                                                              -> <<0>>
Ids(answers) == [i \in DOMAIN answers |-> answers[i].id]

\* The answers on stdout are those owed for the lines read, in their order; nothing but
\* an initialize that comes first, or a refusal, is answered before the handshake, and
\* when the server has ended every line written has had its answer.
AnswersInOrder ==
  LET owed(n) == FlattenSeq([i \in 1..n |-> Owed(stdioInput[i])]) IN
  /\ stdioStep \in {"read", "cleanup", "end"} => Ids(stdioOutput) = owed(stdioRead)
  /\ \A i \in DOMAIN stdioOutput :
       stdioOutput[i].tools # {} =>
         \E j \in 1..(i - 1) : stdioOutput[j].kind = "result" /\ stdioOutput[j].tools = {}
  /\ stdioStep = "end" => stdioRead = Len(stdioInput) /\ stdioState = "Disconnected"

=============================================================================
