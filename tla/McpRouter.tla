------------------------------ MODULE McpRouter ------------------------------
(***************************************************************************)
(* What the MCP server makes of one message, whatever the transport: the   *)
(* parser of a line, the router with its handshake, the registry's two     *)
(* uses of the gating table (the list of tools and the gate in front of a  *)
(* call).  Constant operators; McpServer runs them over stdin and stdout,  *)
(* HttpServer over HTTP and SSE.                                           *)
(*                                                                         *)
(* A line is a record: what JSON it is, its method ("none" if it has no    *)
(* string there), its id and, for tools/call, the tool named.              *)
(***************************************************************************)
EXTENDS SessionState, Naturals, Sequences

\* all_tools, and tool_operation: a gated tool has its operation's name.
UtilityTools == {"search_variables", "get_state", "register_path_alias", "register_base_dir",
                 "openocd_start", "openocd_stop", "openocd_status", "openocd_output",
                 "openocd_send"}
GatedTools == Operations \ {"disconnect"}
AllTools == GatedTools \cup UtilityTools

\* Mutant: a tool that has no operation is not listed.
list_tools_for_state_GatedOnly(state) ==
  {tool \in AllTools : tool \in operations_for_state(state)}

\* ToolRegistry::list_tools_for_state.
list_tools_for_state(state) ==
  {tool \in AllTools : tool \in GatedTools => tool \in operations_for_state(state)}

\* Whether dispatch hands a call to a handler, and not back as an error result.
Dispatches(tool, state) ==
  tool \in AllTools /\ (tool \in GatedTools => is_allowed(tool, state))

-----------------------------------------------------------------------------
Line(method, id, number, tool) ==
  [json |-> "object", method |-> method, id |-> id, number |-> number, tool |-> tool]

Message(kind, line) ==
  [kind |-> kind, method |-> line.method, number |-> line.number, tool |-> line.tool]

\* Mutant: an id of null makes a request that cannot be answered.
parse_incoming_NullIsInvalid(line) ==
  CASE \/ line.json # "object"
       \/ line.method = "none"
       \/ line.id \in {"null", "string"}  -> Message("malformed", line)
    [] line.json = "object" /\ line.method # "none" /\ line.id = "absent" ->
         Message("notification", line)
    [] line.json = "object" /\ line.method # "none" /\ line.id = "number" ->
         Message("request", line)

\* McpServer::parse_incoming.  No id, or null, makes a notification.
parse_incoming(line) ==
  CASE \/ line.json # "object"
       \/ line.method = "none"
       \/ line.id = "string"              -> Message("malformed", line)
    [] line.json = "object" /\ line.method # "none" /\ line.id \in {"absent", "null"} ->
         Message("notification", line)
    [] line.json = "object" /\ line.method # "none" /\ line.id = "number" ->
         Message("request", line)

-----------------------------------------------------------------------------
\* Answers: JsonRpcMessage::Response and Error.  A parse error has no id, here 0.
Answer(kind, id, tools) == [kind |-> kind, id |-> id, tools |-> tools]
ParseError == Answer("error", 0, {})
ListChanged == Answer("list_changed", 0, {})

\* handle_message refuses what comes before the handshake.
Refused(m, initialized) == ~initialized /\ m.method # "initialize"

\* Whether the message reaches the tool it names, and may take its time there.
Runs(m, initialized, state) ==
  /\ m.kind = "request" /\ m.method = "tools/call" /\ ~Refused(m, initialized)
  /\ m.tool \notin {"no params", "no name"}
  /\ Dispatches(m.tool, state)

\* handle_message on everything else, and handle_tool_call's answer once a tool has
\* run: nothing for a notification, else one answer with the request's id.  A tool's
\* failure, a refusal by the gate and an unknown tool are results, not errors.
handle_message(m, initialized, state) ==
  CASE m.kind = "notification" -> <<>>
    [] m.kind = "request" /\ Refused(m, initialized) -> <<Answer("error", m.number, {})>>
    [] m.kind = "request" /\ m.method = "initialize" -> <<Answer("result", m.number, {})>>
    [] m.kind = "request" /\ ~Refused(m, initialized) /\ m.method = "tools/list" ->
         <<Answer("result", m.number, list_tools_for_state(state))>>
    [] m.kind = "request" /\ ~Refused(m, initialized) /\ m.method = "tools/call" ->
         <<Answer(IF m.tool \in {"no params", "no name"} THEN "error" ELSE "result", m.number, {})>>
    [] OTHER -> <<Answer("error", m.number, {})>>

\* handle_initialize cannot fail: the flag is set whatever the parameters.
InitializedAfter(m, initialized) ==
  initialized \/ (m.kind = "request" /\ m.method = "initialize")

=============================================================================
