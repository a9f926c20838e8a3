---------------------------- MODULE SessionState ----------------------------
(***************************************************************************)
(* The session state machine of crates/debug-session: the five states, the *)
(* legal transitions between them (state.rs) and the table that says in    *)
(* which states each operation may be called (gating.rs).  Everything here *)
(* is a constant operator; DebugSession.tla runs tasks against it.         *)
(***************************************************************************)

\* The enum SessionState.
SessionStates == {"Disconnected", "Connected", "Initialized", "Running", "Halted"}

\* SessionState::can_transition_to.
can_transition_to(from, target) ==
  <<from, target>> \in
    { <<"Disconnected", "Connected">>,
      <<"Connected", "Initialized">>,
      <<"Connected", "Disconnected">>,
      <<"Initialized", "Running">>,
      <<"Initialized", "Disconnected">>,
      <<"Running", "Halted">>,
      <<"Running", "Disconnected">>,
      <<"Halted", "Running">>,
      <<"Halted", "Disconnected">> }

\* SessionState::valid_predecessors, written as a second table in the code.
valid_predecessors(target) ==
  CASE target = "Disconnected" -> {"Connected", "Initialized", "Running", "Halted"}
    [] target = "Connected"    -> {"Disconnected"}
    [] target = "Initialized"  -> {"Connected"}
    [] target = "Running"      -> {"Initialized", "Halted"}
    [] target = "Halted"       -> {"Running"}

-----------------------------------------------------------------------------

Resuming    == {"continue", "step_over", "step_in", "step_out"}
Breakpoints == {"set_breakpoints", "set_function_breakpoints"}
Inspecting  == {"get_stack_trace", "get_scopes", "get_variables", "evaluate",
                "set_variable", "assemble_context"}

\* ALL_OPERATIONS.
Operations ==
  {"start", "initialize", "launch", "attach", "configuration_done", "shutdown",
   "disconnect", "pause", "list_breakpoints", "get_threads"}
    \cup Resuming \cup Breakpoints \cup Inspecting

\* Mutant: continue and the steps are also allowed while the debuggee runs.
allowed_states_ResumeAnyTime(operation) ==
  CASE operation = "start"                      -> {"Disconnected"}
    [] operation = "initialize"                 -> {"Connected"}
    [] operation \in {"launch", "attach", "configuration_done"} -> {"Initialized"}
    [] operation \in {"shutdown", "disconnect"} -> SessionStates \ {"Disconnected"}
    [] operation \in Resuming                   -> {"Halted", "Running"}
    [] operation = "pause"                      -> {"Running"}
    [] operation \in Breakpoints \cup {"list_breakpoints"} -> {"Initialized", "Running", "Halted"}
    [] operation = "get_threads"                -> {"Running", "Halted"}
    [] operation \in Inspecting                 -> {"Halted"}
    [] OTHER                                    -> {}

\* ToolAvailability::allowed_states; the last arm is its `_ => &[]`.
allowed_states(operation) ==
  CASE operation = "start"                      -> {"Disconnected"}
    [] operation = "initialize"                 -> {"Connected"}
    [] operation \in {"launch", "attach", "configuration_done"} -> {"Initialized"}
    [] operation \in {"shutdown", "disconnect"} -> SessionStates \ {"Disconnected"}
    [] operation \in Resuming                   -> {"Halted"}
    [] operation = "pause"                      -> {"Running"}
    [] operation \in Breakpoints \cup {"list_breakpoints"} -> {"Initialized", "Running", "Halted"}
    [] operation = "get_threads"                -> {"Running", "Halted"}
    [] operation \in Inspecting                 -> {"Halted"}
    [] OTHER                                    -> {}

is_allowed(operation, state) == state \in allowed_states(operation)

\* ToolAvailability::operations_for_state.
operations_for_state(state) == {operation \in Operations : is_allowed(operation, state)}

=============================================================================
