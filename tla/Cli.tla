--------------------------------- MODULE Cli ---------------------------------
(***************************************************************************)
(* The CLI driver: one task that goes through a fixed script of calls,     *)
(* takes the adapter's events itself, inspects the program at every stop   *)
(* and lets it go on, until it ends.                                       *)
(*                                                                         *)
(* script is the place the task has come to; "free" stands for any other   *)
(* program of one task, which makes whatever calls it likes between the    *)
(* events it takes.                                                        *)
(*                                                                         *)
(* At most one scope is called Local.  The caching that the tools'         *)
(* handlers add, which these calls do not go through, is kept: nothing in  *)
(* the script looks at it.                                                 *)
(***************************************************************************)
EXTENDS DebugSession

VARIABLES
  script,    \* the place the task has come to
  forsaken   \* history: the stops whose inspection the adapter cut short

place   == <<script, forsaken>>
cliVars == <<vars, place>>

CallPlaces == {"start", "initialize", "launch", "set_breakpoints", "configuration_done",
               "get_threads", "get_stack_trace", "get_scopes", "get_variables", "continue",
               "shutdown"}

ASSUME OneTask == Callers = Loops /\ \E main \in Callers : Callers = {main}
ASSUME ScriptAssumption == CallPlaces \subseteq Tools

CliInit == Init /\ script \in {"start", "free"} /\ forsaken = {}

\* Whether the step that task t takes next ends its operation with an error.
Errs(t) ==
  CASE pc[t] = "gate"                      -> TRUE
    [] pc[t] \in {"is_running", "spawn"}   -> TRUE
    [] pc[t] = "send"                      -> stdin \notin alive
    [] pc[t] = "wait"                      -> answer[t].result = "failed"
    [] pc[t] = "transition"                -> ~can_transition_to(state, Target(op[t]))
    [] OTHER                               -> FALSE

\* Back at the end of the loop's body, and at its end: a session that is Disconnected
\* by now ends the loop, and one that is not is shut down after it.
NextRound(disconnected)  == IF disconnected THEN "end" ELSE "loop"
LeaveLoop(disconnected)  == IF disconnected THEN "end" ELSE "shutdown"

\* Mutant: a stop at which there is no frame to look at is not continued.
AfterCall_NoFrameNoContinue(failed, empty, disconnected) ==
  CASE script \in {"start", "initialize"} /\ failed -> {"exit"}
    [] script = "start" /\ ~failed                  -> {"initialize"}
    [] script = "initialize" /\ ~failed             -> {"launch", "loop"}
    [] script = "launch"                            -> {"await"}
    [] script = "set_breakpoints"                   -> {"configuration_done"}
    [] script = "configuration_done"                -> {"loop"}
    [] script = "get_threads" /\ ~failed /\ ~empty   -> {"get_stack_trace"}
    [] script = "get_stack_trace" /\ ~failed        -> {IF empty THEN NextRound(disconnected) ELSE "get_scopes"}
    [] \/ script \in {"get_threads", "get_stack_trace"} /\ failed
       \/ script = "get_threads" /\ empty            -> {NextRound(disconnected)}
    [] script = "get_scopes"                        -> {IF failed \/ empty THEN "continue" ELSE "get_variables"}
    [] script = "get_variables"                     -> {"continue"}
    [] script = "continue"                          -> {NextRound(disconnected)}
    [] script = "shutdown"                          -> {"end"}

\* Where a call leads.  A failure of the first two exits the process on the spot; with
\* no ELF file the script goes straight to the loop; other failures are logged.  empty:
\* the answer lists no thread, no frame, no scope that is Local.
AfterCall(failed, empty, disconnected) ==
  CASE script \in {"start", "initialize"} /\ failed -> {"exit"}
    [] script = "start" /\ ~failed                  -> {"initialize"}
    [] script = "initialize" /\ ~failed             -> {"launch", "loop"}
    [] script = "launch"                            -> {"await"}
    [] script = "set_breakpoints"                   -> {"configuration_done"}
    [] script = "configuration_done"                -> {"loop"}
    [] script = "get_threads" /\ ~failed /\ ~empty   -> {"get_stack_trace"}
    [] script = "get_stack_trace" /\ ~failed        -> {IF empty THEN "continue" ELSE "get_scopes"}
    [] \/ script \in {"get_threads", "get_stack_trace"} /\ failed
       \/ script = "get_threads" /\ empty            -> {NextRound(disconnected)}
    [] script = "get_scopes"                        -> {IF failed \/ empty THEN "continue" ELSE "get_variables"}
    [] script = "get_variables"                     -> {"continue"}
    [] script = "continue"                          -> {NextRound(disconnected)}
    [] script = "shutdown"                          -> {"end"}

\* The adapter refuses one of the three requests that lead on from a stop, or lists no
\* thread: the loop goes round without a continue.
CutShort(t, empty) ==
  /\ script \in {"get_threads", "get_stack_trace", "continue"} /\ pc[t] = "wait"
  /\ answer[t].result = "failed" \/ (script = "get_threads" /\ empty)

\* Where an event leads: the wait for `initialized` ignores errors and all other
\* events; the loop ends at an event that handle_event refuses and when the program does.
AfterEvent(event, failed, disconnected) ==
  CASE script = "await" /\ event = "initialized" -> {"set_breakpoints", "configuration_done"}
    [] script = "await" /\ event # "initialized" -> {"await"}
    [] script = "loop" /\ (failed \/ event \in {"terminated", "exited"}) -> {LeaveLoop(disconnected)}
    [] script = "loop" /\ ~failed /\ event = "stopped" -> {"get_threads"}
    [] script = "loop" /\ ~failed /\ event \in {"initialized", "continued"} -> {NextRound(disconnected)}

\* A call of the script, of which there is always the next one to make.
Issue(t) ==
  /\ script \in CallPlaces /\ t \in Callers /\ pc[t] = "idle"
  /\ op' = [op EXCEPT ![t] = script]
  /\ Goto(t, "gate")
  /\ UNCHANGED <<session, client, adapter, answer, arg, calls, place>>

FreeCall(t) == script = "free" /\ Call(t) /\ UNCHANGED place

Take(t) == script \in {"await", "loop", "free"} /\ TakeEvent(t) /\ UNCHANGED place

\* A step of the session; the last one of an operation moves the script on.
CliStep(t) ==
  /\ Step(t)
  /\ IF script = "free" \/ pc'[t] # "idle"
       THEN UNCHANGED place
       ELSE IF script \in CallPlaces
         THEN \E empty \in BOOLEAN :
                /\ script' \in AfterCall(Errs(t), empty, state' = "Disconnected")
                /\ forsaken' = forsaken \cup IF CutShort(t, empty) THEN {answer[t].stamp} ELSE {}
         ELSE /\ script' \in AfterEvent(op[t], Errs(t), state' = "Disconnected")
              /\ UNCHANGED forsaken

Environment ==
  /\ \E g \in Procs : Read(g) \/ Serve(g) \/ Stop(g) \/ Exit(g)
  /\ UNCHANGED place

CliNext == (\E t \in Tasks : Issue(t) \/ FreeCall(t) \/ Take(t) \/ CliStep(t)) \/ Environment

\* The task goes on whenever it can; so does the reader, and the adapter answers.
CliFairness ==
  /\ \A t \in Tasks : WF_cliVars(Issue(t)) /\ WF_cliVars(Take(t)) /\ WF_cliVars(CliStep(t))
  /\ \A g \in Procs : WF_cliVars(Read(g) /\ UNCHANGED place)
                      /\ WF_cliVars(Serve(g) /\ UNCHANGED place)

CliSpec == CliInit /\ [][CliNext]_cliVars /\ CliFairness

-----------------------------------------------------------------------------
\* cli.rs: the main loop ends with a shutdown unless the session is Disconnected, so
\* that no adapter is left behind, whichever call or event ended it and whatever the
\* adapter refused.  The one way out that leaves an adapter is a failed initialize,
\* after which process::exit drops nothing: the session is Connected, its child runs.
CliLeavesNoAdapter ==
  /\ script = "end" => alive = {} /\ child = 0 /\ state = "Disconnected"
  /\ script = "exit" => \E t \in Tasks :
       \/ op[t] = "start" /\ alive = {} /\ child = 0 /\ state = "Disconnected"
       \/ op[t] = "initialize" /\ alive = {child} /\ state = "Connected"

\* cli.rs: "Continue execution after inspection".  The CLI runs unattended: a program it
\* debugs goes on from every stop but those at which the adapter refused get_threads,
\* get_stack_trace or continue, or listed no thread: there the loop waits for an event.
EveryStopIsContinued ==
  \A g \in Procs :
    script # "free" /\ debuggee[g] = "stopped"
      ~> debuggee[g] # "stopped" \/ <<g, stops[g]>> \in forsaken

=============================================================================
