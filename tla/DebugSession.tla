---------------------------- MODULE DebugSession ----------------------------
(***************************************************************************)
(* A debug session as it runs: the tasks that share one DebugSession (tool *)
(* calls, and the loop that feeds adapter events to handle_event), the     *)
(* part of DapClient they go through, and the debug adapter processes.     *)
(*                                                                         *)
(* Every field of DebugSession and DapClient has a lock of its own, held   *)
(* for one access.  A task is therefore a sequence of small steps, and     *)
(* every await between two of them lets the other tasks run.  pc[t] is the *)
(* step that task t takes next; an early return sends it back to "idle".   *)
(*                                                                         *)
(* Three programs share this code and differ in their tasks only:          *)
(*   CLI (cli.rs)           one task makes the calls and takes the events; *)
(*   MCP stdio (server.rs)  one task makes the calls, one takes the events;*)
(*   HTTP (http_server.rs)  one task per client, one takes the events, and *)
(*                          a client that hangs up drops its call midway.  *)
(***************************************************************************)
EXTENDS SessionState, Naturals, Sequences

CONSTANTS
  Callers,      \* tasks that make tool calls
  Loops,        \* tasks that receive events
  Cancellable,  \* callers whose call the HTTP server drops when the client hangs up
  Nobody,       \* addressee of the answer to a fire-and-forget request
  Tools,        \* the operations the callers use
  Kinds,        \* the adapter kinds `start` may be asked for
  MayCrash,     \* whether an adapter process may die by itself
  MaxProcs,     \* bound: adapter processes ever spawned
  MaxStops,     \* bound: stops of one debuggee
  MaxCalls      \* bound: tool calls made

Tasks == Callers \cup Loops
Procs == 1..MaxProcs
Stamps == (0..MaxProcs) \X (0..MaxStops)   \* an adapter process and one of its stops
NoStamp == <<0, 0>>
Answers == [result : {"none", "ok", "failed"}, stamp : Stamps]
NoAnswer == [result |-> "none", stamp |-> NoStamp]
Events == {"initialized", "stopped", "continued", "terminated", "exited"}

ASSUME TasksAssumption ==
  /\ Nobody \notin Tasks
  /\ Cancellable \subseteq Callers \ Loops
ASSUME ToolsAssumption == Tools \subseteq Operations \ {"disconnect", "assemble_context"}
ASSUME KindsAssumption == Kinds \subseteq {"Codelldb", "Gdb"}
ASSUME BoundsAssumption ==
  MaxProcs \in Nat /\ MaxStops \in Nat /\ MaxCalls \in Nat /\ MayCrash \in BOOLEAN

VARIABLES
  state,     \* DebugSession.state
  halt,      \* DebugSession.halt_state: the stop it describes, NoStamp when cleared
  kind,      \* DebugSession.adapter_kind
  varCache,  \* DebugSession.variable_cache: the stops its handles belong to
  bpCache,   \* DebugSession.breakpoint_cache: which adapter verified each list, 0 if empty
  child,     \* DapClient.child: the process the client owns, 0 for None
  stdin,     \* DapClient.stdin: the process the client writes to, 0 for None
  events,    \* DapClient.event_tx / event_rx, an unbounded channel
  op,        \* the operation or event task t is running
  pc,        \* its next step
  answer,    \* the oneshot channel of its request, NoAnswer while it is empty
  arg,       \* what it carries: the process spawned, the stop announced, the data answered
  calls,     \* tool calls made so far
  spawned,   \* adapter processes spawned so far
  alive,     \* those still running
  procKind,  \* what each one is
  inq,       \* its stdin pipe: requests written and not yet read by it
  outq,      \* its stdout pipe: messages not yet read by the client's reader task
  debuggee,  \* the program it debugs
  stops      \* how often that program has stopped

session == <<state, halt, kind, varCache, bpCache>>
client  == <<child, stdin, events>>
tasks   == <<op, pc, answer, arg, calls>>
adapter == <<spawned, alive, procKind, inq, outq, debuggee, stops>>
vars    == <<session, client, tasks, adapter>>

-----------------------------------------------------------------------------
(* Control flow of the operations.                                         *)

Closing == {"shutdown", "terminated", "exited"}

\* The state an operation or event moves the session to.
Target(o) ==
  CASE o = "start"                                   -> "Connected"
    [] o \in {"initialize", "initialized"}           -> "Initialized"
    [] o \in Resuming \cup {"configuration_done", "continued"} -> "Running"
    [] o = "stopped"                                 -> "Halted"
    [] o \in Closing                                 -> "Disconnected"

AfterGate(o) ==
  CASE o = "start"            -> "is_running"
    [] o = "list_breakpoints" -> "idle"
    [] OTHER                  -> "send"

\* Mutant: the resuming calls leave the transition to the adapter's continued event.
AfterReply_NoTransition(o) ==
  CASE o \in Closing                              -> "kill"
    [] o \in {"initialize", "configuration_done"} -> "transition"
    [] o \in Breakpoints                          -> "update_bps"
    [] o = "get_variables"                        -> "cache_vars"
    [] OTHER                                      -> "idle"

AfterReply(o) ==
  CASE o \in Closing                              -> "kill"
    [] o \in Resuming                             -> "clear_halt"
    [] o \in {"initialize", "configuration_done"} -> "transition"
    [] o \in Breakpoints                          -> "update_bps"
    [] o = "get_variables"                        -> "cache_vars"
    [] OTHER                                      -> "idle"

\* client.shutdown ignores the error of its own disconnect request.
AfterFailure(o) == IF o \in Closing THEN "kill" ELSE "idle"

\* launch and configuration_done use send_request_nb unless the adapter is GDB.
Blocking(o) == o \in {"launch", "configuration_done"} => kind = "Gdb"

\* Mutant: a stop is not recorded in halt_state.
FirstStep_NoDetails(event) ==
  CASE event = "initialized" -> "recheck"
    [] event = "stopped"     -> "transition"
    [] event = "continued"   -> "clear_halt"
    [] event \in Closing     -> "send"

\* Mutant: the end of the program does not shut the client down.
FirstStep_NoShutdown(event) ==
  CASE event = "initialized" -> "recheck"
    [] event = "stopped"     -> "set_halt"
    [] event = "continued"   -> "clear_halt"
    [] event \in Closing     -> "recheck"

\* handle_event: the first step for each event.
FirstStep(event) ==
  CASE event = "initialized" -> "recheck"
    [] event = "stopped"     -> "set_halt"
    [] event = "continued"   -> "clear_halt"
    [] event \in Closing     -> "send"

Labels == {"idle", "gate", "is_running", "spawn", "set_stdin", "set_child", "set_kind",
           "send", "wait", "set_halt", "clear_halt", "recheck", "transition", "kill",
           "clear_bps", "cache_vars", "update_bps", "update_bps_again"}

Goto(t, label) == pc' = [pc EXCEPT ![t] = label]

-----------------------------------------------------------------------------
Init ==
  /\ state = "Disconnected" /\ halt = NoStamp /\ kind = "None"
  /\ varCache = {} /\ bpCache = [b \in Breakpoints |-> 0]
  /\ child = 0 /\ stdin = 0 /\ events = <<>>
  /\ op = [t \in Tasks |-> "none"] /\ pc = [t \in Tasks |-> "idle"]
  /\ answer = [t \in Tasks |-> NoAnswer] /\ arg = [t \in Tasks |-> NoStamp]
  /\ calls = 0 /\ spawned = 0 /\ alive = {}
  /\ procKind = [g \in Procs |-> "None"]
  /\ inq = [g \in Procs |-> <<>>] /\ outq = [g \in Procs |-> <<>>]
  /\ debuggee = [g \in Procs |-> "none"] /\ stops = [g \in Procs |-> 0]

\* A client asks for a tool.  The registry's gate and the session's gate consult
\* the same table one after the other; the later one decides and is Gate below.
Call(t) ==
  /\ t \in Callers /\ pc[t] = "idle" /\ calls < MaxCalls
  /\ \E tool \in Tools : op' = [op EXCEPT ![t] = tool]
  /\ calls' = calls + 1
  /\ Goto(t, "gate")
  /\ UNCHANGED <<session, client, adapter, answer, arg>>

\* Mutant: the newest event is taken first.
TakeEvent_Newest(t) ==
  /\ t \in Loops /\ pc[t] = "idle" /\ events # <<>>
  /\ events' = SubSeq(events, 1, Len(events) - 1)
  /\ op' = [op EXCEPT ![t] = events[Len(events)].name]
  /\ arg' = [arg EXCEPT ![t] = events[Len(events)].stamp]
  /\ Goto(t, FirstStep(events[Len(events)].name))
  /\ UNCHANGED <<session, child, stdin, adapter, answer, calls>>

\* recv_event takes the oldest event and handle_event starts on it.
TakeEvent(t) ==
  /\ t \in Loops /\ pc[t] = "idle" /\ events # <<>>
  /\ events' = Tail(events)
  /\ op' = [op EXCEPT ![t] = Head(events).name]
  /\ arg' = [arg EXCEPT ![t] = Head(events).stamp]
  /\ Goto(t, FirstStep(Head(events).name))
  /\ UNCHANGED <<session, child, stdin, adapter, answer, calls>>

\* gate reads the state and lets go of the lock.
Gate(t) ==
  /\ pc[t] = "gate"
  /\ Goto(t, IF is_allowed(op[t], state) THEN AfterGate(op[t]) ELSE "idle")
  /\ UNCHANGED <<session, client, adapter, op, answer, arg, calls>>

-----------------------------------------------------------------------------
(* DapClient::start, then the rest of DebugSession::start.                 *)

IsRunning(t) ==
  /\ pc[t] = "is_running"
  /\ Goto(t, IF child # 0 THEN "idle" ELSE "spawn")
  /\ UNCHANGED <<session, client, adapter, op, answer, arg, calls>>

SpawnFails(t) ==
  /\ pc[t] = "spawn"
  /\ Goto(t, "idle")
  /\ UNCHANGED <<session, client, adapter, op, answer, arg, calls>>

\* Mutant: the process is numbered one too low.
Spawn_OffByOne(t) ==
  /\ pc[t] = "spawn" /\ spawned < MaxProcs
  /\ \E k \in Kinds : procKind' = [procKind EXCEPT ![spawned + 1] = k]
  /\ spawned' = spawned + 1
  /\ alive' = alive \cup {spawned}
  /\ arg' = [arg EXCEPT ![t] = <<spawned, 0>>]
  /\ Goto(t, "set_stdin")
  /\ UNCHANGED <<session, client, inq, outq, debuggee, stops, op, answer, calls>>

Spawn(t) ==
  /\ pc[t] = "spawn" /\ spawned < MaxProcs
  /\ \E k \in Kinds : procKind' = [procKind EXCEPT ![spawned + 1] = k]
  /\ spawned' = spawned + 1
  /\ alive' = alive \cup {spawned + 1}
  /\ arg' = [arg EXCEPT ![t] = <<spawned + 1, 0>>]
  /\ Goto(t, "set_stdin")
  /\ UNCHANGED <<session, client, inq, outq, debuggee, stops, op, answer, calls>>

SetStdin(t) ==
  /\ pc[t] = "set_stdin"
  /\ stdin' = arg[t][1]
  /\ Goto(t, "set_child")
  /\ UNCHANGED <<session, child, events, adapter, op, answer, arg, calls>>

\* Mutant: without kill_on_drop the Child that is overwritten runs on.
SetChild_NoKillOnDrop(t) ==
  /\ pc[t] = "set_child"
  /\ child' = arg[t][1]
  /\ Goto(t, "set_kind")
  /\ UNCHANGED <<session, stdin, events, adapter, op, answer, arg, calls>>

\* Overwriting child drops the Child it held: kill_on_drop kills that process.
SetChild(t) ==
  /\ pc[t] = "set_child"
  /\ child' = arg[t][1]
  /\ alive' = alive \ {child}
  /\ Goto(t, "set_kind")
  /\ UNCHANGED <<session, stdin, events, spawned, procKind, inq, outq, debuggee, stops,
                 op, answer, arg, calls>>

\* launch and configuration_done match on `*self.adapter_kind.read().await`: the
\* read guard lives as long as the match, the wait for GDB's answer included.
KindLocked == \E u \in Tasks : pc[u] = "wait" /\ op[u] \in {"launch", "configuration_done"}

SetKind(t) ==
  /\ pc[t] = "set_kind" /\ ~KindLocked
  /\ kind' = procKind[arg[t][1]]
  /\ Goto(t, "transition")
  /\ UNCHANGED <<state, halt, varCache, bpCache, client, adapter, op, answer, arg, calls>>

-----------------------------------------------------------------------------
(* DapClient::send_request, send_request_nb and the reader task.  A task   *)
(* has one request in flight at most and never gives up on it, so that the *)
(* pending map's key, the request's seq, is represented by the task.       *)

Command(o) == IF o \in Closing THEN "disconnect" ELSE o

\* The write fails when there is no stdin, or when its process is gone.
Send(t) ==
  /\ pc[t] = "send"
  /\ IF stdin \in alive
       THEN /\ inq' = [inq EXCEPT ![stdin] = Append(@,
                 [task |-> IF Blocking(op[t]) THEN t ELSE Nobody, command |-> Command(op[t])])]
            /\ Goto(t, IF Blocking(op[t]) THEN "wait" ELSE AfterReply(op[t]))
       ELSE inq' = inq /\ Goto(t, AfterFailure(op[t]))
  /\ UNCHANGED <<session, client, spawned, alive, procKind, outq, debuggee, stops,
                 op, answer, arg, calls>>

\* rx.await: no timeout, and no other way out (the reader never drops the sender).
Receive(t) ==
  /\ pc[t] = "wait" /\ answer[t] # NoAnswer
  /\ Goto(t, IF answer[t].result = "ok" THEN AfterReply(op[t]) ELSE AfterFailure(op[t]))
  /\ arg' = [arg EXCEPT ![t] = answer[t].stamp]
  /\ answer' = [answer EXCEPT ![t] = NoAnswer]
  /\ UNCHANGED <<session, client, adapter, op, calls>>

\* Mutant: the reader wakes the caller of a request that succeeded only.
Read_DropsErrors(g) ==
  LET m == Head(outq[g]) IN
  /\ outq[g] # <<>>
  /\ outq' = [outq EXCEPT ![g] = Tail(@)]
  /\ \/ /\ m.body \in Events
        /\ events' = Append(events, [name |-> m.body, stamp |-> m.stamp])
        /\ UNCHANGED answer
     \/ /\ m.body = "ok" /\ m.task \in Tasks
        /\ answer' = [answer EXCEPT ![m.task] = [result |-> "ok", stamp |-> m.stamp]]
        /\ UNCHANGED events
     \/ /\ m.body \in {"ok", "failed"} /\ (m.task = Nobody \/ m.body = "failed")
        /\ UNCHANGED <<events, answer>>
  /\ UNCHANGED <<session, child, stdin, spawned, alive, procKind, inq, debuggee, stops,
                 op, pc, arg, calls>>

\* The reader task of process g: an event goes to the channel, a response to the
\* request that waits for it; one that nobody waits for is dropped with a warning.
\* It reads what is left in the pipe of a dead process too.
Read(g) ==
  LET m == Head(outq[g]) IN
  /\ outq[g] # <<>>
  /\ outq' = [outq EXCEPT ![g] = Tail(@)]
  /\ \/ /\ m.body \in Events
        /\ events' = Append(events, [name |-> m.body, stamp |-> m.stamp])
        /\ UNCHANGED answer
     \/ /\ m.body \in {"ok", "failed"} /\ m.task \in Tasks
        /\ answer' = [answer EXCEPT ![m.task] = [result |-> m.body, stamp |-> m.stamp]]
        /\ UNCHANGED events
     \/ /\ m.body \in {"ok", "failed"} /\ m.task = Nobody
        /\ UNCHANGED <<events, answer>>
  /\ UNCHANGED <<session, child, stdin, spawned, alive, procKind, inq, debuggee, stops,
                 op, pc, arg, calls>>

-----------------------------------------------------------------------------
(* The steps on the session's own fields.                                  *)

SetHalt(t) ==
  /\ pc[t] = "set_halt"
  /\ halt' = arg[t]
  /\ Goto(t, "transition")
  /\ UNCHANGED <<state, kind, varCache, bpCache, client, adapter, op, answer, arg, calls>>

ClearHalt(t) ==
  /\ pc[t] = "clear_halt"
  /\ halt' = NoStamp
  /\ Goto(t, IF op[t] = "continued" THEN "recheck" ELSE "transition")
  /\ UNCHANGED <<state, kind, varCache, bpCache, client, adapter, op, answer, arg, calls>>

\* `if current != target`: initialized, continued and every closing path.
Recheck(t) ==
  /\ pc[t] = "recheck"
  /\ Goto(t, IF state = Target(op[t]) THEN "idle" ELSE "transition")
  /\ UNCHANGED <<session, client, adapter, op, answer, arg, calls>>

\* Mutant: leaving Halted does not invalidate the variable cache.
transition_to_KeepsHandles(t) ==
  /\ pc[t] = "transition"
  /\ IF can_transition_to(state, Target(op[t]))
       THEN /\ state' = Target(op[t])
            /\ Goto(t, IF op[t] \in Closing THEN "clear_bps" ELSE "idle")
       ELSE UNCHANGED state /\ Goto(t, "idle")
  /\ UNCHANGED <<varCache, halt, kind, bpCache, client, adapter, op, answer, arg, calls>>

\* Mutant: only the shutdown call clears the breakpoint cache.
transition_to_KeepsBreakpoints(t) ==
  /\ pc[t] = "transition"
  /\ IF can_transition_to(state, Target(op[t]))
       THEN /\ state' = Target(op[t])
            /\ varCache' = IF state = "Halted" THEN {} ELSE varCache
            /\ Goto(t, IF op[t] = "shutdown" THEN "clear_bps" ELSE "idle")
       ELSE UNCHANGED <<state, varCache>> /\ Goto(t, "idle")
  /\ UNCHANGED <<halt, kind, bpCache, client, adapter, op, answer, arg, calls>>

\* transition_to, under the state's write lock.
transition_to(t) ==
  /\ pc[t] = "transition"
  /\ IF can_transition_to(state, Target(op[t]))
       THEN /\ state' = Target(op[t])
            /\ varCache' = IF state = "Halted" THEN {} ELSE varCache
            /\ Goto(t, IF op[t] \in Closing THEN "clear_bps" ELSE "idle")
       ELSE /\ UNCHANGED <<state, varCache>>
            /\ Goto(t, "idle")
  /\ UNCHANGED <<halt, kind, bpCache, client, adapter, op, answer, arg, calls>>

\* Mutant: the process is killed and still recorded as the client's child.
Kill_LeavesChild(t) ==
  /\ pc[t] = "kill"
  /\ alive' = alive \ {child}
  /\ Goto(t, "recheck")
  /\ UNCHANGED <<session, child, stdin, events, spawned, procKind, inq, outq, debuggee, stops,
                 op, answer, arg, calls>>

\* Mutant: the session does not leave its state when the client has been shut down.
Kill_NoTransition(t) ==
  /\ pc[t] = "kill"
  /\ alive' = alive \ {child}
  /\ child' = 0
  /\ Goto(t, "idle")
  /\ UNCHANGED <<session, stdin, events, spawned, procKind, inq, outq, debuggee, stops,
                 op, answer, arg, calls>>

\* The end of DapClient::shutdown; the child lock is held from kill to None.
Kill(t) ==
  /\ pc[t] = "kill"
  /\ alive' = alive \ {child}
  /\ child' = 0
  /\ Goto(t, "recheck")
  /\ UNCHANGED <<session, stdin, events, spawned, procKind, inq, outq, debuggee, stops,
                 op, answer, arg, calls>>

ClearBreakpoints(t) ==
  /\ pc[t] = "clear_bps"
  /\ bpCache' = [b \in Breakpoints |-> 0]
  /\ Goto(t, "idle")
  /\ UNCHANGED <<state, halt, kind, varCache, client, adapter, op, answer, arg, calls>>

\* The session records the answer, and the tool handler records it once more.
UpdateBreakpoints(t) ==
  /\ pc[t] \in {"update_bps", "update_bps_again"}
  /\ bpCache' = [bpCache EXCEPT ![op[t]] = arg[t][1]]
  /\ Goto(t, IF pc[t] = "update_bps" THEN "update_bps_again" ELSE "idle")
  /\ UNCHANGED <<state, halt, kind, varCache, client, adapter, op, answer, arg, calls>>

\* handle_get_variables caches the handles it was answered.
CacheVariables(t) ==
  /\ pc[t] = "cache_vars"
  /\ varCache' = varCache \cup {arg[t]}
  /\ Goto(t, "idle")
  /\ UNCHANGED <<state, halt, kind, bpCache, client, adapter, op, answer, arg, calls>>

\* Mutant: a response is matched to its caller and not to its caller's request, so that
\* the answer to a dropped call reaches the next one.
Disown_ByCaller(q, t) == q

\* The answer to a request of a dropped call will find no receiver.
Disown(q, t) ==
  [i \in DOMAIN q |-> IF q[i].task = t THEN [q[i] EXCEPT !.task = Nobody] ELSE q[i]]

\* The HTTP client hangs up and its handler's future is dropped at the await it
\* is at.  A Child not yet stored is killed as it is dropped, a kill under way may have
\* been sent, and a transition out of Halted made with the cache still to be invalidated.
Cancel(t) ==
  /\ t \in Cancellable /\ pc[t] # "idle"
  /\ Goto(t, "idle")
  /\ state' \in {state} \cup {s \in SessionStates :
       pc[t] = "transition" /\ s = Target(op[t]) /\ state = "Halted" /\ can_transition_to(state, s)}
  /\ \E killed \in {{}, IF pc[t] = "kill" THEN {child} ELSE {}} :
       alive' = (alive \ killed) \ (IF pc[t] \in {"set_stdin", "set_child"} THEN {arg[t][1]} ELSE {})
  /\ inq' = [g \in Procs |-> Disown(inq[g], t)]
  /\ outq' = [g \in Procs |-> Disown(outq[g], t)]
  /\ answer' = [answer EXCEPT ![t] = NoAnswer]
  /\ UNCHANGED <<halt, kind, varCache, bpCache, client, spawned, procKind, debuggee, stops,
                 op, arg, calls>>

-----------------------------------------------------------------------------
(* The debug adapter, an external program: what the Debug Adapter Protocol *)
(* lets it do and what session.rs says of the two kinds it is used with.   *)

Accept(announced, next) == [result |-> "ok", announced |-> announced, next |-> next]

\* What adapter g does with a command it accepts, its program being in state d.
Acceptances(g, command, d) ==
  CASE command = "initialize" ->
         {Accept(IF procKind[g] = "Gdb" THEN <<"initialized">> ELSE <<>>, d)}
    [] command \in {"launch", "attach"} /\ d = "none" ->
         {Accept(IF procKind[g] = "Gdb" THEN <<>> ELSE <<"initialized">>, "launched")}
    [] command = "configuration_done" /\ d = "launched" -> {Accept(<<>>, "running")}
    [] command \in Resuming /\ d = "stopped" ->
         {Accept(<<>>, "running"), Accept(<<"continued">>, "running")}
    [] command = "disconnect" -> {Accept(<<>>, "exited"), Accept(<<"terminated">>, "exited")}
    [] \/ command \in Breakpoints
       \/ command \in {"pause", "get_threads"} /\ d = "running"
       \/ command \in Inspecting \cup {"get_threads"} /\ d = "stopped" -> {Accept(<<>>, d)}
    [] OTHER -> {}

\* How it may react: it may refuse any command, and does so where its program's state
\* does not allow it.
Reactions(g, command, d) ==
  Acceptances(g, command, d) \cup {[result |-> "failed", announced |-> <<>>, next |-> d]}

Announce(g, names, n) ==
  [i \in DOMAIN names |-> [task |-> Nobody, body |-> names[i], stamp |-> <<g, n>>]]

\* It answers the oldest request.  After a disconnect it exits, soon or not so soon.
Serve(g) ==
  LET r == Head(inq[g]) IN
  /\ g \in alive /\ inq[g] # <<>>
  /\ inq' = [inq EXCEPT ![g] = Tail(@)]
  /\ \E x \in Reactions(g, r.command, debuggee[g]) :
       /\ debuggee' = [debuggee EXCEPT ![g] = x.next]
       /\ outq' = [outq EXCEPT ![g] = @ \o
            <<[task |-> r.task, body |-> x.result, stamp |-> <<g, stops[g]>>]>>
            \o Announce(g, x.announced, stops[g])]
  /\ alive' \in IF r.command = "disconnect" THEN {alive, alive \ {g}} ELSE {alive}
  /\ UNCHANGED <<session, client, tasks, spawned, procKind, stops>>

\* The program hits a breakpoint, ends a step or is paused.
Stop(g) ==
  /\ g \in alive /\ debuggee[g] = "running" /\ stops[g] < MaxStops
  /\ debuggee' = [debuggee EXCEPT ![g] = "stopped"]
  /\ stops' = [stops EXCEPT ![g] = @ + 1]
  /\ outq' = [outq EXCEPT ![g] = @ \o Announce(g, <<"stopped">>, stops[g] + 1)]
  /\ UNCHANGED <<session, client, tasks, spawned, alive, procKind, inq>>

\* The program ends; the adapter says so twice.
Exit(g) ==
  /\ g \in alive /\ debuggee[g] = "running"
  /\ debuggee' = [debuggee EXCEPT ![g] = "exited"]
  /\ outq' = [outq EXCEPT ![g] = @ \o Announce(g, <<"exited", "terminated">>, stops[g])]
  /\ UNCHANGED <<session, client, tasks, spawned, alive, procKind, inq, stops>>

Crash(g) ==
  /\ MayCrash /\ g \in alive
  /\ alive' = alive \ {g}
  /\ UNCHANGED <<session, client, tasks, spawned, procKind, inq, outq, debuggee, stops>>

-----------------------------------------------------------------------------
\* One step of a task that has started.
Step(t) ==
  \/ Gate(t) \/ IsRunning(t) \/ SpawnFails(t) \/ Spawn(t) \/ SetStdin(t) \/ SetChild(t)
  \/ SetKind(t) \/ Send(t) \/ Receive(t) \/ SetHalt(t) \/ ClearHalt(t) \/ Recheck(t)
  \/ transition_to(t) \/ Kill(t) \/ ClearBreakpoints(t) \/ UpdateBreakpoints(t)
  \/ CacheVariables(t)

Next ==
  \/ \E t \in Tasks : Call(t) \/ TakeEvent(t) \/ Step(t) \/ Cancel(t)
  \/ \E g \in Procs : Read(g) \/ Serve(g) \/ Stop(g) \/ Exit(g) \/ Crash(g)

Spec == Init /\ [][Next]_vars

-----------------------------------------------------------------------------
(* Properties.                                                             *)

Requests == [task : Tasks \cup {Nobody}, command : Tools \cup Events \cup {"none", "disconnect"}]
\* A message is an event or the response, ok or failed, to a task's request.
Messages ==
  [task : Tasks \cup {Nobody}, body : Events \cup {"ok", "failed"}, stamp : Stamps]

SessionTypeOK ==
  /\ state \in SessionStates /\ halt \in Stamps /\ kind \in {"None", "Codelldb", "Gdb"}
  /\ varCache \subseteq Stamps /\ bpCache \in [Breakpoints -> 0..MaxProcs]

ClientTypeOK ==
  /\ child \in 0..MaxProcs /\ stdin \in 0..MaxProcs
  /\ events \in Seq([name : Events, stamp : Stamps])

TaskTypeOK ==
  /\ op \in [Tasks -> Tools \cup Events \cup {"none"}] /\ pc \in [Tasks -> Labels]
  /\ answer \in [Tasks -> Answers] /\ arg \in [Tasks -> Stamps] /\ calls \in 0..MaxCalls

AdapterTypeOK ==
  /\ spawned \in 0..MaxProcs /\ alive \subseteq 1..spawned
  /\ procKind \in [Procs -> {"None", "Codelldb", "Gdb"}]
  /\ inq \in [Procs -> Seq(Requests)] /\ outq \in [Procs -> Seq(Messages)]
  /\ debuggee \in [Procs -> {"none", "launched", "running", "stopped", "exited"}]
  /\ stops \in [Procs -> 0..MaxStops]

\* Every field of DebugSession and DapClient, every task and every adapter keeps to
\* the values the code gives it.
TypeOK == SessionTypeOK /\ ClientTypeOK /\ TaskTypeOK /\ AdapterTypeOK

\* No adapter process is orphaned: each one that runs is the client's child, or in
\* the hands of a `start` that is about to make it so.  Concurrent starts, dropped
\* calls and shutdowns racing them all leave every other process killed.
AdapterOwned ==
  \A g \in alive :
    g = child \/ \E t \in Tasks : pc[t] \in {"set_stdin", "set_child"} /\ arg[t][1] = g

\* The requests and responses of task t in the pipes.
Carrying(q, t) == {i \in DOMAIN q : q[i].task = t}
InFlight(t) ==
  UNION {({"inq"} \X {g} \X Carrying(inq[g], t)) \cup ({"outq"} \X {g} \X Carrying(outq[g], t))
           : g \in Procs}

\* The pending map routes every response to the call that waits for it: a call that
\* waits has exactly one request or response under way until its answer is there,
\* and nothing addressed to a task is under way when it does not wait.
ExactlyOneAnswer ==
  \A t \in Tasks :
    /\ answer[t] # NoAnswer => pc[t] = "wait"
    /\ IF pc[t] = "wait" /\ answer[t] = NoAnswer
         THEN \E x \in InFlight(t) : InFlight(t) = {x}
         ELSE InFlight(t) = {}

\* Nothing is under way: no task is busy, no event or message is unread, and no
\* adapter that runs has a request to answer.
Quiescent ==
  /\ \A t \in Tasks : pc[t] = "idle"
  /\ events = <<>>
  /\ \A g \in Procs : outq[g] = <<>> /\ (g \in alive => inq[g] = <<>>)

\* state.rs: Disconnected means that no adapter process is running.  When this
\* fails for good the session is wedged: start finds a child, shutdown is gated off.
DisconnectedMeansNoAdapter == Quiescent /\ state = "Disconnected" => child = 0

\* state.rs: Connected and every later state mean that an adapter was spawned and
\* is still the client's.
ConnectedMeansAdapter == Quiescent /\ state # "Disconnected" => child # 0

\* state.rs: Running means that the debuggee executes freely.  When this fails a
\* stop was lost: nothing will ever report it, and continue is gated off.
RunningMeansNotStopped ==
  Quiescent /\ state = "Running" /\ child # 0 => debuggee[child] # "stopped"

\* state.rs: Halted means that the debuggee is stopped.
HaltedMeansStopped ==
  Quiescent /\ state = "Halted" /\ child \in alive => debuggee[child] = "stopped"

\* session.rs: in Halted, halt_state holds the details of the stop the debuggee is at.
HaltStateDescribesStop ==
  Quiescent /\ state = "Halted" /\ child \in alive => halt = <<child, stops[child]>>

\* cache.rs: the variable cache never offers a handle of an earlier stop, nor any
\* handle once execution has resumed.
FreshHandles ==
  Quiescent =>
    varCache \subseteq IF state = "Halted" /\ child # 0 THEN {<<child, stops[child]>>} ELSE {}

\* CHANGELOG.md: the breakpoint cache is cleared on disconnect and termination.
BreakpointsClearedOnDisconnect ==
  Quiescent /\ state = "Disconnected" => \A b \in Breakpoints : bpCache[b] = 0

\* A request the adapter granted is followed by its transition: the state the call
\* was gated on is still one that Target may be entered from.
GrantedCallSucceeds ==
  \A t \in Tasks :
    pc[t] = "transition" /\ op[t] \in Tools => can_transition_to(state, Target(op[t]))

\* Every call returns and every event is handled to its end.
EveryOperationEnds == \A t \in Tasks : pc[t] # "idle" ~> pc[t] = "idle"

\* The runtime keeps scheduling every task that can move, and the reader; an adapter
\* that runs answers its requests.  Nobody owes the program a call, a stop, an exit.
Fairness ==
  /\ \A t \in Tasks : WF_vars(Step(t)) /\ WF_vars(TakeEvent(t))
  /\ \A g \in Procs : WF_vars(Read(g)) /\ WF_vars(Serve(g))

FairSpec == Spec /\ Fairness

=============================================================================
