----------------------------- MODULE Cli_proofs -----------------------------
(***************************************************************************)
(* Theorems about the CLI, and about any other program of one task: what   *)
(* the gate admits succeeds, Disconnected means that there is no adapter   *)
(* and no cached breakpoint, the script leaves no adapter but after an     *)
(* initialize that failed, and no stop of the debuggee is lost.            *)
(***************************************************************************)
EXTENDS Cli, DebugSession_proofs

LEMMA OneOnly == \A t, u \in Tasks : t = u
BY OneTask DEF Tasks

LEMMA NothingCancellable == Cancellable = {}
BY OneTask, TasksAssumption

\* The calls of the script are calls of the session.
LEMMA IssueInv ==
  ASSUME IInv, NEW t \in Tasks, Issue(t)
  PROVE  IInv'
<1> USE DEF Issue, Goto, session, client, adapter, IInv, TypeOK
<1>1. TaskTypeOK'
  BY ScriptAssumption DEF TaskTypeOK, Labels
<1>2. SessionTypeOK' /\ ClientTypeOK' /\ AdapterTypeOK'
  BY DEF SessionTypeOK, ClientTypeOK, AdapterTypeOK
<1>3. StartsHoldProcess' /\ AdapterOwned'
  BY DEF StartsHoldProcess, AdapterOwned, TaskTypeOK, Holding
<1>4. QED
  BY <1>1, <1>2, <1>3

\* Every step of the CLI is a step of DebugSession, or one of its calls made beyond
\* the bound on calls.
LEMMA CliSteps == CliNext => Next \/ \E t \in Tasks : Issue(t)
BY DEF CliNext, FreeCall, Take, CliStep, Environment, Next

LEMMA CliTypes == IInv /\ [CliNext]_cliVars => IInv'
<1> SUFFICES ASSUME IInv, [CliNext]_cliVars PROVE IInv'
  OBVIOUS
<1>1. CASE CliNext
  <2>1. ASSUME NEW t \in Tasks, Issue(t) PROVE IInv'
    BY <2>1, IssueInv
  <2>2. CASE Next
    BY <2>2, StepInv
  <2>3. QED
    BY <1>1, <2>1, <2>2, CliSteps
<1>2. CASE UNCHANGED cliVars
  <2>1. [Next]_vars
    BY <1>2 DEF cliVars
  <2>2. QED
    BY <2>1, StepInv
<1>3. QED
  BY <1>1, <1>2

-----------------------------------------------------------------------------
(* One task: the state stays what the gate saw until the task moves it.    *)

\* What a call was admitted in is the state it runs in.
Admitted(t) ==
  op[t] \in Tools /\ pc[t] \notin {"idle", "gate", "clear_bps"} => is_allowed(op[t], state)

\* A shutdown kills first and disconnects afterwards; a start takes the child first
\* and connects afterwards.
ChildGone(t) ==
  /\ op[t] \in Closing /\ pc[t] \in {"recheck", "transition", "clear_bps"} => child = 0
  /\ state = "Disconnected" /\ child # 0 => op[t] = "start" /\ pc[t] \in {"set_kind", "transition"}

ChildKept(t) ==
  /\ pc[t] = "set_kind" \/ (pc[t] = "transition" /\ op[t] = "start") => child # 0
  /\ state # "Disconnected" /\ child = 0 => op[t] \in Closing /\ pc[t] \in {"recheck", "transition"}

CacheGone(t) ==
  /\ pc[t] = "clear_bps" => state = "Disconnected"
  /\ state = "Disconnected" /\ pc[t] # "clear_bps" => bpCache = [b \in Breakpoints |-> 0]

Alone(t) == Staged(t) /\ Admitted(t) /\ ChildGone(t) /\ ChildKept(t) /\ CacheGone(t)

LEMMA InitAlone == ASSUME Init, NEW t \in Tasks PROVE Alone(t)
BY DEF Init, Alone, Staged, Admitted, ChildGone, ChildKept, CacheGone

LEMMA CallAlone ==
  ASSUME IInv, NEW t \in Tasks, Alone(t), Call(t) \/ Issue(t)
  PROVE  Alone(t)'
<1>1. /\ pc[t] = "idle" /\ pc'[t] = "gate" /\ op'[t] \in Tools
      /\ UNCHANGED <<state, bpCache, child>>
  BY ScriptAssumption DEF Call, Issue, Goto, session, client, IInv, TypeOK, TaskTypeOK
<1>2. QED
  BY <1>1 DEF Alone, Staged, Admitted, ChildGone, ChildKept, CacheGone

LEMMA TakeAlone ==
  ASSUME IInv, NEW t \in Tasks, Alone(t), TakeEvent(t)
  PROVE  Alone(t)'
<1>1. PICK e \in Events :
        /\ pc[t] = "idle" /\ pc'[t] = FirstStep(e) /\ op'[t] = e
        /\ UNCHANGED <<state, bpCache, child>>
  <2>1. Head(events) \in [name : Events, stamp : Stamps]
    BY HeadTailProperties DEF TakeEvent, IInv, TypeOK, ClientTypeOK
  <2>2. QED
    BY <2>1 DEF TakeEvent, Goto, session, IInv, TypeOK, TaskTypeOK
<1>2. e \notin Tools /\ e # "start"
  BY ToolsAreNotEvents DEF Events
<1>3. /\ FirstStep(e) \in {"send", "recheck", "set_halt", "clear_halt"}
      /\ FirstStep(e) = "send" => e \in Closing
      /\ FirstStep(e) = "recheck" => e = "initialized"
      /\ FirstStep(e) = "set_halt" => e = "stopped"
      /\ FirstStep(e) = "clear_halt" => e = "continued"
  BY DEF FirstStep, Events, Closing
<1>4. ~(e = "initialized" /\ e \in Closing)
  BY DEF Closing
<1>5. QED
  BY <1>1, <1>2, <1>3, <1>4 DEF Alone, Staged, Admitted, ChildGone, ChildKept, CacheGone

\* A step that changes neither the state, nor the child, nor the breakpoint cache, nor
\* what its task is doing.
LEMMA QuietAlone ==
  ASSUME NEW t \in Tasks, Alone(t), UNCHANGED <<state, bpCache, child>>, op'[t] = op[t],
         pc[t] \notin {"idle", "gate", "clear_bps", "set_kind", "transition"}, Staged(t)',
         op[t] \in Closing /\ pc'[t] \in {"recheck", "transition", "clear_bps"} => child = 0,
         pc'[t] # "clear_bps", ChildKept(t)'
  PROVE  Alone(t)'
BY DEF Alone, Admitted, ChildGone, ChildKept, CacheGone

LEMMA GateAlone ==
  ASSUME IInv, NEW t \in Tasks, Alone(t), Gate(t)
  PROVE  Alone(t)'
<1>1. /\ pc[t] = "gate" /\ UNCHANGED <<state, bpCache, child, op>>
      /\ pc'[t] = IF is_allowed(op[t], state) THEN AfterGate(op[t]) ELSE "idle"
  BY DEF Gate, Goto, session, client, IInv, TypeOK, TaskTypeOK
<1>2. QED
  BY <1>1, AfterGatePlaces DEF Alone, Staged, Admitted, ChildGone, ChildKept, CacheGone

LEMMA StartAlone ==
  ASSUME IInv, NEW t \in Tasks, Alone(t),
         IsRunning(t) \/ SpawnFails(t) \/ Spawn(t) \/ SetStdin(t)
  PROVE  Alone(t)'
<1>1. /\ UNCHANGED <<state, bpCache, child, op>>
      /\ \/ pc[t] = "is_running" /\ pc'[t] \in {"idle", "spawn"}
         \/ pc[t] = "spawn" /\ pc'[t] \in {"idle", "set_stdin"}
         \/ pc[t] = "set_stdin" /\ pc'[t] = "set_child"
  BY DEF IsRunning, SpawnFails, Spawn, SetStdin, Goto, session, client, IInv, TypeOK, TaskTypeOK
<1>2. Staged(t)'
  BY <1>1 DEF Alone, Staged
<1>3. ChildKept(t)'
  BY <1>1 DEF Alone, ChildKept
<1>4. QED
  BY <1>1, <1>2, <1>3, QuietAlone

LEMMA ChildAlone ==
  ASSUME IInv, NEW t \in Tasks, Alone(t), SetChild(t) \/ SetKind(t)
  PROVE  Alone(t)'
<1>1. /\ UNCHANGED <<state, bpCache, op>>
      /\ \/ pc[t] = "set_child" /\ pc'[t] = "set_kind" /\ child' = arg[t][1]
         \/ pc[t] = "set_kind" /\ pc'[t] = "transition" /\ child' = child
  BY DEF SetChild, SetKind, Goto, session, client, IInv, TypeOK, TaskTypeOK
<1>2. op[t] = "start" /\ op[t] \in Tools
  BY <1>1 DEF Alone, Staged
<1>3. op[t] \notin Closing
  BY <1>2 DEF Closing
<1>4. child' # 0
  <2>1. arg[t][1] # 0 /\ (pc[t] = "set_kind" => child # 0)
    BY <1>1 DEF Alone, ChildKept, IInv, StartsHoldProcess, Holding
  <2>2. QED
    BY <1>1, <2>1
<1>5. QED
  BY <1>1, <1>2, <1>3, <1>4 DEF Alone, Staged, Admitted, ChildGone, ChildKept, CacheGone

LEMMA RequestAlone ==
  ASSUME IInv, NEW t \in Tasks, Alone(t), Send(t) \/ Receive(t)
  PROVE  Alone(t)'
<1>1. /\ UNCHANGED <<state, bpCache, child, op>>
      /\ pc[t] \in {"send", "wait"}
      /\ pc'[t] \in {"wait", AfterReply(op[t]), AfterFailure(op[t])}
  BY DEF Send, Receive, Goto, session, client, IInv, TypeOK, TaskTypeOK
<1>2. op[t] \in (Tools \ {"start"}) \cup Closing
  BY <1>1 DEF Alone, Staged
<1>3. \A o \in Closing : o \notin {"initialize", "configuration_done", "get_variables"}
                           /\ o \notin Resuming /\ o \notin Breakpoints
  BY DEF Closing, Resuming, Breakpoints
<1>4. CASE pc'[t] = "wait"
  <2>1. Staged(t)'
    BY <1>1, <1>2, <1>4 DEF Staged
  <2>2. ChildKept(t)'
    BY <1>1, <1>4 DEF Alone, ChildKept
  <2>3. QED
    BY <1>1, <1>4, <2>1, <2>2, QuietAlone
<1>5. CASE pc'[t] # "wait"
  <2>1. /\ pc'[t] \in {"idle", "kill", "clear_halt", "transition", "update_bps", "cache_vars"}
        /\ pc'[t] = "kill" => op[t] \in Closing
        /\ pc'[t] = "clear_halt" => op[t] \in Resuming
        /\ pc'[t] = "transition" => op[t] \in {"initialize", "configuration_done"}
        /\ pc'[t] = "update_bps" => op[t] \in Breakpoints
        /\ pc'[t] = "cache_vars" => op[t] = "get_variables"
    BY <1>1, <1>5, AfterReplyPlaces
  <2>2. Staged(t)'
    BY <1>1, <1>2, <1>3, <2>1 DEF Staged
  <2>3. ChildKept(t)'
    BY <1>1, <2>1 DEF Alone, ChildKept
  <2>4. QED
    BY <1>1, <1>3, <2>1, <2>2, <2>3, QuietAlone
<1>6. QED
  BY <1>4, <1>5

LEMMA FieldAlone ==
  ASSUME IInv, NEW t \in Tasks, Alone(t),
         SetHalt(t) \/ ClearHalt(t) \/ Recheck(t) \/ CacheVariables(t)
  PROVE  Alone(t)'
<1>1. /\ UNCHANGED <<state, bpCache, child, op>>
      /\ \/ pc[t] = "set_halt" /\ pc'[t] = "transition"
         \/ pc[t] = "clear_halt" /\ pc'[t] = IF op[t] = "continued" THEN "recheck" ELSE "transition"
         \/ pc[t] = "recheck" /\ pc'[t] = IF state = Target(op[t]) THEN "idle" ELSE "transition"
         \/ pc[t] = "cache_vars" /\ pc'[t] = "idle"
  BY DEF SetHalt, ClearHalt, Recheck, CacheVariables, Goto, session, client, IInv, TypeOK, TaskTypeOK
<1>2. Closing \subseteq Events \cup {"shutdown"} /\ {"stopped", "continued", "initialized"} \subseteq Events
  BY DEF Closing, Events
<1>3. /\ op[t] \in Closing => op[t] \in Tools \/ op[t] \in Events
      /\ ~(op[t] \in Closing /\ op[t] \in Resuming \cup {"stopped", "continued", "initialized"})
  BY DEF IInv, TypeOK, TaskTypeOK, Closing, Resuming
<1>4. Staged(t)'
  BY <1>1, <1>2, <1>3 DEF Alone, Staged
<1>5. op[t] \in Closing /\ pc'[t] \in {"recheck", "transition", "clear_bps"} => child = 0
  BY <1>1, <1>3 DEF Alone, Staged, ChildGone
<1>6. ChildKept(t)'
  <2>1. op[t] \in Closing => Target(op[t]) = "Disconnected"
    BY DEF Target, Closing, Resuming
  <2>2. pc[t] \in {"set_halt", "clear_halt", "recheck"} => op[t] # "start"
    BY DEF Alone, Staged, Closing, Resuming
  <2>3. QED
    BY <1>1, <2>1, <2>2 DEF Alone, ChildKept
<1>7. QED
  BY <1>1, <1>4, <1>5, <1>6, QuietAlone

\* The transition that a call was admitted for is legal when it comes to it.
LEMMA AdmittedIsLegal ==
  ASSUME IInv, NEW t \in Tasks, Alone(t), pc[t] = "transition", op[t] \in Tools
  PROVE  can_transition_to(state, Target(op[t]))
<1>1. op[t] \in {"start", "initialize", "configuration_done", "shutdown"} \cup Resuming
  BY ToolsAreNotEvents DEF Alone, Staged
<1>2. is_allowed(op[t], state) /\ state \in SessionStates
  BY DEF Alone, Admitted, IInv, TypeOK, SessionTypeOK
<1>3. QED
  BY <1>1, <1>2, GateAdmitsLegalTransitions

LEMMA TransitionAlone ==
  ASSUME IInv, NEW t \in Tasks, Alone(t), transition_to(t)
  PROVE  Alone(t)'
<1>1. UNCHANGED <<bpCache, child, op>> /\ pc[t] = "transition"
  BY DEF transition_to, client
<1>2. op[t] \in Events \cup {"start", "initialize", "configuration_done", "shutdown"} \cup Resuming
  BY <1>1 DEF Alone, Staged
<1>3. op[t] \in Closing => child = 0
  BY <1>1 DEF Alone, ChildGone
<1>4. CASE can_transition_to(state, Target(op[t]))
  <2>1. state' = Target(op[t]) /\ pc'[t] = IF op[t] \in Closing THEN "clear_bps" ELSE "idle"
    BY <1>4 DEF transition_to, Goto, IInv, TypeOK, TaskTypeOK
  <2>2. state' = "Disconnected" <=> op[t] \in Closing
    BY <1>2, <2>1, TargetPlaces
  <2>3. child = 0 /\ op[t] \notin Closing => FALSE
    <3>1. state = "Disconnected" => op[t] = "start"
      BY <1>2, <1>4, TargetPlaces DEF can_transition_to
    <3>2. QED
      BY <1>1, <3>1 DEF Alone, ChildKept
  <2>4. QED
    BY <1>1, <1>3, <2>1, <2>2, <2>3 DEF Alone, Staged, Admitted, ChildGone, ChildKept, CacheGone
<1>5. CASE ~can_transition_to(state, Target(op[t]))
  <2>1. state' = state /\ pc'[t] = "idle"
    BY <1>5 DEF transition_to, Goto, IInv, TypeOK, TaskTypeOK
  <2>2. op[t] \notin Tools
    BY <1>1, <1>5, AdmittedIsLegal
  <2>3. op[t] # "start"
    BY <1>1, <2>2 DEF Alone, Staged, Events
  <2>4. op[t] \in Closing => state = "Disconnected"
    BY <1>2, <1>5, TargetPlaces DEF can_transition_to, IInv, TypeOK, SessionTypeOK, SessionStates
  <2>5. QED
    BY <1>1, <2>1, <2>2, <2>3, <2>4 DEF Alone, Staged, Admitted, ChildGone, ChildKept, CacheGone
<1>6. QED
  BY <1>4, <1>5

LEMMA KillAlone ==
  ASSUME IInv, NEW t \in Tasks, Alone(t), Kill(t) \/ ClearBreakpoints(t)
  PROVE  Alone(t)'
<1>1. /\ UNCHANGED <<state, op>>
      /\ \/ pc[t] = "kill" /\ pc'[t] = "recheck" /\ child' = 0 /\ bpCache' = bpCache
         \/ /\ pc[t] = "clear_bps" /\ pc'[t] = "idle" /\ child' = child
            /\ bpCache' = [b \in Breakpoints |-> 0]
  BY DEF Kill, ClearBreakpoints, Goto, session, client, IInv, TypeOK, TaskTypeOK
<1>2. op[t] \in Closing /\ op[t] # "start"
  BY <1>1 DEF Alone, Staged, Closing
<1>3. QED
  BY <1>1, <1>2 DEF Alone, Staged, Admitted, ChildGone, ChildKept, CacheGone

LEMMA UpdateAlone ==
  ASSUME IInv, NEW t \in Tasks, Alone(t), UpdateBreakpoints(t)
  PROVE  Alone(t)'
<1>1. /\ UNCHANGED <<state, op, child>> /\ pc[t] \in {"update_bps", "update_bps_again"}
      /\ pc'[t] = IF pc[t] = "update_bps" THEN "update_bps_again" ELSE "idle"
  BY DEF UpdateBreakpoints, Goto, client, IInv, TypeOK, TaskTypeOK
<1>2. op[t] \in Tools \cap Breakpoints /\ is_allowed(op[t], state)
  BY <1>1 DEF Alone, Staged, Admitted
<1>3. \A b \in Breakpoints : ~is_allowed(b, "Disconnected")
  BY DEF is_allowed, allowed_states, Breakpoints, Resuming, Inspecting
<1>4. state # "Disconnected"
  BY <1>2, <1>3
<1>5. QED
  BY <1>1, <1>2, <1>4 DEF Alone, Staged, Admitted, ChildGone, ChildKept, CacheGone

LEMMA StepAlone ==
  ASSUME IInv, NEW t \in Tasks, Alone(t), Step(t)
  PROVE  Alone(t)'
BY GateAlone, StartAlone, ChildAlone, RequestAlone, FieldAlone, TransitionAlone, KillAlone, UpdateAlone
DEF Step

\* The adapters, and the reader, touch nothing of this.
LEMMA AdapterAlone ==
  ASSUME NEW t \in Tasks, Alone(t), UNCHANGED <<state, bpCache, child, op, pc>>
  PROVE  Alone(t)'
BY DEF Alone, Staged, Admitted, ChildGone, ChildKept, CacheGone

LEMMA NextAlone ==
  ASSUME IInv, \A t \in Tasks : Alone(t), [CliNext]_cliVars
  PROVE  \A t \in Tasks : Alone(t)'
<1> SUFFICES ASSUME NEW t \in Tasks PROVE Alone(t)'
  OBVIOUS
<1>1. Alone(t)
  OBVIOUS
<1>2. ASSUME NEW u \in Tasks, Issue(u) \/ FreeCall(u) \/ Take(u) \/ CliStep(u)
      PROVE  Alone(t)'
  <2>1. u = t
    BY OneOnly
  <2>2. Issue(t) \/ Call(t) \/ TakeEvent(t) \/ Step(t)
    BY <1>2, <2>1 DEF FreeCall, Take, CliStep
  <2>3. QED
    BY <1>1, <2>2, CallAlone, TakeAlone, StepAlone
<1>3. CASE Environment
  BY <1>1, <1>3, AdapterAlone DEF Environment, Read, Serve, Stop, Exit, session, client, tasks
<1>4. CASE UNCHANGED cliVars
  BY <1>1, <1>4, AdapterAlone DEF cliVars, vars, session, client, tasks
<1>5. QED
  BY <1>2, <1>3, <1>4 DEF CliNext

CliInv == IInv /\ \A t \in Tasks : Alone(t)

LEMMA CliInvariance == CliSpec => []CliInv
<1>1. CliInit => CliInv
  BY InitInv, InitAlone DEF CliInit, CliInv
<1>2. CliInv /\ [CliNext]_cliVars => CliInv'
  BY CliTypes, NextAlone DEF CliInv
<1>3. QED
  BY <1>1, <1>2, PTL DEF CliSpec

\* Type correctness of the session, the client and the adapters under the CLI.
THEOREM CliTypeCorrect == CliSpec => []TypeOK
<1>1. CliInv => TypeOK
  BY DEF CliInv, IInv
<1>2. QED
  BY <1>1, CliInvariance, PTL

\* session.rs, tools.rs: in a program of one task no call is refused by transition_to once
\* the gate has let it through and the adapter has granted it.
THEOREM GrantedCallsSucceed == CliSpec => []GrantedCallSucceeds
<1>1. CliInv => GrantedCallSucceeds
  BY AdmittedIsLegal DEF CliInv, GrantedCallSucceeds
<1>2. QED
  BY <1>1, CliInvariance, PTL

\* session.rs: however the session of such a program came to be Disconnected, by a call,
\* an event or both, the breakpoint cache is empty when nothing is under way.
THEOREM DisconnectClearsBreakpoints == CliSpec => []BreakpointsClearedOnDisconnect
<1>1. CliInv => BreakpointsClearedOnDisconnect
  <2>1. PICK t \in Tasks : TRUE
    BY OneTask DEF Tasks
  <2>2. CliInv /\ Quiescent => pc[t] = "idle" /\ CacheGone(t)
    BY DEF CliInv, Quiescent, Alone
  <2>3. QED
    BY <2>2 DEF CacheGone, BreakpointsClearedOnDisconnect
<1>2. QED
  BY <1>1, CliInvariance, PTL

\* state.rs: in such a program Disconnected means that the client has no adapter.
THEOREM DisconnectedHasNoAdapter == CliSpec => []DisconnectedMeansNoAdapter
<1>1. CliInv => DisconnectedMeansNoAdapter
  <2>1. PICK t \in Tasks : TRUE
    BY OneTask DEF Tasks
  <2>2. CliInv /\ Quiescent => pc[t] = "idle" /\ ChildGone(t)
    BY DEF CliInv, Quiescent, Alone
  <2>3. QED
    BY <2>2 DEF ChildGone, DisconnectedMeansNoAdapter
<1>2. QED
  BY <1>1, CliInvariance, PTL

\* state.rs: and every other state means that it has one.
THEOREM ConnectedHasAdapter == CliSpec => []ConnectedMeansAdapter
<1>1. CliInv => ConnectedMeansAdapter
  <2>1. PICK t \in Tasks : TRUE
    BY OneTask DEF Tasks
  <2>2. CliInv /\ Quiescent => pc[t] = "idle" /\ ChildKept(t)
    BY DEF CliInv, Quiescent, Alone
  <2>3. QED
    BY <2>2 DEF ChildKept, ConnectedMeansAdapter
<1>2. QED
  BY <1>1, CliInvariance, PTL

-----------------------------------------------------------------------------
(* The script.                                                             *)

\* Where the script may be, given what its task is doing.
OnScript(t) ==
  /\ script \in CallPlaces \cup {"await", "loop", "free", "end", "exit"}
  /\ script \in CallPlaces /\ pc[t] # "idle" => op[t] = script
  /\ script \in {"await", "loop"} /\ pc[t] # "idle" => op[t] \in Events
  /\ script = "end" => pc[t] = "idle" /\ state = "Disconnected"
  /\ script = "shutdown" /\ pc[t] \in {"idle", "gate"} => state # "Disconnected"

\* Until initialize has returned nothing else was asked of the adapter: it has no reason to end.
OnlyInitialize ==
  \A g \in Procs : \A i \in DOMAIN inq[g] : inq[g][i].command = "initialize"

\* A request that was answered was granted or refused.
Answered == \A t \in Tasks : answer[t] = NoAnswer \/ answer[t].result \in {"ok", "failed"}

\* The start hands the process it spawned, which runs, to the client.
Starting(t) ==
  /\ state = "Disconnected"
  /\ pc[t] \in Holding \cup {"transition"} => arg[t][1] \in alive
  /\ pc[t] \in {"set_child", "set_kind", "transition"} => stdin = arg[t][1]
  /\ pc[t] \in {"set_kind", "transition"} => child = arg[t][1]
  /\ pc[t] \notin {"set_kind", "transition"} => child = 0

Initializing == state = "Connected" /\ stdin \in alive

\* One of the two calls failed, and the process has left on the spot.
Exited(t) ==
  /\ pc[t] = "idle"
  /\ \/ op[t] = "start" /\ state = "Disconnected"
     \/ op[t] = "initialize" /\ Initializing

Opening(t) ==
  /\ script \in {"start", "initialize", "exit"} => OnlyInitialize
  /\ script = "start" => Starting(t)
  /\ script = "initialize" => Initializing
  /\ script = "exit" => Exited(t)

\* A step belongs to an operation under way, goes on with it and never back to its gate.
LEMMA StepGoesOn ==
  ASSUME IInv, NEW t \in Tasks, Step(t)
  PROVE  pc[t] \notin {"idle"} /\ op' = op /\ pc'[t] # "gate"
<1> USE DEF Goto, IInv, TypeOK, TaskTypeOK
<1>1. CASE Gate(t)
  BY <1>1, AfterGatePlaces DEF Gate
<1>2. CASE IsRunning(t) \/ SpawnFails(t) \/ Spawn(t) \/ SetStdin(t) \/ SetChild(t) \/ SetKind(t)
  BY <1>2 DEF IsRunning, SpawnFails, Spawn, SetStdin, SetChild, SetKind
<1>3. CASE Send(t) \/ Receive(t)
  <2>1. /\ pc[t] \in {"send", "wait"} /\ op' = op
        /\ pc'[t] \in {"wait", AfterReply(op[t]), AfterFailure(op[t])}
    BY <1>3 DEF Send, Receive
  <2>2. QED
    BY ZenonT(30), <2>1, AfterReplyPlaces
<1>4. CASE SetHalt(t) \/ ClearHalt(t) \/ Recheck(t) \/ transition_to(t)
  BY <1>4 DEF SetHalt, ClearHalt, Recheck, transition_to
<1>5. CASE Kill(t) \/ ClearBreakpoints(t) \/ UpdateBreakpoints(t) \/ CacheVariables(t)
  BY <1>5 DEF Kill, ClearBreakpoints, UpdateBreakpoints, CacheVariables
<1>6. QED
  BY <1>1, <1>2, <1>3, <1>4, <1>5 DEF Step

\* What the last step of each kind of operation leaves behind.
LEMMA StartEnds ==
  ASSUME CliInv, NEW t \in Tasks, Step(t), pc'[t] = "idle", op[t] = "start", state = "Disconnected"
  PROVE  IF Errs(t) THEN state' = "Disconnected"
                    ELSE state' = "Connected" /\ pc[t] = "transition"
<1>1. Alone(t) /\ pc[t] # "idle" /\ op[t] \notin Closing
  BY StepGoesOn DEF CliInv, Closing
<1>2. pc[t] \in {"gate", "is_running", "spawn", "set_stdin", "set_child", "set_kind", "transition"}
  BY <1>1 DEF Alone, Staged, CliInv, IInv, TypeOK, TaskTypeOK, Labels, Closing, Resuming, Breakpoints
<1>3. CASE pc[t] \in {"gate", "is_running", "spawn"}
  <2>1. Gate(t) \/ IsRunning(t) \/ SpawnFails(t) \/ Spawn(t)
    BY <1>3, StepAt
  <2>2. state' = state
    BY <2>1 DEF Gate, IsRunning, SpawnFails, Spawn, session
  <2>3. QED
    BY <1>3, <2>2 DEF Errs
<1>4. CASE pc[t] \in {"set_stdin", "set_child", "set_kind"}
  <2>1. SetStdin(t) \/ SetChild(t) \/ SetKind(t)
    BY <1>4, StepAt
  <2>2. pc'[t] # "idle"
    BY <2>1 DEF SetStdin, SetChild, SetKind, Goto, CliInv, IInv, TypeOK, TaskTypeOK
  <2>3. QED
    BY <2>2
<1>5. CASE pc[t] = "transition"
  <2>1. transition_to(t)
    BY <1>5, StepAt
  <2>2. Target(op[t]) = "Connected" /\ can_transition_to(state, Target(op[t]))
    BY TargetPlaces DEF can_transition_to
  <2>3. ~Errs(t) /\ state' = "Connected"
    BY <1>5, <2>1, <2>2 DEF Errs, transition_to
  <2>4. QED
    BY <1>5, <2>3
<1>6. QED
  BY <1>2, <1>3, <1>4, <1>5

LEMMA InitializeEnds ==
  ASSUME CliInv, NEW t \in Tasks, Step(t), pc'[t] = "idle", op[t] = "initialize",
         Initializing, Answered
  PROVE  IF Errs(t) THEN pc[t] = "wait" ELSE pc[t] = "transition"
<1>1. Alone(t) /\ pc[t] # "idle" /\ op[t] \notin Closing
  BY StepGoesOn DEF CliInv, Closing
<1>2. pc[t] \in {"gate", "send", "wait", "transition"}
  BY <1>1 DEF Alone, Staged, CliInv, IInv, TypeOK, TaskTypeOK, Labels, Closing, Resuming, Breakpoints
<1>3. /\ is_allowed("initialize", "Connected")
      /\ can_transition_to("Connected", Target("initialize"))
      /\ AfterReply("initialize") = "transition"
  BY DEF is_allowed, allowed_states, can_transition_to, Target, AfterReply, Closing, Resuming,
     Breakpoints, Inspecting
<1>4. CASE pc[t] = "gate"
  <2>1. Gate(t)
    BY <1>4, StepAt
  <2>2. is_allowed(op[t], state)
    BY <1>3 DEF Initializing
  <2>3. pc'[t] = "send"
    BY <2>1, <2>2 DEF Gate, Goto, AfterGate, CliInv, IInv, TypeOK, TaskTypeOK
  <2>4. QED
    BY <2>3
<1>5. CASE pc[t] = "send"
  <2>1. Send(t) /\ stdin \in alive /\ Blocking(op[t])
    BY <1>5, StepAt DEF Initializing, Blocking
  <2>2. pc'[t] = "wait"
    BY <2>1 DEF Send, Goto, CliInv, IInv, TypeOK, TaskTypeOK
  <2>3. QED
    BY <2>2
<1>6. CASE pc[t] = "wait"
  <2>1. Receive(t) /\ AfterReply(op[t]) = "transition"
    BY <1>3, <1>6, StepAt
  <2>2. answer[t].result # "ok"
    BY <2>1 DEF Receive, Goto, CliInv, IInv, TypeOK, TaskTypeOK
  <2>3. answer[t].result = "failed"
    BY <2>1, <2>2 DEF Receive, Answered
  <2>4. QED
    BY <1>6, <2>3 DEF Errs
<1>7. CASE pc[t] = "transition"
  <2>1. can_transition_to(state, Target(op[t]))
    BY <1>3 DEF Initializing
  <2>2. QED
    BY <1>7, <2>1 DEF Errs
<1>8. QED
  BY <1>2, <1>4, <1>5, <1>6, <1>7

LEMMA ShutdownEnds ==
  ASSUME CliInv, NEW t \in Tasks, Step(t), pc'[t] = "idle", op[t] = "shutdown", script = "shutdown",
         OnScript(t)
  PROVE  state' = "Disconnected"
<1>1. Alone(t) /\ pc[t] # "idle"
  BY StepGoesOn DEF CliInv
<1>2. pc[t] \in {"gate", "send", "wait", "recheck", "transition", "kill", "clear_bps"}
  BY <1>1, ToolsAreNotEvents
  DEF Alone, Staged, CliInv, IInv, TypeOK, TaskTypeOK, Labels, Closing, Resuming, Breakpoints
<1>3. AfterReply("shutdown") = "kill" /\ AfterFailure("shutdown") = "kill" /\ op[t] \in Closing
  BY DEF AfterReply, AfterFailure, Closing, Resuming, Breakpoints
<1>4. CASE pc[t] = "gate"
  <2>1. \A s \in SessionStates \ {"Disconnected"} : is_allowed("shutdown", s)
    BY DEF is_allowed, allowed_states, Resuming, Breakpoints, Inspecting
  <2>2. is_allowed(op[t], state)
    BY <1>4, <2>1 DEF OnScript, CliInv, IInv, TypeOK, SessionTypeOK
  <2>3. Gate(t)
    BY <1>4, StepAt
  <2>4. pc'[t] = "send"
    BY <2>2, <2>3 DEF Gate, Goto, AfterGate, CliInv, IInv, TypeOK, TaskTypeOK
  <2>5. QED
    BY <2>4
<1>5. CASE pc[t] \in {"send", "wait"}
  <2>1. Send(t) \/ Receive(t)
    BY <1>5, StepAt
  <2>2. pc'[t] \in {"wait", AfterReply(op[t]), AfterFailure(op[t])}
    BY <2>1 DEF Send, Receive, Goto, CliInv, IInv, TypeOK, TaskTypeOK
  <2>3. QED
    BY <1>3, <2>2
<1>6. CASE pc[t] = "kill"
  BY <1>6, StepAt DEF Kill, Goto, CliInv, IInv, TypeOK, TaskTypeOK
<1>7. CASE pc[t] = "recheck"
  <2>1. Recheck(t) /\ Target(op[t]) = "Disconnected"
    BY <1>7, StepAt DEF Target, Closing, Resuming
  <2>2. QED
    BY <2>1 DEF Recheck, Goto, session, CliInv, IInv, TypeOK, TaskTypeOK
<1>8. CASE pc[t] = "transition"
  <2>1. transition_to(t) /\ op[t] \in Tools
    BY <1>8, StepAt, <1>1 DEF Alone, Staged, Events
  <2>2. can_transition_to(state, Target(op[t]))
    BY <1>1, <1>8, <2>1, AdmittedIsLegal DEF CliInv
  <2>3. pc'[t] = "clear_bps"
    BY <1>3, <2>1, <2>2 DEF transition_to, Goto, CliInv, IInv, TypeOK, TaskTypeOK
  <2>4. QED
    BY <2>3
<1>9. CASE pc[t] = "clear_bps"
  BY <1>1, <1>9, StepAt DEF Alone, CacheGone, ClearBreakpoints
<1>10. QED
  BY <1>2, <1>4, <1>5, <1>6, <1>7, <1>8, <1>9

\* Where the script goes on.
LEMMA CallLeads ==
  ASSUME NEW failed \in BOOLEAN, NEW empty \in BOOLEAN, NEW disconnected \in BOOLEAN,
         script \in CallPlaces, NEW s \in AfterCall(failed, empty, disconnected)
  PROVE  /\ s \in CallPlaces \cup {"await", "loop", "end", "exit"} /\ s \notin {"start", "shutdown"}
         /\ s = "initialize" => script = "start" /\ ~failed
         /\ s = "exit" => script \in {"start", "initialize"} /\ failed
         /\ s = "end" => script = "shutdown" \/ disconnected
<1>1. CASE script \in {"start", "initialize", "launch"}
  BY <1>1 DEF AfterCall, CallPlaces
<1>2. CASE script \in {"set_breakpoints", "configuration_done", "get_scopes", "get_variables", "shutdown"}
  BY <1>2 DEF AfterCall, CallPlaces
<1>3. CASE script \in {"get_threads", "get_stack_trace", "continue"}
  BY <1>3 DEF AfterCall, CallPlaces, NextRound
<1>4. QED
  BY <1>1, <1>2, <1>3 DEF CallPlaces

LEMMA EventLeads ==
  ASSUME NEW event \in Events, NEW failed \in BOOLEAN, NEW disconnected \in BOOLEAN,
         script \in {"await", "loop"}, NEW s \in AfterEvent(event, failed, disconnected)
  PROVE  /\ s \in CallPlaces \cup {"await", "loop", "end"} /\ s \notin {"start", "initialize", "exit"}
         /\ s = "end" => disconnected
         /\ s = "shutdown" => ~disconnected
<1>1. CASE script = "await"
  BY <1>1 DEF AfterEvent, CallPlaces, Events
<1>2. CASE script = "loop"
  BY <1>2 DEF AfterEvent, CallPlaces, NextRound, LeaveLoop, Events
<1>3. QED
  BY <1>1, <1>2

\* The last step of a call, or of an event, leads on from where the script is.
LEMMA StepLeads ==
  ASSUME NEW t \in Tasks, CliStep(t), script # "free", pc'[t] = "idle"
  PROVE  \E failed, empty, disconnected \in BOOLEAN :
           /\ failed = Errs(t) /\ disconnected = (state' = "Disconnected")
           /\ script \in CallPlaces => script' \in AfterCall(failed, empty, disconnected)
           /\ script \notin CallPlaces => script' \in AfterEvent(op[t], failed, disconnected)
<1>1. PICK failed \in BOOLEAN : failed = Errs(t)
  BY DEF Errs
<1>2. PICK disconnected \in BOOLEAN : disconnected = (state' = "Disconnected")
  OBVIOUS
<1>3. CASE script \in CallPlaces
  <2>1. PICK empty \in BOOLEAN : script' \in AfterCall(Errs(t), empty, state' = "Disconnected")
    BY <1>3 DEF CliStep
  <2>2. script' \in AfterCall(failed, empty, disconnected)
    BY <1>1, <1>2, <2>1
  <2>3. QED
    BY <1>1, <1>2, <1>3, <2>2
<1>4. CASE script \notin CallPlaces
  <2>1. script' \in AfterEvent(op[t], Errs(t), state' = "Disconnected")
    BY <1>4 DEF CliStep
  <2>2. script' \in AfterEvent(op[t], failed, disconnected)
    BY <1>1, <1>2, <2>1
  <2>3. QED
    BY <1>1, <1>2, <1>4, <2>2
<1>5. QED
  BY <1>3, <1>4

LEMMA StepOnScript ==
  ASSUME CliInv, CliInv', NEW t \in Tasks, OnScript(t), Opening(t), CliStep(t)
  PROVE  OnScript(t)'
<1>1. pc[t] # "idle" /\ op' = op /\ pc'[t] # "gate" /\ Step(t) /\ script # "end"
  BY StepGoesOn DEF CliStep, CliInv, OnScript
<1>2. CASE script = "free" \/ pc'[t] # "idle"
  <2>1. script' = script
    BY <1>2 DEF CliStep, place
  <2>2. QED
    BY <1>1, <1>2, <2>1 DEF OnScript
<1>3. CASE script # "free" /\ pc'[t] = "idle" /\ script \in CallPlaces
  <2>1. PICK failed, empty, disconnected \in BOOLEAN :
          /\ disconnected = (state' = "Disconnected")
          /\ script' \in AfterCall(failed, empty, disconnected)
    BY <1>3, StepLeads
  <2>2. op[t] = script
    BY <1>1, <1>3 DEF OnScript
  <2>3. /\ script' \in CallPlaces \cup {"await", "loop", "end", "exit"} /\ script' \notin {"start", "shutdown"}
        /\ script' = "end" => script = "shutdown" \/ disconnected
    BY <1>3, <2>1, CallLeads
  <2>4. script' = "end" => state' = "Disconnected"
    BY <1>1, <1>3, <2>1, <2>2, <2>3, ShutdownEnds
  <2>5. QED
    BY <1>3, <2>3, <2>4 DEF OnScript
<1>4. CASE script # "free" /\ pc'[t] = "idle" /\ script \notin CallPlaces
  <2>1. PICK failed, disconnected \in BOOLEAN :
          /\ disconnected = (state' = "Disconnected")
          /\ script' \in AfterEvent(op[t], failed, disconnected)
    BY <1>4, StepLeads
  <2>2. script \in {"await", "loop"} /\ op[t] \in Events
    BY <1>1, <1>4 DEF OnScript, Opening, Exited
  <2>3. /\ script' \in CallPlaces \cup {"await", "loop", "end"}
        /\ script' = "end" => disconnected
        /\ script' = "shutdown" => ~disconnected
    BY <2>1, <2>2, EventLeads
  <2>4. QED
    BY <1>4, <2>1, <2>3 DEF OnScript
<1>5. QED
  BY <1>2, <1>3, <1>4

LEMMA NextAnswered == CliInv /\ Answered /\ [CliNext]_cliVars => Answered'
<1> SUFFICES ASSUME CliInv, Answered, [CliNext]_cliVars PROVE Answered'
  OBVIOUS
<1>1. answer \in [Tasks -> Answers]
  BY DEF CliInv, IInv, TypeOK, TaskTypeOK
<1>2. ASSUME NEW t \in Tasks, Issue(t) \/ FreeCall(t) \/ Take(t) \/ CliStep(t)
      PROVE  Answered'
  <2>1. CASE Issue(t) \/ FreeCall(t) \/ Take(t)
    BY <2>1 DEF Issue, FreeCall, Call, Take, TakeEvent, Answered
  <2>2. CASE Receive(t)
    BY <1>1, <2>2 DEF Receive, Answered
  <2>3. CASE Step(t) /\ ~Receive(t)
    <3>1. answer' = answer
      BY <2>3 DEF Step, Gate, IsRunning, SpawnFails, Spawn, SetStdin, SetChild, SetKind, Send, SetHalt,
         ClearHalt, Recheck, transition_to, Kill, ClearBreakpoints, UpdateBreakpoints, CacheVariables
    <3>2. QED
      BY <3>1 DEF Answered
  <2>4. QED
    BY <1>2, <2>1, <2>2, <2>3 DEF CliStep
<1>3. ASSUME NEW g \in Procs, Read(g) \/ Serve(g) \/ Stop(g) \/ Exit(g)
      PROVE  Answered'
  <2>1. CASE Read(g)
    BY <1>1, <2>1 DEF Read, Answered
  <2>2. CASE Serve(g) \/ Stop(g) \/ Exit(g)
    BY <2>2 DEF Serve, Stop, Exit, tasks, Answered
  <2>3. QED
    BY <1>3, <2>1, <2>2
<1>4. CASE UNCHANGED cliVars
  BY <1>4 DEF cliVars, vars, tasks, Answered
<1>5. QED
  BY <1>2, <1>3, <1>4 DEF CliNext, Environment

LEMMA NextOnScript ==
  ASSUME CliInv, CliInv', NEW t \in Tasks, OnScript(t), Opening(t), [CliNext]_cliVars
  PROVE  OnScript(t)'
<1>1. CASE Issue(t)
  BY <1>1 DEF Issue, Goto, session, place, OnScript, CliInv, IInv, TypeOK, TaskTypeOK, CallPlaces
<1>2. CASE FreeCall(t)
  <2>1. script = "free" /\ script' = "free"
    BY <1>2 DEF FreeCall, place
  <2>2. QED
    BY <2>1 DEF OnScript, CallPlaces
<1>3. CASE Take(t)
  <2>1. Head(events) \in [name : Events, stamp : Stamps]
    BY <1>3, HeadTailProperties DEF Take, TakeEvent, CliInv, IInv, TypeOK, ClientTypeOK
  <2>2. op'[t] \in Events /\ script' = script /\ script \in {"await", "loop", "free"}
    BY <1>3, <2>1 DEF Take, TakeEvent, place, CliInv, IInv, TypeOK, TaskTypeOK
  <2>3. QED
    BY <2>2 DEF OnScript, CallPlaces
<1>4. CASE CliStep(t)
  BY <1>4, StepOnScript
<1>5. CASE UNCHANGED <<state, op, pc, script>>
  BY <1>5 DEF OnScript
<1>6. CASE Environment
  BY <1>5, <1>6 DEF Environment, Read, Serve, Stop, Exit, session, tasks, place
<1>7. CASE UNCHANGED cliVars
  BY <1>5, <1>7 DEF cliVars, vars, session, tasks, place
<1>8. ASSUME NEW u \in Tasks, Issue(u) \/ FreeCall(u) \/ Take(u) \/ CliStep(u)
      PROVE  OnScript(t)'
  <2>1. u = t
    BY OneOnly
  <2>2. QED
    BY <1>1, <1>2, <1>3, <1>4, <1>8, <2>1
<1>9. QED
  BY <1>6, <1>7, <1>8 DEF CliNext

-----------------------------------------------------------------------------
(* Before the end of initialize.                                           *)

LEMMA EnvironmentOpening ==
  ASSUME CliInv, NEW t \in Tasks, Opening(t), Environment, script \in {"start", "initialize", "exit"}
  PROVE  Opening(t)'
<1>1. OnlyInitialize
  BY DEF Opening
<1>2. UNCHANGED <<state, child, stdin, op, arg, pc, script>>
  BY DEF Environment, Read, Serve, Stop, Exit, session, client, tasks, place
<1>3. PICK g \in Procs : Read(g) \/ Serve(g) \/ Stop(g) \/ Exit(g)
  BY DEF Environment
<1>4. alive' = alive /\ OnlyInitialize'
  <2>1. CASE Serve(g)
    <3>1. inq[g] # <<>> /\ inq[g] \in Seq(Requests) /\ inq' = [inq EXCEPT ![g] = Tail(@)]
      BY <2>1 DEF Serve, CliInv, IInv, TypeOK, AdapterTypeOK
    <3>2. /\ Head(inq[g]) = inq[g][1] /\ 1 \in DOMAIN inq[g]
          /\ \A i \in DOMAIN Tail(inq[g]) : i + 1 \in DOMAIN inq[g] /\ Tail(inq[g])[i] = inq[g][i + 1]
      BY <3>1, TailElements
    <3>3. OnlyInitialize'
      BY <1>1, <3>1, <3>2 DEF OnlyInitialize, CliInv, IInv, TypeOK, AdapterTypeOK
    <3>4. Head(inq[g]).command = "initialize"
      BY <1>1, <3>2 DEF OnlyInitialize
    <3>5. QED
      BY <2>1, <3>3, <3>4 DEF Serve
  <2>2. CASE Read(g) \/ Stop(g) \/ Exit(g)
    BY <1>1, <2>2 DEF Read, Stop, Exit, OnlyInitialize
  <2>3. QED
    BY <1>3, <2>1, <2>2
<1>5. QED
  BY <1>2, <1>4 DEF Opening, Starting, Initializing, Exited

\* The steps of start.
LEMMA StartOpening ==
  ASSUME CliInv, CliInv', NEW t \in Tasks, Opening(t), OnScript(t), CliStep(t), script = "start"
  PROVE  Opening(t)'
<1>1. Alone(t) /\ Step(t) /\ OnlyInitialize /\ Starting(t)
  BY DEF CliStep, Opening, CliInv
<1>2. pc[t] # "idle" /\ op[t] = "start" /\ op[t] \notin Closing
  BY <1>1, StepGoesOn DEF OnScript, CallPlaces, CliInv, Closing
<1>3. pc[t] \in {"gate", "is_running", "spawn", "set_stdin", "set_child", "set_kind", "transition"}
  BY <1>1, <1>2 DEF Alone, Staged, CliInv, IInv, TypeOK, TaskTypeOK, Labels, Closing, Resuming, Breakpoints
<1>4. Gate(t) \/ IsRunning(t) \/ SpawnFails(t) \/ Spawn(t) \/ SetStdin(t) \/ SetChild(t)
        \/ SetKind(t) \/ transition_to(t)
  BY <1>1, <1>3, StepAt
<1>5. inq' = inq
  BY <1>4 DEF Gate, IsRunning, SpawnFails, Spawn, SetStdin, SetChild, SetKind, transition_to, adapter
<1>6. OnlyInitialize'
  BY <1>1, <1>5 DEF OnlyInitialize
<1>7. CASE pc'[t] # "idle"
  <2>1. script' = "start"
    BY <1>7 DEF CliStep, place
  <2>2. Starting(t)'
    <3> USE DEF Goto, session, client, adapter, Starting, Holding, CliInv, IInv, TypeOK, TaskTypeOK
    <3>1. CASE Gate(t) \/ IsRunning(t) \/ SpawnFails(t)
      <4>1. /\ UNCHANGED <<state, child, stdin, arg, alive>> /\ pc'[t] \in {"is_running", "send", "spawn"}
            /\ pc[t] \in {"gate", "is_running", "spawn"}
        BY <1>7, <3>1, AfterGatePlaces DEF Gate, IsRunning, SpawnFails
      <4>2. QED
        BY <1>1, <4>1
    <3>2. CASE Spawn(t)
      <4>1. /\ UNCHANGED <<state, child, stdin>> /\ pc'[t] = "set_stdin" /\ pc[t] = "spawn"
            /\ arg'[t] = <<spawned + 1, 0>> /\ spawned + 1 \in alive'
        BY <3>2 DEF Spawn
      <4>2. QED
        BY <1>1, <4>1
    <3>3. CASE SetStdin(t)
      <4>1. /\ UNCHANGED <<state, child, arg, alive>> /\ pc'[t] = "set_child" /\ pc[t] = "set_stdin"
            /\ stdin' = arg[t][1]
        BY <3>3 DEF SetStdin
      <4>2. QED
        BY <1>1, <4>1
    <3>4. CASE SetChild(t)
      <4>1. /\ UNCHANGED <<state, arg, stdin>> /\ pc'[t] = "set_kind" /\ pc[t] = "set_child"
            /\ child' = arg[t][1] /\ alive' = alive \ {child}
        BY <3>4 DEF SetChild
      <4>2. child = 0 /\ arg[t][1] \in alive /\ arg[t][1] # 0
        BY <1>1, <4>1 DEF StartsHoldProcess
      <4>3. QED
        BY <1>1, <4>1, <4>2
    <3>5. CASE SetKind(t)
      <4>1. /\ UNCHANGED <<state, child, stdin, arg, alive>> /\ pc'[t] = "transition" /\ pc[t] = "set_kind"
        BY <3>5 DEF SetKind
      <4>2. QED
        BY <1>1, <4>1
    <3>6. CASE transition_to(t)
      BY <1>2, <1>7, <3>6 DEF transition_to
    <3>7. QED
      BY <1>4, <3>1, <3>2, <3>3, <3>4, <3>5, <3>6
  <2>3. QED
    BY <1>6, <2>1, <2>2 DEF Opening
<1>8. CASE pc'[t] = "idle"
  <2>1. script \in CallPlaces /\ script # "free" /\ op' = op
    BY <1>1, StepGoesOn DEF CallPlaces, CliInv
  <2>2. PICK failed, empty, disconnected \in BOOLEAN :
          failed = Errs(t) /\ script' \in AfterCall(failed, empty, disconnected)
    BY <1>8, <2>1, StepLeads
  <2>3. script' # "start" /\ (script' = "initialize" => ~failed) /\ (script' = "exit" => failed)
    BY <2>1, <2>2, CallLeads
  <2>4. IF failed THEN state' = "Disconnected" ELSE state' = "Connected" /\ pc[t] = "transition"
    BY <1>1, <1>2, <1>8, <2>2, StartEnds DEF Starting
  <2>5. pc[t] = "transition" => stdin' \in alive'
    <3> SUFFICES ASSUME pc[t] = "transition" PROVE stdin' \in alive'
      OBVIOUS
    <3>1. transition_to(t) /\ stdin \in alive
      BY <1>1, StepAt DEF Starting
    <3>2. QED
      BY <3>1 DEF transition_to, client, adapter
  <2>6. QED
    BY <1>2, <1>6, <1>8, <2>1, <2>3, <2>4, <2>5 DEF Opening, Exited, Initializing
<1>9. QED
  BY <1>7, <1>8

\* The steps of initialize.
LEMMA InitializeOpening ==
  ASSUME CliInv, CliInv', Answered, NEW t \in Tasks, Opening(t), OnScript(t), CliStep(t),
         script = "initialize"
  PROVE  Opening(t)'
<1>1. Alone(t) /\ Step(t) /\ OnlyInitialize /\ Initializing
  BY DEF CliStep, Opening, CliInv
<1>2. pc[t] # "idle" /\ op[t] = "initialize" /\ op[t] \notin Closing
  BY <1>1, StepGoesOn DEF OnScript, CallPlaces, CliInv, Closing
<1>3. pc[t] \in {"gate", "send", "wait", "transition"}
  BY <1>1, <1>2 DEF Alone, Staged, CliInv, IInv, TypeOK, TaskTypeOK, Labels, Closing, Resuming, Breakpoints
<1>4. Gate(t) \/ Send(t) \/ Receive(t) \/ transition_to(t)
  BY <1>1, <1>3, StepAt
<1>5. CASE pc'[t] # "idle"
  <2>1. script' = "initialize"
    BY <1>5 DEF CliStep, place
  <2>2. UNCHANGED <<stdin, alive>> /\ (Gate(t) \/ Send(t) \/ Receive(t) => UNCHANGED state)
    BY <1>4 DEF Gate, Send, Receive, transition_to, session, client, adapter
  <2>3. ~transition_to(t)
    BY <1>2, <1>5 DEF transition_to, Goto, CliInv, IInv, TypeOK, TaskTypeOK
  <2>4. Initializing'
    BY <1>1, <1>4, <2>2, <2>3 DEF Initializing
  <2>5. OnlyInitialize'
    <3>1. CASE Gate(t)
      BY <1>1, <3>1 DEF Gate, adapter, OnlyInitialize
    <3>2. CASE Receive(t)
      BY <1>1, <3>2 DEF Receive, adapter, OnlyInitialize
    <3>3. CASE Send(t)
      <4> DEFINE r == [task |-> IF Blocking(op[t]) THEN t ELSE Nobody, command |-> Command(op[t])]
      <4>1. r.command = "initialize" /\ r \in Requests
        BY <1>2 DEF Command, Requests, CliInv, IInv, TypeOK, TaskTypeOK
      <4>2. stdin \in Procs /\ inq[stdin] \in Seq(Requests)
        BY <1>1, BoundsAssumption DEF Initializing, CliInv, IInv, TypeOK, AdapterTypeOK, Procs
      <4>3. inq' = [inq EXCEPT ![stdin] = Append(@, r)]
        BY <1>1, <3>3 DEF Send, Initializing
      <4> HIDE DEF r
      <4>4. /\ DOMAIN Append(inq[stdin], r) = DOMAIN inq[stdin] \cup {Len(inq[stdin]) + 1}
            /\ \A i \in DOMAIN inq[stdin] : Append(inq[stdin], r)[i] = inq[stdin][i]
            /\ Append(inq[stdin], r)[Len(inq[stdin]) + 1] = r
        BY <4>1, <4>2, AppendElements
      <4>5. QED
        BY <1>1, <4>1, <4>3, <4>4 DEF OnlyInitialize, CliInv, IInv, TypeOK, AdapterTypeOK
    <3>4. QED
      BY <1>4, <2>3, <3>1, <3>2, <3>3
  <2>6. QED
    BY <2>1, <2>4, <2>5 DEF Opening
<1>6. CASE pc'[t] = "idle"
  <2>1. script \in CallPlaces /\ script # "free" /\ op' = op
    BY <1>1, StepGoesOn DEF CallPlaces, CliInv
  <2>2. PICK failed, empty, disconnected \in BOOLEAN :
          failed = Errs(t) /\ script' \in AfterCall(failed, empty, disconnected)
    BY <1>6, <2>1, StepLeads
  <2>3. script' # "start" /\ script' # "initialize" /\ (script' = "exit" => failed)
    BY <2>1, <2>2, CallLeads
  <2>4. IF failed THEN pc[t] = "wait" ELSE pc[t] = "transition"
    BY <1>1, <1>2, <1>6, <2>2, InitializeEnds
  <2>5. failed => UNCHANGED <<state, stdin, alive, inq>>
    <3> SUFFICES ASSUME failed PROVE UNCHANGED <<state, stdin, alive, inq>>
      OBVIOUS
    <3>1. Receive(t)
      BY <1>1, <2>4, StepAt
    <3>2. QED
      BY <3>1 DEF Receive, session, client, adapter
  <2>6. script' = "exit" => Exited(t)' /\ OnlyInitialize'
    BY <1>1, <1>2, <1>6, <2>1, <2>3, <2>5 DEF Exited, Initializing, OnlyInitialize
  <2>7. QED
    BY <2>3, <2>6 DEF Opening
<1>7. QED
  BY <1>5, <1>6

LEMMA NextOpening ==
  ASSUME CliInv, CliInv', Answered, NEW t \in Tasks, Opening(t), OnScript(t), [CliNext]_cliVars
  PROVE  Opening(t)'
<1>1. CASE Issue(t)
  <2>1. /\ script' = script /\ script \in CallPlaces /\ UNCHANGED <<state, child, stdin, alive, inq>>
        /\ pc[t] = "idle" /\ pc'[t] = "gate"
    BY <1>1 DEF Issue, Goto, session, client, adapter, place, CliInv, IInv, TypeOK, TaskTypeOK
  <2>2. QED
    BY <2>1 DEF Opening, Starting, Initializing, OnlyInitialize, Holding, CallPlaces
<1>2. CASE FreeCall(t) \/ Take(t)
  BY <1>2 DEF FreeCall, Take, Opening, place
<1>3. CASE CliStep(t) /\ script \in {"start", "initialize"}
  BY <1>3, StartOpening, InitializeOpening
<1>4. CASE CliStep(t) /\ script \notin {"start", "initialize"}
  <2>1. Step(t) /\ pc[t] # "idle" /\ script # "exit"
    BY <1>4, StepGoesOn DEF CliStep, CliInv, Opening, Exited
  <2>2. CASE script' = script
    BY <1>4, <2>1, <2>2 DEF Opening
  <2>3. CASE script' # script
    <3>1. script # "free" /\ pc'[t] = "idle"
      BY <1>4, <2>3 DEF CliStep, place
    <3>2. CASE script \in CallPlaces
      <4>1. PICK failed, empty, disconnected \in BOOLEAN : script' \in AfterCall(failed, empty, disconnected)
        BY <1>4, <3>1, <3>2, StepLeads
      <4>2. script' \notin {"start", "initialize", "exit"}
        BY <1>4, <3>2, <4>1, CallLeads
      <4>3. QED
        BY <4>2 DEF Opening
    <3>3. CASE script \notin CallPlaces
      <4>1. script \in {"await", "loop"} /\ op[t] \in Events
        BY <2>1, <3>1, <3>3 DEF OnScript
      <4>2. PICK failed, disconnected \in BOOLEAN : script' \in AfterEvent(op[t], failed, disconnected)
        BY <1>4, <3>1, <3>3, StepLeads
      <4>3. script' \notin {"start", "initialize", "exit"}
        BY <4>1, <4>2, EventLeads
      <4>4. QED
        BY <4>3 DEF Opening
    <3>4. QED
      BY <3>2, <3>3
  <2>4. QED
    BY <2>2, <2>3
<1>5. CASE Environment
  <2>1. script' = script
    BY <1>5 DEF Environment, place
  <2>2. CASE script \in {"start", "initialize", "exit"}
    BY <1>5, <2>2, EnvironmentOpening
  <2>3. CASE script \notin {"start", "initialize", "exit"}
    BY <2>1, <2>3 DEF Opening
  <2>4. QED
    BY <2>2, <2>3
<1>6. CASE UNCHANGED cliVars
  BY <1>6 DEF cliVars, vars, session, client, tasks, adapter, place, Opening, Starting, Initializing,
     Exited, OnlyInitialize
<1>7. ASSUME NEW u \in Tasks, Issue(u) \/ FreeCall(u) \/ Take(u) \/ CliStep(u)
      PROVE  Opening(t)'
  <2>1. u = t
    BY OneOnly
  <2>2. QED
    BY <1>1, <1>2, <1>3, <1>4, <1>7, <2>1
<1>8. QED
  BY <1>5, <1>6, <1>7 DEF CliNext

ScriptInv == Answered /\ \A t \in Tasks : OnScript(t) /\ Opening(t)

LEMMA InitScript == CliInit => ScriptInv
<1> SUFFICES ASSUME CliInit, NEW t \in Tasks PROVE OnScript(t) /\ Opening(t)
  BY DEF ScriptInv, CliInit, Init, Answered
<1>1. \A g \in Procs : DOMAIN inq[g] = {}
  BY DEF CliInit, Init
<1>2. OnlyInitialize
  BY <1>1 DEF OnlyInitialize
<1>3. QED
  BY <1>2 DEF CliInit, Init, OnScript, Opening, Starting, CallPlaces, Holding

\* cli.rs: whichever call fails or is refused, however the program ends and whichever event
\* handle_event refuses, the CLI leaves no adapter behind, with one exception, in which it
\* always leaves one: an initialize that the adapter refuses.  A start that fails leaves none.
THEOREM NoAdapterIsLeft == CliSpec => []CliLeavesNoAdapter
<1>1. CliInv /\ ScriptInv => CliLeavesNoAdapter
  <2> SUFFICES ASSUME CliInv, ScriptInv PROVE CliLeavesNoAdapter
    OBVIOUS
  <2>1. PICK t \in Tasks : TRUE
    BY OneTask DEF Tasks
  <2>2. \A g \in alive : pc[t] = "idle" => g = child
    BY OneOnly DEF CliInv, IInv, AdapterOwned
  <2>3. ASSUME pc[t] = "idle", state = "Disconnected"
        PROVE  alive = {} /\ child = 0
    <3>1. child = 0
      BY <2>3 DEF CliInv, Alone, ChildGone
    <3>2. 0 \notin alive
      BY DEF CliInv, IInv, TypeOK, AdapterTypeOK
    <3>3. QED
      BY <2>2, <2>3, <3>1, <3>2
  <2>4. script = "end" => pc[t] = "idle" /\ state = "Disconnected"
    BY DEF ScriptInv, OnScript
  <2>5. script = "exit" => Exited(t)
    BY DEF ScriptInv, Opening
  <2>6. Exited(t) /\ op[t] = "initialize" /\ Initializing => alive = {child} /\ state = "Connected"
    BY <2>2 DEF Exited, Initializing
  <2>7. QED
    BY <2>3, <2>4, <2>5, <2>6 DEF CliLeavesNoAdapter, Exited
<1>2. CliInv /\ CliInv' /\ ScriptInv /\ [CliNext]_cliVars => ScriptInv'
  BY NextAnswered, NextOnScript, NextOpening DEF ScriptInv
<1>3. QED
  BY <1>1, <1>2, InitScript, CliInvariance, PTL DEF CliSpec

-----------------------------------------------------------------------------
(* No stop is lost: one task hears everything an adapter says, in order.   *)

\* The client has the newest process or none.
HasNewest(t) ==
  /\ child \in {0, spawned}
  /\ stdin = spawned \/ pc[t] = "set_stdin"
  /\ pc[t] \in Holding => arg[t][1] = spawned
  /\ \A g \in Procs : g > spawned \/ (g = spawned /\ Fresh(t)) => Untouched(g)

\* What is under way to the adapters, and from them, as far as it is a call's.
RequestsTrue(t) ==
  \A g \in Procs : \A i \in DOMAIN inq[g] :
    inq[g][i].command \in IF inq[g][i].task = t THEN {Command(op[t])}
                          ELSE {"launch", "configuration_done"}
AnswersOfNewest(t) == \A g \in Procs : \A i : Said(g, i, t) => g = spawned

\* A session that is being ended has had its answer to the disconnect, or can have none.
Ended(t) ==
  \/ state = "Disconnected"
  \/ op[t] \in Closing /\ pc[t] \in {"kill", "recheck", "transition", "clear_bps"}
  \/ op[t] \in Closing /\ pc[t] = "wait" /\ answer[t] # NoAnswer
  \/ spawned \notin alive /\ ~(op[t] \in Closing /\ pc[t] = "wait")

OldOnesSilent(t) ==
  /\ \A g \in Procs : g # spawned \/ Ended(t) => PipeQuiet(g)
  /\ \A g \in Procs : \A i, j :
       op[t] \in Closing /\ Said(g, i, t) /\ Told(g, j, "continued") => j < i

\* Before the program has begun it does not stand at a stop.
Unbegun(t) ==
  \A g \in Procs : g = spawned =>
    /\ debuggee[g] \in {"none", "launched", "exited"}
    /\ \A i \in DOMAIN inq[g] : inq[g][i].command = "configuration_done" => inq[g][i].task = t
NotBegun(t) == state \in {"Connected", "Initialized"} /\ ~Granted(t) => Unbegun(t)

\* The session does not hold that the program runs, and is not about to.
Settled(t) ==
  \/ op[t] = "stopped" /\ pc[t] # "idle"
  \/ ~(op[t] = "continued" /\ pc[t] # "idle") /\ state # "Running" /\ ~Granted(t)

\* A program that stands at a stop: whatever the session hears last, or has last heard,
\* is not that it runs.
LineSettled(t) == LineStops \/ (LineQuiet /\ Settled(t))
StopIsLast(t) ==
  \A g \in Procs : g = spawned /\ debuggee[g] = "stopped" =>
    PipeStops(g) \/ (PipeQuiet(g) /\ LineSettled(t))

Heard(t) ==
  RequestsTrue(t) /\ AnswersOfNewest(t) /\ OldOnesSilent(t) /\ NotBegun(t) /\ StopIsLast(t)
StopsTrue(t) == HasNewest(t) /\ Heard(t)

LEMMA CliPending == TypeOK /\ PendingInv /\ [CliNext]_cliVars => PendingInv'
<1> SUFFICES ASSUME TypeOK, PendingInv, [CliNext]_cliVars PROVE PendingInv'
  OBVIOUS
<1>1. ASSUME NEW t \in Tasks, Issue(t) PROVE PendingInv'
  <2>1. UNCHANGED <<inq, outq, answer>> /\ pc[t] = "idle" /\ pc' = [pc EXCEPT ![t] = "gate"]
    BY <1>1 DEF Issue, Goto, adapter
  <2>2. pc'[t] = "gate" /\ \A u \in Tasks \ {t} : pc'[u] = pc[u]
    BY <2>1 DEF TypeOK, TaskTypeOK
  <2>3. QED
    BY <2>1, <2>2, QuietPending
<1>2. CASE Next
  BY <1>2, NextPending
<1>3. CASE UNCHANGED cliVars
  <2>1. [Next]_vars
    BY <1>3 DEF cliVars
  <2>2. QED
    BY <2>1, NextPending
<1>4. QED
  BY <1>1, <1>2, <1>3, CliSteps

\* Only the newest process runs.
LEMMA OnlyNewestRuns ==
  ASSUME CliInv, NEW t \in Tasks, HasNewest(t), NEW g \in alive
  PROVE  g = spawned /\ g \in Procs
<1>1. g \in 1..spawned /\ spawned \in 0..MaxProcs
  BY DEF CliInv, IInv, TypeOK, AdapterTypeOK
<1>2. g # 0 /\ g \in Procs
  BY <1>1, BoundsAssumption DEF Procs
<1>3. g = child \/ (pc[t] \in Holding /\ arg[t][1] = g)
  BY OneOnly DEF CliInv, IInv, AdapterOwned, Holding
<1>4. QED
  BY <1>2, <1>3 DEF HasNewest

\* What a task that begins something new does.
LEMMA BeginPlaces ==
  ASSUME CliInv, NEW t \in Tasks, Call(t) \/ Issue(t) \/ TakeEvent(t)
  PROVE  /\ pc[t] = "idle" /\ pc'[t] \in {"gate", "recheck", "set_halt", "clear_halt", "send"}
         /\ op'[t] \in Tools \cup Events
         /\ pc'[t] = "gate" => op'[t] \in Tools
         /\ pc'[t] # "gate" => op'[t] \in Events /\ pc'[t] = FirstStep(op'[t])
         /\ UNCHANGED <<session, child, stdin, adapter, answer>>
<1>1. CASE Call(t) \/ Issue(t)
  <2>1. pc[t] = "idle" /\ pc'[t] = "gate" /\ op'[t] \in Tools
    BY <1>1, ScriptAssumption DEF Call, Issue, Goto, CliInv, IInv, TypeOK, TaskTypeOK
  <2>2. QED
    BY <1>1, <2>1 DEF Call, Issue, client
<1>2. CASE TakeEvent(t)
  <2>1. PICK e \in Events : e = Head(events).name
    <3>1. Head(events) \in [name : Events, stamp : Stamps]
      BY <1>2, HeadTailProperties DEF TakeEvent, CliInv, IInv, TypeOK, ClientTypeOK
    <3>2. QED
      BY <3>1
  <2>2. pc[t] = "idle" /\ pc'[t] = FirstStep(e) /\ op'[t] = e
    BY <1>2, <2>1 DEF TakeEvent, Goto, CliInv, IInv, TypeOK, TaskTypeOK
  <2>3. FirstStep(e) \in {"recheck", "set_halt", "clear_halt", "send"}
    BY DEF FirstStep, Events, Closing
  <2>4. UNCHANGED <<session, child, stdin, adapter, answer>>
    BY <1>2 DEF TakeEvent
  <2>5. QED
    BY <2>2, <2>3, <2>4
<1>3. QED
  BY <1>1, <1>2

LEMMA BeginNewest ==
  ASSUME CliInv, NEW t \in Tasks, HasNewest(t), Call(t) \/ Issue(t) \/ TakeEvent(t)
  PROVE  HasNewest(t)'
<1>1. /\ pc[t] = "idle" /\ pc'[t] \in {"gate", "recheck", "set_halt", "clear_halt", "send"}
      /\ UNCHANGED <<child, stdin, adapter>>
  BY BeginPlaces
<1>2. ~Fresh(t)' /\ pc'[t] \notin Holding /\ stdin = spawned
  BY <1>1 DEF Fresh, Holding, HasNewest
<1>3. QED
  BY <1>1, <1>2 DEF HasNewest, Untouched, adapter

\* The steps of start.
LEMMA StartNewest ==
  ASSUME CliInv, NEW t \in Tasks, HasNewest(t),
         Spawn(t) \/ SetStdin(t) \/ SetChild(t) \/ SetKind(t)
  PROVE  HasNewest(t)'
<1> USE DEF Goto, CliInv, IInv, TypeOK, TaskTypeOK
<1>1. Alone(t)
  BY DEF CliInv
<1>2. CASE Spawn(t)
  <2>1. /\ pc[t] = "spawn" /\ pc'[t] = "set_stdin" /\ arg'[t] = <<spawned + 1, 0>>
        /\ spawned' = spawned + 1 /\ UNCHANGED <<child, stdin, inq, outq, debuggee>>
    BY <1>2 DEF Spawn, client
  <2>2. child = 0
    <3>1. op[t] = "start" /\ op[t] \in Tools /\ is_allowed(op[t], state)
      BY <1>1, <2>1 DEF Alone, Staged, Admitted
    <3>2. is_allowed("start", state)
      BY <3>1
    <3>3. state = "Disconnected"
      BY <3>2 DEF is_allowed, allowed_states, Resuming, Breakpoints, Inspecting
    <3>4. QED
      BY <1>1, <2>1, <3>3 DEF Alone, ChildGone
  <2>3. spawned \in Nat /\ \A g \in Procs : g >= spawned + 1 => g > spawned
    BY BoundsAssumption DEF AdapterTypeOK, Procs
  <2>4. \A g \in Procs : g > spawned' \/ g = spawned' => Untouched(g)'
    BY <2>1, <2>3 DEF HasNewest, Untouched, Procs
  <2>5. QED
    BY <2>1, <2>2, <2>4 DEF HasNewest
<1>3. CASE SetStdin(t) \/ SetChild(t) \/ SetKind(t)
  <2>1. /\ pc[t] \in Holding /\ pc'[t] \in {"set_child", "set_kind", "transition"}
        /\ stdin' \in {stdin, arg[t][1]} /\ child' \in {child, arg[t][1]} /\ op[t] = "start"
        /\ pc[t] = "set_stdin" => stdin' = arg[t][1]
        /\ UNCHANGED <<op, arg, spawned, inq, outq, debuggee>>
    BY <1>1, <1>3 DEF SetStdin, SetChild, SetKind, client, adapter, Holding, Alone, Staged
  <2>2. Fresh(t) /\ arg[t][1] = spawned
    BY <2>1 DEF Fresh, HasNewest
  <2>3. QED
    BY <2>1, <2>2 DEF HasNewest, Untouched
<1>4. QED
  BY <1>2, <1>3

\* All other steps of a task leave the pipes alone but for a request.
LEMMA OtherSteps ==
  ASSUME NEW t \in Tasks, Step(t), ~Spawn(t), ~SetStdin(t), ~SetChild(t), ~SetKind(t)
  PROVE  /\ UNCHANGED <<stdin, events, spawned, outq, debuggee, op>>
         /\ child' = child \/ (Kill(t) /\ child' = 0)
         /\ inq' = inq \/ Send(t)
BY DEF Step, Gate, IsRunning, SpawnFails, Send, Receive, SetHalt, ClearHalt, Recheck, transition_to,
   Kill, ClearBreakpoints, UpdateBreakpoints, CacheVariables, client, adapter, session

\* Only a start comes to have a process that is not yet the session's.
LEMMA FreshKept ==
  ASSUME CliInv, NEW t \in Tasks, Step(t), ~Spawn(t), ~SetStdin(t), ~SetChild(t), ~SetKind(t)
  PROVE  pc'[t] \notin Holding /\ (Fresh(t)' => Fresh(t))
<1>1. Alone(t) /\ UNCHANGED op
  BY OtherSteps DEF CliInv
<1>2. CASE Gate(t)
  BY <1>2, AfterGatePlaces DEF Gate, Goto, Holding, Fresh, CliInv, IInv, TypeOK, TaskTypeOK
<1>3. CASE IsRunning(t) \/ SpawnFails(t)
  BY <1>3 DEF IsRunning, SpawnFails, Goto, Holding, Fresh, CliInv, IInv, TypeOK, TaskTypeOK
<1>4. CASE Send(t) \/ Receive(t)
  <2>1. pc'[t] \in {"wait", AfterReply(op[t]), AfterFailure(op[t])} /\ pc[t] \in {"send", "wait"}
    BY <1>4 DEF Send, Receive, Goto, CliInv, IInv, TypeOK, TaskTypeOK
  <2>2. op[t] # "start"
    BY <1>1, <2>1 DEF Alone, Staged, Closing
  <2>3. QED
    BY <1>1, <2>1, <2>2, AfterReplyPlaces DEF Fresh, Holding
<1>5. CASE SetHalt(t) \/ ClearHalt(t) \/ Recheck(t)
  <2>1. pc'[t] \in {"idle", "transition", "recheck"} /\ op[t] # "start"
    BY <1>1, <1>5 DEF SetHalt, ClearHalt, Recheck, Goto, Alone, Staged, Resuming, Closing,
                      CliInv, IInv, TypeOK, TaskTypeOK
  <2>2. QED
    BY <1>1, <2>1 DEF Fresh, Holding
<1>6. CASE transition_to(t) \/ Kill(t) \/ ClearBreakpoints(t) \/ CacheVariables(t) \/ UpdateBreakpoints(t)
  <2>1. pc'[t] \in {"idle", "clear_bps", "recheck", "update_bps_again"}
    BY <1>6 DEF transition_to, Kill, ClearBreakpoints, CacheVariables, UpdateBreakpoints, Goto,
                CliInv, IInv, TypeOK, TaskTypeOK
  <2>2. QED
    BY <2>1 DEF Fresh, Holding
<1>7. QED
  BY <1>2, <1>3, <1>4, <1>5, <1>6 DEF Step

LEMMA OtherNewest ==
  ASSUME CliInv, NEW t \in Tasks, HasNewest(t), Step(t),
         ~Spawn(t), ~SetStdin(t), ~SetChild(t), ~SetKind(t)
  PROVE  HasNewest(t)'
<1>1. /\ UNCHANGED <<stdin, events, spawned, outq, debuggee, op>> /\ child' \in {child, 0}
      /\ inq' = inq \/ Send(t)
  BY OtherSteps
<1>2. pc[t] # "set_stdin" /\ pc[t] \notin Holding
  BY StepAt DEF Holding
<1>3. pc'[t] \notin Holding /\ (Fresh(t)' => Fresh(t))
  BY FreshKept
<1>4. \A g \in Procs : g > spawned' \/ (g = spawned' /\ Fresh(t)') => Untouched(g)'
  <2>1. CASE inq' = inq
    BY <1>1, <1>3, <2>1 DEF HasNewest, Untouched
  <2>2. CASE Send(t)
    <3>1. pc[t] = "send" /\ stdin = spawned /\ (inq' = inq \/ stdin \in alive)
      BY <1>2, <2>2 DEF Send, HasNewest
    <3>2. ~Fresh(t)'
      BY <1>3, <3>1 DEF Fresh, Holding
    <3>3. \A g \in Procs : g > spawned => inq'[g] = inq[g]
      <4>1. \A g \in Procs : g > spawned => g # stdin
        BY <3>1, BoundsAssumption DEF CliInv, IInv, TypeOK, AdapterTypeOK, Procs
      <4>2. QED
        BY <2>2, <4>1 DEF Send, CliInv, IInv, TypeOK, AdapterTypeOK
    <3>4. QED
      BY <1>1, <3>2, <3>3 DEF HasNewest, Untouched
  <2>3. QED
    BY <1>1, <2>1, <2>2
<1>5. QED
  BY <1>1, <1>2, <1>3, <1>4 DEF HasNewest

\* What the adapter and the reader do is done by, or to, a process that was started.
LEMMA EnvironmentNewest ==
  ASSUME CliInv, NEW t \in Tasks, HasNewest(t), Environment
  PROVE  HasNewest(t)'
<1>1. PICK g \in Procs : Read(g) \/ Serve(g) \/ Stop(g) \/ Exit(g)
  BY DEF Environment
<1>2. UNCHANGED <<child, stdin, spawned, op, pc, arg>>
  BY DEF Environment, Read, Serve, Stop, Exit, client, tasks
<1>3. ~Untouched(g)
  BY <1>1 DEF Read, Serve, Stop, Exit, Untouched
<1>4. \A h \in Procs \ {g} : inq'[h] = inq[h] /\ outq'[h] = outq[h] /\ debuggee'[h] = debuggee[h]
  BY <1>1 DEF Read, Serve, Stop, Exit, CliInv, IInv, TypeOK, AdapterTypeOK
<1>5. QED
  BY <1>2, <1>3, <1>4 DEF HasNewest, Untouched, Fresh

\* What each table of the control flow can lead to, for an operation that a task has begun.
LEMMA StartIsDisconnected ==
  ASSUME CliInv, NEW t \in Tasks, op[t] = "start",
         pc[t] \in {"is_running", "spawn", "set_stdin", "set_child", "set_kind", "transition"}
  PROVE  state = "Disconnected"
<1>1. Alone(t)
  BY DEF CliInv
<1>2. op[t] \in Tools
  BY <1>1 DEF Alone, Staged, Events
<1>3. is_allowed(op[t], state)
  BY <1>1, <1>2 DEF Alone, Admitted
<1>4. is_allowed("start", state)
  BY <1>3
<1>5. QED
  BY <1>4 DEF is_allowed, allowed_states, Resuming, Breakpoints, Inspecting

-----------------------------------------------------------------------------
(* What happens to the words in the pipes and in the channel.              *)

-----------------------------------------------------------------------------
(* What each step of the task leaves of it.                                *)

\* A step that sends nothing and receives nothing.
LEMMA TaskKeeps ==
  ASSUME NEW t \in Tasks, Heard(t), UNCHANGED <<spawned, inq, outq, debuggee>>, RequestsTrue(t)',
         Ended(t)' => Ended(t),
         \A g \in Procs : \A i : Said(g, i, t) /\ op'[t] \in Closing => op[t] \in Closing,
         state' \in {"Connected", "Initialized"} /\ ~Granted(t)' =>
           Unbegun(t) \/ (state \in {"Connected", "Initialized"} /\ ~Granted(t)),
         LineSettled(t) => LineSettled(t)'
  PROVE  Heard(t)'
<1>1. /\ \A g, i, w : Told(g, i, w)' <=> Told(g, i, w)
      /\ \A g, i : Said(g, i, t)' <=> Said(g, i, t)
  BY DEF Told, Said
<1>2. \A g : (PipeQuiet(g)' <=> PipeQuiet(g)) /\ (PipeStops(g)' <=> PipeStops(g))
  BY <1>1 DEF PipeQuiet, PipeStops
<1>3. AnswersOfNewest(t)'
  BY <1>1 DEF Heard, AnswersOfNewest
<1>4. OldOnesSilent(t)'
  BY <1>1, <1>2 DEF Heard, OldOnesSilent
<1>5. NotBegun(t)'
  BY DEF Heard, NotBegun, Unbegun
<1>6. StopIsLast(t)'
  BY <1>2 DEF Heard, StopIsLast
<1>7. QED
  BY <1>3, <1>4, <1>5, <1>6 DEF Heard

LEMMA BeginHeard ==
  ASSUME CliInv, PendingInv, NEW t \in Tasks, Heard(t), Call(t) \/ Issue(t) \/ TakeEvent(t)
  PROVE  Heard(t)'
<1>1. /\ pc[t] = "idle" /\ pc'[t] \in {"gate", "recheck", "set_halt", "clear_halt", "send"}
      /\ op'[t] \in Tools \cup Events
      /\ pc'[t] = "gate" => op'[t] \in Tools
      /\ pc'[t] # "gate" => op'[t] \in Events /\ pc'[t] = FirstStep(op'[t])
      /\ UNCHANGED <<state, spawned, alive, inq, outq, debuggee, answer>>
  BY BeginPlaces DEF session, adapter
<1>2. \A g \in Procs : \A i : ~Asked(g, i, t) /\ ~Said(g, i, t)
  BY <1>1, NothingUnderWay
<1>3. RequestsTrue(t)'
  BY <1>1, <1>2 DEF Heard, RequestsTrue, Asked
<1>4. Ended(t)' => Ended(t)
  <2>1. ~(op'[t] \in Closing /\ pc'[t] = "recheck")
    BY <1>1 DEF FirstStep, Closing
  <2>2. QED
    BY <1>1, <2>1 DEF Ended
<1>5. ~Granted(t) /\ ~Granted(t)'
  <2>1. pc'[t] = "clear_halt" => op'[t] \in Events
    BY <1>1
  <2>2. op'[t] \in Events => op'[t] \notin Resuming \cup {"configuration_done"}
    BY DEF Events, Resuming
  <2>3. QED
    BY <1>1, <2>1, <2>2 DEF Granted
<1>6. LineSettled(t) => LineSettled(t)'
  <2>1. CASE Call(t) \/ Issue(t)
    <3>1. UNCHANGED events /\ pc'[t] = "gate" /\ op'[t] \in Tools
      BY <2>1, <1>1 DEF Call, Issue, Goto, client, CliInv, IInv, TypeOK, TaskTypeOK
    <3>2. op'[t] \notin Events
      BY <3>1, ToolsAreNotEvents
    <3>3. op'[t] # "continued"
      BY <3>2 DEF Events
    <3>4. Settled(t) => Settled(t)'
      BY <1>1, <1>5, <3>3 DEF Settled
    <3>5. (LineStops' <=> LineStops) /\ (LineQuiet' <=> LineQuiet)
      BY <3>1 DEF LineStops, LineQuiet, Announced
    <3>6. QED
      BY <3>4, <3>5 DEF LineSettled
  <2>2. CASE TakeEvent(t)
    <3>1. /\ LineQuiet => LineQuiet' /\ op'[t] # "continued"
          /\ LineStops => LineStops' \/ (LineQuiet' /\ op'[t] = "stopped")
      BY <2>2, LineTaken DEF CliInv, IInv
    <3>2. Settled(t) /\ op'[t] # "continued" => Settled(t)'
      BY <1>1, <1>5 DEF Settled
    <3>3. op'[t] = "stopped" => Settled(t)'
      BY <1>1 DEF Settled
    <3>4. QED
      BY <3>1, <3>2, <3>3 DEF LineSettled
  <2>3. QED
    BY <2>1, <2>2
<1>7. QED
  <2>1. UNCHANGED <<spawned, inq, outq, debuggee>> /\ \A g \in Procs : \A i : ~Said(g, i, t)
    BY <1>1, <1>2
  <2>2. state' \in {"Connected", "Initialized"} /\ ~Granted(t)' =>
           Unbegun(t) \/ (state \in {"Connected", "Initialized"} /\ ~Granted(t))
    BY <1>1, <1>5
  <2>3. QED
    BY <1>3, <1>4, <1>6, <2>1, <2>2, TaskKeeps

\* A step that is seen in the pipes and in the channel in no way.
LEMMA TaskMoves ==
  ASSUME NEW t \in Tasks, Heard(t), UNCHANGED <<spawned, inq, outq, events, debuggee, op>>,
         Ended(t)' => Ended(t),
         state' \in {"Connected", "Initialized"} /\ ~Granted(t)' =>
           Unbegun(t) \/ (state \in {"Connected", "Initialized"} /\ ~Granted(t)),
         Settled(t) => Settled(t)'
  PROVE  Heard(t)'
<1>1. RequestsTrue(t)'
  BY DEF Heard, RequestsTrue
<1>2. (LineStops' <=> LineStops) /\ (LineQuiet' <=> LineQuiet)
  BY DEF LineStops, LineQuiet, Announced
<1>3. LineSettled(t) => LineSettled(t)'
  BY <1>2 DEF LineSettled
<1>4. QED
  BY <1>1, <1>3, TaskKeeps

LEMMA OpeningHeard ==
  ASSUME CliInv, NEW t \in Tasks, Heard(t),
         Gate(t) \/ IsRunning(t) \/ SpawnFails(t) \/ SetStdin(t) \/ SetChild(t) \/ SetKind(t)
  PROVE  Heard(t)'
<1>1. Alone(t)
  BY DEF CliInv
<1>2. UNCHANGED <<state, spawned, inq, outq, events, debuggee, op>>
  BY DEF Gate, IsRunning, SpawnFails, SetStdin, SetChild, SetKind, session, client, adapter
<1>3. CASE Gate(t)
  <2>1. /\ pc[t] = "gate" /\ pc'[t] \in {"is_running", "idle", "send"} /\ UNCHANGED alive
    BY <1>3, AfterGatePlaces DEF Gate, Goto, adapter, CliInv, IInv, TypeOK, TaskTypeOK
  <2>2. op[t] # "stopped" /\ op[t] # "continued"
    BY <1>1, <2>1, ToolsAreNotEvents DEF Alone, Staged, Events
  <2>3. ~Granted(t) /\ ~Granted(t)'
    BY <2>1 DEF Granted
  <2>4. Ended(t)' => Ended(t)
    BY <1>2, <2>1 DEF Ended
  <2>5. Settled(t) => Settled(t)'
    BY <1>2, <2>2, <2>3 DEF Settled
  <2>6. QED
    BY <1>2, <2>3, <2>4, <2>5, TaskMoves
<1>4. CASE IsRunning(t) \/ SpawnFails(t) \/ SetStdin(t) \/ SetChild(t) \/ SetKind(t)
  <2>1. pc[t] \in {"is_running", "spawn", "set_stdin", "set_child", "set_kind"}
    BY <1>4 DEF IsRunning, SpawnFails, SetStdin, SetChild, SetKind
  <2>2. op[t] = "start"
    BY <1>1, <2>1 DEF Alone, Staged
  <2>3. state = "Disconnected"
    BY <2>1, <2>2, StartIsDisconnected
  <2>4. ~Granted(t) /\ ~Granted(t)' /\ op[t] # "stopped" /\ op[t] # "continued"
    BY <1>2, <2>2 DEF Granted, Resuming
  <2>5. Ended(t) /\ state' = "Disconnected"
    BY <1>2, <2>3 DEF Ended
  <2>6. Settled(t) => Settled(t)'
    BY <1>2, <2>4 DEF Settled
  <2>7. QED
    BY <1>2, <2>5, <2>6, TaskMoves
<1>5. QED
  BY <1>3, <1>4

LEMMA FieldHeard ==
  ASSUME CliInv, PendingInv, NEW t \in Tasks, Heard(t), SetHalt(t) \/ ClearHalt(t) \/ Recheck(t)
  PROVE  Heard(t)'
<1>1. Alone(t)
  BY DEF CliInv
<1>2. /\ UNCHANGED <<state, spawned, inq, outq, events, debuggee, op, answer, alive>>
      /\ \/ pc[t] = "set_halt" /\ pc'[t] = "transition" /\ op[t] = "stopped"
         \/ pc[t] = "clear_halt" /\ pc'[t] = "recheck" /\ op[t] = "continued"
         \/ pc[t] = "clear_halt" /\ pc'[t] = "transition" /\ op[t] \in Resuming
         \/ /\ pc[t] = "recheck" /\ pc'[t] \in {"idle", "transition"}
            /\ op[t] \in Closing \cup {"initialized", "continued"}
  <2>1. UNCHANGED <<state, spawned, inq, outq, events, debuggee, op, answer, alive>>
    BY DEF SetHalt, ClearHalt, Recheck, session, client, adapter
  <2>2. CASE SetHalt(t)
    BY <1>1, <2>1, <2>2 DEF SetHalt, Goto, Alone, Staged, CliInv, IInv, TypeOK, TaskTypeOK
  <2>3. CASE ClearHalt(t)
    BY <1>1, <2>1, <2>3 DEF ClearHalt, Goto, Alone, Staged, CliInv, IInv, TypeOK, TaskTypeOK
  <2>4. CASE Recheck(t)
    BY <1>1, <2>1, <2>4 DEF Recheck, Goto, Alone, Staged, CliInv, IInv, TypeOK, TaskTypeOK
  <2>5. QED
    BY <2>2, <2>3, <2>4
<1>3. CASE op[t] \in Resuming /\ pc[t] = "clear_halt"
  <2>1. op[t] \notin Closing /\ op[t] # "stopped"
    BY <1>3 DEF Resuming, Closing
  <2>2. pc'[t] = "transition"
    BY <1>2, <1>3 DEF Resuming
  <2>3. Granted(t) /\ Granted(t)'
    BY <1>2, <1>3, <2>2 DEF Granted
  <2>4. (Ended(t)' => Ended(t)) /\ ~Settled(t)
    BY <1>2, <1>3, <2>1, <2>3 DEF Ended, Settled
  <2>5. QED
    BY <1>2, <2>3, <2>4, TaskMoves
<1>4. CASE op[t] \notin Resuming
  <2>1. op[t] \in Closing \cup {"initialized", "continued", "stopped"}
    BY <1>2, <1>4
  <2>2. ~Granted(t) /\ ~Granted(t)'
    BY <1>2, <2>1 DEF Granted, Closing, Resuming
  <2>3. Ended(t)' => Ended(t)
    <3>1. op[t] \in Closing => pc[t] = "recheck"
      BY <1>2, <1>4 DEF Closing
    <3>2. op[t] \in Closing => Ended(t)
      BY <3>1 DEF Ended
    <3>3. QED
      BY <1>2, <3>2 DEF Ended
  <2>4. Settled(t) => Settled(t)'
    BY <1>2, <2>2 DEF Settled, Closing
  <2>5. QED
    BY <1>2, <2>2, <2>3, <2>4, TaskMoves
<1>5. QED
  <2>1. op[t] \in Resuming => pc[t] = "clear_halt"
    BY <1>2 DEF Resuming, Closing
  <2>2. QED
    BY <1>3, <1>4, <2>1

LEMMA CacheHeard ==
  ASSUME CliInv, PendingInv, NEW t \in Tasks, Heard(t),
         Kill(t) \/ ClearBreakpoints(t) \/ UpdateBreakpoints(t) \/ CacheVariables(t)
  PROVE  Heard(t)'
<1>1. Alone(t)
  BY DEF CliInv
<1>2. UNCHANGED <<state, spawned, inq, outq, events, debuggee, op>>
  BY DEF Kill, ClearBreakpoints, UpdateBreakpoints, CacheVariables, client, adapter, session
<1>3. /\ pc[t] \notin {"idle", "wait"}
      /\ \/ pc[t] \in {"kill", "clear_bps"} /\ op[t] \in Closing
         \/ UNCHANGED alive /\ op[t] \in Tools /\ op[t] \in Breakpoints \cup {"get_variables"}
      /\ pc'[t] \in {"recheck", "idle", "update_bps_again"}
  BY <1>1 DEF Kill, ClearBreakpoints, UpdateBreakpoints, CacheVariables, adapter, Goto, Alone, Staged,
              CliInv, IInv, TypeOK, TaskTypeOK
<1>4. op[t] \notin Resuming \cup {"configuration_done", "stopped", "continued"}
  BY <1>3 DEF Closing, Resuming, Breakpoints
<1>5. ~Granted(t) /\ ~Granted(t)'
  BY <1>2, <1>4 DEF Granted
<1>6. Ended(t)' => Ended(t)
  <2>1. CASE op[t] \in Closing
    <3>1. op[t] \notin Breakpoints \cup {"get_variables"}
      BY <2>1 DEF Closing, Breakpoints
    <3>2. Ended(t)
      BY <1>3, <2>1, <3>1 DEF Ended
    <3>3. QED
      BY <3>2
  <2>2. CASE op[t] \notin Closing
    BY <1>2, <1>3, <2>2 DEF Ended
  <2>3. QED
    BY <2>1, <2>2
<1>7. Settled(t) => Settled(t)'
  BY <1>2, <1>4, <1>5 DEF Settled
<1>8. QED
  BY <1>2, <1>5, <1>6, <1>7, TaskMoves

LEMMA TransitionHeard ==
  ASSUME CliInv, NEW t \in Tasks, HasNewest(t), Heard(t), transition_to(t)
  PROVE  Heard(t)'
<1>1. Alone(t) /\ state \in SessionStates
  BY DEF CliInv, IInv, TypeOK, SessionTypeOK
<1>2. /\ pc[t] = "transition" /\ UNCHANGED <<spawned, inq, outq, events, debuggee, op, alive>>
      /\ pc'[t] \in {"idle", "clear_bps"}
      /\ \/ can_transition_to(state, Target(op[t])) /\ state' = Target(op[t])
         \/ ~can_transition_to(state, Target(op[t])) /\ state' = state
      /\ pc'[t] = "clear_bps" => op[t] \in Closing
  <2>1. UNCHANGED <<spawned, inq, outq, events, debuggee, op, alive>> /\ pc[t] = "transition"
    BY DEF transition_to, client, adapter
  <2>2. QED
    BY <2>1 DEF transition_to, Goto, CliInv, IInv, TypeOK, TaskTypeOK
<1>10. op[t] \in Events \cup {"start", "initialize", "configuration_done", "shutdown"} \cup Resuming
  BY <1>1, <1>2 DEF Alone, Staged
<1>3. ~Granted(t)'
  BY <1>2 DEF Granted
<1>4. op[t] \in Closing \/ Ended(t) \/ state' # "Disconnected"
  BY <1>2, <1>10, TargetPlaces DEF Ended
<1>5. Ended(t)' => Ended(t)
  <2>1. op[t] \in Closing => Ended(t)
    BY <1>2 DEF Ended
  <2>2. QED
    BY <1>2, <1>4, <2>1 DEF Ended
<1>6. CASE op[t] \in Resuming \cup {"configuration_done"}
  <2>1. op[t] \in Tools
    BY <1>1, <1>2, <1>6 DEF Alone, Staged, Events, Resuming
  <2>2. can_transition_to(state, Target(op[t]))
    BY <1>1, <1>2, <2>1, AdmittedIsLegal DEF CliInv
  <2>3. state' = "Running"
    BY <1>2, <1>6, <2>2 DEF Target, Resuming, Closing
  <2>4. Granted(t) /\ op[t] # "stopped"
    BY <1>2, <1>6 DEF Granted, Resuming
  <2>5. ~Settled(t)
    BY <2>4 DEF Settled
  <2>6. QED
    BY <1>2, <1>5, <2>3, <2>5, TaskMoves
<1>7. CASE op[t] = "start"
  <2>1. state = "Disconnected"
    BY <1>2, <1>7, StartIsDisconnected
  <2>2. Unbegun(t)
    <3>1. Fresh(t)
      BY <1>2, <1>7 DEF Fresh
    <3>2. \A g \in Procs : g = spawned => Untouched(g)
      BY <3>1 DEF HasNewest
    <3>3. \A g \in Procs : g = spawned => debuggee[g] = "none" /\ DOMAIN inq[g] = {}
      BY <3>2 DEF Untouched
    <3>4. QED
      BY <3>3 DEF Unbegun
  <2>3. state' \in {"Connected", "Disconnected"}
    BY <1>2, <1>7, <1>10, <2>1, TargetPlaces
  <2>4. Settled(t)'
    BY <1>2, <1>3, <1>7, <2>3 DEF Settled
  <2>5. QED
    BY <1>2, <1>5, <2>2, <2>4, TaskMoves
<1>8. CASE op[t] \in {"initialize", "initialized", "stopped", "continued"}
  <2>1. ~Granted(t)
    BY <1>8 DEF Granted, Resuming
  <2>2. /\ op[t] \in {"initialize", "initialized"} => Target(op[t]) = "Initialized"
        /\ op[t] = "continued" => Target(op[t]) = "Running"
        /\ op[t] = "stopped" => Target(op[t]) = "Halted"
    BY <1>8 DEF Target, Resuming, Closing
  <2>3. state' \in {"Connected", "Initialized"} => state \in {"Connected", "Initialized"}
    BY <1>2, <1>8, <2>2 DEF can_transition_to
  <2>4. Settled(t) => Settled(t)'
    <3>1. CASE op[t] = "continued"
      BY <1>2, <2>1, <3>1 DEF Settled
    <3>2. CASE op[t] = "stopped"
      <4>1. state' # "Running"
        BY <1>2, <2>2, <3>2 DEF can_transition_to
      <4>2. QED
        BY <1>2, <1>3, <3>2, <4>1 DEF Settled
    <3>3. CASE op[t] \in {"initialize", "initialized"}
      <4>1. state # "Running" => state' # "Running"
        BY <1>2, <2>2, <3>3
      <4>2. QED
        BY <1>2, <1>3, <3>3, <4>1 DEF Settled
    <3>4. QED
      BY <1>8, <3>1, <3>2, <3>3
  <2>5. QED
    BY <1>2, <1>3, <1>5, <2>1, <2>3, <2>4, TaskMoves
<1>9. CASE op[t] \in Closing
  <2>1. Target(op[t]) = "Disconnected"
    BY <1>9 DEF Target, Closing, Resuming
  <2>2. state' = "Disconnected"
    BY <1>1, <1>2, <2>1 DEF can_transition_to, SessionStates
  <2>3. Settled(t)'
    BY <1>2, <1>3, <1>9, <2>2 DEF Settled, Closing
  <2>4. QED
    BY <1>2, <1>5, <2>2, <2>3, TaskMoves
<1>11. QED
  BY <1>6, <1>7, <1>8, <1>9, <1>10 DEF Events, Closing

LEMMA SpawnHeard ==
  ASSUME CliInv, PendingInv, NEW t \in Tasks, HasNewest(t), Heard(t), Spawn(t)
  PROVE  Heard(t)'
<1>1. Alone(t)
  BY DEF CliInv
<1>2. /\ UNCHANGED <<state, inq, outq, events, debuggee, op>>
      /\ pc[t] = "spawn" /\ pc'[t] = "set_stdin"
  BY DEF Spawn, Goto, session, client, CliInv, IInv, TypeOK, TaskTypeOK
<1>3. op[t] = "start" /\ state = "Disconnected"
  BY <1>1, <1>2, StartIsDisconnected DEF Alone, Staged
<1>4. \A g \in Procs : \A i : ~Said(g, i, t)'
  BY <1>2, NothingUnderWay DEF Said
<1>5. \A g \in Procs : PipeQuiet(g)'
  <2>1. \A g \in Procs : PipeQuiet(g)
    BY <1>3 DEF Heard, OldOnesSilent, Ended
  <2>2. QED
    BY <1>2, <2>1 DEF PipeQuiet, Told
<1>6. \A g \in Procs : g = spawned' => debuggee'[g] = "none"
  <2>1. HasNewest(t)' /\ Fresh(t)'
    BY <1>2, <1>3, StartNewest DEF Fresh, Holding
  <2>2. QED
    BY <2>1 DEF HasNewest, Untouched
<1>7. RequestsTrue(t)'
  BY <1>2 DEF Heard, RequestsTrue
<1>8. AnswersOfNewest(t)' /\ OldOnesSilent(t)'
  BY <1>4, <1>5 DEF AnswersOfNewest, OldOnesSilent
<1>9. NotBegun(t)'
  BY <1>2, <1>3 DEF NotBegun
<1>10. StopIsLast(t)'
  BY <1>6 DEF StopIsLast
<1>11. QED
  BY <1>7, <1>8, <1>9, <1>10 DEF Heard

\* A request that is written is its caller's, unless nobody waits for its answer.
LEMMA SendRequests ==
  ASSUME TypeOK, NEW t \in Tasks, Heard(t), Send(t), stdin \in alive, stdin = spawned, spawned \in Procs
  PROVE  /\ RequestsTrue(t)'
         /\ Unbegun(t) => Unbegun(t)' \/ (~Blocking(op[t]) /\ op[t] = "configuration_done")
<1>1. UNCHANGED <<op, spawned, debuggee>>
  BY DEF Send
<1>2. PICK r \in Requests :
        r = [task |-> IF Blocking(op[t]) THEN t ELSE Nobody, command |-> Command(op[t])]
  <2>1. [task |-> IF Blocking(op[t]) THEN t ELSE Nobody, command |-> Command(op[t])] \in Requests
    BY DEF Requests, Command, TypeOK, TaskTypeOK
  <2>2. QED
    BY <2>1
<1>3. inq' = [inq EXCEPT ![spawned] = Append(@, r)]
  BY <1>2 DEF Send
<1>4. inq[spawned] \in Seq(Requests) /\ inq'[spawned] = Append(inq[spawned], r)
  BY <1>3 DEF TypeOK, AdapterTypeOK
<1>5. PICK n : n = Len(inq[spawned]) + 1
  OBVIOUS
<1>6. /\ DOMAIN inq'[spawned] = DOMAIN inq[spawned] \cup {n}
      /\ \A i \in DOMAIN inq[spawned] : inq'[spawned][i] = inq[spawned][i]
      /\ inq'[spawned][n] = r
  BY <1>4, <1>5, AppendElements
<1>7. \A g \in Procs : g # spawned => inq'[g] = inq[g]
  BY <1>3 DEF TypeOK, AdapterTypeOK
<1>8. /\ r.task = t => r.command = Command(op[t])
      /\ r.task # t => ~Blocking(op[t]) /\ r.command = op[t] /\ op[t] \in {"launch", "configuration_done"}
  <2>1. ~Blocking(op[t]) => op[t] \in {"launch", "configuration_done"} /\ Command(op[t]) = op[t]
    BY DEF Blocking, Command, Closing
  <2>2. QED
    BY <1>2, <2>1
<1>9. RequestsTrue(t)'
  <2>1. ASSUME NEW g \in Procs, NEW i \in DOMAIN inq'[g]
        PROVE  inq'[g][i].command \in IF inq'[g][i].task = t THEN {Command(op[t])}
                                      ELSE {"launch", "configuration_done"}
    <3>1. CASE i \in DOMAIN inq[g] /\ inq'[g][i] = inq[g][i]
      BY <3>1 DEF Heard, RequestsTrue
    <3>2. CASE g = spawned /\ i = n
      BY <1>6, <1>8, <3>2
    <3>3. QED
      BY <1>6, <1>7, <2>1, <3>1, <3>2
  <2>2. QED
    BY <1>1, <2>1 DEF RequestsTrue
<1>10. ASSUME Unbegun(t), Blocking(op[t]) \/ op[t] # "configuration_done"
       PROVE  Unbegun(t)'
  <2>1. r.command = "configuration_done" => r.task = t
    BY <1>8, <1>10
  <2>2. \A i \in DOMAIN inq'[spawned] : inq'[spawned][i].command = "configuration_done" =>
          inq'[spawned][i].task = t
    BY <1>6, <1>10, <2>1 DEF Unbegun
  <2>3. debuggee[spawned] \in {"none", "launched", "exited"}
    BY <1>10 DEF Unbegun
  <2>4. QED
    BY <1>1, <2>2, <2>3 DEF Unbegun
<1>11. QED
  BY <1>9, <1>10

LEMMA SendHeard ==
  ASSUME CliInv, PendingInv, NEW t \in Tasks, HasNewest(t), Heard(t), Send(t)
  PROVE  Heard(t)'
<1>1. Alone(t) /\ TypeOK
  BY DEF CliInv, IInv
<1>2. /\ pc[t] = "send" /\ stdin = spawned
      /\ UNCHANGED <<state, spawned, alive, outq, events, debuggee, op, answer>>
  BY DEF Send, HasNewest, session, client
<1>3. /\ answer[t] = NoAnswer /\ ~Granted(t)
      /\ \A g \in Procs : \A i : ~Said(g, i, t) /\ ~Said(g, i, t)'
  BY <1>2, NothingUnderWay DEF Granted, Said
<1>4. op[t] \in (Tools \ {"start"}) \cup Closing /\ op[t] \notin {"stopped", "continued"}
  <2>1. op[t] \in (Tools \ {"start"}) \cup Closing
    BY <1>1, <1>2 DEF Alone, Staged
  <2>2. QED
    BY <2>1, ToolsAreNotEvents DEF Events, Closing
<1>5. CASE stdin \notin alive
  <2>1. inq' = inq /\ pc'[t] = AfterFailure(op[t])
    BY <1>5 DEF Send, Goto, CliInv, IInv, TypeOK, TaskTypeOK
  <2>2. Ended(t)
    BY <1>2, <1>5 DEF Ended
  <2>3. ~Granted(t)'
    BY <2>1 DEF Granted, AfterFailure
  <2>4. Settled(t) => Settled(t)'
    BY <1>2, <1>4, <2>3 DEF Settled
  <2>5. QED
    BY <1>2, <1>3, <2>1, <2>2, <2>4, TaskMoves
<1>6. CASE stdin \in alive
  <2>1. spawned \in Procs
    BY <1>1, <1>2, <1>6, BoundsAssumption DEF TypeOK, AdapterTypeOK, Procs
  <2>2. /\ RequestsTrue(t)'
        /\ Unbegun(t) => Unbegun(t)' \/ (~Blocking(op[t]) /\ op[t] = "configuration_done")
    BY <1>1, <1>2, <1>6, <2>1, SendRequests
  <2>3. pc'[t] = IF Blocking(op[t]) THEN "wait" ELSE AfterReply(op[t])
    BY <1>6 DEF Send, Goto, CliInv, IInv, TypeOK, TaskTypeOK
  <2>4. /\ Ended(t)' => Ended(t)
        /\ Granted(t)' => ~Blocking(op[t]) /\ op[t] = "configuration_done"
        /\ ~Blocking(op[t]) /\ op[t] = "configuration_done" => Granted(t)'
    <3>1. CASE Blocking(op[t])
      <4>1. pc'[t] = "wait"
        BY <2>3, <3>1
      <4>2. ~Assented(t)'
        BY <1>2, <1>3 DEF Assented, NoAnswer
      <4>3. QED
        BY <1>2, <1>3, <1>6, <3>1, <4>1, <4>2 DEF Ended, Granted
    <3>2. CASE ~Blocking(op[t])
      <4>1. op[t] \in {"launch", "configuration_done"}
        BY <3>2 DEF Blocking
      <4>2. pc'[t] = IF op[t] = "launch" THEN "idle" ELSE "transition"
        BY <2>3, <3>2, <4>1 DEF AfterReply, Closing, Resuming, Breakpoints
      <4>3. QED
        BY <1>2, <1>6, <3>2, <4>1, <4>2 DEF Ended, Granted, Closing, Resuming
    <3>3. QED
      BY <3>1, <3>2
  <2>5. \A g \in Procs : /\ PipeQuiet(g)' <=> PipeQuiet(g)
                         /\ PipeStops(g)' <=> PipeStops(g)
    BY <1>2 DEF PipeQuiet, PipeStops, Told
  <2>6. AnswersOfNewest(t)' /\ OldOnesSilent(t)'
    BY <1>2, <1>3, <2>4, <2>5 DEF Heard, AnswersOfNewest, OldOnesSilent
  <2>7. NotBegun(t)'
    BY <1>2, <1>3, <2>2, <2>4 DEF Heard, NotBegun
  <2>8. StopIsLast(t)'
    <3>1. CASE ~Blocking(op[t]) /\ op[t] = "configuration_done"
      <4>1. op[t] \in Tools /\ is_allowed(op[t], state)
        BY <1>1, <1>2, <1>4, <3>1 DEF Alone, Admitted, Closing
      <4>2. is_allowed("configuration_done", state)
        BY <3>1, <4>1
      <4>3. state = "Initialized"
        BY <4>2 DEF is_allowed, allowed_states, Resuming, Breakpoints, Inspecting
      <4>4. \A g \in Procs : g = spawned => debuggee[g] # "stopped"
        BY <1>3, <4>3 DEF Heard, NotBegun, Unbegun
      <4>5. QED
        BY <1>2, <4>4 DEF StopIsLast
    <3>2. CASE ~(~Blocking(op[t]) /\ op[t] = "configuration_done")
      <4>1. Settled(t) => Settled(t)'
        BY <1>2, <1>4, <2>4, <3>2 DEF Settled
      <4>2. LineSettled(t) => LineSettled(t)'
        BY <1>2, <4>1 DEF LineSettled, LineStops, LineQuiet, Announced
      <4>3. QED
        BY <1>2, <2>5, <4>2 DEF Heard, StopIsLast
    <3>3. QED
      BY <3>1, <3>2
  <2>9. QED
    BY <2>2, <2>6, <2>7, <2>8 DEF Heard
<1>7. QED
  BY <1>5, <1>6

LEMMA ReceiveHeard ==
  ASSUME CliInv, PendingInv, NEW t \in Tasks, Heard(t), Receive(t)
  PROVE  Heard(t)'
<1>1. Alone(t) /\ UNCHANGED <<state, spawned, alive, inq, outq, events, debuggee, op>>
  BY DEF Receive, session, client, adapter, CliInv
<1>2. /\ pc[t] = "wait" /\ answer[t] # NoAnswer
      /\ pc'[t] = IF answer[t].result = "ok" THEN AfterReply(op[t]) ELSE AfterFailure(op[t])
  BY DEF Receive, Goto, CliInv, IInv, TypeOK, TaskTypeOK
<1>3. Granted(t)' <=> Granted(t)
  BY ReceiveGrants DEF CliInv, IInv
<1>4. Ended(t)' => Ended(t)
  BY <1>1, <1>2 DEF Ended
<1>5. Settled(t) => Settled(t)'
  <2>1. op[t] \notin {"stopped", "continued"}
    BY <1>1, <1>2, ToolsAreNotEvents DEF Alone, Staged, Events, Closing
  <2>2. QED
    BY <1>1, <1>3, <2>1 DEF Settled
<1>6. QED
  BY <1>1, <1>3, <1>4, <1>5, TaskMoves

LEMMA StepHeard ==
  ASSUME CliInv, PendingInv, NEW t \in Tasks, StopsTrue(t), Step(t)
  PROVE  StopsTrue(t)'
<1>1. HasNewest(t) /\ Heard(t)
  BY DEF StopsTrue
<1>2. HasNewest(t)'
  BY <1>1, StartNewest, OtherNewest
<1>3. Heard(t)'
  BY <1>1, OpeningHeard, SpawnHeard, SendHeard, ReceiveHeard, FieldHeard, TransitionHeard, CacheHeard
  DEF Step
<1>4. QED
  BY <1>2, <1>3 DEF StopsTrue

LEMMA ReadHeard ==
  ASSUME CliInv, PendingInv, NEW t \in Tasks, Heard(t), NEW g \in Procs, Read(g)
  PROVE  Heard(t)'
<1>1. TypeOK
  BY DEF CliInv, IInv
<1>2. UNCHANGED <<state, spawned, alive, inq, debuggee, op, pc>>
  BY DEF Read, session
<1>3. /\ Granted(t)' <=> Granted(t)
      /\ answer'[t] = answer[t] \/ Said(g, 1, t)
  BY <1>1, AssentRead
<1>4. /\ \A h \in Procs : \A i : h # g =>
           (Said(h, i, t)' <=> Said(h, i, t)) /\ \A w : (Told(h, i, w)' <=> Told(h, i, w))
      /\ \A i : Said(g, i, t)' => i \in Nat /\ Said(g, i + 1, t)
      /\ \A i, w : Told(g, i, w)' => i \in Nat /\ Told(g, i + 1, w)
      /\ \A j, w : Told(g, j, w) => j \in Nat \ {0}
  BY <1>1, WordsRead DEF Said, Told
<1>5. RequestsTrue(t)'
  BY <1>2 DEF Heard, RequestsTrue
<1>6. AnswersOfNewest(t)'
  <2>1. ASSUME NEW h \in Procs, NEW i, Said(h, i, t)' PROVE h = spawned
    <3>1. Said(h, i, t) \/ Said(h, i + 1, t)
      BY <1>4, <2>1
    <3>2. QED
      BY <3>1 DEF Heard, AnswersOfNewest
  <2>2. QED
    BY <1>2, <2>1 DEF AnswersOfNewest
<1>7. OldOnesSilent(t)'
  <2>1. Ended(t)' => Ended(t) \/ (op[t] \in Closing /\ Said(g, 1, t))
    BY <1>2, <1>3 DEF Ended
  <2>2. ASSUME op[t] \in Closing, Said(g, 1, t) PROVE PipeQuiet(g)
    <3>1. \A j : Told(g, j, "continued") => j < 1 /\ j \in Nat \ {0}
      BY <1>4, <2>2 DEF Heard, OldOnesSilent
    <3>2. QED
      BY <3>1 DEF PipeQuiet
  <2>3. \A h \in Procs : PipeQuiet(h) => PipeQuiet(h)'
    BY <1>1, PipeRead
  <2>4. Said(g, 1, t) => g = spawned
    BY DEF Heard, AnswersOfNewest
  <2>5. ASSUME NEW h \in Procs, h # spawned' \/ Ended(t)' PROVE PipeQuiet(h)'
    <3>1. CASE h # spawned \/ Ended(t)
      BY <2>3, <3>1 DEF Heard, OldOnesSilent
    <3>2. CASE h = spawned /\ op[t] \in Closing /\ Said(g, 1, t)
      BY <2>2, <2>3, <2>4, <3>2
    <3>3. QED
      BY <1>2, <2>1, <2>5, <3>1, <3>2
  <2>6. ASSUME NEW h \in Procs, NEW i, NEW j,
               op'[t] \in Closing, Said(h, i, t)', Told(h, j, "continued")'
        PROVE  j < i
    <3>1. CASE h # g
      BY <1>2, <1>4, <2>6, <3>1 DEF Heard, OldOnesSilent
    <3>2. CASE h = g
      <4>1. i \in Nat /\ j \in Nat /\ Said(g, i + 1, t) /\ Told(g, j + 1, "continued")
        BY <1>4, <2>6, <3>2
      <4>2. j + 1 < i + 1
        BY <1>2, <2>6, <4>1 DEF Heard, OldOnesSilent
      <4>3. QED
        BY <4>1, <4>2
    <3>3. QED
      BY <3>1, <3>2
  <2>7. QED
    BY <2>5, <2>6 DEF OldOnesSilent
<1>8. NotBegun(t)'
  BY <1>2, <1>3 DEF Heard, NotBegun, Unbegun
<1>9. StopIsLast(t)'
  <2>1. Settled(t)' <=> Settled(t)
    BY <1>2, <1>3 DEF Settled
  <2>2. ASSUME NEW h \in Procs, h = spawned, debuggee[h] = "stopped"
        PROVE  PipeStops(h)' \/ (PipeQuiet(h)' /\ LineSettled(t)')
    <3>1. CASE PipeStops(h)
      <4>1. PipeStops(h)' \/ (h = g /\ Head(outq[g]).body = "stopped" /\ PipeQuiet(g)')
        BY <1>1, <3>1, PipeRead
      <4>2. Head(outq[g]).body = "stopped" => LineStops'
        BY <1>1, LineRead
      <4>3. QED
        BY <4>1, <4>2 DEF LineSettled
    <3>2. CASE PipeQuiet(h) /\ LineSettled(t)
      <4>1. PipeQuiet(h)'
        BY <1>1, <3>2, PipeRead
      <4>2. PipeQuiet(g)
        BY <2>2, <3>2 DEF Heard, OldOnesSilent
      <4>3. Head(outq[g]).body # "continued"
        BY <1>1, <4>2, PipeRead
      <4>4. (LineQuiet => LineQuiet') /\ (LineStops => LineStops')
        BY <1>1, <4>3, LineRead
      <4>5. QED
        BY <2>1, <3>2, <4>1, <4>4 DEF LineSettled
    <3>3. QED
      BY <2>2, <3>1, <3>2 DEF Heard, StopIsLast
  <2>3. QED
    BY <1>2, <2>2 DEF StopIsLast
<1>10. QED
  BY <1>5, <1>6, <1>7, <1>8, <1>9 DEF Heard

\* The program stops, or ends, by itself.
LEMMA ProgramHeard ==
  ASSUME CliInv, PendingInv, NEW t \in Tasks, HasNewest(t), Heard(t), NEW g \in Procs, Stop(g) \/ Exit(g)
  PROVE  Heard(t)'
<1>1. TypeOK /\ g \in alive
  BY DEF CliInv, IInv, Stop, Exit
<1>2. g = spawned
  BY <1>1, OnlyNewestRuns
<1>3. /\ UNCHANGED <<state, spawned, alive, inq, events, op, pc, answer>>
      /\ debuggee[g] = "running" /\ debuggee'[g] \in {"stopped", "exited"}
      /\ debuggee'[g] = "stopped" => Stop(g)
  BY <1>1 DEF Stop, Exit, session, client, tasks, TypeOK, AdapterTypeOK
<1>4. \A h \in Procs : \A i : Said(h, i, t)' <=> Said(h, i, t)
  <2>1. PICK names \in Seq(Events), k \in 0..MaxStops :
          outq' = [outq EXCEPT ![g] = @ \o Announce(g, names, k)]
    BY <1>1, StopsAnnounce
  <2>2. QED
    BY <1>1, <2>1, AnnouncePlaces
<1>5. PICK more \in Seq(Messages) :
        /\ outq' = [outq EXCEPT ![g] = @ \o more]
        /\ \A k \in DOMAIN more : more[k].body # "continued"
  <2>1. CASE Exit(g)
    BY <1>1, <2>1, ExitSays
  <2>2. CASE Stop(g)
    <3>1. "stopped" \in Events /\ <<"stopped">> \in Seq(Events)
      BY DEF Events
    <3>2. stops[g] + 1 \in 0..MaxStops
      BY <1>1, <2>2, BoundsAssumption DEF Stop, TypeOK, AdapterTypeOK
    <3>3. PICK more \in Seq(Messages) : more = Announce(g, <<"stopped">>, stops[g] + 1)
      BY <3>1, <3>2, AnnounceType, BoundsAssumption
    <3>4. \A k \in DOMAIN more : more[k].body = "stopped"
      BY <3>3 DEF Announce
    <3>5. QED
      BY <2>2, <3>3, <3>4 DEF Stop
  <2>3. QED
    BY <2>1, <2>2
<1>6. \A h \in Procs : /\ PipeQuiet(h) => PipeQuiet(h)'
                       /\ \A i : Told(h, i, "continued")' => Told(h, i, "continued")
  BY <1>1, <1>5, PipeWritten
<1>7. Granted(t) => Granted(t)'
  <2>1. \A h \in Procs : \A i, w : Told(h, i, w) => Told(h, i, w)'
    <3>1. PICK n : Written(g, more, n)
      BY <1>1, <1>5, WordsWritten
    <3>2. QED
      BY <3>1, WrittenPlaces
  <2>2. Assented(t) => Assented(t)'
    BY <1>3, <1>4, <2>1 DEF Assented
  <2>3. QED
    BY <1>3, <2>2 DEF Granted
<1>8. RequestsTrue(t)' /\ AnswersOfNewest(t)'
  BY <1>3, <1>4 DEF Heard, RequestsTrue, AnswersOfNewest
<1>9. OldOnesSilent(t)'
  <2>1. Ended(t)' <=> Ended(t)
    BY <1>3 DEF Ended
  <2>2. QED
    BY <1>3, <1>4, <1>6, <2>1 DEF Heard, OldOnesSilent
<1>10. NotBegun(t)'
  BY <1>2, <1>3, <1>7 DEF Heard, NotBegun, Unbegun
<1>11. StopIsLast(t)'
  BY <1>1, <1>2, <1>3, StopWritten DEF StopIsLast
<1>12. QED
  BY <1>8, <1>9, <1>10, <1>11 DEF Heard

\* A request of the task is the command of the call it makes.
LEMMA CallersRequest ==
  ASSUME CliInv, PendingInv, NEW t \in Tasks, Heard(t), NEW g \in Procs, 1 \in DOMAIN inq[g],
         NEW r, r = inq[g][1]
  PROVE  /\ r.task # t => r.command \in {"launch", "configuration_done"}
         /\ r.task = t => /\ Waits(t)
                          /\ r.command = "disconnect" => op[t] \in Closing
                          /\ r.command # "disconnect" => r.command = op[t] /\ op[t] \notin Closing
<1>1. r.command \in IF r.task = t THEN {Command(op[t])} ELSE {"launch", "configuration_done"}
  BY DEF Heard, RequestsTrue
<1>2. op[t] # "disconnect"
  BY ToolsAssumption DEF CliInv, IInv, TypeOK, TaskTypeOK, Events
<1>3. r.task = t => Waits(t)
  <2>1. r.task = t => Asked(g, 1, t)
    BY DEF Asked
  <2>2. QED
    BY <2>1 DEF PendingInv, Routed, UnderWay
<1>4. QED
  BY <1>1, <1>2, <1>3 DEF Command

LEMMA ServeHeard ==
  ASSUME CliInv, PendingInv, NEW t \in Tasks, HasNewest(t), Heard(t), NEW g \in Procs, Serve(g)
  PROVE  Heard(t)'
<1>1. TypeOK /\ Alone(t) /\ g \in alive /\ debuggee[g] \in ProgramStates
  BY DEF CliInv, IInv, Serve, TypeOK, AdapterTypeOK, ProgramStates
<1>2. g = spawned
  BY <1>1, OnlyNewestRuns
<1>3. UNCHANGED <<state, spawned, events, op, pc, answer>>
  BY DEF Serve, session, client, tasks
<1>4. PICK r \in Requests : \E x \in Reactions(g, r.command, debuggee[g]) :
        \E more \in Seq(Messages) : Replied(g, r, x, more)
  BY <1>1, ServeReplies
<1>5. PICK x \in Reactions(g, r.command, debuggee[g]), more \in Seq(Messages) : Replied(g, r, x, more)
  BY <1>4
<1>6. /\ \A k \in DOMAIN x.announced : x.announced[k] = "continued" =>
           r.command \in Resuming /\ x.next = "running"
      /\ x.next = "stopped" /\ x.result = "ok" => r.command \notin Resuming \cup {"configuration_done"}
      /\ x.next = "stopped" => debuggee[g] = "stopped"
      /\ debuggee[g] \in {"none", "launched", "exited"} =>
           \/ x.next \in {"none", "launched", "exited"}
           \/ r.command = "configuration_done" /\ x.result = "ok"
  BY <1>1, ReactionsTrue
<1>7. /\ 1 \in DOMAIN inq[g] /\ r = inq[g][1]
      /\ inq' = [inq EXCEPT ![g] = Tail(@)] /\ inq[g] # <<>>
      /\ outq' = [outq EXCEPT ![g] = @ \o more]
      /\ debuggee' = [debuggee EXCEPT ![g] = x.next]
      /\ alive' = alive \/ (r.command = "disconnect" /\ alive' = alive \ {g})
  BY <1>5 DEF Replied
<1>8. /\ 1 \in DOMAIN more /\ more[1].task = r.task /\ more[1].body = x.result
      /\ x.result \in {"ok", "failed"}
      /\ \A k \in DOMAIN more : k \in Nat /\ (k # 1 =>
           more[k].task = Nobody /\ \E l \in DOMAIN x.announced : more[k].body = x.announced[l])
  BY <1>5 DEF Replied
<1>9. /\ r.task # t => r.command \in {"launch", "configuration_done"}
      /\ r.task = t => /\ Waits(t)
                       /\ r.command = "disconnect" => op[t] \in Closing
                       /\ r.command # "disconnect" => r.command = op[t] /\ op[t] \notin Closing
  BY <1>7, CallersRequest
<1>10. PICK n : Written(g, more, n)
  BY <1>1, <1>7, WordsWritten
<1>11. n \in Nat
  BY <1>10 DEF Written
<1>12. /\ \A h \in Procs : \A i, w : h # g =>
            (Said(h, i, t)' <=> Said(h, i, t)) /\ (Told(h, i, w)' <=> Told(h, i, w))
       /\ \A h \in Procs : \A i, w : (Said(h, i, t) => Said(h, i, t)') /\ (Told(h, i, w) => Told(h, i, w)')
       /\ \A i, w : Said(g, i, t) /\ Told(g, i, w)' => Told(g, i, w)
       /\ \A i, w : Told(g, i, w) => i \in Nat /\ i <= n
  BY <1>10, WrittenPlaces
\* Only the response can be for the task.
<1>13. \A i : Said(g, i, t)' => Said(g, i, t) \/ (i = n + 1 /\ r.task = t)
  <2>1. ASSUME NEW i, Said(g, i, t)', ~Said(g, i, t) PROVE i = n + 1 /\ r.task = t
    <3>1. i \in Nat /\ n < i /\ i - n \in DOMAIN more /\ more[i - n].task = t
      BY <1>10, <2>1, WrittenPlaces
    <3>2. i - n = 1
      BY <1>8, <3>1, TasksAssumption
    <3>3. QED
      BY <1>8, <1>11, <3>1, <3>2
  <2>2. QED
    BY <2>1
\* Only a call that resumes is followed by the word that the program continues.
<1>14. \/ \A k \in DOMAIN more : more[k].body # "continued"
       \/ r.task = t /\ op[t] \in Resuming /\ x.next = "running"
  <2>1. r.command \in Resuming => r.task = t /\ op[t] = r.command
    BY <1>9 DEF Resuming
  <2>2. ASSUME NEW k \in DOMAIN more, more[k].body = "continued"
        PROVE  r.task = t /\ op[t] \in Resuming /\ x.next = "running"
    <3>1. k # 1
      BY <1>8, <2>2
    <3>2. \E l \in DOMAIN x.announced : x.announced[l] = "continued"
      BY <1>8, <2>2, <3>1
    <3>3. QED
      BY <1>6, <2>1, <3>2
  <2>3. QED
    BY <2>2
<1>15. Ended(t)' => Ended(t)
  <2>1. CASE alive' = alive
    BY <1>3, <2>1 DEF Ended
  <2>2. CASE r.command = "disconnect"
    <3>1. r.task = t /\ op[t] \in Closing /\ pc[t] = "wait"
      BY <1>9, <2>2 DEF Waits
    <3>2. QED
      BY <1>3, <3>1 DEF Ended
  <2>3. QED
    BY <1>7, <2>1, <2>2
<1>16. r.task = t /\ op[t] \in Resuming => ~Ended(t)
  <2>1. ASSUME r.task = t, op[t] \in Resuming PROVE ~Ended(t)
    <3>1. pc[t] = "wait" /\ op[t] \notin Closing
      BY <1>9, <2>1 DEF Waits, Resuming, Closing
    <3>2. op[t] \in Tools
      BY <1>1, <3>1 DEF Alone, Staged
    <3>3. is_allowed(op[t], state)
      BY <1>1, <3>1, <3>2 DEF Alone, Admitted
    <3>4. \A o \in Resuming : ~is_allowed(o, "Disconnected")
      BY DEF is_allowed, allowed_states, Resuming, Breakpoints, Inspecting
    <3>5. state # "Disconnected"
      BY <2>1, <3>3, <3>4
    <3>6. QED
      BY <1>1, <1>2, <3>1, <3>5 DEF Ended
  <2>2. QED
    BY <2>1
<1>17. RequestsTrue(t)'
  <2>1. \A h \in Procs : \A i \in DOMAIN inq'[h] : \E j \in DOMAIN inq[h] : inq'[h][i] = inq[h][j]
    BY <1>1, <1>7, RequestsServed
  <2>2. QED
    BY <1>3, <2>1 DEF Heard, RequestsTrue
<1>18. AnswersOfNewest(t)'
  BY <1>2, <1>3, <1>12 DEF Heard, AnswersOfNewest
<1>19. \A h \in Procs : (h # g => (PipeQuiet(h)' <=> PipeQuiet(h)))
  BY <1>12 DEF PipeQuiet
<1>20. (\A k \in DOMAIN more : more[k].body # "continued") =>
         /\ PipeQuiet(g) => PipeQuiet(g)'
         /\ PipeStops(g) => PipeStops(g)'
         /\ \A i : Told(g, i, "continued")' => Told(g, i, "continued")
  BY <1>1, <1>7, PipeWritten
<1>21. OldOnesSilent(t)'
  <2>1. ASSUME NEW h \in Procs, h # spawned \/ Ended(t)' PROVE PipeQuiet(h)'
    <3>1. PipeQuiet(h)
      BY <1>15, <2>1 DEF Heard, OldOnesSilent
    <3>2. CASE h # g
      BY <1>19, <3>1, <3>2
    <3>3. CASE h = g
      BY <1>2, <1>14, <1>15, <1>16, <1>20, <2>1, <3>1, <3>3
    <3>4. QED
      BY <3>2, <3>3
  <2>2. ASSUME NEW h \in Procs, NEW i, NEW j, op[t] \in Closing, Said(h, i, t)', Told(h, j, "continued")'
        PROVE  j < i
    <3>1. op[t] \notin Resuming
      BY <2>2 DEF Closing, Resuming
    <3>2. Told(h, j, "continued")
      BY <1>12, <1>14, <1>20, <2>2, <3>1
    <3>3. CASE Said(h, i, t)
      BY <2>2, <3>2, <3>3 DEF Heard, OldOnesSilent
    <3>4. CASE ~Said(h, i, t)
      <4>1. h = g /\ i = n + 1
        BY <1>12, <1>13, <2>2, <3>4
      <4>2. j \in Nat /\ j <= n
        BY <1>12, <3>2, <4>1
      <4>3. QED
        BY <1>11, <4>1, <4>2
    <3>5. QED
      BY <3>3, <3>4
  <2>3. QED
    BY <1>3, <2>1, <2>2 DEF OldOnesSilent
\* The response is what may grant the call.
<1>22. Granted(t) => Granted(t)'
  <2>1. Assented(t) => Assented(t)'
    BY <1>3, <1>12 DEF Assented
  <2>2. QED
    BY <1>3, <2>1 DEF Granted
<1>23. r.task = t /\ x.result = "ok" => Assented(t)'
  <2>1. ASSUME r.task = t, x.result = "ok" PROVE Said(g, n + 1, t)' /\ Told(g, n + 1, "ok")'
    <3>1. n + 1 \in DOMAIN outq'[g] /\ outq'[g][n + 1] = more[1]
      BY <1>8, <1>10 DEF Written
    <3>2. QED
      BY <1>8, <2>1, <3>1 DEF Said, Told
  <2>2. QED
    BY <2>1 DEF Assented
<1>24. Assented(t)' => Assented(t) \/ (r.task = t /\ x.result = "ok")
  <2>1. ASSUME NEW h \in Procs, NEW i, Said(h, i, t)', Told(h, i, "ok")'
        PROVE  (Said(h, i, t) /\ Told(h, i, "ok")) \/ (r.task = t /\ x.result = "ok")
    <3>1. CASE h # g
      BY <1>12, <2>1, <3>1
    <3>2. CASE h = g /\ Said(g, i, t)
      BY <1>12, <2>1, <3>2
    <3>3. CASE h = g /\ i = n + 1 /\ r.task = t
      <4>1. outq'[g][n + 1] = more[1]
        BY <1>8, <1>10 DEF Written
      <4>2. QED
        BY <1>8, <2>1, <3>3, <4>1 DEF Told
    <3>4. QED
      BY <1>13, <2>1, <3>1, <3>2, <3>3
  <2>2. QED
    BY <1>3, <2>1 DEF Assented
<1>25. NotBegun(t)'
  <2>1. ASSUME Unbegun(t), ~Granted(t)' PROVE Unbegun(t)'
    <3>1. debuggee[g] \in {"none", "launched", "exited"}
      BY <1>2, <2>1 DEF Unbegun
    <3>2. debuggee'[g] = x.next
      BY <1>1, <1>7 DEF TypeOK, AdapterTypeOK
    <3>3. ~(r.command = "configuration_done" /\ x.result = "ok")
      <4>1. ASSUME r.command = "configuration_done", x.result = "ok" PROVE FALSE
        <5>1. r.task = t
          BY <1>2, <1>7, <2>1, <4>1 DEF Unbegun
        <5>2. op[t] = "configuration_done" /\ pc[t] = "wait"
          BY <1>9, <4>1, <5>1 DEF Waits
        <5>3. Granted(t)'
          BY <1>3, <1>23, <4>1, <5>1, <5>2 DEF Granted
        <5>4. QED
          BY <2>1, <5>3
      <4>2. QED
        BY <4>1
    <3>4. \A i \in DOMAIN inq'[g] : \E j \in DOMAIN inq[g] : inq'[g][i] = inq[g][j]
      BY <1>1, <1>7, RequestsServed
    <3>5. \A i \in DOMAIN inq'[g] : inq'[g][i].command = "configuration_done" => inq'[g][i].task = t
      BY <1>2, <2>1, <3>4 DEF Unbegun
    <3>6. QED
      BY <1>2, <1>3, <1>6, <3>1, <3>2, <3>3, <3>5 DEF Unbegun
  <2>2. QED
    BY <1>3, <1>22, <2>1 DEF Heard, NotBegun
<1>26. StopIsLast(t)'
  <2>1. debuggee'[g] = x.next
    BY <1>1, <1>7 DEF TypeOK, AdapterTypeOK
  <2>2. ASSUME x.next = "stopped"
        PROVE  PipeStops(g)' \/ (PipeQuiet(g)' /\ LineSettled(t)')
    <3>1. debuggee[g] = "stopped" /\ \A k \in DOMAIN more : more[k].body # "continued"
      BY <1>6, <1>14, <2>2
    <3>2. Granted(t)' => Granted(t)
      <4>1. r.task = t /\ x.result = "ok" => op[t] \notin Resuming \cup {"configuration_done"}
        BY <1>6, <1>9, <2>2 DEF Closing, Resuming
      <4>2. QED
        BY <1>3, <1>24, <4>1 DEF Granted
    <3>3. Settled(t) => Settled(t)'
      BY <1>3, <3>2 DEF Settled
    <3>4. LineSettled(t) => LineSettled(t)'
      BY <1>3, <3>3 DEF LineSettled, LineStops, LineQuiet, Announced
    <3>5. PipeStops(g) \/ (PipeQuiet(g) /\ LineSettled(t))
      BY <1>2, <3>1 DEF Heard, StopIsLast
    <3>6. QED
      BY <1>20, <3>1, <3>4, <3>5
  <2>3. QED
    BY <1>2, <1>3, <2>1, <2>2 DEF StopIsLast
<1>27. QED
  BY <1>17, <1>18, <1>21, <1>25, <1>26 DEF Heard

-----------------------------------------------------------------------------
HearsAll == PendingInv /\ \A t \in Tasks : StopsTrue(t)

LEMMA InitHears == CliInit => HearsAll
<1> SUFFICES ASSUME CliInit PROVE HearsAll
  OBVIOUS
<1>1. /\ spawned = 0 /\ child = 0 /\ stdin = 0 /\ events = <<>> /\ state = "Disconnected"
      /\ \A g \in Procs : inq[g] = <<>> /\ outq[g] = <<>> /\ debuggee[g] = "none"
      /\ \A t \in Tasks : op[t] = "none" /\ pc[t] = "idle"
  BY DEF CliInit, Init
<1>2. \A g \in Procs : DOMAIN inq[g] = {} /\ DOMAIN outq[g] = {}
  BY <1>1
<1>3. ASSUME NEW t \in Tasks PROVE StopsTrue(t)
  <2>1. HasNewest(t)
    BY <1>1 DEF HasNewest, Untouched, Holding
  <2>2. RequestsTrue(t) /\ AnswersOfNewest(t)
    BY <1>2 DEF RequestsTrue, AnswersOfNewest, Said
  <2>3. OldOnesSilent(t)
    BY <1>2 DEF OldOnesSilent, PipeQuiet, Told, Said
  <2>4. NotBegun(t) /\ StopIsLast(t)
    BY <1>1 DEF NotBegun, StopIsLast
  <2>5. QED
    BY <2>1, <2>2, <2>3, <2>4 DEF StopsTrue, Heard
<1>4. PendingInv
  BY InitPending DEF CliInit
<1>5. QED
  BY <1>3, <1>4 DEF HearsAll

LEMMA NextHears == CliInv /\ HearsAll /\ [CliNext]_cliVars => HearsAll'
<1> SUFFICES ASSUME CliInv, HearsAll, [CliNext]_cliVars PROVE HearsAll'
  OBVIOUS
<1>1. PendingInv'
  BY CliPending DEF CliInv, IInv, HearsAll
<1>2. ASSUME NEW t \in Tasks PROVE StopsTrue(t)'
  <2>1. PendingInv /\ StopsTrue(t) /\ HasNewest(t) /\ Heard(t)
    BY DEF HearsAll, StopsTrue
  <2>2. ASSUME NEW u \in Tasks, Issue(u) \/ FreeCall(u) \/ Take(u) \/ CliStep(u)
        PROVE  StopsTrue(t)'
    <3>1. u = t
      BY OneOnly
    <3>2. CASE Issue(t) \/ Call(t) \/ TakeEvent(t)
      BY <2>1, <3>2, BeginNewest, BeginHeard DEF StopsTrue
    <3>3. CASE Step(t)
      BY <2>1, <3>3, StepHeard
    <3>4. QED
      BY <2>2, <3>1, <3>2, <3>3 DEF FreeCall, Take, CliStep
  <2>3. CASE Environment
    <3>1. HasNewest(t)'
      BY <2>1, <2>3, EnvironmentNewest
    <3>2. Heard(t)'
      BY <2>1, <2>3, ReadHeard, ServeHeard, ProgramHeard DEF Environment
    <3>3. QED
      BY <3>1, <3>2 DEF StopsTrue
  <2>4. CASE UNCHANGED cliVars
    <3>1. UNCHANGED <<child, stdin, spawned, pc, arg, inq, outq, debuggee, op, events, state, alive, answer>>
      BY <2>4 DEF cliVars, vars, session, client, tasks, adapter
    <3>2. HasNewest(t)'
      BY <2>1, <3>1 DEF HasNewest, Fresh, Untouched
    <3>3. Granted(t)' <=> Granted(t)
      BY <3>1 DEF Granted, Assented, Said, Told
    <3>4. (Ended(t)' <=> Ended(t)) /\ (Settled(t)' <=> Settled(t))
      BY <3>1, <3>3 DEF Ended, Settled
    <3>5. Heard(t)'
      BY <2>1, <3>1, <3>3, <3>4, TaskMoves
    <3>6. QED
      BY <3>2, <3>5 DEF StopsTrue
  <2>5. QED
    BY <2>2, <2>3, <2>4 DEF CliNext
<1>3. QED
  BY <1>1, <1>2 DEF HearsAll

\* However many adapters come and go, a program of one task never ends up Running while
\* its program stands at a stop: the stop is heard, and heard after what came before it.
THEOREM NoStopIsLost == CliSpec => []RunningMeansNotStopped
<1>1. CliInv /\ HearsAll => RunningMeansNotStopped
  <2> SUFFICES ASSUME CliInv, HearsAll, Quiescent, state = "Running", child # 0
               PROVE  debuggee[child] # "stopped"
    BY DEF RunningMeansNotStopped
  <2>1. PICK t \in Tasks : pc[t] = "idle"
    BY OneTask DEF Quiescent, Tasks
  <2>2. HasNewest(t) /\ StopIsLast(t)
    BY DEF HearsAll, StopsTrue, Heard
  <2>3. child = spawned /\ child \in Procs
    BY <2>2, BoundsAssumption DEF HasNewest, CliInv, IInv, TypeOK, ClientTypeOK, Procs
  <2>4. ~PipeStops(spawned) /\ ~LineStops
    BY <2>3 DEF Quiescent, PipeStops, LineStops, Told, Announced
  <2>5. ~Settled(t)
    BY <2>1 DEF Settled
  <2>6. QED
    BY <2>2, <2>3, <2>4, <2>5 DEF StopIsLast, LineSettled
<1>2. QED
  BY <1>1, InitHears, NextHears, CliInvariance, PTL DEF CliSpec

-----------------------------------------------------------------------------
(* The handles that the session caches are those of the stop the program   *)
(* is at, whatever adapter it runs under.                                  *)

\* A program that does not run, and runs again by a call that resumes it only.
Rests(g) == debuggee[g] \in {"stopped", "exited"}
Own(g, s) == s = Stamp(g) /\ Rests(g)

\* The session is Halted, and no call has yet resumed the program.
StaysHalted(t) == state = "Halted" /\ ~Granted(t)

\* What is cached, or on its way to be.
CacheOwn(t, g) == StaysHalted(t) => \A s \in varCache : Own(g, s)
AnswerOwn(t, g) ==
  op[t] = "get_variables" =>
    /\ pc[t] = "cache_vars" => Own(g, arg[t])
    /\ answer[t].result = "ok" => Own(g, answer[t].stamp)
    /\ \A i : Said(g, i, t) /\ Told(g, i, "ok") => Own(g, outq[g][i].stamp)

HandlesTrue(t) ==
  /\ state # "Halted" => varCache = {}
  /\ \A g \in Procs : g = spawned => CacheOwn(t, g) /\ AnswerOwn(t, g)

\* A session that is, and stays, Halted was so before, but for the event of a stop; a call
\* that resumes the program is granted before it clears halt_state.
LEMMA HaltedStays ==
  ASSUME CliInv, PendingInv, NEW t \in Tasks, Step(t), StaysHalted(t)'
  PROVE  \/ StaysHalted(t) /\ (varCache' = varCache \/ CacheVariables(t)) /\ ~(ClearHalt(t) /\ op[t] \in Resuming)
         \/ transition_to(t) /\ op[t] = "stopped"
<1>1. Alone(t) /\ state \in SessionStates /\ state' = "Halted" /\ ~Granted(t)'
  BY DEF CliInv, IInv, TypeOK, SessionTypeOK, StaysHalted
<1>2. CASE transition_to(t)
  <2>1. /\ pc[t] = "transition"
        /\ \/ /\ can_transition_to(state, Target(op[t])) /\ state' = Target(op[t])
              /\ varCache' = IF state = "Halted" THEN {} ELSE varCache
           \/ ~can_transition_to(state, Target(op[t])) /\ state' = state /\ varCache' = varCache
    BY <1>2 DEF transition_to
  <2>2. op[t] \in Events \cup {"start", "initialize", "configuration_done", "shutdown"} \cup Resuming
    BY <1>1, <2>1 DEF Alone, Staged
  <2>3. Target(op[t]) = "Halted" => op[t] = "stopped"
    BY <2>2 DEF Target, Events, Closing, Resuming
  <2>4. SUFFICES ASSUME op[t] # "stopped" PROVE StaysHalted(t) /\ varCache' = varCache /\ ~ClearHalt(t)
    BY <1>2
  <2>5. /\ state = "Halted" /\ varCache' = varCache
        /\ ~can_transition_to(state, Target(op[t]))
    BY <1>1, <2>1, <2>3, <2>4
  <2>6. op[t] \notin Tools
    BY <1>1, <2>1, <2>5, AdmittedIsLegal DEF CliInv
  <2>7. ~Granted(t)
    BY <1>1, <2>1, <2>6 DEF Alone, Staged, Granted, Events, Resuming
  <2>8. ~ClearHalt(t)
    BY <2>1 DEF ClearHalt
  <2>9. QED
    BY <2>5, <2>7, <2>8 DEF StaysHalted
<1>3. CASE ClearHalt(t)
  <2>1. /\ UNCHANGED <<state, varCache, op>> /\ pc[t] = "clear_halt"
        /\ pc'[t] = IF op[t] = "continued" THEN "recheck" ELSE "transition"
    BY <1>3 DEF ClearHalt, Goto, CliInv, IInv, TypeOK, TaskTypeOK
  <2>2. op[t] \notin Resuming
    <3>1. op[t] \in Resuming => pc'[t] = "transition"
      BY <2>1 DEF Resuming
    <3>2. QED
      BY <1>1, <2>1, <3>1 DEF Granted
  <2>3. op[t] = "continued"
    BY <1>1, <2>1, <2>2 DEF Alone, Staged
  <2>4. ~Granted(t)
    BY <2>3 DEF Granted, Resuming
  <2>5. QED
    BY <1>1, <2>1, <2>2, <2>4 DEF StaysHalted
<1>4. CASE Receive(t)
  <2>1. Granted(t)' <=> Granted(t)
    BY <1>4, ReceiveGrants DEF CliInv, IInv
  <2>2. UNCHANGED <<state, varCache>> /\ ~ClearHalt(t)
    BY <1>4 DEF Receive, ClearHalt, session
  <2>3. QED
    BY <1>1, <2>1, <2>2 DEF StaysHalted
<1>5. CASE ~transition_to(t) /\ ~ClearHalt(t) /\ ~Receive(t)
  <2>1. pc[t] \notin {"clear_halt", "transition", "wait"}
    BY <1>5, StepAt
  <2>2. ~Granted(t)
    BY <2>1 DEF Granted
  <2>3. state' = state /\ (varCache' = varCache \/ CacheVariables(t))
    BY <1>5 DEF Step, Gate, IsRunning, SpawnFails, Spawn, SetStdin, SetChild, SetKind, Send, SetHalt,
                Recheck, Kill, ClearBreakpoints, UpdateBreakpoints, CacheVariables, session
  <2>4. QED
    BY <1>1, <1>5, <2>2, <2>3 DEF StaysHalted
<1>6. QED
  BY <1>2, <1>3, <1>4, <1>5

\* get_variables is under way in the state Halted only.
LEMMA VariablesAdmitted ==
  ASSUME CliInv, NEW t \in Tasks, op[t] = "get_variables", pc[t] \notin {"idle", "gate"}
  PROVE  StaysHalted(t)
<1>1. Alone(t) /\ op[t] \in Tools
  BY DEF CliInv, IInv, TypeOK, TaskTypeOK, Events
<1>2. is_allowed("get_variables", state)
  BY <1>1 DEF Alone, Staged, Admitted, Closing
<1>3. QED
  BY <1>2 DEF is_allowed, allowed_states, Resuming, Breakpoints, Inspecting, StaysHalted, Granted

\* The cache is empty wherever the session is not Halted.
LEMMA CacheEmpties ==
  ASSUME CliInv, NEW t \in Tasks, state # "Halted" => varCache = {}, Step(t)
  PROVE  state' # "Halted" => varCache' = {}
<1>1. CASE transition_to(t)
  BY <1>1 DEF transition_to
<1>2. CASE CacheVariables(t)
  <2>1. Alone(t) /\ pc[t] = "cache_vars"
    BY <1>2 DEF CliInv, CacheVariables
  <2>2. op[t] = "get_variables"
    BY <2>1 DEF Alone, Staged
  <2>3. state = "Halted"
    BY <2>1, <2>2, VariablesAdmitted DEF StaysHalted
  <2>4. QED
    BY <1>2, <2>3 DEF CacheVariables
<1>3. CASE ~transition_to(t) /\ ~CacheVariables(t)
  <2>1. UNCHANGED <<state, varCache>>
    BY <1>3 DEF Step, Gate, IsRunning, SpawnFails, Spawn, SetStdin, SetChild, SetKind, Send, Receive, SetHalt,
                ClearHalt, Recheck, Kill, ClearBreakpoints, UpdateBreakpoints, session
  <2>2. QED
    BY <2>1
<1>4. QED
  BY <1>1, <1>2, <1>3

LEMMA StepHandles ==
  ASSUME CliInv, PendingInv, NEW t \in Tasks, HandlesTrue(t), Step(t)
  PROVE  HandlesTrue(t)'
<1>1. Alone(t) /\ (state' # "Halted" => varCache' = {})
  BY CacheEmpties DEF CliInv, HandlesTrue
<1>2. CASE Spawn(t) \/ SetStdin(t) \/ SetChild(t) \/ SetKind(t)
  <2>1. pc[t] \in {"spawn", "set_stdin", "set_child", "set_kind"} /\ UNCHANGED <<op, state>>
    BY <1>2 DEF Spawn, SetStdin, SetChild, SetKind, session
  <2>2. op[t] = "start"
    BY <1>1, <2>1 DEF Alone, Staged
  <2>3. state' # "Halted" /\ op'[t] # "get_variables"
    BY <2>1, <2>2, StartIsDisconnected
  <2>4. QED
    BY <1>1, <2>3 DEF HandlesTrue, CacheOwn, AnswerOwn, StaysHalted
<1>3. CASE ~Spawn(t) /\ ~SetStdin(t) /\ ~SetChild(t) /\ ~SetKind(t)
  <2>1. UNCHANGED <<spawned, outq, debuggee, op>>
    BY <1>3, OtherSteps
  <2>2. UNCHANGED stops
    BY <1>3 DEF Step, Gate, IsRunning, SpawnFails, Send, Receive, SetHalt, ClearHalt, Recheck, transition_to,
                Kill, ClearBreakpoints, UpdateBreakpoints, CacheVariables, adapter
  <2>3. ASSUME NEW g \in Procs, g = spawned PROVE CacheOwn(t, g)' /\ AnswerOwn(t, g)'
    <3>1. CacheOwn(t, g) /\ AnswerOwn(t, g)
      BY <2>3 DEF HandlesTrue
    <3>2. \A s : Own(g, s)' <=> Own(g, s)
      BY <2>1, <2>2 DEF Own, Stamp, Rests
    <3>3. ASSUME StaysHalted(t)', NEW s \in varCache' PROVE Own(g, s)
      <4>1. CASE transition_to(t) /\ op[t] = "stopped"
        <5>1. Alone(t) /\ ~Granted(t) /\ Target(op[t]) = "Halted"
          BY <1>1, <4>1 DEF Granted, Resuming, Target, Closing
        <5>2. state # "Halted" => varCache' = varCache
          BY <4>1 DEF transition_to
        <5>3. state = "Halted" => varCache' = varCache /\ StaysHalted(t)
          <6>1. ~can_transition_to("Halted", "Halted")
            BY DEF can_transition_to
          <6>2. QED
            BY <4>1, <5>1, <6>1 DEF transition_to, StaysHalted
        <5>4. QED
          BY <3>1, <3>3, <5>2, <5>3 DEF HandlesTrue, CacheOwn
      <4>2. CASE StaysHalted(t) /\ varCache' = varCache
        BY <3>1, <3>3, <4>2 DEF CacheOwn
      <4>3. CASE StaysHalted(t) /\ CacheVariables(t)
        <5>1. varCache' = varCache \cup {arg[t]} /\ pc[t] = "cache_vars"
          BY <4>3 DEF CacheVariables
        <5>2. op[t] = "get_variables"
          BY <1>1, <5>1 DEF Alone, Staged
        <5>3. Own(g, arg[t])
          BY <3>1, <5>1, <5>2 DEF AnswerOwn
        <5>4. QED
          BY <3>1, <3>3, <4>3, <5>1, <5>3 DEF CacheOwn
      <4>4. QED
        BY <3>3, <4>1, <4>2, <4>3, HaltedStays
    <3>4. ASSUME op[t] = "get_variables"
          PROVE  /\ pc'[t] = "cache_vars" => Own(g, arg'[t])
                 /\ answer'[t].result = "ok" => Own(g, answer'[t].stamp)
      <4>1. CASE Send(t) \/ Receive(t)
        <5>1. Blocking(op[t]) /\ AfterFailure(op[t]) = "idle"
          BY <3>4 DEF Blocking, AfterFailure, Closing
        <5>2. /\ answer'[t] \in {answer[t], NoAnswer}
              /\ pc'[t] = "cache_vars" => arg'[t] = answer[t].stamp /\ answer[t].result = "ok"
          BY <4>1, <5>1 DEF Send, Receive, Goto, CliInv, IInv, TypeOK, TaskTypeOK
        <5>3. NoAnswer.result # "ok"
          BY DEF NoAnswer
        <5>4. QED
          BY <3>1, <3>4, <5>2, <5>3 DEF AnswerOwn
      <4>2. CASE ~Send(t) /\ ~Receive(t)
        <5>1. UNCHANGED <<answer, arg>> /\ pc'[t] # "cache_vars"
          <6>1. CASE Gate(t)
            BY <6>1, AfterGatePlaces DEF Gate, Goto, CliInv, IInv, TypeOK, TaskTypeOK
          <6>2. CASE ~Gate(t)
            BY <1>3, <4>2, <6>2 DEF Step, IsRunning, SpawnFails, SetHalt, ClearHalt, Recheck, transition_to,
                 Kill, ClearBreakpoints, UpdateBreakpoints, CacheVariables, Goto, CliInv, IInv, TypeOK, TaskTypeOK
          <6>3. QED
            BY <6>1, <6>2
        <5>2. QED
          BY <3>1, <3>4, <5>1 DEF AnswerOwn
      <4>3. QED
        BY <4>1, <4>2
    <3>5. \A i : (Said(g, i, t)' <=> Said(g, i, t)) /\ (Told(g, i, "ok")' <=> Told(g, i, "ok"))
      BY <2>1 DEF Said, Told
    <3>6. QED
      BY <2>1, <3>1, <3>2, <3>3, <3>4, <3>5 DEF CacheOwn, AnswerOwn
  <2>4. QED
    BY <1>1, <2>1, <2>3 DEF HandlesTrue
<1>4. QED
  BY <1>2, <1>3

LEMMA BeginHandles ==
  ASSUME CliInv, PendingInv, NEW t \in Tasks, HandlesTrue(t), Call(t) \/ Issue(t) \/ TakeEvent(t)
  PROVE  HandlesTrue(t)'
<1>1. /\ pc[t] = "idle" /\ pc'[t] # "cache_vars"
      /\ UNCHANGED <<state, varCache, spawned, outq, debuggee, stops, answer>>
  BY BeginPlaces DEF session, adapter
<1>2. /\ answer[t] = NoAnswer /\ ~Granted(t)
      /\ \A g \in Procs : \A i : ~Said(g, i, t)
  BY <1>1, NothingUnderWay DEF Granted
<1>3. StaysHalted(t)' => StaysHalted(t)
  BY <1>1, <1>2 DEF StaysHalted
<1>4. /\ answer'[t].result # "ok" /\ \A g \in Procs : \A i : ~Said(g, i, t)'
      /\ \A g, s : Own(g, s)' <=> Own(g, s)
  BY <1>1, <1>2 DEF NoAnswer, Said, Own, Stamp, Rests
<1>5. QED
  BY <1>1, <1>3, <1>4 DEF HandlesTrue, CacheOwn, AnswerOwn

\* What is read of an adapter: the answer of the newest one reaches its call as it was said.
LEMMA ReadHandles ==
  ASSUME CliInv, PendingInv, NEW t \in Tasks, AnswersOfNewest(t), HandlesTrue(t), NEW h \in Procs, Read(h)
  PROVE  HandlesTrue(t)'
<1>1. TypeOK /\ UNCHANGED <<state, varCache, spawned, debuggee, stops, op, pc, arg>>
  BY DEF CliInv, IInv, Read, session
<1>2. (StaysHalted(t)' <=> StaysHalted(t)) /\ \A g, s : Own(g, s)' <=> Own(g, s)
  BY <1>1, AssentRead DEF StaysHalted, Own, Stamp, Rests
<1>3. ASSUME NEW g \in Procs, g = spawned PROVE CacheOwn(t, g)' /\ AnswerOwn(t, g)'
  <2>1. CacheOwn(t, g) /\ AnswerOwn(t, g)
    BY <1>3 DEF HandlesTrue
  <2>2. ASSUME op[t] = "get_variables", answer'[t].result = "ok" PROVE Own(g, answer'[t].stamp)
    <3>1. CASE answer'[t] = answer[t]
      BY <2>1, <2>2, <3>1 DEF AnswerOwn
    <3>2. CASE answer'[t] # answer[t]
      <4>1. Said(h, 1, t) /\ Head(outq[h]) = outq[h][1] /\ h = g
        BY <1>1, <1>3, <3>2, AssentRead, WordsRead DEF AnswersOfNewest
      <4>2. answer'[t] = [result |-> outq[h][1].body, stamp |-> outq[h][1].stamp]
        <5>1. answer # answer'
          BY <3>2
        <5>2. outq[h][1].task = t
          BY <4>1 DEF Said
        <5>3. QED
          BY <1>1, <4>1, <5>1, <5>2 DEF Read, TypeOK, TaskTypeOK
      <4>3. Told(g, 1, "ok")
        BY <2>2, <4>1, <4>2 DEF Said, Told
      <4>4. QED
        BY <2>1, <2>2, <4>1, <4>2, <4>3 DEF AnswerOwn
    <3>3. QED
      BY <3>1, <3>2
  <2>3. ASSUME op[t] = "get_variables", NEW i, Said(g, i, t)', Told(g, i, "ok")'
        PROVE  Own(g, outq'[g][i].stamp)
    <3>1. CASE h = g
      <4>1. Said(g, i + 1, t) /\ Told(g, i + 1, "ok") /\ outq'[g][i] = outq[g][i + 1]
        BY <1>1, <2>3, <3>1, WordsRead DEF Said, Told
      <4>2. QED
        BY <2>1, <2>3, <4>1 DEF AnswerOwn
    <3>2. CASE h # g
      <4>1. Said(g, i, t) /\ Told(g, i, "ok") /\ outq'[g][i] = outq[g][i]
        BY <1>1, <2>3, <3>2, WordsRead DEF Said, Told
      <4>2. QED
        BY <2>1, <2>3, <4>1 DEF AnswerOwn
    <3>3. QED
      BY <3>1, <3>2
  <2>4. CacheOwn(t, g)'
    BY <1>1, <1>2, <2>1 DEF CacheOwn
  <2>5. op[t] = "get_variables" /\ pc[t] = "cache_vars" => Own(g, arg[t])
    BY <2>1 DEF AnswerOwn
  <2>6. AnswerOwn(t, g)'
    BY <1>1, <1>2, <2>2, <2>3, <2>5 DEF AnswerOwn
  <2>7. QED
    BY <2>4, <2>6
<1>4. QED
  BY <1>1, <1>3 DEF HandlesTrue

\* A program that stops, or ends, was running: nothing is cached then, or is on its way.
LEMMA ProgramHandles ==
  ASSUME CliInv, PendingInv, NEW t \in Tasks, HasNewest(t), HandlesTrue(t), NEW g \in Procs, Stop(g) \/ Exit(g)
  PROVE  HandlesTrue(t)'
<1>1. TypeOK /\ g \in alive
  BY DEF CliInv, IInv, Stop, Exit
<1>2. g = spawned /\ debuggee[g] = "running"
  BY <1>1, OnlyNewestRuns DEF Stop, Exit
<1>3. UNCHANGED <<state, varCache, spawned, op, pc, answer, arg>>
  BY DEF Stop, Exit, session, client, tasks
<1>4. PICK names \in Seq(Events), k \in 0..MaxStops :
        outq' = [outq EXCEPT ![g] = @ \o Announce(g, names, k)]
  BY <1>1, StopsAnnounce
<1>5. PICK more \in Seq(Messages) : more = Announce(g, names, k)
  BY <1>4, AnnounceType, BoundsAssumption
<1>6. PICK n : Written(g, more, n)
  BY <1>1, <1>4, <1>5, WordsWritten
<1>7. StaysHalted(t)' => StaysHalted(t)
  BY <1>1, <1>3, <1>4, <1>5, GrantStays DEF StaysHalted
<1>8. \A s : ~Own(g, s)
  BY <1>2 DEF Own, Rests
<1>9. CacheOwn(t, g) /\ AnswerOwn(t, g)
  BY <1>2 DEF HandlesTrue
<1>10. CacheOwn(t, g)'
  BY <1>3, <1>7, <1>8, <1>9 DEF CacheOwn
<1>11. AnswerOwn(t, g)'
  <2>1. \A i : Said(g, i, t)' => Said(g, i, t)
    BY <1>1, <1>4, AnnouncePlaces
  <2>2. \A i : Said(g, i, t)' /\ Told(g, i, "ok")' => Told(g, i, "ok")
    BY <1>6, <2>1, WrittenPlaces
  <2>3. QED
    BY <1>3, <1>8, <1>9, <2>1, <2>2 DEF AnswerOwn
<1>12. QED
  BY <1>2, <1>3, <1>10, <1>11 DEF HandlesTrue

LEMMA ServeHandles ==
  ASSUME CliInv, PendingInv, NEW t \in Tasks, HasNewest(t), Heard(t), HandlesTrue(t), NEW g \in Procs, Serve(g)
  PROVE  HandlesTrue(t)'
<1>1. TypeOK /\ g \in alive /\ debuggee[g] \in ProgramStates
  BY DEF CliInv, IInv, Serve, TypeOK, AdapterTypeOK, ProgramStates
<1>2. g = spawned
  BY <1>1, OnlyNewestRuns
<1>3. UNCHANGED <<state, varCache, spawned, stops, op, pc, answer, arg>>
  BY DEF Serve, session, client, tasks
<1>4. CacheOwn(t, g) /\ AnswerOwn(t, g)
  BY <1>2 DEF HandlesTrue
<1>5. PICK r \in Requests : \E x \in Reactions(g, r.command, debuggee[g]) :
        \E more \in Seq(Messages) : Replied(g, r, x, more)
  BY <1>1, ServeReplies
<1>6. PICK x \in Reactions(g, r.command, debuggee[g]), more \in Seq(Messages) : Replied(g, r, x, more)
  BY <1>5
<1>7. /\ r.command \in Resuming /\ debuggee[g] = "stopped" /\ x.result # "ok" => x.next = "stopped"
      /\ debuggee[g] = "stopped" /\ r.command \notin Resuming => x.next \in {"stopped", "exited"}
      /\ debuggee[g] = "exited" => x.next = "exited"
  BY <1>1, ReactionsStop
<1>8. /\ 1 \in DOMAIN inq[g] /\ r = inq[g][1]
      /\ outq' = [outq EXCEPT ![g] = @ \o more]
      /\ debuggee' = [debuggee EXCEPT ![g] = x.next]
  BY <1>6 DEF Replied
<1>9. /\ 1 \in DOMAIN more /\ more[1].task = r.task /\ more[1].body = x.result
      /\ more[1].stamp = Stamp(g) /\ x.result \in {"ok", "failed"}
      /\ \A k \in DOMAIN more : k \in Nat /\ (k # 1 => more[k].task = Nobody)
  BY <1>6 DEF Replied, Stamp
<1>10. /\ r.task # t => r.command \in {"launch", "configuration_done"}
       /\ r.task = t => /\ Waits(t)
                        /\ r.command = "disconnect" => op[t] \in Closing
                        /\ r.command # "disconnect" => r.command = op[t] /\ op[t] \notin Closing
  BY <1>8, CallersRequest
<1>11. PICK n : Written(g, more, n)
  BY <1>1, <1>8, WordsWritten
<1>12. Stamp(g)' = Stamp(g) /\ debuggee'[g] = x.next /\ (StaysHalted(t)' => StaysHalted(t))
  BY <1>1, <1>3, <1>8, GrantStays DEF Stamp, StaysHalted, TypeOK, AdapterTypeOK
<1>13. CacheOwn(t, g)'
  <2> SUFFICES ASSUME StaysHalted(t)', NEW s \in varCache PROVE Own(g, s)'
    BY <1>3 DEF CacheOwn
  <2>1. s = Stamp(g) /\ debuggee[g] \in {"stopped", "exited"}
    BY <1>4, <1>12 DEF CacheOwn, Own, Rests
  <2>2. x.next \in {"stopped", "exited"}
    <3>1. CASE debuggee[g] = "stopped" /\ r.command \in Resuming /\ x.result = "ok"
      <4>1. r.task = t /\ op[t] \in Resuming /\ Waits(t)
        BY <1>10, <3>1 DEF Resuming
      <4>2. n + 1 \in DOMAIN outq'[g] /\ outq'[g][n + 1] = more[1]
        BY <1>9, <1>11 DEF Written
      <4>3. Said(g, n + 1, t)' /\ Told(g, n + 1, "ok")'
        BY <1>9, <3>1, <4>1, <4>2 DEF Said, Told
      <4>4. Granted(t)'
        BY <1>3, <4>1, <4>3 DEF Granted, Assented, Waits
      <4>5. QED
        BY <4>4 DEF StaysHalted
    <3>2. QED
      BY <1>7, <2>1, <3>1
  <2>3. QED
    BY <1>12, <2>1, <2>2 DEF Own, Rests
<1>14. AnswerOwn(t, g)'
  <2> SUFFICES ASSUME op[t] = "get_variables" PROVE AnswerOwn(t, g)'
    BY <1>3 DEF AnswerOwn
  <2>1. r.command \notin Resuming /\ (r.task = t => r.command = "get_variables")
    BY <1>10 DEF Resuming, Closing
  <2>2. \A s : Own(g, s) => Own(g, s)'
    BY <1>7, <1>12, <2>1 DEF Own, Rests
  <2>3. ASSUME NEW i, Said(g, i, t)', Told(g, i, "ok")'
        PROVE  outq'[g][i].stamp = Stamp(g)' /\ Rests(g)'
    <3>1. CASE i \in DOMAIN outq[g]
      <4>1. outq'[g][i] = outq[g][i]
        BY <1>11, <3>1 DEF Written
      <4>2. Own(g, outq[g][i].stamp)
        BY <1>4, <2>3, <3>1, <4>1 DEF AnswerOwn, Said, Told
      <4>3. QED
        BY <2>2, <4>1, <4>2 DEF Own
    <3>2. CASE i \notin DOMAIN outq[g]
      <4>1. i - n \in DOMAIN more /\ outq'[g][i] = more[i - n]
        BY <1>11, <2>3, <3>2 DEF Written, Said
      <4>2. more[i - n].task = t /\ more[i - n].body = "ok"
        BY <2>3, <4>1 DEF Said, Told
      <4>3. i - n = 1
        BY <1>9, <4>1, <4>2, TasksAssumption
      <4>4. outq'[g][i].stamp = Stamp(g) /\ x.result = "ok" /\ r.task = t
        BY <1>9, <4>1, <4>2, <4>3
      <4>5. x.next = "stopped"
        BY <2>1, <4>4, ReactionsVariables
      <4>6. QED
        BY <1>12, <4>4, <4>5 DEF Rests
    <3>3. QED
      BY <3>1, <3>2
  <2>4. /\ pc[t] = "cache_vars" => Own(g, arg[t])
        /\ answer[t].result = "ok" => Own(g, answer[t].stamp)
    BY <1>4 DEF AnswerOwn
  <2>5. QED
    BY <1>3, <2>2, <2>3, <2>4 DEF AnswerOwn, Own
<1>15. QED
  BY <1>2, <1>3, <1>13, <1>14 DEF HandlesTrue

HandlesInv == \A t \in Tasks : HandlesTrue(t)

LEMMA InitHandles == CliInit => HandlesInv
<1> SUFFICES ASSUME CliInit, NEW t \in Tasks PROVE HandlesTrue(t)
  BY DEF HandlesInv
<1>1. spawned = 0 /\ varCache = {}
  BY DEF CliInit, Init
<1>2. \A g \in Procs : g # spawned
  BY <1>1, BoundsAssumption DEF Procs
<1>3. QED
  BY <1>1, <1>2 DEF HandlesTrue

LEMMA NextHandles == CliInv /\ HearsAll /\ HandlesInv /\ [CliNext]_cliVars => HandlesInv'
<1> SUFFICES ASSUME CliInv, HearsAll, HandlesInv, [CliNext]_cliVars, NEW t \in Tasks
             PROVE  HandlesTrue(t)'
  BY DEF HandlesInv
<1>1. PendingInv /\ HasNewest(t) /\ Heard(t) /\ AnswersOfNewest(t) /\ HandlesTrue(t)
  BY DEF HearsAll, StopsTrue, Heard, HandlesInv
<1>2. ASSUME NEW u \in Tasks, Issue(u) \/ FreeCall(u) \/ Take(u) \/ CliStep(u)
      PROVE  HandlesTrue(t)'
  <2>1. u = t
    BY OneOnly
  <2>2. CASE Issue(t) \/ Call(t) \/ TakeEvent(t)
    BY <1>1, <2>2, BeginHandles
  <2>3. CASE Step(t)
    BY <1>1, <2>3, StepHandles
  <2>4. QED
    BY <1>2, <2>1, <2>2, <2>3 DEF FreeCall, Take, CliStep
<1>3. CASE Environment
  BY <1>1, <1>3, ReadHandles, ServeHandles, ProgramHandles DEF Environment
<1>4. CASE UNCHANGED cliVars
  <2>1. UNCHANGED <<spawned, state, varCache, op, pc, answer, arg, outq, debuggee, stops>>
    BY <1>4 DEF cliVars, vars, session, client, tasks, adapter
  <2>2. /\ StaysHalted(t)' <=> StaysHalted(t)
        /\ \A g, i : (Said(g, i, t)' <=> Said(g, i, t)) /\ (Told(g, i, "ok")' <=> Told(g, i, "ok"))
        /\ \A g, s : Own(g, s)' <=> Own(g, s)
    BY <2>1 DEF StaysHalted, Granted, Assented, Said, Told, Own, Stamp, Rests
  <2>3. QED
    BY <1>1, <2>1, <2>2 DEF HandlesTrue, CacheOwn, AnswerOwn
<1>5. QED
  BY <1>2, <1>3, <1>4 DEF CliNext

\* cache.rs: in a program of one task the variable cache holds no handle but those of the
\* stop the program is at, and none while the session is not Halted, whatever events of an
\* earlier adapter reach it and however often it starts another one.
THEOREM HandlesAreFresh == CliSpec => []FreshHandles
<1>1. CliInv /\ HearsAll /\ HandlesInv => FreshHandles
  <2> SUFFICES ASSUME CliInv, HearsAll, HandlesInv, Quiescent
               PROVE  varCache \subseteq IF state = "Halted" /\ child # 0
                                           THEN {<<child, stops[child]>>} ELSE {}
    BY DEF FreshHandles
  <2>1. PICK t \in Tasks : pc[t] = "idle"
    BY OneTask DEF Quiescent, Tasks
  <2>2. CASE state # "Halted"
    BY <2>2 DEF HandlesInv, HandlesTrue
  <2>3. CASE state = "Halted"
    <3>1. child # 0
      BY <2>1, <2>3 DEF CliInv, Alone, ChildKept
    <3>2. child = spawned /\ child \in Procs
      BY <3>1, BoundsAssumption DEF HearsAll, StopsTrue, HasNewest, CliInv, IInv, TypeOK, ClientTypeOK, Procs
    <3>3. CacheOwn(t, child)
      BY <3>2 DEF HandlesInv, HandlesTrue
    <3>4. StaysHalted(t)
      BY <2>1, <2>3 DEF StaysHalted, Granted
    <3>5. QED
      BY <2>3, <3>1, <3>3, <3>4 DEF CacheOwn, Own, Stamp
  <2>4. QED
    BY <2>2, <2>3
<1>2. QED
  BY <1>1, InitHears, NextHears, InitHandles, NextHandles, CliInvariance, PTL DEF CliSpec

-----------------------------------------------------------------------------
(* The first adapter: nothing that it says can be about another one, and   *)
(* so what the session takes for the stop is the stop the program is at.   *)

Moves == {"stopped", "continued"}

PipeStill(g) == \A i : \A w \in Moves : ~Told(g, i, w)
LineStill    == \A i : \A w \in Moves : ~Announced(i, w)
HandStill(t) == ~(op[t] \in Moves /\ pc[t] # "idle")

\* The session is over, or is being ended.
Ending(t) == state = "Disconnected" \/ (op[t] \in Closing /\ pc[t] \notin {"idle", "gate"})
\* The program stands at a stop, or was ended there.
Standing(t, g) == debuggee[g] = "stopped" \/ (debuggee[g] = "exited" /\ Ending(t))

\* Wherever a stop is on its way it is the one the program is at, and the last word.
PipeStopLast(g) ==
  \A i : Told(g, i, "stopped") =>
    outq[g][i].stamp = Stamp(g) /\ \A j : \A w \in Moves : Told(g, j, w) => j <= i
LineStopLast(g) ==
  \A i : Announced(i, "stopped") =>
    events[i].stamp = Stamp(g) /\ PipeStill(g) /\ \A j : \A w \in Moves : Announced(j, w) => j <= i
HandStopLast(t, g) ==
  op[t] = "stopped" /\ pc[t] # "idle" =>
    /\ arg[t] = Stamp(g) /\ PipeStill(g) /\ LineStill
    /\ pc[t] = "transition" => halt = Stamp(g)
PipeTellsStop(g) == \E i : Told(g, i, "stopped")
LineTellsStop    == \E i : Announced(i, "stopped")
StopComing(t, g) == PipeTellsStop(g) \/ LineTellsStop \/ (op[t] = "stopped" /\ pc[t] # "idle")

\* A session that is Halted, and stays so, has heard everything.
HaltTrue(t, g) ==
  StaysHalted(t) => halt = Stamp(g) /\ PipeStill(g) /\ LineStill /\ HandStill(t)

StopTrue(t, g) ==
  /\ PipeStopLast(g) /\ LineStopLast(g) /\ HandStopLast(t, g) /\ HaltTrue(t, g)
  /\ StopComing(t, g) \/ StaysHalted(t) => Standing(t, g)

FirstTrue(t) ==
  spawned <= 1 =>
    /\ spawned = 0 \/ Fresh(t) => events = <<>>
    /\ \A g \in Procs : g = spawned => StopTrue(t, g)

\* A process that has had something to do is the first.
LEMMA FirstProcess ==
  ASSUME CliInv, NEW t \in Tasks, HasNewest(t), spawned <= 1, NEW g \in Procs, ~Untouched(g)
  PROVE  g = spawned
<1>1. spawned \in 0..MaxProcs /\ MaxProcs \in Nat
  BY BoundsAssumption DEF CliInv, IInv, TypeOK, AdapterTypeOK
<1>2. ~(g > spawned) /\ g \in 1..MaxProcs
  BY DEF HasNewest, Procs
<1>3. QED
  BY <1>1, <1>2

LEMMA PipeMovesRead ==
  ASSUME TypeOK, NEW g \in Procs, Read(g)
  PROVE  /\ PipeStill(g) => PipeStill(g)' /\ Head(outq[g]).body \notin Moves
         /\ PipeStopLast(g) => PipeStopLast(g)'
         /\ PipeStopLast(g) /\ Head(outq[g]).body = "stopped" =>
              Head(outq[g]).stamp = Stamp(g) /\ PipeStill(g)'
         /\ PipeTellsStop(g)' \/ Head(outq[g]).body = "stopped" => PipeTellsStop(g)
<1>1. /\ 1 \in DOMAIN outq[g] /\ Head(outq[g]) = outq[g][1]
      /\ \A i, w : Told(g, i, w)' => i \in Nat \ {0} /\ Told(g, i + 1, w) /\ outq'[g][i] = outq[g][i + 1]
      /\ \A j, w : Told(g, j, w) => j \in Nat \ {0}
      /\ \A w : Told(g, 1, w) <=> Head(outq[g]).body = w
  BY WordsRead DEF Told
<1>2. stops' = stops
  BY DEF Read
<1>3. PipeStill(g) => PipeStill(g)' /\ Head(outq[g]).body \notin Moves
  <2>1. ASSUME PipeStill(g), NEW i, NEW w \in Moves PROVE ~Told(g, i, w)'
    <3>1. ~Told(g, i + 1, w)
      BY <2>1 DEF PipeStill
    <3>2. QED
      BY <1>1, <3>1
  <2>2. ASSUME PipeStill(g), Head(outq[g]).body \in Moves PROVE FALSE
    <3>1. Told(g, 1, Head(outq[g]).body)
      BY <1>1
    <3>2. QED
      BY <2>2, <3>1 DEF PipeStill
  <2>3. QED
    BY <2>1, <2>2 DEF PipeStill
<1>4. ASSUME PipeStopLast(g) PROVE PipeStopLast(g)'
  <2>1. ASSUME NEW i, Told(g, i, "stopped")'
        PROVE  outq'[g][i].stamp = Stamp(g)' /\ \A j : \A w \in Moves : Told(g, j, w)' => j <= i
    <3>1. i \in Nat /\ Told(g, i + 1, "stopped") /\ outq'[g][i] = outq[g][i + 1]
      BY <1>1, <2>1
    <3>2. outq[g][i + 1].stamp = Stamp(g) /\ \A j : \A w \in Moves : Told(g, j, w) => j <= i + 1
      BY <1>4, <3>1 DEF PipeStopLast
    <3>3. ASSUME NEW j, NEW w \in Moves, Told(g, j, w)' PROVE j <= i
      <4>1. j \in Nat /\ j + 1 <= i + 1
        BY <1>1, <3>2, <3>3
      <4>2. QED
        BY <3>1, <4>1
    <3>4. QED
      BY <1>2, <3>1, <3>2, <3>3 DEF Stamp
  <2>2. QED
    BY <2>1 DEF PipeStopLast
<1>5. ASSUME PipeStopLast(g), Head(outq[g]).body = "stopped"
      PROVE  Head(outq[g]).stamp = Stamp(g) /\ PipeStill(g)'
  <2>1. Told(g, 1, "stopped")
    BY <1>1, <1>5
  <2>2. outq[g][1].stamp = Stamp(g) /\ \A j : \A w \in Moves : Told(g, j, w) => j <= 1
    BY <1>5, <2>1 DEF PipeStopLast
  <2>3. ASSUME NEW i, NEW w \in Moves, Told(g, i, w)' PROVE FALSE
    <3>1. i \in Nat \ {0} /\ i + 1 <= 1
      BY <1>1, <2>2, <2>3
    <3>2. QED
      BY <3>1
  <2>4. QED
    BY <1>1, <2>2, <2>3 DEF PipeStill
<1>6. PipeTellsStop(g)' \/ Head(outq[g]).body = "stopped" => PipeTellsStop(g)
  BY <1>1 DEF PipeTellsStop
<1>7. QED
  BY <1>3, <1>4, <1>5, <1>6

\* A move that is read is the last one in the channel.
LEMMA LineMovesRead ==
  ASSUME TypeOK, NEW g \in Procs, Read(g)
  PROVE  /\ LineStill /\ Head(outq[g]).body \notin Moves => LineStill'
         /\ LineStopLast(g) /\ PipeStopLast(g) => LineStopLast(g)'
         /\ LineTellsStop' => LineTellsStop \/ Head(outq[g]).body = "stopped"
<1>1. PICK m \in Messages : m = Head(outq[g])
  BY WordsRead
<1>2. /\ PipeStill(g) => PipeStill(g)' /\ m.body \notin Moves
      /\ PipeStopLast(g) /\ m.body = "stopped" => m.stamp = Stamp(g) /\ PipeStill(g)'
      /\ Stamp(g)' = Stamp(g)
  BY <1>1, PipeMovesRead DEF Read, Stamp
<1>3. CASE m.body \notin Events
  <2>1. events' = events /\ m.body \notin Moves
    BY <1>1, <1>3 DEF Read, Events, Moves
  <2>2. (LineStill' <=> LineStill) /\ (LineTellsStop' <=> LineTellsStop)
    BY <2>1 DEF LineStill, LineTellsStop, Announced
  <2>3. LineStopLast(g) => LineStopLast(g)'
    BY <1>2, <2>1 DEF LineStopLast, Announced
  <2>4. QED
    BY <2>2, <2>3
<1>4. CASE m.body \in Events
  <2>1. m.body \notin {"ok", "failed"}
    BY <1>4 DEF Events
  <2>2. PICK e \in [name : Events, stamp : Stamps] : e = [name |-> m.body, stamp |-> m.stamp]
    BY <1>4 DEF Messages
  <2>3. events' = Append(events, e) /\ events \in Seq([name : Events, stamp : Stamps])
    BY <1>1, <2>1, <2>2 DEF Read, TypeOK, ClientTypeOK
  <2>4. PICK n \in Nat : n = Len(events) + 1
    BY <2>3, LenProperties
  <2>5. /\ DOMAIN events' = DOMAIN events \cup {n}
        /\ \A i \in DOMAIN events : events'[i] = events[i] /\ i <= n
        /\ events'[n] = e
    <3>1. /\ DOMAIN events' = DOMAIN events \cup {Len(events) + 1}
          /\ \A i \in DOMAIN events : events'[i] = events[i]
          /\ events'[Len(events) + 1] = e
      BY <2>3, AppendElements
    <3>2. \A i \in DOMAIN events : i <= n
      BY <2>3, <2>4, LenProperties
    <3>3. QED
      BY <2>4, <3>1, <3>2
  <2>6. /\ \A i, w : Announced(i, w) => i <= n /\ events'[i] = events[i]
        /\ \A i, w : Announced(i, w)' => Announced(i, w) \/ (i = n /\ w = m.body)
        /\ events'[n].stamp = m.stamp
    BY <2>2, <2>5 DEF Announced
  <2>7. LineStill /\ m.body \notin Moves => LineStill'
    BY <2>6 DEF LineStill
  <2>8. ASSUME LineStopLast(g), PipeStopLast(g) PROVE LineStopLast(g)'
    <3>1. ASSUME NEW i, Announced(i, "stopped")'
          PROVE  /\ events'[i].stamp = Stamp(g)' /\ PipeStill(g)'
                 /\ \A j : \A w \in Moves : Announced(j, w)' => j <= i
      <4>1. CASE Announced(i, "stopped")
        <5>1. /\ events[i].stamp = Stamp(g) /\ PipeStill(g)
              /\ \A j : \A w \in Moves : Announced(j, w) => j <= i
          BY <2>8, <4>1 DEF LineStopLast
        <5>2. PipeStill(g)' /\ m.body \notin Moves
          BY <1>2, <5>1
        <5>3. QED
          BY <1>2, <2>6, <4>1, <5>1, <5>2
      <4>2. CASE i = n /\ m.body = "stopped"
        <5>1. m.stamp = Stamp(g) /\ PipeStill(g)'
          BY <1>2, <2>8, <4>2
        <5>2. \A j, w : Announced(j, w)' => j <= n
          <6>1. n <= n
            BY <2>4
          <6>2. QED
            BY <2>6, <6>1
        <5>3. QED
          BY <1>2, <2>6, <4>2, <5>1, <5>2
      <4>3. QED
        BY <2>6, <3>1, <4>1, <4>2
    <3>2. QED
      BY <3>1 DEF LineStopLast
  <2>9. LineTellsStop' => LineTellsStop \/ m.body = "stopped"
    BY <2>6 DEF LineTellsStop
  <2>10. QED
    BY <1>1, <2>7, <2>8, <2>9
<1>5. QED
  BY <1>1, <1>3, <1>4

\* A move that is taken was the oldest word in the channel.
LEMMA LineMovesTaken ==
  ASSUME TypeOK, NEW t \in Tasks, NEW g \in Procs, TakeEvent(t)
  PROVE  /\ LineStill => LineStill' /\ op'[t] \notin Moves
         /\ LineStopLast(g) => LineStopLast(g)'
         /\ LineStopLast(g) /\ op'[t] = "stopped" => arg'[t] = Stamp(g) /\ PipeStill(g) /\ LineStill'
         /\ LineTellsStop' \/ op'[t] = "stopped" => LineTellsStop
<1>1. /\ events \in Seq([name : Events, stamp : Stamps]) /\ events # <<>> /\ events' = Tail(events)
      /\ UNCHANGED <<outq, stops>>
  BY DEF TakeEvent, TypeOK, ClientTypeOK, adapter
<1>2. /\ \A i \in DOMAIN Tail(events) : i \in Nat /\ i + 1 \in DOMAIN events /\ Tail(events)[i] = events[i + 1]
      /\ 1 \in DOMAIN events /\ Head(events) = events[1]
  BY <1>1, TailElements
<1>3. \A j \in DOMAIN events : j \in Nat
  BY <1>1, LenProperties
<1>4. op'[t] = events[1].name /\ arg'[t] = events[1].stamp
  BY <1>2 DEF TakeEvent, TypeOK, TaskTypeOK
<1>5. /\ \A i, w : Announced(i, w)' => i \in Nat \ {0} /\ Announced(i + 1, w) /\ events'[i] = events[i + 1]
      /\ \A j, w : Announced(j, w) => j \in Nat
      /\ Announced(1, op'[t])
  <2>1. \A j \in DOMAIN Tail(events) : j \in Nat \ {0}
    BY <1>1, HeadTailProperties, LenProperties
  <2>2. QED
    BY <1>1, <1>2, <1>3, <1>4, <2>1 DEF Announced
<1>6. LineStill => LineStill' /\ op'[t] \notin Moves
  BY <1>5 DEF LineStill
<1>7. (PipeStill(g)' <=> PipeStill(g)) /\ Stamp(g)' = Stamp(g)
  BY <1>1 DEF PipeStill, Told, Stamp
<1>8. ASSUME LineStopLast(g) PROVE LineStopLast(g)'
  <2>1. ASSUME NEW i, Announced(i, "stopped")'
        PROVE  events'[i].stamp = Stamp(g) /\ PipeStill(g) /\ \A j : \A w \in Moves : Announced(j, w)' => j <= i
    <3>1. i \in Nat /\ Announced(i + 1, "stopped") /\ events'[i] = events[i + 1]
      BY <1>5, <2>1
    <3>2. /\ events[i + 1].stamp = Stamp(g) /\ PipeStill(g)
          /\ \A j : \A w \in Moves : Announced(j, w) => j <= i + 1
      BY <1>8, <3>1 DEF LineStopLast
    <3>3. ASSUME NEW j, NEW w \in Moves, Announced(j, w)' PROVE j <= i
      <4>1. j \in Nat /\ j + 1 <= i + 1
        BY <1>5, <3>2, <3>3
      <4>2. QED
        BY <3>1, <4>1
    <3>4. QED
      BY <3>1, <3>2, <3>3
  <2>2. QED
    BY <1>7, <2>1 DEF LineStopLast
<1>9. ASSUME LineStopLast(g), op'[t] = "stopped"
      PROVE  arg'[t] = Stamp(g) /\ PipeStill(g) /\ LineStill'
  <2>1. Announced(1, "stopped")
    BY <1>5, <1>9
  <2>2. /\ events[1].stamp = Stamp(g) /\ PipeStill(g)
        /\ \A j : \A w \in Moves : Announced(j, w) => j <= 1
    BY <1>9, <2>1 DEF LineStopLast
  <2>3. ASSUME NEW i, NEW w \in Moves, Announced(i, w)' PROVE FALSE
    <3>1. i \in Nat \ {0} /\ i + 1 <= 1
      BY <1>5, <2>2, <2>3
    <3>2. QED
      BY <3>1
  <2>4. QED
    BY <1>4, <2>2, <2>3 DEF LineStill
<1>10. LineTellsStop' \/ op'[t] = "stopped" => LineTellsStop
  BY <1>5 DEF LineTellsStop
<1>11. QED
  BY <1>6, <1>8, <1>9, <1>10

\* A process that nobody has asked anything has stopped nowhere, and has told nothing.
LEMMA NothingSaidYet ==
  ASSUME NEW t \in Tasks, NEW g \in Procs,
         Untouched(g)', events' = <<>>, op'[t] = "start", state' # "Halted"
  PROVE  StopTrue(t, g)'
<1>1. \A i, w : ~Told(g, i, w)' /\ ~Announced(i, w)'
  BY DEF Untouched, Told, Announced
<1>2. ~StaysHalted(t)' /\ ~StopComing(t, g)'
  BY <1>1 DEF StaysHalted, StopComing, PipeTellsStop, LineTellsStop
<1>3. PipeStopLast(g)' /\ LineStopLast(g)' /\ HandStopLast(t, g)'
  BY <1>1 DEF PipeStopLast, LineStopLast, HandStopLast
<1>4. QED
  BY <1>2, <1>3 DEF StopTrue, HaltTrue

\* A step that is seen in the pipes and in the channel in no way.
LEMMA StopMoves ==
  ASSUME NEW t \in Tasks, NEW g \in Procs, StopTrue(t, g),
         UNCHANGED <<outq, events, debuggee, stops, op>>, pc[t] # "idle",
         Ending(t) => Ending(t)',
         op[t] = "stopped" /\ pc'[t] # "idle" => arg'[t] = arg[t],
         op[t] = "stopped" /\ pc'[t] = "transition" => halt' = arg[t],
         \/ ~StaysHalted(t)'
         \/ StaysHalted(t) /\ (op[t] \notin Moves => halt' = halt)
         \/ op[t] = "stopped" /\ pc[t] = "transition" /\ pc'[t] = "idle" /\ halt' = halt
  PROVE  StopTrue(t, g)'
<1>1. /\ \A i, w : Told(g, i, w)' <=> Told(g, i, w)
      /\ \A i, w : Announced(i, w)' <=> Announced(i, w)
      /\ Stamp(g)' = Stamp(g)
  BY DEF Told, Announced, Stamp
<1>2. (PipeStill(g)' <=> PipeStill(g)) /\ (LineStill' <=> LineStill)
  BY <1>1 DEF PipeStill, LineStill
<1>3. PipeStopLast(g)' /\ LineStopLast(g)'
  BY <1>1, <1>2 DEF StopTrue, PipeStopLast, LineStopLast
<1>4. HandStopLast(t, g)'
  BY <1>1, <1>2 DEF StopTrue, HandStopLast
<1>5. StopComing(t, g)' => StopComing(t, g)
  BY <1>1 DEF StopComing, PipeTellsStop, LineTellsStop
<1>6. StaysHalted(t) => op[t] \notin Moves /\ halt = Stamp(g) /\ PipeStill(g) /\ LineStill
  BY DEF StopTrue, HaltTrue, HandStill
<1>7. op[t] = "stopped" /\ pc[t] = "transition" =>
        halt = Stamp(g) /\ PipeStill(g) /\ LineStill /\ StopComing(t, g)
  BY DEF StopTrue, HandStopLast, StopComing
<1>8. HaltTrue(t, g)'
  BY <1>1, <1>2, <1>6, <1>7 DEF HaltTrue, HandStill
<1>9. StaysHalted(t)' => StaysHalted(t) \/ StopComing(t, g)
  BY <1>7
<1>10. StopComing(t, g)' \/ StaysHalted(t)' => Standing(t, g)'
  BY <1>5, <1>9 DEF StopTrue, Standing
<1>11. QED
  BY <1>3, <1>4, <1>8, <1>10 DEF StopTrue

\* A session that is over, or is being ended, stays so until a start.
LEMMA EndingStays ==
  ASSUME CliInv, NEW t \in Tasks, Step(t), ~(transition_to(t) /\ op[t] = "start"), Ending(t)
  PROVE  Ending(t)'
<1>1. Alone(t) /\ state \in SessionStates /\ pc[t] # "idle" /\ op' = op /\ pc'[t] # "gate"
  BY StepGoesOn DEF CliInv, IInv, TypeOK, SessionTypeOK
<1>2. CASE state = "Disconnected"
  <2>1. CASE transition_to(t)
    <3>1. op[t] \in Events \cup {"initialize", "configuration_done", "shutdown"} \cup Resuming
      BY <1>1, <2>1 DEF Alone, Staged, transition_to
    <3>2. ~can_transition_to("Disconnected", Target(op[t])) \/ Target(op[t]) = "Disconnected"
      BY <2>1, <3>1, TargetPlaces DEF can_transition_to
    <3>3. QED
      BY <1>2, <2>1, <3>2 DEF transition_to, Ending
  <2>2. CASE ~transition_to(t)
    <3>1. state' = state
      BY <2>2 DEF Step, Gate, IsRunning, SpawnFails, Spawn, SetStdin, SetChild, SetKind, Send, Receive,
         SetHalt, ClearHalt, Recheck, Kill, ClearBreakpoints, UpdateBreakpoints, CacheVariables, session
    <3>2. QED
      BY <1>2, <3>1 DEF Ending
  <2>3. QED
    BY <2>1, <2>2
<1>3. CASE op[t] \in Closing /\ pc[t] # "gate" /\ state # "Disconnected"
  <2>1. pc[t] \in {"send", "wait", "recheck", "transition", "kill", "clear_bps"}
    BY <1>1, <1>3, ToolsAreNotEvents
    DEF Alone, Staged, CliInv, IInv, TypeOK, TaskTypeOK, Labels, Closing, Resuming, Breakpoints
  <2>2. Target(op[t]) = "Disconnected" /\ AfterReply(op[t]) = "kill" /\ AfterFailure(op[t]) = "kill"
    BY <1>3 DEF Target, AfterReply, AfterFailure, Closing, Resuming, Breakpoints
  <2>3. CASE pc[t] = "transition"
    <3>1. can_transition_to(state, "Disconnected")
      BY <1>1, <1>3 DEF can_transition_to, SessionStates
    <3>2. state' = "Disconnected"
      BY <2>2, <2>3, <3>1, StepAt DEF transition_to
    <3>3. QED
      BY <3>2 DEF Ending
  <2>4. CASE pc[t] \in {"send", "wait"}
    <3>1. Send(t) \/ Receive(t)
      BY <2>4, StepAt
    <3>2. pc'[t] \in {"wait", "kill"}
      BY <2>2, <3>1 DEF Send, Receive, Goto, CliInv, IInv, TypeOK, TaskTypeOK
    <3>3. QED
      BY <1>1, <1>3, <3>2 DEF Ending
  <2>5. CASE pc[t] \in {"recheck", "kill"}
    <3>1. pc'[t] \in {"transition", "recheck"}
      BY <1>3, <2>2, <2>5, StepAt DEF Recheck, Kill, Goto, CliInv, IInv, TypeOK, TaskTypeOK
    <3>2. QED
      BY <1>1, <1>3, <3>1 DEF Ending
  <2>6. CASE pc[t] = "clear_bps"
    BY <1>1, <1>3, <2>6 DEF Alone, CacheGone
  <2>7. QED
    BY <2>1, <2>3, <2>4, <2>5, <2>6
<1>4. QED
  BY <1>1, <1>2, <1>3 DEF Ending

\* The session becomes Halted with the stop's event only, and that event sets halt_state
\* before it does.
LEMMA StopStep ==
  ASSUME CliInv, PendingInv, NEW t \in Tasks, Step(t), ~(transition_to(t) /\ op[t] = "start"),
         ~Spawn(t), ~SetStdin(t), ~SetChild(t), ~SetKind(t), NEW g \in Procs, StopTrue(t, g)
  PROVE  StopTrue(t, g)'
<1>1. Alone(t) /\ pc[t] # "idle"
  BY StepGoesOn DEF CliInv, IInv
<1>2. UNCHANGED <<events, outq, debuggee, op>>
  BY OtherSteps
<1>3. UNCHANGED stops
  BY DEF Step, Gate, IsRunning, SpawnFails, Send, Receive, SetHalt, ClearHalt, Recheck, transition_to,
         Kill, ClearBreakpoints, UpdateBreakpoints, CacheVariables, adapter
<1>4. halt' = halt \/ SetHalt(t) \/ ClearHalt(t)
  BY DEF Step, Gate, IsRunning, SpawnFails, Send, Receive, Recheck, transition_to,
         Kill, ClearBreakpoints, UpdateBreakpoints, CacheVariables, session
<1>5. SetHalt(t) => op[t] = "stopped"
  BY <1>1 DEF SetHalt, Alone, Staged
<1>6. ClearHalt(t) => op[t] \in Resuming \cup {"continued"}
  BY <1>1 DEF ClearHalt, Alone, Staged
<1>7. ASSUME op[t] = "stopped"
      PROVE  \/ pc[t] = "set_halt" /\ pc'[t] = "transition" /\ halt' = arg[t] /\ arg'[t] = arg[t]
             \/ pc[t] = "transition" /\ pc'[t] = "idle" /\ halt' = halt
  <2>1. op[t] \notin Tools /\ op[t] \notin Closing \cup Resuming \cup Breakpoints
    BY <1>7, ToolsAreNotEvents DEF Events, Closing, Resuming, Breakpoints
  <2>2. pc[t] \in {"set_halt", "transition"}
    BY <1>1, <1>7, <2>1 DEF Alone, Staged, CliInv, IInv, TypeOK, TaskTypeOK, Labels
  <2>3. SetHalt(t) \/ transition_to(t)
    BY <2>2 DEF Step, Gate, IsRunning, SpawnFails, Spawn, SetStdin, SetChild, SetKind, Send, Receive,
       ClearHalt, Recheck, Kill, ClearBreakpoints, UpdateBreakpoints, CacheVariables
  <2>4. QED
    BY <2>1, <2>3 DEF SetHalt, transition_to, Goto, CliInv, IInv, TypeOK, TaskTypeOK
<1>8. Ending(t) => Ending(t)'
  BY EndingStays
<1>9. \/ ~StaysHalted(t)'
      \/ StaysHalted(t) /\ (op[t] \notin Moves => halt' = halt)
      \/ op[t] = "stopped" /\ pc[t] = "transition" /\ pc'[t] = "idle" /\ halt' = halt
  <2>1. CASE transition_to(t) /\ op[t] = "stopped"
    BY <1>7, <2>1 DEF transition_to
  <2>2. CASE StaysHalted(t) /\ ~(ClearHalt(t) /\ op[t] \in Resuming)
    BY <1>4, <1>5, <1>6, <2>2 DEF Moves
  <2>3. QED
    BY <2>1, <2>2, HaltedStays
<1>10. QED
  BY <1>1, <1>2, <1>3, <1>7, <1>8, <1>9, StopMoves

\* A start that has got the first process.
LEMMA StartFirst ==
  ASSUME CliInv, NEW t \in Tasks, HasNewest(t), FirstTrue(t), spawned' <= 1,
         \/ Spawn(t) \/ SetStdin(t) \/ SetChild(t) \/ SetKind(t)
         \/ transition_to(t) /\ op[t] = "start"
  PROVE  /\ events' = <<>> /\ state' # "Halted" /\ op'[t] = "start"
         /\ \A g \in Procs : g = spawned' => Untouched(g)'
<1>1. Alone(t) /\ spawned \in Nat
  BY BoundsAssumption DEF CliInv, IInv, TypeOK, AdapterTypeOK
<1>2. op[t] = "start" /\ op'[t] = "start" /\ state = "Disconnected" /\ events' = events
  <2>1. pc[t] \in {"spawn", "set_stdin", "set_child", "set_kind", "transition"} /\ UNCHANGED <<op, events>>
    BY DEF Spawn, SetStdin, SetChild, SetKind, transition_to, client
  <2>2. op[t] = "start"
    <3>1. pc[t] \in {"spawn", "set_stdin", "set_child", "set_kind"} => op[t] = "start"
      BY <1>1 DEF Alone, Staged
    <3>2. CASE transition_to(t) /\ op[t] = "start"
      BY <3>2
    <3>3. CASE Spawn(t) \/ SetStdin(t) \/ SetChild(t) \/ SetKind(t)
      BY <3>1, <3>3 DEF Spawn, SetStdin, SetChild, SetKind
    <3>4. QED
      BY <3>2, <3>3
  <2>3. QED
    BY <2>1, <2>2, StartIsDisconnected
<1>3. CASE Spawn(t)
  <2>1. spawned' = spawned + 1 /\ UNCHANGED state /\ pc'[t] = "set_stdin"
    BY <1>3 DEF Spawn, session, Goto, CliInv, IInv, TypeOK, TaskTypeOK
  <2>2. spawned <= 1 /\ spawned = 0
    BY <1>1, <2>1
  <2>3. events = <<>>
    BY <1>2, <2>2 DEF FirstTrue
  <2>4. Fresh(t)' /\ HasNewest(t)'
    BY <1>2, <1>3, <2>1, StartNewest DEF Fresh, Holding
  <2>5. QED
    BY <1>2, <2>1, <2>3, <2>4 DEF HasNewest
<1>4. CASE SetStdin(t) \/ SetChild(t) \/ SetKind(t) \/ (transition_to(t) /\ op[t] = "start")
  <2>1. /\ pc[t] \in Holding \cup {"transition"}
        /\ UNCHANGED <<spawned, inq, outq, debuggee>>
    BY <1>4 DEF SetStdin, SetChild, SetKind, transition_to, adapter, Holding
  <2>2. Fresh(t)
    BY <1>2, <2>1 DEF Fresh
  <2>3. events = <<>>
    BY <1>2, <2>1, <2>2 DEF FirstTrue
  <2>4. state' # "Halted"
    <3>1. CASE SetStdin(t) \/ SetChild(t) \/ SetKind(t)
      BY <1>2, <3>1 DEF SetStdin, SetChild, SetKind, session
    <3>2. CASE transition_to(t)
      <4>1. Target(op[t]) = "Connected"
        BY <1>2 DEF Target, Resuming, Closing
      <4>2. QED
        BY <1>2, <3>2, <4>1 DEF transition_to
    <3>3. QED
      BY <1>4, <3>1, <3>2
  <2>5. \A g \in Procs : g = spawned => Untouched(g)
    BY <2>2 DEF HasNewest
  <2>6. QED
    BY <1>2, <2>1, <2>3, <2>4, <2>5 DEF Untouched
<1>5. QED
  BY <1>3, <1>4

LEMMA StepFirst ==
  ASSUME CliInv, PendingInv, NEW t \in Tasks, HasNewest(t), FirstTrue(t), Step(t)
  PROVE  FirstTrue(t)'
<1> SUFFICES ASSUME spawned' <= 1 PROVE FirstTrue(t)'
  BY DEF FirstTrue
<1>1. CASE \/ Spawn(t) \/ SetStdin(t) \/ SetChild(t) \/ SetKind(t)
           \/ transition_to(t) /\ op[t] = "start"
  <2>1. /\ events' = <<>> /\ state' # "Halted" /\ op'[t] = "start"
        /\ \A g \in Procs : g = spawned' => Untouched(g)'
    BY <1>1, StartFirst
  <2>2. \A g \in Procs : g = spawned' => StopTrue(t, g)'
    BY <2>1, NothingSaidYet
  <2>3. QED
    BY <2>1, <2>2 DEF FirstTrue
<1>2. CASE ~ \/ Spawn(t) \/ SetStdin(t) \/ SetChild(t) \/ SetKind(t)
             \/ transition_to(t) /\ op[t] = "start"
  <2>1. UNCHANGED <<events, spawned, op>> /\ (Fresh(t)' => Fresh(t))
    BY <1>2, OtherSteps, FreshKept
  <2>2. spawned <= 1
    BY <2>1
  <2>3. spawned = 0 \/ Fresh(t) => events = <<>>
    BY <2>2 DEF FirstTrue
  <2>4. ASSUME NEW g \in Procs, g = spawned PROVE StopTrue(t, g)'
    <3>1. StopTrue(t, g)
      BY <2>2, <2>4 DEF FirstTrue
    <3>2. QED
      BY <1>2, <3>1, StopStep
  <2>5. QED
    BY <2>1, <2>3, <2>4 DEF FirstTrue
<1>3. QED
  BY <1>1, <1>2

LEMMA BeginFirst ==
  ASSUME CliInv, PendingInv, NEW t \in Tasks, FirstTrue(t), Call(t) \/ Issue(t) \/ TakeEvent(t)
  PROVE  FirstTrue(t)'
<1> SUFFICES ASSUME spawned' <= 1 PROVE FirstTrue(t)'
  BY DEF FirstTrue
<1>1. /\ pc[t] = "idle" /\ pc'[t] \in {"gate", "recheck", "set_halt", "clear_halt", "send"}
      /\ op'[t] \in Tools \cup Events
      /\ pc'[t] = "gate" => op'[t] \in Tools
      /\ pc'[t] # "gate" => op'[t] \in Events
      /\ UNCHANGED <<state, halt, spawned, outq, debuggee, stops, answer>>
  BY BeginPlaces DEF session, adapter
<1>2. ~Fresh(t)' /\ (events = <<>> => events' = <<>>)
  <2>1. ~Fresh(t)'
    BY <1>1 DEF Fresh, Holding
  <2>2. CASE Call(t) \/ Issue(t)
    BY <2>1, <2>2 DEF Call, Issue, client
  <2>3. CASE TakeEvent(t)
    BY <2>1, <2>3 DEF TakeEvent
  <2>4. QED
    BY <2>2, <2>3
<1>3. /\ answer[t] = NoAnswer /\ ~Granted(t)
      /\ \A g \in Procs : \A i : ~Said(g, i, t)
  BY <1>1, NothingUnderWay DEF Granted
<1>4. StaysHalted(t)' => StaysHalted(t)
  BY <1>1, <1>3 DEF StaysHalted
<1>5. ASSUME NEW g \in Procs, g = spawned
      PROVE  StopTrue(t, g)'
  <2>1. StopTrue(t, g)
    BY <1>1, <1>5 DEF FirstTrue
  <2>2. /\ \A i, w : Told(g, i, w)' <=> Told(g, i, w)
        /\ Stamp(g)' = Stamp(g)
    BY <1>1 DEF Told, Stamp
  <2>3. PipeStill(g)' <=> PipeStill(g)
    BY <2>2 DEF PipeStill
  <2>4. PipeStopLast(g)'
    BY <1>1, <2>1, <2>2 DEF StopTrue, PipeStopLast
  <2>5. StaysHalted(t) => halt = Stamp(g) /\ PipeStill(g) /\ LineStill
    BY <2>1 DEF StopTrue, HaltTrue
  <2>6. Standing(t, g) => Standing(t, g)'
    BY <1>1 DEF Standing, Ending
  <2>7. CASE Call(t) \/ Issue(t)
    <3>1. UNCHANGED events /\ op'[t] \in Tools
      BY <1>1, <2>7 DEF Call, Issue, client, Goto, CliInv, IInv, TypeOK, TaskTypeOK
    <3>2. op'[t] \notin Moves
      BY <3>1, ToolsAreNotEvents DEF Moves, Events
    <3>3. \A i, w : Announced(i, w)' <=> Announced(i, w)
      BY <3>1 DEF Announced
    <3>4. (LineStill' <=> LineStill) /\ (StopComing(t, g)' => StopComing(t, g))
      BY <2>2, <3>2, <3>3 DEF LineStill, StopComing, PipeTellsStop, LineTellsStop, Moves
    <3>5. LineStopLast(g)'
      BY <2>1, <2>2, <2>3, <3>1, <3>3 DEF StopTrue, LineStopLast
    <3>6. HandStopLast(t, g)' /\ HandStill(t)'
      BY <3>2 DEF HandStopLast, HandStill, Moves
    <3>7. HaltTrue(t, g)'
      BY <1>1, <1>4, <2>2, <2>3, <2>5, <3>4, <3>6 DEF HaltTrue
    <3>8. StopComing(t, g)' \/ StaysHalted(t)' => Standing(t, g)'
      BY <1>4, <2>1, <2>6, <3>4 DEF StopTrue
    <3>9. QED
      BY <2>4, <3>5, <3>6, <3>7, <3>8 DEF StopTrue
  <2>8. CASE TakeEvent(t)
    <3>1. /\ LineStill => LineStill' /\ op'[t] \notin Moves
          /\ LineStopLast(g)'
          /\ op'[t] = "stopped" => arg'[t] = Stamp(g) /\ PipeStill(g) /\ LineStill'
          /\ LineTellsStop' \/ op'[t] = "stopped" => LineTellsStop
      BY <2>1, <2>8, LineMovesTaken DEF StopTrue, CliInv, IInv
    <3>2. StopComing(t, g)' => StopComing(t, g)
      BY <2>2, <3>1 DEF StopComing, PipeTellsStop
    <3>3. HandStopLast(t, g)'
      BY <1>1, <2>2, <2>3, <3>1 DEF HandStopLast
    <3>4. HaltTrue(t, g)'
      BY <1>1, <1>4, <2>2, <2>3, <2>5, <3>1 DEF HaltTrue, HandStill
    <3>5. StopComing(t, g)' \/ StaysHalted(t)' => Standing(t, g)'
      BY <1>4, <2>1, <2>6, <3>2 DEF StopTrue
    <3>6. QED
      BY <2>4, <3>1, <3>3, <3>4, <3>5 DEF StopTrue
  <2>9. QED
    BY <2>7, <2>8
<1>6. QED
  BY <1>1, <1>2, <1>5 DEF FirstTrue

LEMMA ReadFirst ==
  ASSUME CliInv, PendingInv, NEW t \in Tasks, HasNewest(t), FirstTrue(t), NEW g \in Procs, Read(g)
  PROVE  FirstTrue(t)'
<1> SUFFICES ASSUME spawned' <= 1 PROVE FirstTrue(t)'
  BY DEF FirstTrue
<1>1. TypeOK /\ UNCHANGED <<state, halt, spawned, debuggee, stops, op, pc, arg>>
  BY DEF CliInv, IInv, Read, session
<1>2. ~Untouched(g)
  BY DEF Read, Untouched
<1>3. g = spawned
  BY <1>1, <1>2, FirstProcess
<1>4. spawned # 0 /\ ~Fresh(t)'
  <2>1. spawned # 0
    BY <1>3, BoundsAssumption DEF Procs
  <2>2. ~Fresh(t)
    BY <1>2, <1>3 DEF HasNewest
  <2>3. QED
    BY <1>1, <2>1, <2>2 DEF Fresh
<1>5. StopTrue(t, g)
  BY <1>1, <1>3 DEF FirstTrue
<1>6. (StaysHalted(t)' <=> StaysHalted(t)) /\ (Standing(t, g)' <=> Standing(t, g)) /\ Stamp(g)' = Stamp(g)
  <2>1. Granted(t)' <=> Granted(t)
    BY <1>1, AssentRead
  <2>2. QED
    BY <1>1, <2>1 DEF StaysHalted, Standing, Ending, Stamp
<1>7. /\ PipeStill(g) => PipeStill(g)' /\ Head(outq[g]).body \notin Moves
      /\ PipeStopLast(g)'
      /\ PipeTellsStop(g)' \/ Head(outq[g]).body = "stopped" => PipeTellsStop(g)
  BY <1>1, <1>5, PipeMovesRead DEF StopTrue
<1>8. /\ LineStill /\ Head(outq[g]).body \notin Moves => LineStill'
      /\ LineStopLast(g)'
      /\ LineTellsStop' => LineTellsStop \/ Head(outq[g]).body = "stopped"
  BY <1>1, <1>5, LineMovesRead DEF StopTrue
<1>9. StopTrue(t, g)'
  <2>1. StopComing(t, g)' => StopComing(t, g)
    BY <1>1, <1>7, <1>8 DEF StopComing
  <2>2. HandStopLast(t, g)'
    BY <1>1, <1>5, <1>6, <1>7, <1>8 DEF StopTrue, HandStopLast
  <2>3. HaltTrue(t, g)'
    BY <1>1, <1>5, <1>6, <1>7, <1>8 DEF StopTrue, HaltTrue, HandStill
  <2>4. QED
    BY <1>5, <1>6, <1>7, <1>8, <2>1, <2>2, <2>3 DEF StopTrue
<1>10. QED
  BY <1>1, <1>3, <1>4, <1>9 DEF FirstTrue

\* What is written that is no move leaves the moves as they are.
LEMMA MovesWritten ==
  ASSUME NEW g \in Procs, NEW more, NEW n, Written(g, more, n), UNCHANGED stops,
         \A k \in DOMAIN more : more[k].body # "stopped"
  PROVE  /\ PipeTellsStop(g)' => PipeTellsStop(g)
         /\ (\A k \in DOMAIN more : more[k].body \notin Moves) =>
              /\ PipeStill(g) => PipeStill(g)'
              /\ PipeStopLast(g) => PipeStopLast(g)'
<1>1. /\ \A i : Told(g, i, "stopped")' => Told(g, i, "stopped") /\ outq'[g][i] = outq[g][i]
      /\ Stamp(g)' = Stamp(g)
  BY DEF Written, Told, Stamp
<1>2. (\A k \in DOMAIN more : more[k].body \notin Moves) =>
        \A i : \A w \in Moves : Told(g, i, w)' => Told(g, i, w)
  BY DEF Written, Told
<1>3. PipeTellsStop(g)' => PipeTellsStop(g)
  BY <1>1 DEF PipeTellsStop
<1>4. ASSUME \A k \in DOMAIN more : more[k].body \notin Moves, PipeStopLast(g) PROVE PipeStopLast(g)'
  BY <1>1, <1>2, <1>4 DEF PipeStopLast
<1>5. QED
  BY <1>2, <1>3, <1>4 DEF PipeStill

\* The stop that is reported is the one the program is at, and the last word of its pipe.
LEMMA StopToldLast ==
  ASSUME TypeOK, NEW g \in Procs, Stop(g), ~PipeTellsStop(g)
  PROVE  PipeStopLast(g)'
<1>1. "stopped" \in Events /\ <<"stopped">> \in Seq(Events) /\ DOMAIN <<"stopped">> = {1}
  BY DEF Events
<1>2. stops[g] + 1 \in 0..MaxStops /\ stops'[g] = stops[g] + 1
  BY BoundsAssumption DEF Stop, TypeOK, AdapterTypeOK
<1>3. PICK more \in Seq(Messages) : more = Announce(g, <<"stopped">>, stops[g] + 1)
  BY <1>1, <1>2, AnnounceType, BoundsAssumption
<1>4. DOMAIN more = {1} /\ more[1].body = "stopped" /\ more[1].stamp = <<g, stops[g] + 1>>
  BY <1>1, <1>3 DEF Announce
<1>5. PICK n : Written(g, more, n)
  BY <1>3, WordsWritten DEF Stop
<1>6. n \in Nat /\ \A i, w : Told(g, i, w)' => Told(g, i, w) \/ (i = n + 1 /\ outq'[g][i] = more[1])
  <2>1. n \in Nat
    BY <1>5 DEF Written
  <2>2. ASSUME NEW i, NEW w, Told(g, i, w)', ~Told(g, i, w) PROVE i = n + 1 /\ outq'[g][i] = more[1]
    <3>1. i \in Nat /\ i - n \in DOMAIN more /\ outq'[g][i] = more[i - n]
      BY <1>5, <2>2 DEF Written, Told
    <3>2. i - n = 1
      BY <1>4, <3>1
    <3>3. QED
      BY <2>1, <3>1, <3>2
  <2>3. QED
    BY <2>1, <2>2
<1>7. \A i, w : Told(g, i, w)' => i <= n + 1
  <2>1. \A i, w : Told(g, i, w) => i \in Nat /\ i <= n
    BY <1>5 DEF Written, Told
  <2>2. \A i \in Nat : i <= n => i <= n + 1
    BY <1>6
  <2>3. n + 1 <= n + 1
    BY <1>6
  <2>4. QED
    BY <1>6, <2>1, <2>2, <2>3
<1>8. ASSUME NEW i, Told(g, i, "stopped")'
      PROVE  outq'[g][i].stamp = <<g, stops'[g]>> /\ \A j : \A w \in Moves : Told(g, j, w)' => j <= i
  <2>1. i = n + 1 /\ outq'[g][i] = more[1]
    BY <1>6, <1>8 DEF PipeTellsStop
  <2>2. QED
    BY <1>2, <1>4, <1>7, <2>1
<1>9. QED
  BY <1>8 DEF PipeStopLast, Stamp

\* A program that runs stops, or ends: the session has no stop of it in hand.
LEMMA ProgramFirst ==
  ASSUME CliInv, PendingInv, NEW t \in Tasks, HasNewest(t), FirstTrue(t), NEW g \in Procs, Stop(g) \/ Exit(g)
  PROVE  FirstTrue(t)'
<1> SUFFICES ASSUME spawned' <= 1 PROVE FirstTrue(t)'
  BY DEF FirstTrue
<1>1. TypeOK /\ Alone(t) /\ g \in alive
  BY DEF CliInv, IInv, Stop, Exit
<1>2. g = spawned /\ debuggee[g] = "running"
  BY <1>1, OnlyNewestRuns DEF Stop, Exit
<1>3. /\ UNCHANGED <<state, halt, spawned, events, op, pc, answer, arg>>
      /\ debuggee'[g] \in {"stopped", "exited"} /\ (debuggee'[g] = "stopped" <=> Stop(g))
  BY <1>1 DEF Stop, Exit, session, client, tasks, TypeOK, AdapterTypeOK
<1>4. spawned # 0 /\ ~Fresh(t)'
  <2>1. spawned # 0
    BY <1>2, BoundsAssumption DEF Procs
  <2>2. ~Fresh(t)
    BY <1>2 DEF HasNewest, Untouched
  <2>3. QED
    BY <1>3, <2>1, <2>2 DEF Fresh
<1>5. StopTrue(t, g)
  BY <1>2, <1>3 DEF FirstTrue
<1>6. ~StopComing(t, g) /\ ~StaysHalted(t)
  BY <1>2, <1>5 DEF StopTrue, Standing
<1>7. PICK names \in Seq(Events), k \in 0..MaxStops :
        outq' = [outq EXCEPT ![g] = @ \o Announce(g, names, k)]
  BY <1>1, StopsAnnounce
<1>8. ~StaysHalted(t)'
  <2>1. PICK more \in Seq(Messages) : more = Announce(g, names, k)
    BY <1>7, AnnounceType, BoundsAssumption
  <2>2. Granted(t) => Granted(t)'
    BY <1>1, <1>3, <1>7, <2>1, GrantStays
  <2>3. QED
    BY <1>3, <1>6, <2>2 DEF StaysHalted
<1>9. PipeStopLast(g)' /\ (StopComing(t, g)' => debuggee'[g] = "stopped")
  <2>1. ~PipeTellsStop(g) /\ ~LineTellsStop /\ ~(op[t] = "stopped" /\ pc[t] # "idle")
    BY <1>6 DEF StopComing
  <2>2. CASE Stop(g)
    BY <1>1, <1>3, <2>1, <2>2, StopToldLast
  <2>3. CASE Exit(g)
    <3>1. <<"exited", "terminated">> \in Seq(Events) /\ stops[g] \in 0..MaxStops
      BY <1>1 DEF Events, TypeOK, AdapterTypeOK
    <3>2. PICK more \in Seq(Messages) : more = Announce(g, <<"exited", "terminated">>, stops[g])
      BY <3>1, AnnounceType, BoundsAssumption
    <3>3. \A l \in DOMAIN more : more[l].body \in {"exited", "terminated"}
      BY <3>2 DEF Announce
    <3>4. PICK n : Written(g, more, n)
      BY <1>1, <2>3, <3>2, WordsWritten DEF Exit
    <3>5. ~PipeTellsStop(g)'
      BY <2>1, <2>3, <3>3, <3>4, MovesWritten DEF Exit
    <3>6. ~LineTellsStop'
      BY <1>3, <2>1 DEF LineTellsStop, Announced
    <3>7. QED
      BY <1>3, <2>1, <3>5, <3>6 DEF StopComing, PipeStopLast, PipeTellsStop
  <2>4. QED
    BY <2>2, <2>3
<1>10. StopTrue(t, g)'
  <2>1. LineStopLast(g)'
    BY <1>3, <1>6 DEF LineStopLast, StopComing, LineTellsStop, Announced
  <2>2. HandStopLast(t, g)'
    BY <1>3, <1>6 DEF HandStopLast, StopComing
  <2>3. QED
    BY <1>8, <1>9, <2>1, <2>2 DEF StopTrue, HaltTrue, Standing
<1>11. QED
  BY <1>2, <1>3, <1>4, <1>10 DEF FirstTrue

\* A call that resumes, and is not yet answered, was made where no stop is on its way.
LEMMA ResumeAsked ==
  ASSUME CliInv, NEW t \in Tasks, NEW g \in Procs, StopTrue(t, g), pc[t] = "wait", op[t] \in Resuming, ~Assented(t)
  PROVE  StaysHalted(t) /\ ~StopComing(t, g) /\ debuggee[g] = "stopped"
<1>1. Alone(t) /\ op[t] \notin Closing
  BY DEF CliInv, Resuming, Closing
<1>2. op[t] \in Tools
  BY <1>1 DEF Alone, Staged
<1>3. is_allowed(op[t], state)
  BY <1>1, <1>2 DEF Alone, Admitted
<1>4. \A o \in Resuming : is_allowed(o, state) => state = "Halted"
  BY DEF is_allowed, allowed_states, Resuming, Breakpoints, Inspecting
<1>5. state = "Halted"
  BY <1>3, <1>4
<1>6. StaysHalted(t)
  BY <1>5 DEF StaysHalted, Granted
<1>7. ~StopComing(t, g)
  BY <1>6 DEF StopTrue, HaltTrue, StopComing, PipeTellsStop, LineTellsStop, PipeStill, LineStill,
              HandStill, Moves
<1>8. Standing(t, g) /\ ~Ending(t)
  BY <1>1, <1>5, <1>6 DEF StopTrue, Ending
<1>9. QED
  BY <1>6, <1>7, <1>8 DEF Standing

LEMMA ServeFirst ==
  ASSUME CliInv, PendingInv, NEW t \in Tasks, HasNewest(t), Heard(t), FirstTrue(t), NEW g \in Procs, Serve(g)
  PROVE  FirstTrue(t)'
<1> SUFFICES ASSUME spawned' <= 1 PROVE FirstTrue(t)'
  BY DEF FirstTrue
<1>1. TypeOK /\ g \in alive /\ debuggee[g] \in ProgramStates
  BY DEF CliInv, IInv, Serve, TypeOK, AdapterTypeOK, ProgramStates
<1>2. g = spawned
  BY <1>1, OnlyNewestRuns
<1>3. UNCHANGED <<state, halt, spawned, stops, events, op, pc, answer, arg>>
  BY DEF Serve, session, client, tasks
<1>4. spawned # 0 /\ ~Fresh(t)'
  <2>1. spawned # 0
    BY <1>2, BoundsAssumption DEF Procs
  <2>2. ~Fresh(t)
    BY <1>2 DEF HasNewest, Untouched, Serve
  <2>3. QED
    BY <1>3, <2>1, <2>2 DEF Fresh
<1>5. StopTrue(t, g)
  BY <1>2, <1>3 DEF FirstTrue
<1>6. PICK r \in Requests : \E x \in Reactions(g, r.command, debuggee[g]) :
        \E more \in Seq(Messages) : Replied(g, r, x, more)
  BY <1>1, ServeReplies
<1>7. PICK x \in Reactions(g, r.command, debuggee[g]), more \in Seq(Messages) : Replied(g, r, x, more)
  BY <1>6
<1>8. /\ \A k \in DOMAIN x.announced : x.announced[k] = "continued" => r.command \in Resuming
      /\ \A k \in DOMAIN x.announced : x.announced[k] # "stopped"
      /\ \A k \in DOMAIN x.announced : x.announced[k] = "continued" => x.next = "running"
      /\ r.command \in Resuming /\ debuggee[g] = "stopped" /\ x.result # "ok" => x.next = "stopped"
      /\ debuggee[g] = "stopped" /\ r.command \notin Resuming =>
           x.next = "stopped" \/ (r.command = "disconnect" /\ x.next = "exited")
      /\ debuggee[g] = "exited" => x.next = "exited"
  BY <1>1, ReactionsTrue, ReactionsStop
<1>9. /\ 1 \in DOMAIN inq[g] /\ r = inq[g][1]
      /\ outq' = [outq EXCEPT ![g] = @ \o more]
      /\ debuggee' = [debuggee EXCEPT ![g] = x.next]
  BY <1>7 DEF Replied
<1>10. /\ 1 \in DOMAIN more /\ more[1].task = r.task /\ more[1].body = x.result
       /\ more[1].stamp = Stamp(g) /\ x.result \in {"ok", "failed"}
       /\ \A k \in DOMAIN more : k \in Nat /\ (k # 1 =>
            more[k].task = Nobody /\ \E l \in DOMAIN x.announced : more[k].body = x.announced[l])
  BY <1>7 DEF Replied, Stamp
<1>11. /\ r.task # t => r.command \in {"launch", "configuration_done"}
       /\ r.task = t => /\ Waits(t)
                        /\ r.command = "disconnect" => op[t] \in Closing
                        /\ r.command # "disconnect" => r.command = op[t] /\ op[t] \notin Closing
  BY <1>9, CallersRequest
<1>12. PICK n : Written(g, more, n)
  BY <1>1, <1>9, WordsWritten
<1>13. \A k \in DOMAIN more :
          /\ more[k].body # "stopped"
          /\ more[k].body \in Moves => r.command \in Resuming /\ x.next = "running"
  BY <1>8, <1>10 DEF Moves
<1>14. Stamp(g)' = Stamp(g) /\ debuggee'[g] = x.next /\ (Granted(t) => Granted(t)')
  BY <1>1, <1>3, <1>9, GrantStays DEF Stamp, TypeOK, AdapterTypeOK
<1>15. StaysHalted(t)' => StaysHalted(t)
  BY <1>3, <1>14 DEF StaysHalted
<1>16. r.command \in Resuming =>
          r.task = t /\ Waits(t) /\ op[t] \in Resuming /\ ~StopComing(t, g) /\ debuggee[g] = "stopped"
  <2> SUFFICES ASSUME r.command \in Resuming
               PROVE  /\ r.task = t /\ Waits(t) /\ op[t] \in Resuming
                      /\ ~StopComing(t, g) /\ debuggee[g] = "stopped"
    OBVIOUS
  <2>1. r.task = t /\ op[t] = r.command /\ Waits(t)
    BY <1>11 DEF Resuming
  <2>2. ~Assented(t)
    <3>1. Asked(g, 1, t)
      BY <1>9, <2>1 DEF Asked
    <3>2. \A h \in Procs : \A i : ~Said(h, i, t)
      BY <3>1 DEF PendingInv, Routed, OneAtMost
    <3>3. QED
      BY <2>1, <3>2 DEF Assented, Waits, NoAnswer
  <2>3. pc[t] = "wait" /\ op[t] \in Resuming
    BY <2>1 DEF Waits
  <2>4. ~StopComing(t, g) /\ debuggee[g] = "stopped"
    BY <1>5, <2>2, <2>3, ResumeAsked
  <2>5. QED
    BY <2>1, <2>3, <2>4
<1> DEFINE Resumed == r.command \in Resuming /\ x.result = "ok"
<1>17. ~Resumed => \A k \in DOMAIN more : more[k].body \notin Moves
  BY <1>8, <1>13, <1>16
<1>18. /\ PipeTellsStop(g)' => PipeTellsStop(g)
       /\ ~Resumed => (PipeStill(g) => PipeStill(g)') /\ (PipeStopLast(g) => PipeStopLast(g)')
  <2> HIDE DEF Resumed
  <2>1. QED
    BY <1>3, <1>12, <1>13, <1>17, MovesWritten
<1>19. StopComing(t, g)' => StopComing(t, g)
  BY <1>3, <1>18 DEF StopComing, LineTellsStop, Announced
<1>20. (LineStill' <=> LineStill) /\ (HandStill(t)' <=> HandStill(t))
  BY <1>3 DEF LineStill, HandStill, Announced
<1>21. CASE Resumed
  <2>1. r.task = t /\ Waits(t) /\ pc[t] = "wait" /\ op[t] \in Resuming
    BY <1>16, <1>21 DEF Waits
  <2>2. ~StaysHalted(t)'
    <3>1. n + 1 \in DOMAIN outq'[g] /\ outq'[g][n + 1] = more[1]
      BY <1>10, <1>12 DEF Written
    <3>2. Said(g, n + 1, t)' /\ Told(g, n + 1, "ok")'
      BY <1>10, <1>21, <2>1, <3>1 DEF Said, Told
    <3>3. Assented(t)'
      BY <3>2 DEF Assented
    <3>4. QED
      BY <1>3, <2>1, <3>3 DEF StaysHalted, Granted
  <2>3. ~StopComing(t, g)'
    BY <1>16, <1>19, <1>21
  <2>4. PipeStopLast(g)' /\ LineStopLast(g)' /\ HandStopLast(t, g)'
    BY <2>3 DEF StopComing, PipeTellsStop, LineTellsStop, PipeStopLast, LineStopLast, HandStopLast
  <2>5. StopTrue(t, g)'
    BY <2>2, <2>3, <2>4 DEF StopTrue, HaltTrue
  <2>6. QED
    BY <1>2, <1>3, <1>4, <2>5 DEF FirstTrue
<1>22. CASE ~Resumed
  <2>1. (PipeStill(g) => PipeStill(g)') /\ PipeStopLast(g)'
    BY <1>5, <1>18, <1>22 DEF StopTrue
  <2>2. LineStopLast(g)'
    BY <1>3, <1>5, <1>14, <2>1 DEF StopTrue, LineStopLast, Announced
  <2>3. HandStopLast(t, g)'
    BY <1>3, <1>5, <1>14, <1>20, <2>1 DEF StopTrue, HandStopLast
  <2>4. HaltTrue(t, g)'
    BY <1>3, <1>5, <1>14, <1>15, <1>20, <2>1 DEF StopTrue, HaltTrue
  <2>5. Standing(t, g) => Standing(t, g)'
    <3>1. r.command = "disconnect" => Ending(t)
      <4>1. r.command = "disconnect" => Waits(t) /\ op[t] \in Closing
        BY <1>11
      <4>2. QED
        BY <4>1 DEF Waits, Ending
    <3>2. Ending(t)' <=> Ending(t)
      BY <1>3 DEF Ending
    <3>3. QED
      BY <1>8, <1>14, <1>22, <3>1, <3>2 DEF Standing
  <2>6. StopTrue(t, g)'
    BY <1>5, <1>15, <1>19, <2>1, <2>2, <2>3, <2>4, <2>5 DEF StopTrue
  <2>7. QED
    BY <1>2, <1>3, <1>4, <2>6 DEF FirstTrue
<1>23. QED
  BY <1>21, <1>22

FirstInv == \A t \in Tasks : FirstTrue(t)

LEMMA InitFirst == CliInit => FirstInv
<1> SUFFICES ASSUME CliInit, NEW t \in Tasks PROVE FirstTrue(t)
  BY DEF FirstInv
<1>1. spawned = 0 /\ events = <<>>
  BY DEF CliInit, Init
<1>2. \A g \in Procs : g # spawned
  BY <1>1, BoundsAssumption DEF Procs
<1>3. QED
  BY <1>1, <1>2 DEF FirstTrue

LEMMA NextFirst == CliInv /\ HearsAll /\ FirstInv /\ [CliNext]_cliVars => FirstInv'
<1> SUFFICES ASSUME CliInv, HearsAll, FirstInv, [CliNext]_cliVars, NEW t \in Tasks
             PROVE  FirstTrue(t)'
  BY DEF FirstInv
<1>1. PendingInv /\ HasNewest(t) /\ Heard(t) /\ FirstTrue(t)
  BY DEF HearsAll, StopsTrue, FirstInv
<1>2. ASSUME NEW u \in Tasks, Issue(u) \/ FreeCall(u) \/ Take(u) \/ CliStep(u)
      PROVE  FirstTrue(t)'
  <2>1. u = t
    BY OneOnly
  <2>2. CASE Issue(t) \/ Call(t) \/ TakeEvent(t)
    BY <1>1, <2>2, BeginFirst
  <2>3. CASE Step(t)
    BY <1>1, <2>3, StepFirst
  <2>4. QED
    BY <1>2, <2>1, <2>2, <2>3 DEF FreeCall, Take, CliStep
<1>3. CASE Environment
  BY <1>1, <1>3, ReadFirst, ServeFirst, ProgramFirst DEF Environment
<1>4. CASE UNCHANGED cliVars
  <2>1. UNCHANGED <<spawned, state, halt, events, op, pc, answer, arg, outq, inq, debuggee, stops>>
    BY <1>4 DEF cliVars, vars, session, client, tasks, adapter
  <2>2. /\ Granted(t)' <=> Granted(t)
        /\ \A g, i, w : Told(g, i, w)' <=> Told(g, i, w)
        /\ \A i, w : Announced(i, w)' <=> Announced(i, w)
        /\ \A g, i : Said(g, i, t)' <=> Said(g, i, t)
        /\ \A g : Stamp(g)' = Stamp(g)
    BY <2>1 DEF Granted, Assented, Told, Announced, Said, Stamp
  <2>3. /\ \A g : (PipeStill(g)' <=> PipeStill(g)) /\ (PipeTellsStop(g)' <=> PipeTellsStop(g))
        /\ (LineStill' <=> LineStill) /\ (LineTellsStop' <=> LineTellsStop)
        /\ (StaysHalted(t)' <=> StaysHalted(t)) /\ (HandStill(t)' <=> HandStill(t))
    BY <2>1, <2>2 DEF PipeStill, PipeTellsStop, LineStill, LineTellsStop, StaysHalted, HandStill
  <2>4. ASSUME NEW g \in Procs, StopTrue(t, g)
        PROVE  StopTrue(t, g)'
    <3>1. PipeStopLast(g)' /\ LineStopLast(g)'
      BY <2>1, <2>2, <2>3, <2>4 DEF StopTrue, PipeStopLast, LineStopLast
    <3>2. HandStopLast(t, g)' /\ HaltTrue(t, g)'
      BY <2>1, <2>2, <2>3, <2>4 DEF StopTrue, HandStopLast, HaltTrue
    <3>3. StopComing(t, g)' \/ StaysHalted(t)' => Standing(t, g)'
      BY <2>1, <2>3, <2>4 DEF StopTrue, StopComing, Standing, Ending
    <3>4. QED
      BY <3>1, <3>2, <3>3 DEF StopTrue
  <2>5. QED
    BY <1>1, <2>1, <2>4 DEF FirstTrue, Fresh
<1>5. QED
  BY <1>2, <1>3, <1>4 DEF CliNext

\* As long as the session has had one adapter at most, Halted means that the program does
\* stand at a stop, and halt_state describes that one and no earlier stop.
THEOREM FirstStopIsTheStop == CliSpec => [](spawned <= 1 => HaltedMeansStopped /\ HaltStateDescribesStop)
<1>1. CliInv /\ HearsAll /\ FirstInv /\ spawned <= 1 =>
        HaltedMeansStopped /\ HaltStateDescribesStop
  <2> SUFFICES ASSUME CliInv, HearsAll, FirstInv, spawned <= 1,
                      Quiescent, state = "Halted", child \in alive
               PROVE  debuggee[child] = "stopped" /\ halt = <<child, stops[child]>>
    BY DEF HaltedMeansStopped, HaltStateDescribesStop
  <2>1. PICK t \in Tasks : pc[t] = "idle"
    BY OneTask DEF Quiescent, Tasks
  <2>2. HasNewest(t)
    BY DEF HearsAll, StopsTrue
  <2>3. child = spawned /\ child \in Procs
    BY <2>2, OnlyNewestRuns
  <2>4. StopTrue(t, child)
    BY <2>3 DEF FirstInv, FirstTrue
  <2>5. StaysHalted(t) /\ ~Ending(t)
    BY <2>1 DEF StaysHalted, Granted, Ending
  <2>6. QED
    BY <2>4, <2>5 DEF StopTrue, HaltTrue, Standing, Stamp
<1>2. QED
  BY <1>1, InitHears, NextHears, InitFirst, NextFirst, CliInvariance, PTL DEF CliSpec

=============================================================================
