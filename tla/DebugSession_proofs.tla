------------------------ MODULE DebugSession_proofs ------------------------
(***************************************************************************)
(* Theorems about DebugSession: the two tables of its state machine; type  *)
(* correctness; that no interleaving of starts, shutdowns, events, dropped *)
(* calls and crashes leaves an adapter process running that the client     *)
(* does not own; that an adapter answers every request once, to the call   *)
(* that made it; and, for one caller beside an event loop and the first    *)
(* adapter, what the session at rest knows of the process, of the stop     *)
(* and of the variables' handles.                                          *)
(***************************************************************************)
EXTENDS DebugSession, SequenceFacts, TLAPS

-----------------------------------------------------------------------------
(* The state machine's tables.                                            *)

\* state.rs writes the transition relation twice, as can_transition_to and as
\* valid_predecessors (which error messages show): the two tables agree.
THEOREM PredecessorsAreConverse ==
  ASSUME NEW from \in SessionStates, NEW target \in SessionStates
  PROVE  can_transition_to(from, target) <=> from \in valid_predecessors(target)
BY DEF SessionStates, can_transition_to, valid_predecessors

\* gating.rs leaves no state without a way out: from Disconnected one may start, from
\* every other state one may shut down, and that transition is legal.
THEOREM NoStateIsADeadEnd ==
  ASSUME NEW s \in SessionStates
  PROVE  \/ "start" \in operations_for_state(s) /\ can_transition_to(s, "Connected")
         \/ "shutdown" \in operations_for_state(s) /\ can_transition_to(s, "Disconnected")
<1>1. /\ allowed_states("start") = {"Disconnected"}
      /\ allowed_states("shutdown") = SessionStates \ {"Disconnected"}
  BY DEF allowed_states, Resuming, Breakpoints, Inspecting
<1>2. {"start", "shutdown"} \subseteq Operations
  BY DEF Operations
<1>3. QED
  BY <1>1, <1>2 DEF SessionStates, can_transition_to, operations_for_state, is_allowed

-----------------------------------------------------------------------------
(* Types.                                                                  *)

ProgramStates == {"none", "launched", "running", "stopped", "exited"}

\* What an adapter's reaction consists of.
LEMMA ReactionsType ==
  ASSUME NEW g, NEW command, NEW d \in ProgramStates, NEW x \in Reactions(g, command, d)
  PROVE  /\ x.result \in {"ok", "failed"}
         /\ x.announced \in Seq(Events)
         /\ x.next \in ProgramStates
<1>1. /\ x.result \in {"ok", "failed"}
      /\ x.next \in ProgramStates
      /\ x.announced \in {<<>>, <<"initialized">>, <<"continued">>, <<"terminated">>}
  BY DEF Reactions, Acceptances, Accept, ProgramStates, Resuming, Breakpoints, Inspecting
<1>2. {<<>>, <<"initialized">>, <<"continued">>, <<"terminated">>} \subseteq Seq(Events)
  <2>1. \A e \in Events : <<e>> \in Seq(Events)
    OBVIOUS
  <2>2. QED
    BY <2>1 DEF Events
<1>3. QED
  BY <1>1, <1>2

\* The labels at which a task holds the process it spawned.
Holding == {"set_stdin", "set_child", "set_kind"}

\* Every label the control-flow tables yield is a label, and only Spawn leads to one
\* at which a process is held.
LEMMA LabelsType ==
  ASSUME NEW o
  PROVE  {AfterGate(o), AfterReply(o), AfterFailure(o)} \subseteq Labels \ Holding
BY DEF AfterGate, AfterReply, AfterFailure, Labels, Holding, Closing, Resuming, Breakpoints

LEMMA FirstStepType ==
  ASSUME NEW e \in Events
  PROVE  FirstStep(e) \in Labels \ Holding
BY DEF FirstStep, Labels, Holding, Closing, Events

\* A task between spawn and the end of DebugSession::start holds the process it spawned.
StartsHoldProcess ==
  \A t \in Tasks :
    pc[t] \in Holding => arg[t][1] \in 1..spawned

IInv == TypeOK /\ StartsHoldProcess /\ AdapterOwned

LEMMA InitInv == Init => IInv
<1> SUFFICES ASSUME Init PROVE IInv
  OBVIOUS
<1> USE BoundsAssumption
<1>1. TypeOK
  BY DEF Init, TypeOK, SessionTypeOK, ClientTypeOK, TaskTypeOK, AdapterTypeOK, SessionStates, Stamps, NoStamp, Answers, NoAnswer, Labels, Procs
<1>2. StartsHoldProcess /\ AdapterOwned
  BY DEF Init, StartsHoldProcess, AdapterOwned, Holding
<1>3. QED
  BY <1>1, <1>2 DEF IInv

-----------------------------------------------------------------------------
(* Steps that leave the client and the adapters alone.                     *)

\* A task that holds no process and moves on to a step at which it still holds none
\* preserves the invariant, whatever it writes to the session.
LEMMA QuietInv ==
  ASSUME IInv, NEW t \in Tasks, NEW l \in Labels \ Holding,
         pc[t] \notin {"set_stdin", "set_child"}, pc' = [pc EXCEPT ![t] = l],
         SessionTypeOK', UNCHANGED <<client, adapter, op, answer, arg, calls>>
  PROVE  IInv'
<1> USE DEF client, adapter, IInv, TypeOK
<1>1. ClientTypeOK' /\ TaskTypeOK' /\ AdapterTypeOK'
  BY DEF ClientTypeOK, TaskTypeOK, AdapterTypeOK
<1>2. StartsHoldProcess'
  BY DEF StartsHoldProcess, TaskTypeOK
<1>3. AdapterOwned'
  <2>1. \A u \in Tasks : pc[u] \in {"set_stdin", "set_child"} => pc'[u] = pc[u]
    BY DEF TaskTypeOK
  <2>2. QED
    BY <2>1 DEF AdapterOwned
<1>4. QED
  BY <1>1, <1>2, <1>3

\* The steps of a call that only read.
LEMMA ReadingInv ==
  ASSUME IInv, NEW t \in Tasks, Gate(t) \/ IsRunning(t) \/ SpawnFails(t) \/ Recheck(t)
  PROVE  IInv'
<1>1. PICK l \in Labels \ Holding : pc' = [pc EXCEPT ![t] = l]
  BY LabelsType DEF Gate, IsRunning, SpawnFails, Recheck, Goto, Labels, Holding
<1>2. SessionTypeOK'
  BY DEF Gate, IsRunning, SpawnFails, Recheck, session, IInv, TypeOK, SessionTypeOK
<1>3. UNCHANGED <<client, adapter, op, answer, arg, calls>> /\ pc[t] \notin {"set_stdin", "set_child"}
  BY DEF Gate, IsRunning, SpawnFails, Recheck
<1>4. QED
  BY <1>1, <1>2, <1>3, QuietInv

LEMMA HaltInv ==
  ASSUME IInv, NEW t \in Tasks, SetHalt(t) \/ ClearHalt(t)
  PROVE  IInv'
<1>1. PICK l \in Labels \ Holding : pc' = [pc EXCEPT ![t] = l]
  BY DEF SetHalt, ClearHalt, Goto, Labels, Holding
<1>2. SessionTypeOK'
  BY BoundsAssumption
  DEF SetHalt, ClearHalt, IInv, TypeOK, SessionTypeOK, TaskTypeOK, NoStamp, Stamps
<1>3. UNCHANGED <<client, adapter, op, answer, arg, calls>> /\ pc[t] \notin {"set_stdin", "set_child"}
  BY DEF SetHalt, ClearHalt
<1>4. QED
  BY <1>1, <1>2, <1>3, QuietInv

LEMMA TransitionInv ==
  ASSUME IInv, NEW t \in Tasks, transition_to(t)
  PROVE  IInv'
<1>1. PICK l \in Labels \ Holding : pc' = [pc EXCEPT ![t] = l]
  BY DEF transition_to, Goto, Labels, Holding
<1>2. SessionTypeOK'
  BY DEF transition_to, IInv, TypeOK, SessionTypeOK, can_transition_to, SessionStates
<1>3. UNCHANGED <<client, adapter, op, answer, arg, calls>> /\ pc[t] \notin {"set_stdin", "set_child"}
  BY DEF transition_to
<1>4. QED
  BY <1>1, <1>2, <1>3, QuietInv

LEMMA CachingInv ==
  ASSUME IInv, NEW t \in Tasks,
         ClearBreakpoints(t) \/ UpdateBreakpoints(t) \/ CacheVariables(t)
  PROVE  IInv'
<1> USE DEF ClearBreakpoints, UpdateBreakpoints, CacheVariables
<1>1. PICK l \in Labels \ Holding : pc' = [pc EXCEPT ![t] = l]
  BY DEF Goto, Labels, Holding
<1>2. arg[t] \in Stamps /\ arg[t][1] \in 0..MaxProcs
  BY DEF IInv, TypeOK, TaskTypeOK, Stamps
<1>3. SessionTypeOK'
  <2>1. bpCache' \in [Breakpoints -> 0..MaxProcs]
    BY <1>2, BoundsAssumption DEF IInv, TypeOK, SessionTypeOK
  <2>2. QED
    BY <1>2, <2>1 DEF IInv, TypeOK, SessionTypeOK
<1>4. UNCHANGED <<client, adapter, op, answer, arg, calls>> /\ pc[t] \notin {"set_stdin", "set_child"}
  OBVIOUS
<1>5. QED
  BY <1>1, <1>3, <1>4, QuietInv

LEMMA CallInv ==
  ASSUME IInv, NEW t \in Tasks, Call(t)
  PROVE  IInv'
<1> USE DEF Call, Goto, session, client, adapter, IInv, TypeOK
<1>1. TaskTypeOK'
  BY BoundsAssumption DEF TaskTypeOK, Labels
<1>2. SessionTypeOK' /\ ClientTypeOK' /\ AdapterTypeOK'
  BY DEF SessionTypeOK, ClientTypeOK, AdapterTypeOK
<1>3. StartsHoldProcess'
  BY DEF StartsHoldProcess, TaskTypeOK, Holding
<1>4. AdapterOwned'
  <2>1. \A u \in Tasks : pc[u] \in {"set_stdin", "set_child"} => pc'[u] = pc[u]
    BY DEF TaskTypeOK
  <2>2. QED
    BY <2>1 DEF AdapterOwned
<1>5. QED
  BY <1>1, <1>2, <1>3, <1>4

-----------------------------------------------------------------------------
(* Steps on the child.                                                     *)

LEMMA SetStdinInv ==
  ASSUME IInv, NEW t \in Tasks, SetStdin(t)
  PROVE  IInv'
<1> USE DEF SetStdin, Goto, session, adapter, IInv, TypeOK
<1>1. ClientTypeOK'
  BY DEF ClientTypeOK, TaskTypeOK, Stamps
<1>2. SessionTypeOK' /\ TaskTypeOK' /\ AdapterTypeOK'
  BY DEF SessionTypeOK, TaskTypeOK, AdapterTypeOK, Labels
<1>3. StartsHoldProcess' /\ AdapterOwned'
  BY DEF StartsHoldProcess, AdapterOwned, TaskTypeOK, Holding
<1>4. QED
  BY <1>1, <1>2, <1>3

\* The process given up is the one killed, the other one becomes the child.
LEMMA SetChildInv ==
  ASSUME IInv, NEW t \in Tasks, SetChild(t)
  PROVE  IInv'
<1> USE DEF SetChild, Goto, session, IInv, TypeOK
<1>1. ClientTypeOK' /\ AdapterTypeOK'
  BY DEF ClientTypeOK, TaskTypeOK, AdapterTypeOK, Stamps
<1>2. SessionTypeOK' /\ TaskTypeOK'
  BY DEF SessionTypeOK, TaskTypeOK, Labels
<1>3. StartsHoldProcess' /\ AdapterOwned'
  BY DEF StartsHoldProcess, AdapterOwned, TaskTypeOK, Holding
<1>4. QED
  BY <1>1, <1>2, <1>3

LEMMA KillInv ==
  ASSUME IInv, NEW t \in Tasks, Kill(t)
  PROVE  IInv'
<1> USE DEF Kill, Goto, session, IInv, TypeOK
<1>1. ClientTypeOK' /\ AdapterTypeOK'
  BY BoundsAssumption DEF ClientTypeOK, AdapterTypeOK
<1>2. SessionTypeOK' /\ TaskTypeOK'
  BY DEF SessionTypeOK, TaskTypeOK, Labels
<1>3. StartsHoldProcess' /\ AdapterOwned'
  BY DEF StartsHoldProcess, AdapterOwned, TaskTypeOK, Holding
<1>4. QED
  BY <1>1, <1>2, <1>3

LEMMA CrashInv ==
  ASSUME IInv, NEW g \in Procs, Crash(g)
  PROVE  IInv'
<1> USE DEF Crash, session, client, tasks, IInv, TypeOK
<1>1. SessionTypeOK' /\ ClientTypeOK' /\ TaskTypeOK' /\ AdapterTypeOK'
  BY DEF SessionTypeOK, ClientTypeOK, TaskTypeOK, AdapterTypeOK
<1>2. StartsHoldProcess' /\ AdapterOwned'
  BY DEF StartsHoldProcess, AdapterOwned
<1>3. QED
  BY <1>1, <1>2

LEMMA SpawnAdapterType ==
  ASSUME IInv, NEW t \in Tasks, Spawn(t)
  PROVE  AdapterTypeOK'
<1> USE DEF Spawn, IInv, TypeOK
<1>1. PICK k \in Kinds : procKind' = [procKind EXCEPT ![spawned + 1] = k]
  OBVIOUS
<1>2. k \in {"None", "Codelldb", "Gdb"}
  BY KindsAssumption
<1>3. spawned' \in 0..MaxProcs /\ alive' \subseteq 1..spawned'
  BY BoundsAssumption DEF AdapterTypeOK
<1>4. procKind' \in [Procs -> {"None", "Codelldb", "Gdb"}]
  BY <1>1, <1>2 DEF AdapterTypeOK
<1>5. QED
  BY <1>3, <1>4 DEF AdapterTypeOK

LEMMA SpawnInv ==
  ASSUME IInv, NEW t \in Tasks, Spawn(t)
  PROVE  IInv'
<1> USE BoundsAssumption, KindsAssumption
    DEF Spawn, Goto, session, client, IInv, TypeOK
<1>1. spawned + 1 \in 1..MaxProcs /\ <<spawned + 1, 0>> \in Stamps
  BY DEF AdapterTypeOK, Stamps
<1>2. TaskTypeOK'
  BY <1>1 DEF TaskTypeOK, Labels
<1>3. AdapterTypeOK'
  BY SpawnAdapterType
<1>4. SessionTypeOK' /\ ClientTypeOK'
  BY DEF SessionTypeOK, ClientTypeOK
<1>5. \A u \in Tasks : u # t => pc'[u] = pc[u] /\ arg'[u] = arg[u]
  BY DEF TaskTypeOK
<1>6. pc'[t] = "set_stdin" /\ arg'[t] = <<spawned + 1, 0>>
  BY <1>1 DEF TaskTypeOK
<1>7. StartsHoldProcess'
  BY <1>1, <1>5, <1>6 DEF StartsHoldProcess, AdapterTypeOK
<1>8. AdapterOwned'
  <2> SUFFICES ASSUME NEW g \in alive'
               PROVE  \/ g = child
                      \/ \E u \in Tasks : pc'[u] \in {"set_stdin", "set_child"} /\ arg'[u][1] = g
    BY DEF AdapterOwned
  <2>1. CASE g = spawned + 1
    BY <1>6, <2>1
  <2>2. CASE g \in alive
    BY <1>5, <2>2 DEF AdapterOwned
  <2>3. QED
    BY <2>1, <2>2
<1>9. QED
  BY <1>2, <1>3, <1>4, <1>7, <1>8

LEMMA SetKindInv ==
  ASSUME IInv, NEW t \in Tasks, SetKind(t)
  PROVE  IInv'
<1> USE DEF SetKind, Goto, client, adapter, IInv, TypeOK
<1>1. arg[t][1] \in Procs
  BY BoundsAssumption DEF StartsHoldProcess, Holding, AdapterTypeOK, Procs
<1>2. TypeOK'
  BY <1>1 DEF SessionTypeOK, ClientTypeOK, TaskTypeOK, AdapterTypeOK, Labels
<1>3. StartsHoldProcess' /\ AdapterOwned'
  BY DEF StartsHoldProcess, AdapterOwned, TaskTypeOK, Holding
<1>4. QED
  BY <1>2, <1>3

-----------------------------------------------------------------------------
(* Steps on requests, responses and events.                                *)

LEMMA SendAdapterType ==
  ASSUME IInv, NEW t \in Tasks, Send(t)
  PROVE  AdapterTypeOK'
<1> DEFINE r == [task |-> IF Blocking(op[t]) THEN t ELSE Nobody, command |-> Command(op[t])]
<1> USE DEF IInv, TypeOK
<1>1. r \in Requests
  BY DEF Requests, Command, TaskTypeOK
<1> HIDE DEF r
<1>2. CASE stdin \in alive
  <2>1. stdin \in Procs /\ inq[stdin] \in Seq(Requests)
    BY <1>2, BoundsAssumption DEF AdapterTypeOK, Procs
  <2>2. Append(inq[stdin], r) \in Seq(Requests)
    BY <1>1, <2>1, AppendProperties
  <2>3. inq' = [inq EXCEPT ![stdin] = Append(inq[stdin], r)]
    BY <1>2 DEF Send, r
  <2>4. inq' \in [Procs -> Seq(Requests)]
    BY <2>1, <2>2, <2>3 DEF AdapterTypeOK
  <2>5. QED
    BY <2>4 DEF Send, AdapterTypeOK
<1>3. CASE stdin \notin alive
  BY <1>3 DEF Send, AdapterTypeOK
<1>4. QED
  BY <1>2, <1>3

LEMMA SendInv ==
  ASSUME IInv, NEW t \in Tasks, Send(t)
  PROVE  IInv'
<1> USE DEF Goto, session, client, IInv, TypeOK
<1>1. PICK l \in Labels \ Holding : pc' = [pc EXCEPT ![t] = l]
  BY LabelsType DEF Send, Labels, Holding
<1>2. AdapterTypeOK'
  BY SendAdapterType
<1>3. SessionTypeOK' /\ ClientTypeOK' /\ TaskTypeOK'
  BY <1>1 DEF Send, SessionTypeOK, ClientTypeOK, TaskTypeOK
<1>4. StartsHoldProcess' /\ AdapterOwned'
  BY <1>1 DEF Send, StartsHoldProcess, AdapterOwned, TaskTypeOK, Holding
<1>5. QED
  BY <1>2, <1>3, <1>4

LEMMA ReceiveInv ==
  ASSUME IInv, NEW t \in Tasks, Receive(t)
  PROVE  IInv'
<1> USE DEF Goto, session, client, adapter, IInv, TypeOK
<1>1. PICK l \in Labels \ Holding : pc' = [pc EXCEPT ![t] = l]
  BY LabelsType DEF Receive
<1>2. NoAnswer \in Answers /\ answer[t].stamp \in Stamps
  BY BoundsAssumption DEF NoAnswer, NoStamp, Answers, Stamps, TaskTypeOK
<1>3. TypeOK'
  BY <1>1, <1>2 DEF Receive, SessionTypeOK, ClientTypeOK, TaskTypeOK, AdapterTypeOK
<1>4. StartsHoldProcess' /\ AdapterOwned'
  BY <1>1 DEF Receive, StartsHoldProcess, AdapterOwned, TaskTypeOK, Holding
<1>5. QED
  BY <1>3, <1>4

LEMMA TakeEventInv ==
  ASSUME IInv, NEW t \in Tasks, TakeEvent(t)
  PROVE  IInv'
<1> DEFINE e == Head(events)
<1> USE DEF TakeEvent, Goto, session, adapter, IInv, TypeOK
<1>1. /\ e \in [name : Events, stamp : Stamps]
      /\ Tail(events) \in Seq([name : Events, stamp : Stamps])
  BY HeadTailProperties DEF ClientTypeOK
<1>2. FirstStep(e.name) \in Labels \ Holding
  BY <1>1, FirstStepType
<1> HIDE DEF e
<1>3. TypeOK'
  <2>1. SessionTypeOK' /\ AdapterTypeOK' 
    BY DEF SessionTypeOK, AdapterTypeOK
  <2>2. ClientTypeOK'
    BY <1>1 DEF ClientTypeOK
  <2>3. TaskTypeOK'
    BY <1>1, <1>2 DEF TaskTypeOK, e
  <2>4. QED
    BY <2>1, <2>2, <2>3
<1>4. StartsHoldProcess' /\ AdapterOwned'
  BY <1>2 DEF StartsHoldProcess, AdapterOwned, TaskTypeOK, Holding, e
<1>5. QED
  BY <1>3, <1>4

LEMMA ReadInv ==
  ASSUME IInv, NEW g \in Procs, Read(g)
  PROVE  IInv'
<1> DEFINE m == Head(outq[g])
<1> USE DEF session, IInv, TypeOK
<1>1. m \in Messages /\ Tail(outq[g]) \in Seq(Messages)
  BY HeadTailProperties DEF Read, AdapterTypeOK
<1>2. m.body \in Events \cup {"ok", "failed"} /\ m.stamp \in Stamps
  BY <1>1 DEF Messages
<1> HIDE DEF m
<1>3. ClientTypeOK'
  <2>1. CASE m.body \in Events /\ events' = Append(events, [name |-> m.body, stamp |-> m.stamp])
    <3>1. [name |-> m.body, stamp |-> m.stamp] \in [name : Events, stamp : Stamps]
      BY <1>2, <2>1
    <3>2. events' \in Seq([name : Events, stamp : Stamps])
      BY <2>1, <3>1, AppendProperties DEF ClientTypeOK
    <3>3. QED
      BY <3>2 DEF Read, ClientTypeOK
  <2>2. CASE UNCHANGED events
    BY <2>2 DEF Read, ClientTypeOK
  <2>3. QED
    BY <2>1, <2>2 DEF Read, m
<1>4. TaskTypeOK'
  <2>1. CASE UNCHANGED answer
    BY <2>1 DEF Read, TaskTypeOK
  <2>2. CASE /\ m.body \in {"ok", "failed"}
             /\ answer' = [answer EXCEPT ![m.task] = [result |-> m.body, stamp |-> m.stamp]]
    <3>1. [result |-> m.body, stamp |-> m.stamp] \in Answers
      BY <1>2, <2>2 DEF Answers
    <3>2. answer' \in [Tasks -> Answers]
      BY <2>2, <3>1 DEF TaskTypeOK
    <3>3. QED
      BY <3>2 DEF Read, TaskTypeOK
  <2>3. QED
    BY <2>1, <2>2 DEF Read, m
<1>5. SessionTypeOK' /\ AdapterTypeOK'
  BY <1>1 DEF Read, SessionTypeOK, AdapterTypeOK, m
<1>6. StartsHoldProcess' /\ AdapterOwned'
  BY DEF Read, StartsHoldProcess, AdapterOwned
<1>7. QED
  BY <1>3, <1>4, <1>5, <1>6

\* Disowning requests leaves a queue a queue of the same kind.
LEMMA DisownType ==
  ASSUME NEW S, NEW t, NEW q \in Seq(S), \A m \in S : [m EXCEPT !.task = Nobody] \in S
  PROVE  Disown(q, t) \in Seq(S)
<1>1. \A i \in 1..Len(q) : q[i] \in S
  BY ElementOfSeq
<1>2. DOMAIN q = 1..Len(q) /\ Len(q) \in Nat
  BY LenProperties
<1>3. Disown(q, t) \in [1..Len(q) -> S]
  BY <1>1, <1>2 DEF Disown
<1>4. QED
  BY <1>2, <1>3, IsASeq

LEMMA CancelInv ==
  ASSUME IInv, NEW t \in Tasks, Cancel(t)
  PROVE  IInv'
<1> USE DEF session, client, IInv, TypeOK
<1>1. /\ \A m \in Requests : [m EXCEPT !.task = Nobody] \in Requests
      /\ \A m \in Messages : [m EXCEPT !.task = Nobody] \in Messages
  BY DEF Requests, Messages
<1>2. inq' \in [Procs -> Seq(Requests)] /\ outq' \in [Procs -> Seq(Messages)]
  <2>1. \A g \in Procs : Disown(inq[g], t) \in Seq(Requests)
    BY <1>1, DisownType DEF AdapterTypeOK
  <2>2. \A g \in Procs : Disown(outq[g], t) \in Seq(Messages)
    BY <1>1, DisownType DEF AdapterTypeOK
  <2>3. QED
    BY <2>1, <2>2 DEF Cancel
<1>3. alive' \subseteq alive
  BY DEF Cancel
<1>4. AdapterTypeOK'
  BY <1>2, <1>3 DEF Cancel, AdapterTypeOK
<1>5. SessionTypeOK' /\ ClientTypeOK'
  BY DEF Cancel, SessionTypeOK, ClientTypeOK
<1>6. NoAnswer \in Answers /\ "idle" \in Labels \ Holding
  BY BoundsAssumption DEF NoAnswer, NoStamp, Answers, Stamps, Labels, Holding
<1>7. TaskTypeOK'
  BY <1>6 DEF Cancel, Goto, TaskTypeOK
<1>8. StartsHoldProcess'
  BY <1>6 DEF Cancel, Goto, TaskTypeOK, StartsHoldProcess
<1>9. AdapterOwned'
  BY <1>3 DEF Cancel, Goto, TaskTypeOK, AdapterOwned
<1>10. QED
  BY <1>4, <1>5, <1>7, <1>8, <1>9

-----------------------------------------------------------------------------
(* Steps of the adapters.                                                  *)

LEMMA AnnounceType ==
  ASSUME BoundsAssumption, NEW g \in Procs, NEW names \in Seq(Events), NEW n \in 0..MaxStops
  PROVE  Announce(g, names, n) \in Seq(Messages)
<1>1. <<g, n>> \in Stamps
  BY DEF Stamps, Procs
<1>2. \A i \in 1..Len(names) : names[i] \in Events
  BY ElementOfSeq
<1>3. \A i \in 1..Len(names) : [task |-> Nobody, body |-> names[i], stamp |-> <<g, n>>] \in Messages
  BY <1>1, <1>2 DEF Messages
<1>4. Announce(g, names, n) \in [1..Len(names) -> Messages]
  BY <1>3 DEF Announce
<1>5. QED
  BY <1>4, IsASeq, LenProperties

LEMMA ServeInv ==
  ASSUME IInv, NEW g \in Procs, Serve(g)
  PROVE  IInv'
<1> DEFINE r == Head(inq[g])
<1> USE DEF session, client, tasks, IInv, TypeOK
<1>1. r \in Requests /\ Tail(inq[g]) \in Seq(Requests)
  BY HeadTailProperties DEF Serve, AdapterTypeOK
<1> HIDE DEF r
<1>2. PICK x \in Reactions(g, r.command, debuggee[g]) :
        /\ debuggee' = [debuggee EXCEPT ![g] = x.next]
        /\ outq' = [outq EXCEPT ![g] = @ \o
             <<[task |-> r.task, body |-> x.result, stamp |-> <<g, stops[g]>>]>>
             \o Announce(g, x.announced, stops[g])]
  BY DEF Serve, r
<1>3. /\ x.result \in {"ok", "failed"}
      /\ x.announced \in Seq(Events)
      /\ x.next \in ProgramStates
  <2>1. debuggee[g] \in ProgramStates
    BY DEF AdapterTypeOK, ProgramStates
  <2>2. QED
    BY <2>1, ReactionsType
<1>4. outq' \in [Procs -> Seq(Messages)]
  <2> DEFINE response == [task |-> r.task, body |-> x.result, stamp |-> <<g, stops[g]>>]
             news == Announce(g, x.announced, stops[g])
  <2>1. stops[g] \in 0..MaxStops /\ <<g, stops[g]>> \in Stamps
    BY DEF AdapterTypeOK, Stamps, Procs
  <2>2. response \in Messages
    BY <1>1, <1>3, <2>1 DEF Requests, Messages
  <2>3. news \in Seq(Messages)
    BY <1>3, <2>1, AnnounceType, BoundsAssumption
  <2>4. outq[g] \in Seq(Messages)
    BY DEF AdapterTypeOK
  <2> HIDE DEF response, news
  <2>5. <<response>> \in Seq(Messages)
    BY <2>2
  <2>6. (outq[g] \o <<response>>) \o news \in Seq(Messages)
    BY <2>3, <2>4, <2>5, ConcatProperties
  <2>7. outq[g] \o (<<response>> \o news) \in Seq(Messages)
    BY <2>3, <2>4, <2>5, ConcatProperties
  <2>8. outq' = [outq EXCEPT ![g] = outq[g] \o <<response>> \o news]
    BY <1>2 DEF response, news
  <2>9. QED
    BY <2>6, <2>7, <2>8 DEF AdapterTypeOK
<1>5. debuggee' \in [Procs -> ProgramStates] /\ inq' \in [Procs -> Seq(Requests)]
  BY <1>1, <1>2, <1>3 DEF Serve, AdapterTypeOK, ProgramStates, r
<1>6. alive' \subseteq alive
  BY DEF Serve
<1>7. AdapterTypeOK'
  BY <1>4, <1>5, <1>6 DEF Serve, AdapterTypeOK, ProgramStates
<1>8. SessionTypeOK' /\ ClientTypeOK' /\ TaskTypeOK'
  BY DEF Serve, SessionTypeOK, ClientTypeOK, TaskTypeOK
<1>9. StartsHoldProcess' /\ AdapterOwned'
  BY <1>6 DEF Serve, StartsHoldProcess, AdapterOwned
<1>10. QED
  BY <1>7, <1>8, <1>9

LEMMA SaysType ==
  ASSUME IInv, NEW g \in Procs, NEW names \in {<<"stopped">>, <<"exited", "terminated">>},
         NEW n \in 0..MaxStops, outq' = [outq EXCEPT ![g] = @ \o Announce(g, names, n)]
  PROVE  outq' \in [Procs -> Seq(Messages)]
<1>1. names \in Seq(Events)
  <2>1. /\ "stopped" \in Events /\ "exited" \in Events /\ "terminated" \in Events
    BY DEF Events
  <2>2. CASE names = <<"stopped">>
    BY <2>1, <2>2
  <2>3. CASE names = <<"exited", "terminated">>
    BY <2>1, <2>3
  <2>4. QED
    BY <2>2, <2>3
<1>2. outq[g] \in Seq(Messages)
  BY DEF IInv, TypeOK, AdapterTypeOK
<1>3. outq[g] \o Announce(g, names, n) \in Seq(Messages)
  BY <1>1, <1>2, AnnounceType, BoundsAssumption, ConcatProperties
<1>4. QED
  BY <1>3 DEF IInv, TypeOK, AdapterTypeOK

LEMMA StopInv ==
  ASSUME IInv, NEW g \in Procs, Stop(g)
  PROVE  IInv'
<1> USE DEF Stop, session, client, tasks, IInv, TypeOK
<1>1. stops[g] + 1 \in 0..MaxStops
  BY BoundsAssumption DEF AdapterTypeOK
<1>2. outq' \in [Procs -> Seq(Messages)]
  BY <1>1, SaysType
<1>3. stops' \in [Procs -> 0..MaxStops]
  BY <1>1 DEF AdapterTypeOK
<1>4. AdapterTypeOK'
  BY <1>2, <1>3 DEF AdapterTypeOK
<1>5. SessionTypeOK' /\ ClientTypeOK' /\ TaskTypeOK'
  BY DEF SessionTypeOK, ClientTypeOK, TaskTypeOK
<1>6. StartsHoldProcess' /\ AdapterOwned'
  BY DEF StartsHoldProcess, AdapterOwned
<1>7. QED
  BY <1>4, <1>5, <1>6

LEMMA ExitInv ==
  ASSUME IInv, NEW g \in Procs, Exit(g)
  PROVE  IInv'
<1> USE DEF Exit, session, client, tasks, IInv, TypeOK
<1>1. stops[g] \in 0..MaxStops
  BY DEF AdapterTypeOK
<1>2. outq' \in [Procs -> Seq(Messages)]
  BY <1>1, SaysType
<1>3. AdapterTypeOK'
  BY <1>2 DEF AdapterTypeOK
<1>4. SessionTypeOK' /\ ClientTypeOK' /\ TaskTypeOK'
  BY DEF SessionTypeOK, ClientTypeOK, TaskTypeOK
<1>5. StartsHoldProcess' /\ AdapterOwned'
  BY DEF StartsHoldProcess, AdapterOwned
<1>6. QED
  BY <1>3, <1>4, <1>5

-----------------------------------------------------------------------------
(* The theorems.                                                           *)

LEMMA StepInv == IInv /\ [Next]_vars => IInv'
<1> SUFFICES ASSUME IInv, [Next]_vars PROVE IInv'
  OBVIOUS
<1>1. ASSUME NEW t \in Tasks, Call(t) PROVE IInv'
  BY <1>1, CallInv
<1>2. ASSUME NEW t \in Tasks, TakeEvent(t) PROVE IInv'
  BY <1>2, TakeEventInv
<1>3. ASSUME NEW t \in Tasks, Step(t) PROVE IInv'
  BY <1>3, ReadingInv, HaltInv, TransitionInv, CachingInv, SpawnInv, SetStdinInv, SetChildInv,
     SetKindInv, KillInv, SendInv, ReceiveInv DEF Step
<1>4. ASSUME NEW t \in Tasks, Cancel(t) PROVE IInv'
  BY <1>4, CancelInv
<1>5. ASSUME NEW g \in Procs, Read(g) PROVE IInv'
  BY <1>5, ReadInv
<1>6. ASSUME NEW g \in Procs, Serve(g) PROVE IInv'
  BY <1>6, ServeInv
<1>7. ASSUME NEW g \in Procs, Stop(g) \/ Exit(g) \/ Crash(g) PROVE IInv'
  BY <1>7, StopInv, ExitInv, CrashInv
<1>8. CASE UNCHANGED vars
  BY <1>8 DEF vars, session, client, tasks, adapter, IInv, StartsHoldProcess, AdapterOwned, TypeOK,
     SessionTypeOK, ClientTypeOK, TaskTypeOK, AdapterTypeOK
<1>9. QED
  BY <1>1, <1>2, <1>3, <1>4, <1>5, <1>6, <1>7, <1>8 DEF Next

\* IInv holds in every reachable state, for every number of tasks, processes, stops and calls.
LEMMA Invariance == Spec => []IInv
BY InitInv, StepInv, PTL DEF Spec

\* Type correctness of the session, the client, the tasks and the adapters.
THEOREM TypeCorrect == Spec => []TypeOK
<1>1. IInv => TypeOK
  BY DEF IInv
<1>2. QED
  BY <1>1, Invariance, PTL

\* session.rs, client.rs: whatever starts, shutdowns, events, dropped calls and crashes
\* interleave, an adapter process that runs is the client's child or about to be.
THEOREM AdaptersAreOwned == Spec => []AdapterOwned
<1>1. IInv => AdapterOwned
  BY DEF IInv
<1>2. QED
  BY <1>1, Invariance, PTL

\* gating.rs against state.rs: whatever the gate lets through leads, if nothing comes in
\* between, to a transition that is legal; GrantedCallSucceeds says that nothing does.
THEOREM GateAdmitsLegalTransitions ==
  ASSUME NEW o \in {"start", "initialize", "configuration_done", "shutdown"} \cup Resuming,
         NEW s \in SessionStates, is_allowed(o, s)
  PROVE  can_transition_to(s, Target(o))
<1> USE DEF Resuming, Breakpoints, Inspecting, Closing
<1>1. CASE o \in Resuming
  <2>1. allowed_states(o) = {"Halted"}
    BY <1>1 DEF allowed_states
  <2>2. Target(o) = "Running"
    BY <1>1 DEF Target
  <2>3. QED
    BY <2>1, <2>2 DEF is_allowed, can_transition_to
<1>2. CASE o = "shutdown"
  <2>1. Target(o) = "Disconnected" /\ allowed_states(o) = SessionStates \ {"Disconnected"}
    BY <1>2 DEF allowed_states, Target
  <2>2. QED
    BY <2>1 DEF is_allowed, can_transition_to, SessionStates
<1>3. CASE o = "start"
  BY <1>3 DEF is_allowed, allowed_states, Target, can_transition_to
<1>4. CASE o = "initialize"
  BY <1>4 DEF is_allowed, allowed_states, Target, can_transition_to
<1>5. CASE o = "configuration_done"
  BY <1>5 DEF is_allowed, allowed_states, Target, can_transition_to
<1>6. QED
  BY <1>1, <1>2, <1>3, <1>4, <1>5

-----------------------------------------------------------------------------
(* The pending map.                                                        *)

\* The i-th request to, or message from, process g is one for task t.
Asked(g, i, t) == i \in DOMAIN inq[g] /\ inq[g][i].task = t
Said(g, i, t)  == i \in DOMAIN outq[g] /\ outq[g][i].task = t
Waits(t) == pc[t] = "wait" /\ answer[t] = NoAnswer

\* ExactlyOneAnswer for task t, said of places in the pipes.
UnderWay(t) == \E g \in Procs : \E i : Asked(g, i, t) \/ Said(g, i, t)
OneAtMost(t) ==
  \A g, h \in Procs : \A i, j :
    /\ Asked(g, i, t) /\ Asked(h, j, t) => g = h /\ i = j
    /\ Said(g, i, t) /\ Said(h, j, t) => g = h /\ i = j
    /\ ~(Asked(g, i, t) /\ Said(h, j, t))
Routed(t) ==
  /\ answer[t] # NoAnswer => pc[t] = "wait"
  /\ UnderWay(t) <=> Waits(t)
  /\ OneAtMost(t)

\* Events are for nobody in particular: the reader never takes one for a response.
EventsForNobody ==
  \A g \in Procs : \A i \in DOMAIN outq[g] :
    outq[g][i].body \in Events => outq[g][i].task = Nobody

PendingInv == EventsForNobody /\ \A t \in Tasks : Routed(t)

LEMMA InitPending == Init => PendingInv
<1> SUFFICES ASSUME Init PROVE PendingInv
  OBVIOUS
<1>1. \A g \in Procs : DOMAIN inq[g] = {} /\ DOMAIN outq[g] = {}
  BY DEF Init
<1>2. \A t \in Tasks : pc[t] = "idle" /\ answer[t] = NoAnswer
  BY DEF Init
<1>3. QED
  BY <1>1, <1>2 DEF PendingInv, EventsForNobody, Routed, UnderWay, OneAtMost, Asked, Said, Waits

\* A task whose requests and responses stay where they are, and that waits as it did.
LEMMA StaysRouted ==
  ASSUME NEW t \in Tasks, Routed(t), \A g \in Procs : \A i : Asked(g, i, t)' <=> Asked(g, i, t),
         \A g \in Procs : \A i : Said(g, i, t)' <=> Said(g, i, t),
         answer'[t] = answer[t], pc'[t] = pc[t] \/ (pc[t] # "wait" /\ pc'[t] # "wait")
  PROVE  Routed(t)'
<1>1. (answer[t] # NoAnswer => pc[t] = "wait")' /\ Waits(t)' <=> (answer[t] # NoAnswer => pc[t] = "wait") /\ Waits(t)
  BY DEF Routed, Waits
<1>2. UnderWay(t)' <=> UnderWay(t)
  BY DEF UnderWay
<1>3. OneAtMost(t)'
  BY DEF Routed, OneAtMost
<1>4. QED
  BY <1>2, <1>3 DEF Routed, Waits

\* Of the steps of a task most send and receive nothing.
LEMMA QuietPending ==
  ASSUME TypeOK, PendingInv, NEW t \in Tasks, UNCHANGED <<inq, outq, answer>>,
         pc[t] # "wait", pc'[t] # "wait", \A u \in Tasks \ {t} : pc'[u] = pc[u]
  PROVE  PendingInv'
<1>1. EventsForNobody'
  BY DEF PendingInv, EventsForNobody
<1>2. \A u \in Tasks : Routed(u)'
  BY StaysRouted DEF PendingInv, Asked, Said
<1>3. QED
  BY <1>1, <1>2 DEF PendingInv

\* Only Send leads to a wait.
LEMMA OnlySendWaits ==
  ASSUME NEW o
  PROVE  "wait" \notin {AfterGate(o), AfterReply(o), AfterFailure(o)}
BY DEF AfterGate, AfterReply, AfterFailure, Closing, Resuming, Breakpoints

LEMMA FirstStepNeverWaits ==
  ASSUME NEW e \in Events
  PROVE  FirstStep(e) # "wait"
BY DEF FirstStep, Events, Closing

LEMMA CallPending ==
  ASSUME TypeOK, PendingInv, NEW t \in Tasks, Call(t) \/ TakeEvent(t)
  PROVE  PendingInv'
<1>1. UNCHANGED <<inq, outq, answer>> /\ pc[t] = "idle"
  BY DEF Call, TakeEvent, adapter
<1>2. PICK l : l # "wait" /\ pc' = [pc EXCEPT ![t] = l]
  <2>1. CASE Call(t)
    BY <2>1 DEF Call, Goto
  <2>2. CASE TakeEvent(t)
    <3>1. Head(events) \in [name : Events, stamp : Stamps]
      BY <2>2, HeadTailProperties DEF TakeEvent, TypeOK, ClientTypeOK
    <3>2. FirstStep(Head(events).name) # "wait"
      BY <3>1, FirstStepNeverWaits
    <3>3. QED
      BY <2>2, <3>2 DEF TakeEvent, Goto
  <2>3. QED
    BY <2>1, <2>2
<1>3. pc'[t] # "wait" /\ \A u \in Tasks \ {t} : pc'[u] = pc[u]
  BY <1>2 DEF TypeOK, TaskTypeOK
<1>4. QED
  BY <1>1, <1>3, QuietPending

LEMMA StepPending ==
  ASSUME TypeOK, PendingInv, NEW t \in Tasks, Step(t), ~Send(t), ~Receive(t)
  PROVE  PendingInv'
<1> USE DEF session, client, adapter, Goto
<1>1. /\ UNCHANGED <<inq, outq, answer>> /\ pc[t] # "wait"
      /\ \E l : l # "wait" /\ pc' = [pc EXCEPT ![t] = l]
  <2>1. CASE Gate(t)
    BY <2>1, OnlySendWaits DEF Gate
  <2>2. CASE IsRunning(t) \/ SpawnFails(t) \/ Spawn(t)
    BY <2>2 DEF IsRunning, SpawnFails, Spawn
  <2>3. CASE SetStdin(t) \/ SetChild(t) \/ SetKind(t)
    BY <2>3 DEF SetStdin, SetChild, SetKind
  <2>4. CASE SetHalt(t) \/ ClearHalt(t) \/ Recheck(t)
    BY <2>4 DEF SetHalt, ClearHalt, Recheck
  <2>5. CASE transition_to(t)
    BY <2>5 DEF transition_to
  <2>6. CASE Kill(t) \/ ClearBreakpoints(t) \/ CacheVariables(t)
    BY <2>6 DEF Kill, ClearBreakpoints, CacheVariables
  <2>7. CASE UpdateBreakpoints(t)
    BY <2>7 DEF UpdateBreakpoints
  <2>8. QED
    BY <2>1, <2>2, <2>3, <2>4, <2>5, <2>6, <2>7 DEF Step
<1>2. pc'[t] # "wait" /\ \A u \in Tasks \ {t} : pc'[u] = pc[u]
  BY <1>1 DEF TypeOK, TaskTypeOK
<1>3. QED
  BY <1>1, <1>2, QuietPending

\* A request that has been written is the last one in the pipe.
LEMMA SendPlaces ==
  ASSUME TypeOK, NEW g \in Procs, NEW r \in Requests, inq' = [inq EXCEPT ![g] = Append(@, r)]
  PROVE  \A h \in Procs : \A i, u :
           Asked(h, i, u)' <=> Asked(h, i, u) \/ (h = g /\ i = Len(inq[g]) + 1 /\ r.task = u)
<1>1. inq[g] \in Seq(Requests) /\ inq'[g] = Append(inq[g], r)
  BY DEF TypeOK, AdapterTypeOK
<1>2. /\ DOMAIN Append(inq[g], r) = DOMAIN inq[g] \cup {Len(inq[g]) + 1}
      /\ \A i \in DOMAIN inq[g] : Append(inq[g], r)[i] = inq[g][i]
      /\ Append(inq[g], r)[Len(inq[g]) + 1] = r /\ Len(inq[g]) + 1 \notin DOMAIN inq[g]
  BY <1>1, AppendElements
<1>3. \A h \in Procs : h # g => inq'[h] = inq[h]
  BY DEF TypeOK, AdapterTypeOK
<1>4. QED
  BY <1>1, <1>2, <1>3 DEF Asked

LEMMA SendPending ==
  ASSUME TypeOK, PendingInv, NEW t \in Tasks, Send(t)
  PROVE  PendingInv'
<1> DEFINE r == [task |-> IF Blocking(op[t]) THEN t ELSE Nobody, command |-> Command(op[t])]
<1>1. r \in Requests
  BY DEF Requests, Command, TypeOK, TaskTypeOK
<1>2. EventsForNobody'
  BY DEF Send, PendingInv, EventsForNobody
<1>3. \A g \in Procs : \A i, u : Said(g, i, u)' <=> Said(g, i, u)
  BY DEF Send, Said
<1>4. answer' = answer /\ pc[t] = "send" /\ \A u \in Tasks \ {t} : pc'[u] = pc[u]
  BY DEF Send, Goto, TypeOK, TaskTypeOK
<1>5. Nobody \notin Tasks
  BY TasksAssumption
<1>6. ASSUME NEW u \in Tasks, \A g \in Procs : \A i : Asked(g, i, u)' <=> Asked(g, i, u),
             u = t => pc'[u] # "wait"
      PROVE  Routed(u)'
  BY <1>3, <1>4, <1>6, StaysRouted DEF PendingInv
<1>7. CASE stdin \notin alive
  <2>1. inq' = inq /\ pc'[t] # "wait"
    BY <1>7, OnlySendWaits DEF Send, Goto, TypeOK, TaskTypeOK
  <2>2. \A u \in Tasks : Routed(u)'
    BY <1>6, <2>1 DEF Asked
  <2>3. QED
    BY <1>2, <2>2 DEF PendingInv
<1>8. CASE stdin \in alive
  <2>1. stdin \in Procs
    BY <1>8, BoundsAssumption DEF TypeOK, AdapterTypeOK, Procs
  <2>2. inq' = [inq EXCEPT ![stdin] = Append(@, r)]
    BY <1>8 DEF Send
  <2>3. pc'[t] = IF Blocking(op[t]) THEN "wait" ELSE AfterReply(op[t])
    BY <1>8 DEF Send, Goto, TypeOK, TaskTypeOK
  <2>4. r.task = IF Blocking(op[t]) THEN t ELSE Nobody
    OBVIOUS
  <2> HIDE DEF r
  <2>5. \A h \in Procs : \A i, u :
          Asked(h, i, u)' <=> Asked(h, i, u) \/ (h = stdin /\ i = Len(inq[stdin]) + 1 /\ r.task = u)
    BY <1>1, <2>1, <2>2, SendPlaces
  <2>6. CASE ~Blocking(op[t])
    <3>1. pc'[t] # "wait" /\ r.task = Nobody
      BY <2>3, <2>4, <2>6, OnlySendWaits
    <3>2. \A u \in Tasks : Routed(u)'
      BY <1>5, <1>6, <2>5, <3>1
    <3>3. QED
      BY <1>2, <3>2 DEF PendingInv
  <2>7. CASE Blocking(op[t])
    <3>1. pc'[t] = "wait" /\ r.task = t
      BY <2>3, <2>4, <2>7
    <3>2. \A u \in Tasks \ {t} : Routed(u)'
      BY <1>6, <2>5, <3>1
    <3>3. Routed(t) /\ ~Waits(t) /\ ~UnderWay(t) /\ answer[t] = NoAnswer
      BY <1>4 DEF PendingInv, Routed, Waits
    <3>4. \A h \in Procs : \A i : ~Asked(h, i, t) /\ ~Said(h, i, t)
      BY <3>3 DEF UnderWay
    <3>5. \A h \in Procs : \A i : Asked(h, i, t)' <=> h = stdin /\ i = Len(inq[stdin]) + 1
      BY <2>5, <3>1, <3>4
    <3>6. \A h \in Procs : \A i : ~Said(h, i, t)'
      BY <1>3, <3>4
    <3>7. Waits(t)'
      BY <1>4, <3>1, <3>3 DEF Waits
    <3>8. UnderWay(t)'
      BY <2>1, <3>5 DEF UnderWay
    <3>9. OneAtMost(t)'
      BY <3>5, <3>6 DEF OneAtMost
    <3>10. Routed(t)'
      BY <3>1, <3>7, <3>8, <3>9 DEF Routed
    <3>11. QED
      BY <1>2, <3>2, <3>10 DEF PendingInv
  <2>8. QED
    BY <2>6, <2>7
<1>9. QED
  BY <1>7, <1>8

\* The answer ends the wait; nothing was under way any more when it had come.
LEMMA ReceivePending ==
  ASSUME TypeOK, PendingInv, NEW t \in Tasks, Receive(t)
  PROVE  PendingInv'
<1>1. UNCHANGED <<inq, outq>> /\ pc[t] = "wait" /\ answer[t] # NoAnswer
  BY DEF Receive, adapter
<1>2. PICK l : l # "wait" /\ pc' = [pc EXCEPT ![t] = l]
  BY OnlySendWaits DEF Receive, Goto
<1>3. /\ pc'[t] # "wait" /\ answer'[t] = NoAnswer
      /\ \A u \in Tasks \ {t} : pc'[u] = pc[u] /\ answer'[u] = answer[u]
  BY <1>2 DEF Receive, TypeOK, TaskTypeOK
<1>4. \A g \in Procs : \A i, u :
        (Asked(g, i, u)' <=> Asked(g, i, u)) /\ (Said(g, i, u)' <=> Said(g, i, u))
  BY <1>1 DEF Asked, Said
<1>5. EventsForNobody'
  BY <1>1 DEF PendingInv, EventsForNobody
<1>6. \A u \in Tasks \ {t} : Routed(u)'
  BY <1>3, <1>4, StaysRouted DEF PendingInv
<1>7. Routed(t)'
  <2>1. Routed(t) /\ ~UnderWay(t)
    BY <1>1 DEF PendingInv, Routed, Waits
  <2>2. UnderWay(t)' <=> UnderWay(t)
    BY <1>4 DEF UnderWay
  <2>3. OneAtMost(t)'
    BY <1>4, <2>1 DEF Routed, OneAtMost
  <2>4. QED
    BY <1>3, <2>1, <2>2, <2>3 DEF Routed, Waits
<1>8. QED
  BY <1>5, <1>6, <1>7 DEF PendingInv

\* What remains in a pipe that is read from moves up by one.
Earlier(h, g, i) == IF h = g THEN i - 1 ELSE i
Later(h, g, i)   == IF h = g THEN i + 1 ELSE i

MovedUp(q, p, g) ==
  /\ 1 \in DOMAIN q[g] /\ Head(q[g]) = q[g][1]
  /\ \A h \in Procs : \A i \in DOMAIN p[h] :
       /\ Later(h, g, i) \in DOMAIN q[h] /\ p[h][i] = q[h][Later(h, g, i)]
       /\ h = g => Later(h, g, i) # 1
  /\ \A h \in Procs : \A i \in DOMAIN q[h] :
       h # g \/ i # 1 => Earlier(h, g, i) \in DOMAIN p[h] /\ p[h][Earlier(h, g, i)] = q[h][i]
  /\ \A h \in Procs : \A i, j :
       i \in DOMAIN p[h] /\ j \in DOMAIN p[h] /\ Later(h, g, i) = Later(h, g, j) => i = j

LEMMA PlacesMoveUp ==
  ASSUME NEW S, NEW q \in [Procs -> Seq(S)], NEW g \in Procs, q[g] # <<>>
  PROVE  MovedUp(q, [q EXCEPT ![g] = Tail(@)], g)
<1> DEFINE p == [q EXCEPT ![g] = Tail(@)]
<1>1. /\ Tail(q[g]) \in Seq(S)
      /\ \A i \in DOMAIN Tail(q[g]) : i \in Nat /\ i + 1 \in DOMAIN q[g] /\ Tail(q[g])[i] = q[g][i + 1]
      /\ \A j \in DOMAIN q[g] : j # 1 => j - 1 \in DOMAIN Tail(q[g]) /\ Tail(q[g])[j - 1] = q[g][j]
      /\ 1 \in DOMAIN q[g] /\ Head(q[g]) = q[g][1]
  BY TailElements
<1>2. p[g] = Tail(q[g]) /\ \A h \in Procs : h # g => p[h] = q[h]
  OBVIOUS
<1> HIDE DEF p
<1>3. \A i \in DOMAIN p[g] : i \in Nat /\ i + 1 # 1
  BY <1>1, <1>2
<1>4. \A i, j : i \in DOMAIN p[g] /\ j \in DOMAIN p[g] /\ i + 1 = j + 1 => i = j
  BY <1>3
<1>5. QED
  <2>1. /\ \A i : Later(g, g, i) = i + 1 /\ Earlier(g, g, i) = i - 1
        /\ \A h \in Procs : h # g => \A i : Later(h, g, i) = i /\ Earlier(h, g, i) = i
    BY DEF Earlier, Later
  <2>2. \A h \in Procs : \A i \in DOMAIN p[h] :
          /\ Later(h, g, i) \in DOMAIN q[h] /\ p[h][i] = q[h][Later(h, g, i)]
          /\ h = g => Later(h, g, i) # 1
    BY <1>1, <1>2, <1>3, <2>1
  <2>3. \A h \in Procs : \A i \in DOMAIN q[h] :
          h # g \/ i # 1 => Earlier(h, g, i) \in DOMAIN p[h] /\ p[h][Earlier(h, g, i)] = q[h][i]
    BY <1>1, <1>2, <2>1
  <2>4. \A h \in Procs : \A i, j :
          i \in DOMAIN p[h] /\ j \in DOMAIN p[h] /\ Later(h, g, i) = Later(h, g, j) => i = j
    BY <1>4, <2>1
  <2>5. MovedUp(q, p, g)
    BY <1>1, <2>2, <2>3, <2>4 DEF MovedUp
  <2>6. QED
    BY <2>5 DEF p

\* An event is read: nothing that is for a task moves but its place.
LEMMA ReadPending ==
  ASSUME TypeOK, PendingInv, NEW g \in Procs, Read(g)
  PROVE  PendingInv'
<1> DEFINE m == Head(outq[g])
<1>1. outq \in [Procs -> Seq(Messages)] /\ outq[g] # <<>> /\ outq' = [outq EXCEPT ![g] = Tail(@)]
  BY DEF Read, TypeOK, AdapterTypeOK
<1>2. /\ 1 \in DOMAIN outq[g] /\ m = outq[g][1]
      /\ \A h \in Procs : \A i \in DOMAIN outq'[h] :
           /\ Later(h, g, i) \in DOMAIN outq[h] /\ outq'[h][i] = outq[h][Later(h, g, i)]
           /\ h = g => Later(h, g, i) # 1
      /\ \A h \in Procs : \A i \in DOMAIN outq[h] :
           h # g \/ i # 1 => Earlier(h, g, i) \in DOMAIN outq'[h] /\ outq'[h][Earlier(h, g, i)] = outq[h][i]
      /\ \A h \in Procs : \A i, j :
           i \in DOMAIN outq'[h] /\ j \in DOMAIN outq'[h] /\ Later(h, g, i) = Later(h, g, j) => i = j
  <2>1. MovedUp(outq, outq', g)
    BY <1>1, PlacesMoveUp
  <2>2. QED
    BY <2>1 DEF MovedUp
<1> HIDE DEF m
<1>3. UNCHANGED <<inq, pc>>
  BY DEF Read
<1>4. \A h \in Procs : \A i, u : Asked(h, i, u)' <=> Asked(h, i, u)
  BY <1>3 DEF Asked
<1>5. \A h \in Procs : \A i, u : Said(h, i, u)' =>
        Said(h, Later(h, g, i), u) /\ (h = g => Later(h, g, i) # 1)
  BY <1>2 DEF Said
<1>6. \A h \in Procs : \A i, u : Said(h, i, u) /\ (h # g \/ i # 1) => Said(h, Earlier(h, g, i), u)'
  BY <1>2 DEF Said
<1>7. \A h \in Procs : \A i, j, u, v :
        Said(h, i, u)' /\ Said(h, j, v)' /\ Later(h, g, i) = Later(h, g, j) => i = j
  BY <1>2 DEF Said
<1>8. EventsForNobody'
  BY <1>2 DEF PendingInv, EventsForNobody
<1>9. ASSUME NEW u \in Tasks PROVE OneAtMost(u)'
  <2>1. OneAtMost(u)
    BY DEF PendingInv, Routed
  <2>2. ASSUME NEW h \in Procs, NEW k \in Procs, NEW i, NEW j, Said(h, i, u)', Said(k, j, u)'
        PROVE  h = k /\ i = j
    <3>1. Said(h, Later(h, g, i), u) /\ Said(k, Later(k, g, j), u)
      BY <1>5, <2>2
    <3>2. h = k /\ Later(h, g, i) = Later(k, g, j)
      BY <2>1, <3>1 DEF OneAtMost
    <3>3. QED
      BY <1>7, <2>2, <3>2
  <2>3. ASSUME NEW h \in Procs, NEW k \in Procs, NEW i, NEW j, Asked(h, i, u)', Said(k, j, u)'
        PROVE  FALSE
    BY <1>4, <1>5, <2>1, <2>3 DEF OneAtMost
  <2>4. \A h, k \in Procs : \A i, j : Asked(h, i, u)' /\ Asked(k, j, u)' => h = k /\ i = j
    BY <1>4, <2>1 DEF OneAtMost
  <2>5. QED
    BY <2>2, <2>3, <2>4 DEF OneAtMost
<1>10. ASSUME NEW u \in Tasks, m.task # u, answer'[u] = answer[u]
       PROVE  Routed(u)'
  <2>1. Routed(u)
    BY DEF PendingInv
  <2>2. \A h \in Procs : \A i : Said(h, i, u) => h # g \/ i # 1
    BY <1>2, <1>10 DEF Said
  <2>3. UnderWay(u)' <=> UnderWay(u)
    <3>1. UnderWay(u) => UnderWay(u)'
      BY <1>4, <1>6, <2>2 DEF UnderWay
    <3>2. UnderWay(u)' => UnderWay(u)
      BY <1>4, <1>5 DEF UnderWay
    <3>3. QED
      BY <3>1, <3>2
  <2>4. OneAtMost(u)'
    BY <1>9
  <2>5. QED
    BY <1>3, <1>10, <2>1, <2>3, <2>4 DEF Routed, Waits
<1>11. CASE UNCHANGED answer /\ m.task = Nobody
  <2>1. \A u \in Tasks : Routed(u)'
    BY <1>10, <1>11, TasksAssumption
  <2>2. QED
    BY <1>8, <2>1 DEF PendingInv
<1>12. CASE /\ m.body \in {"ok", "failed"} /\ m.task \in Tasks
            /\ answer' = [answer EXCEPT ![m.task] = [result |-> m.body, stamp |-> m.stamp]]
  <2>1. PICK u \in Tasks : u = m.task
    BY <1>12
  <2>2. /\ answer'[u].result = m.body
        /\ \A v \in Tasks \ {u} : answer'[v] = answer[v]
    BY <1>12, <2>1 DEF TypeOK, TaskTypeOK
  <2>3. answer'[u] # NoAnswer
    BY <1>12, <2>2 DEF NoAnswer
  <2>4. Said(g, 1, u)
    BY <1>2, <2>1 DEF Said
  <2>5. Routed(u) /\ Waits(u)
    BY <2>4 DEF PendingInv, Routed, UnderWay
  <2>6. ~UnderWay(u)'
    <3>1. \A h \in Procs : \A i : ~Asked(h, i, u)'
      BY <1>4, <2>4, <2>5 DEF Routed, OneAtMost
    <3>2. \A h \in Procs : \A i : ~Said(h, i, u)'
      BY <1>5, <2>4, <2>5 DEF Routed, OneAtMost
    <3>3. QED
      BY <3>1, <3>2 DEF UnderWay
  <2>7. OneAtMost(u)'
    BY <1>9
  <2>8. Routed(u)'
    BY <1>3, <2>3, <2>5, <2>6, <2>7 DEF Routed, Waits
  <2>9. \A v \in Tasks \ {u} : Routed(v)'
    BY <1>10, <2>1, <2>2
  <2>10. QED
    BY <1>8, <2>8, <2>9 DEF PendingInv
<1>13. m.body \in Events => m.task = Nobody
  BY <1>2 DEF PendingInv, EventsForNobody
<1>14. QED
  BY <1>11, <1>12, <1>13 DEF Read, m

\* What is announced is for nobody.
LEMMA AnnouncePlaces ==
  ASSUME TypeOK, PendingInv, NEW g \in Procs, NEW names \in Seq(Events), NEW n \in 0..MaxStops,
         outq' = [outq EXCEPT ![g] = @ \o Announce(g, names, n)]
  PROVE  /\ EventsForNobody'
         /\ \A u \in Tasks : \A h \in Procs : \A i : Said(h, i, u)' <=> Said(h, i, u)
<1> DEFINE news == Announce(g, names, n)
<1>1. news \in Seq(Messages)
  BY AnnounceType, BoundsAssumption
<1>2. \A i \in DOMAIN news : news[i].task = Nobody
  BY DEF Announce
<1> HIDE DEF news
<1>3. outq[g] \in Seq(Messages) /\ outq'[g] = outq[g] \o news /\ \A h \in Procs : h # g => outq'[h] = outq[h]
  BY DEF TypeOK, AdapterTypeOK, news
<1>4. /\ \A i \in DOMAIN outq[g] : i \in DOMAIN (outq[g] \o news) /\ (outq[g] \o news)[i] = outq[g][i]
      /\ \A i \in DOMAIN (outq[g] \o news) :
           \/ i \in DOMAIN outq[g]
           \/ i - Len(outq[g]) \in DOMAIN news /\ (outq[g] \o news)[i] = news[i - Len(outq[g])]
  BY SMTT(30), <1>1, <1>3, ConcatElements
<1>5. \A i \in DOMAIN outq'[g] : i \in DOMAIN outq[g] \/ outq'[g][i].task = Nobody
  BY SMTT(30), <1>2, <1>3, <1>4
<1>6. EventsForNobody'
  <2>1. \A h \in Procs : \A i \in DOMAIN outq'[h] : outq'[h][i].body \in Events => outq'[h][i].task = Nobody
    BY <1>3, <1>4, <1>5 DEF PendingInv, EventsForNobody
  <2>2. QED
    BY <2>1 DEF EventsForNobody
<1>7. ASSUME NEW u \in Tasks, NEW h \in Procs, NEW i
      PROVE  Said(h, i, u)' <=> Said(h, i, u)
  <2>1. u # Nobody
    BY TasksAssumption
  <2>2. CASE h = g
    BY <1>3, <1>4, <1>5, <2>1, <2>2 DEF Said
  <2>3. CASE h # g
    BY <1>3, <2>3 DEF Said
  <2>4. QED
    BY <2>2, <2>3
<1>8. QED
  BY <1>6, <1>7

\* What an adapter says of its program by itself.
LEMMA StopsAnnounce ==
  ASSUME TypeOK, NEW g \in Procs, Stop(g) \/ Exit(g)
  PROVE  \E names \in Seq(Events), n \in 0..MaxStops :
           outq' = [outq EXCEPT ![g] = @ \o Announce(g, names, n)]
<1>1. "stopped" \in Events /\ "exited" \in Events /\ "terminated" \in Events
  BY DEF Events
<1>2. <<"stopped">> \in Seq(Events) /\ <<"exited", "terminated">> \in Seq(Events)
  BY <1>1
<1>3. stops[g] \in 0..MaxStops
  BY DEF TypeOK, AdapterTypeOK
<1>4. stops[g] < MaxStops => stops[g] + 1 \in 0..MaxStops
  BY <1>3, BoundsAssumption
<1>5. QED
  BY <1>2, <1>3, <1>4 DEF Stop, Exit

LEMMA StopPending ==
  ASSUME TypeOK, PendingInv, NEW g \in Procs, Stop(g) \/ Exit(g)
  PROVE  PendingInv'
<1>1. PICK names \in Seq(Events), n \in 0..MaxStops :
        outq' = [outq EXCEPT ![g] = @ \o Announce(g, names, n)]
  BY StopsAnnounce
<1>2. /\ EventsForNobody'
      /\ \A u \in Tasks : \A h \in Procs : \A i : Said(h, i, u)' <=> Said(h, i, u)
  BY <1>1, AnnouncePlaces
<1>3. UNCHANGED <<inq, answer, pc>>
  BY DEF Stop, Exit, tasks
<1>4. \A u \in Tasks : Routed(u)'
  BY <1>2, <1>3, StaysRouted DEF PendingInv, Asked
<1>5. QED
  BY <1>2, <1>4 DEF PendingInv

\* The response takes the place of the request it answers.
LEMMA ServePending ==
  ASSUME TypeOK, PendingInv, NEW g \in Procs, Serve(g)
  PROVE  PendingInv'
<1> DEFINE r == Head(inq[g])
<1>1. inq \in [Procs -> Seq(Requests)] /\ inq[g] # <<>> /\ inq' = [inq EXCEPT ![g] = Tail(@)]
  BY DEF Serve, TypeOK, AdapterTypeOK
<1>2. /\ 1 \in DOMAIN inq[g] /\ r = inq[g][1]
      /\ \A h \in Procs : \A i \in DOMAIN inq'[h] :
           /\ Later(h, g, i) \in DOMAIN inq[h] /\ inq'[h][i] = inq[h][Later(h, g, i)]
           /\ h = g => Later(h, g, i) # 1
      /\ \A h \in Procs : \A i \in DOMAIN inq[h] :
           h # g \/ i # 1 => Earlier(h, g, i) \in DOMAIN inq'[h] /\ inq'[h][Earlier(h, g, i)] = inq[h][i]
      /\ \A h \in Procs : \A i, j :
           i \in DOMAIN inq'[h] /\ j \in DOMAIN inq'[h] /\ Later(h, g, i) = Later(h, g, j) => i = j
  <2>1. MovedUp(inq, inq', g)
    BY <1>1, PlacesMoveUp
  <2>2. QED
    BY <2>1 DEF MovedUp
<1>3. r \in Requests
  BY <1>1, HeadTailProperties
<1> HIDE DEF r
<1>4. PICK x \in Reactions(g, r.command, debuggee[g]) :
        outq' = [outq EXCEPT ![g] = @ \o
             <<[task |-> r.task, body |-> x.result, stamp |-> <<g, stops[g]>>]>>
             \o Announce(g, x.announced, stops[g])]
  BY DEF Serve, r
<1>5. x.result \in {"ok", "failed"} /\ x.announced \in Seq(Events)
  <2>1. debuggee[g] \in ProgramStates
    BY DEF TypeOK, AdapterTypeOK, ProgramStates
  <2>2. QED
    BY <2>1, ReactionsType
<1> DEFINE response == [task |-> r.task, body |-> x.result, stamp |-> <<g, stops[g]>>]
           news == Announce(g, x.announced, stops[g])
           said == Append(outq[g], response)
<1>6. stops[g] \in 0..MaxStops /\ <<g, stops[g]>> \in Stamps
  BY DEF TypeOK, AdapterTypeOK, Stamps, Procs
<1>7. response \in Messages /\ response.task = r.task /\ response.body \notin Events
  BY <1>3, <1>5, <1>6 DEF Requests, Messages, Events
<1>8. news \in Seq(Messages)
  BY <1>5, <1>6, AnnounceType, BoundsAssumption
<1>9. \A i \in DOMAIN news : news[i].task = Nobody
  BY DEF Announce
<1>10. outq[g] \in Seq(Messages) /\ \A h \in Procs : h # g => outq'[h] = outq[h]
  BY <1>4 DEF TypeOK, AdapterTypeOK
<1>11. outq'[g] = outq[g] \o <<response>> \o news
  BY <1>4 DEF TypeOK, AdapterTypeOK
<1> HIDE DEF response, news
<1>12. outq'[g] = said \o news /\ said \in Seq(Messages)
  <2>1. said = outq[g] \o <<response>>
    BY <1>7, <1>10, AppendIsConcat
  <2>2. said \in Seq(Messages)
    BY <1>7, <1>10, AppendProperties
  <2>3. QED
    BY <1>11, <2>1, <2>2
<1>13. /\ DOMAIN said = DOMAIN outq[g] \cup {Len(outq[g]) + 1}
       /\ \A i \in DOMAIN outq[g] : said[i] = outq[g][i]
       /\ said[Len(outq[g]) + 1] = response /\ Len(outq[g]) + 1 \notin DOMAIN outq[g]
  BY <1>7, <1>10, AppendElements
<1> HIDE DEF said
<1>14. /\ \A i \in DOMAIN said : i \in DOMAIN (said \o news) /\ (said \o news)[i] = said[i]
       /\ \A i \in DOMAIN (said \o news) :
           \/ i \in DOMAIN said
           \/ i - Len(said) \in DOMAIN news /\ (said \o news)[i] = news[i - Len(said)]
  BY <1>8, <1>12, ConcatElements
<1> DEFINE last == Len(outq[g]) + 1
<1>15. /\ \A i \in DOMAIN outq[g] : i \in DOMAIN outq'[g] /\ outq'[g][i] = outq[g][i]
       /\ last \in DOMAIN outq'[g] /\ outq'[g][last] = response /\ last \notin DOMAIN outq[g]
       /\ \A i \in DOMAIN outq'[g] : i \in DOMAIN outq[g] \/ i = last \/ outq'[g][i].task = Nobody
  BY <1>9, <1>12, <1>13, <1>14
<1>16. PICK end : end = last
  OBVIOUS
<1> HIDE DEF last
<1>17. EventsForNobody'
  <2>1. \A h \in Procs : \A i \in DOMAIN outq'[h] : outq'[h][i].body \in Events => outq'[h][i].task = Nobody
    BY <1>7, <1>10, <1>15 DEF PendingInv, EventsForNobody
  <2>2. QED
    BY <2>1 DEF EventsForNobody
<1>18. PICK w : w = r.task
  OBVIOUS
<1>19. ASSUME NEW u \in Tasks, NEW h \in Procs, NEW i
       PROVE  Said(h, i, u)' <=> Said(h, i, u) \/ (h = g /\ i = end /\ w = u)
  <2>1. u # Nobody
    BY TasksAssumption
  <2>2. CASE h = g
    BY <1>7, <1>15, <1>16, <1>18, <2>1, <2>2 DEF Said
  <2>3. CASE h # g
    BY <1>10, <2>3 DEF Said
  <2>4. QED
    BY <2>2, <2>3
<1>20. /\ \A h \in Procs : \A i, u : Asked(h, i, u)' =>
            Asked(h, Later(h, g, i), u) /\ (h = g => Later(h, g, i) # 1)
       /\ \A h \in Procs : \A i, u : Asked(h, i, u) /\ (h # g \/ i # 1) => Asked(h, Earlier(h, g, i), u)'
       /\ \A h \in Procs : \A i, j, u, v :
            Asked(h, i, u)' /\ Asked(h, j, v)' /\ Later(h, g, i) = Later(h, g, j) => i = j
  BY <1>2 DEF Asked
<1>21. UNCHANGED <<answer, pc>>
  BY DEF Serve, tasks
<1>22. ASSUME NEW u \in Tasks, w # u
       PROVE  Routed(u)'
  <2>1. Routed(u) /\ OneAtMost(u)
    BY DEF PendingInv, Routed
  <2>2. \A h \in Procs : \A i : Said(h, i, u)' <=> Said(h, i, u)
    BY <1>19, <1>22
  <2>3. \A h \in Procs : \A i : Asked(h, i, u) => h # g \/ i # 1
    BY <1>2, <1>18, <1>22 DEF Asked
  <2>4. UnderWay(u)' <=> UnderWay(u)
    <3>1. UnderWay(u) => UnderWay(u)'
      BY <1>20, <2>2, <2>3 DEF UnderWay
    <3>2. UnderWay(u)' => UnderWay(u)
      BY <1>20, <2>2 DEF UnderWay
    <3>3. QED
      BY <3>1, <3>2
  <2>5. ASSUME NEW h \in Procs, NEW k \in Procs, NEW i, NEW j, Asked(h, i, u)', Asked(k, j, u)'
        PROVE  h = k /\ i = j
    <3>1. Asked(h, Later(h, g, i), u) /\ Asked(k, Later(k, g, j), u)
      BY <1>20, <2>5
    <3>2. h = k /\ Later(h, g, i) = Later(k, g, j)
      BY <2>1, <3>1 DEF OneAtMost
    <3>3. QED
      BY <1>20, <2>5, <3>2
  <2>6. ASSUME NEW h \in Procs, NEW k \in Procs, NEW i, NEW j, Asked(h, i, u)', Said(k, j, u)'
        PROVE  FALSE
    BY <1>20, <2>1, <2>2, <2>6 DEF OneAtMost
  <2>7. \A h, k \in Procs : \A i, j : Said(h, i, u)' /\ Said(k, j, u)' => h = k /\ i = j
    BY <2>1, <2>2 DEF OneAtMost
  <2>8. OneAtMost(u)'
    BY <2>5, <2>6, <2>7 DEF OneAtMost
  <2>9. QED
    BY <1>21, <2>1, <2>4, <2>8 DEF Routed, Waits
<1>23. ASSUME NEW u \in Tasks, w = u
       PROVE  Routed(u)'
  <2>1. Asked(g, 1, u)
    BY <1>2, <1>18, <1>23 DEF Asked
  <2>2. Routed(u) /\ OneAtMost(u) /\ Waits(u)
    BY <2>1 DEF PendingInv, Routed, UnderWay
  <2>3. \A h \in Procs : \A i : Said(h, i, u)' <=> h = g /\ i = end
    BY <1>19, <1>23, <2>1, <2>2 DEF OneAtMost
  <2>4. \A h \in Procs : \A i : ~Asked(h, i, u)'
    BY <1>20, <2>1, <2>2 DEF OneAtMost
  <2>5. OneAtMost(u)'
    BY <2>3, <2>4 DEF OneAtMost
  <2>6. UnderWay(u)'
    BY <2>3 DEF UnderWay
  <2>7. QED
    BY <1>21, <2>2, <2>5, <2>6 DEF Routed, Waits
<1>24. \A u \in Tasks : Routed(u)'
  BY <1>22, <1>23
<1>25. QED
  BY <1>17, <1>24 DEF PendingInv

\* Disowning changes the addressee, and no one else's.
LEMMA DisownElements ==
  ASSUME NEW t, NEW q, NEW i \in DOMAIN q, q[i] \in Requests \/ q[i] \in Messages
  PROVE  /\ Disown(q, t)[i].task = IF q[i].task = t THEN Nobody ELSE q[i].task
         /\ q[i] \in Messages => Disown(q, t)[i].body = q[i].body
<1>1. Disown(q, t)[i] = IF q[i].task = t THEN [q[i] EXCEPT !.task = Nobody] ELSE q[i]
  BY DEF Disown
<1>2. \A m \in Requests : [m EXCEPT !.task = Nobody].task = Nobody
  BY DEF Requests
<1>3. \A m \in Messages :
        [m EXCEPT !.task = Nobody].task = Nobody /\ [m EXCEPT !.task = Nobody].body = m.body
  BY DEF Messages
<1>4. CASE q[i].task = t
  <2>1. Disown(q, t)[i] = [q[i] EXCEPT !.task = Nobody]
    BY <1>1, <1>4
  <2>2. QED
    BY <1>2, <1>3, <1>4, <2>1
<1>5. CASE q[i].task # t
  BY <1>1, <1>5
<1>6. QED
  BY <1>4, <1>5

\* What is under way for a dropped call is for nobody from then on.
LEMMA CancelPending ==
  ASSUME TypeOK, PendingInv, NEW t \in Tasks, Cancel(t)
  PROVE  PendingInv'
<1>1. t # Nobody
  BY TasksAssumption
<1>2. \A g \in Procs : inq'[g] = Disown(inq[g], t) /\ outq'[g] = Disown(outq[g], t)
  BY DEF Cancel
<1>3. ASSUME NEW g \in Procs
      PROVE  /\ \A i \in DOMAIN inq[g] : inq[g][i] \in Requests
             /\ \A i \in DOMAIN outq[g] : outq[g][i] \in Messages
  <2>1. inq[g] \in Seq(Requests) /\ outq[g] \in Seq(Messages)
    BY DEF TypeOK, AdapterTypeOK
  <2>2. QED
    BY <2>1, ElementOfSeq, LenProperties
<1>4. \A g \in Procs : \A i \in DOMAIN inq[g] :
        inq'[g][i].task = IF inq[g][i].task = t THEN Nobody ELSE inq[g][i].task
  BY <1>2, <1>3, DisownElements
<1>5. \A g \in Procs : \A i \in DOMAIN outq[g] :
        outq'[g][i].task = IF outq[g][i].task = t THEN Nobody ELSE outq[g][i].task
  BY <1>2, <1>3, DisownElements
<1>6. \A g \in Procs : \A i \in DOMAIN outq[g] : outq'[g][i].body = outq[g][i].body
  BY <1>2, <1>3, DisownElements
<1>7. \A g \in Procs : DOMAIN inq'[g] = DOMAIN inq[g] /\ DOMAIN outq'[g] = DOMAIN outq[g]
  BY <1>2 DEF Disown
<1>8. EventsForNobody'
  <2>1. \A h \in Procs : \A i \in DOMAIN outq'[h] : outq'[h][i].body \in Events => outq'[h][i].task = Nobody
    BY <1>5, <1>6, <1>7 DEF PendingInv, EventsForNobody
  <2>2. QED
    BY <2>1 DEF EventsForNobody
<1>9. /\ pc'[t] = "idle" /\ answer'[t] = NoAnswer
       /\ \A u \in Tasks \ {t} : pc'[u] = pc[u] /\ answer'[u] = answer[u]
  BY DEF Cancel, Goto, TypeOK, TaskTypeOK
<1>10. ASSUME NEW u \in Tasks \ {t}
       PROVE  Routed(u)'
  <2>1. u # Nobody
    BY TasksAssumption
  <2>2. \A g \in Procs : \A i :
          (Asked(g, i, u)' <=> Asked(g, i, u)) /\ (Said(g, i, u)' <=> Said(g, i, u))
    BY <1>4, <1>5, <1>7, <1>10, <2>1 DEF Asked, Said
  <2>3. QED
    BY <1>9, <2>2, StaysRouted DEF PendingInv
<1>11. Routed(t)'
  <2>1. \A g \in Procs : \A i : ~Asked(g, i, t)' /\ ~Said(g, i, t)'
    BY <1>1, <1>4, <1>5, <1>7 DEF Asked, Said
  <2>2. QED
    BY <1>9, <2>1 DEF Routed, UnderWay, OneAtMost, Waits
<1>12. QED
  BY <1>8, <1>10, <1>11 DEF PendingInv

LEMMA NextPending == TypeOK /\ PendingInv /\ [Next]_vars => PendingInv'
<1> SUFFICES ASSUME TypeOK, PendingInv, [Next]_vars PROVE PendingInv'
  OBVIOUS
<1>1. ASSUME NEW t \in Tasks, Call(t) \/ TakeEvent(t) PROVE PendingInv'
  BY <1>1, CallPending
<1>2. ASSUME NEW t \in Tasks, Step(t) PROVE PendingInv'
  BY <1>2, StepPending, SendPending, ReceivePending
<1>3. ASSUME NEW t \in Tasks, Cancel(t) PROVE PendingInv'
  BY <1>3, CancelPending
<1>4. ASSUME NEW g \in Procs, Read(g) PROVE PendingInv'
  BY <1>4, ReadPending
<1>5. ASSUME NEW g \in Procs, Serve(g) PROVE PendingInv'
  BY <1>5, ServePending
<1>6. ASSUME NEW g \in Procs, Stop(g) \/ Exit(g) PROVE PendingInv'
  BY <1>6, StopPending
<1>7. CASE UNCHANGED <<inq, outq, answer, pc>>
  <2>1. \A u \in Tasks : Routed(u)'
    BY <1>7, StaysRouted DEF PendingInv, Asked, Said
  <2>2. EventsForNobody'
    BY <1>7 DEF PendingInv, EventsForNobody
  <2>3. QED
    BY <2>1, <2>2 DEF PendingInv
<1>8. ASSUME NEW g \in Procs, Crash(g) PROVE PendingInv'
  BY <1>7, <1>8 DEF Crash, tasks
<1>9. CASE UNCHANGED vars
  BY <1>7, <1>9 DEF vars, adapter, tasks
<1>10. QED
  BY <1>1, <1>2, <1>3, <1>4, <1>5, <1>6, <1>8, <1>9 DEF Next

\* What is under way, as ExactlyOneAnswer sees it and by its places.
LEMMA InFlightPlaces ==
  ASSUME NEW t
  PROVE  \A x : x \in InFlight(t) <=>
           \E g \in Procs : \E i : \/ x = <<"inq", g, i>> /\ Asked(g, i, t)
                                   \/ x = <<"outq", g, i>> /\ Said(g, i, t)
<1>1. ASSUME NEW x, x \in InFlight(t)
      PROVE  \E g \in Procs : \E i : \/ x = <<"inq", g, i>> /\ Asked(g, i, t)
                                     \/ x = <<"outq", g, i>> /\ Said(g, i, t)
  <2>1. PICK g \in Procs : \/ x \in {"inq"} \X {g} \X Carrying(inq[g], t)
                           \/ x \in {"outq"} \X {g} \X Carrying(outq[g], t)
    BY <1>1 DEF InFlight
  <2>2. QED
    BY <2>1 DEF Carrying, Asked, Said
<1>2. ASSUME NEW g \in Procs, NEW i
      PROVE  /\ Asked(g, i, t) => <<"inq", g, i>> \in InFlight(t)
             /\ Said(g, i, t) => <<"outq", g, i>> \in InFlight(t)
  BY DEF InFlight, Carrying, Asked, Said
<1>3. QED
  BY <1>1, <1>2

LEMMA RoutedAnswers ==
  ASSUME NEW t \in Tasks, Routed(t)
  PROVE  /\ answer[t] # NoAnswer => pc[t] = "wait"
         /\ IF pc[t] = "wait" /\ answer[t] = NoAnswer
              THEN \E x \in InFlight(t) : InFlight(t) = {x}
              ELSE InFlight(t) = {}
<1>1. CASE Waits(t)
  <2>1. UnderWay(t) /\ OneAtMost(t)
    BY <1>1 DEF Routed
  <2>2. PICK g \in Procs : \E i : Asked(g, i, t) \/ Said(g, i, t)
    BY <2>1 DEF UnderWay
  <2>3. PICK i : Asked(g, i, t) \/ Said(g, i, t)
    BY <2>2
  <2>4. CASE Asked(g, i, t)
    <3>1. \A h \in Procs : \A j : ~Said(h, j, t) /\ (Asked(h, j, t) => h = g /\ j = i)
      BY <2>1, <2>4 DEF OneAtMost
    <3>2. \A x : x \in InFlight(t) <=> x = <<"inq", g, i>>
      BY <2>4, <3>1, InFlightPlaces
    <3>3. InFlight(t) = {<<"inq", g, i>>}
      BY <3>2
    <3>4. QED
      BY <1>1, <3>3 DEF Waits
  <2>5. CASE Said(g, i, t)
    <3>1. \A h \in Procs : \A j : ~Asked(h, j, t) /\ (Said(h, j, t) => h = g /\ j = i)
      BY <2>1, <2>5 DEF OneAtMost
    <3>2. \A x : x \in InFlight(t) <=> x = <<"outq", g, i>>
      BY <2>5, <3>1, InFlightPlaces
    <3>3. InFlight(t) = {<<"outq", g, i>>}
      BY <3>2
    <3>4. QED
      BY <1>1, <3>3 DEF Waits
  <2>6. QED
    BY <2>3, <2>4, <2>5
<1>2. CASE ~Waits(t)
  <2>1. \A g \in Procs : \A i : ~Asked(g, i, t) /\ ~Said(g, i, t)
    BY <1>2 DEF Routed, UnderWay
  <2>2. InFlight(t) = {}
    BY <2>1, InFlightPlaces
  <2>3. QED
    BY <1>2, <2>2 DEF Waits, Routed
<1>3. QED
  BY <1>1, <1>2

\* client.rs, the pending map: whatever calls are made, answered and dropped, and whatever
\* processes come and go, a call that waits is owed exactly one answer, and none but it.
THEOREM EveryCallIsAnsweredOnce == Spec => []ExactlyOneAnswer
<1>1. PendingInv => ExactlyOneAnswer
  BY RoutedAnswers DEF PendingInv, ExactlyOneAnswer
<1>2. QED
  BY <1>1, TypeCorrect, InitPending, NextPending, PTL DEF Spec

-----------------------------------------------------------------------------
(* Where the operations lead.                                              *)

LEMMA ToolsAreNotEvents == \A o \in Tools : o \in Operations /\ o \notin Events /\ o # "none"
BY ToolsAssumption DEF Operations, Events, Resuming, Breakpoints, Inspecting

\* Where the control-flow tables lead.
LEMMA AfterReplyPlaces ==
  ASSUME NEW o, NEW l, l = AfterReply(o) \/ l = AfterFailure(o)
  PROVE  /\ l \in {"idle", "kill", "clear_halt", "transition", "update_bps", "cache_vars"}
         /\ l = "kill" => o \in Closing
         /\ l = "clear_halt" => o \in Resuming
         /\ l = "transition" => o \in {"initialize", "configuration_done"}
         /\ l = "update_bps" => o \in Breakpoints
         /\ l = "cache_vars" => o = "get_variables"
BY DEF AfterReply, AfterFailure

LEMMA AfterGatePlaces ==
  ASSUME NEW o
  PROVE  /\ AfterGate(o) \in {"is_running", "idle", "send"}
         /\ AfterGate(o) = "is_running" => o = "start"
         /\ AfterGate(o) = "send" => o # "start"
BY DEF AfterGate

LEMMA TargetPlaces ==
  ASSUME NEW o, o \in Events \cup {"start", "initialize", "configuration_done", "shutdown"} \cup Resuming
  PROVE  /\ Target(o) = "Disconnected" <=> o \in Closing
         /\ Target(o) = "Connected" <=> o = "start"
BY DEF Target, Events, Closing, Resuming

\* The label says which step it is.
LEMMA StepAt ==
  ASSUME NEW t, Step(t)
  PROVE  /\ pc[t] = "gate" => Gate(t)
         /\ pc[t] = "is_running" => IsRunning(t)
         /\ pc[t] = "spawn" => SpawnFails(t) \/ Spawn(t)
         /\ pc[t] = "set_stdin" => SetStdin(t)
         /\ pc[t] = "set_child" => SetChild(t)
         /\ pc[t] = "set_kind" => SetKind(t)
         /\ pc[t] = "send" => Send(t)
         /\ pc[t] = "wait" => Receive(t)
         /\ pc[t] = "recheck" => Recheck(t)
         /\ pc[t] = "clear_halt" => ClearHalt(t)
         /\ pc[t] = "transition" => transition_to(t)
         /\ pc[t] = "kill" => Kill(t)
         /\ pc[t] = "clear_bps" => ClearBreakpoints(t)
BY DEF Step, Gate, IsRunning, SpawnFails, Spawn, SetStdin, SetChild, SetKind, Send, Receive,
   SetHalt, ClearHalt, Recheck, transition_to, Kill, ClearBreakpoints, UpdateBreakpoints,
   CacheVariables

\* The operations that pass each label, and what they are admitted to.
Staged(t) ==
  /\ pc[t] = "gate" => op[t] \in Tools
  /\ pc[t] \in {"is_running", "spawn", "set_stdin", "set_child", "set_kind"} =>
       op[t] = "start" /\ op[t] \in Tools
  /\ pc[t] \in {"send", "wait"} => op[t] \in (Tools \ {"start"}) \cup Closing
  /\ pc[t] = "set_halt" => op[t] = "stopped"
  /\ pc[t] = "clear_halt" => op[t] \in (Tools \cap Resuming) \cup {"continued"}
  /\ pc[t] = "recheck" => op[t] \in Closing \cup {"initialized", "continued"}
  /\ pc[t] = "transition" =>
       \/ op[t] \in Events
       \/ op[t] \in Tools /\ op[t] \in {"start", "initialize", "configuration_done", "shutdown"} \cup Resuming
  /\ pc[t] \in {"kill", "clear_bps"} => op[t] \in Closing
  /\ pc[t] = "cache_vars" => op[t] = "get_variables" /\ op[t] \in Tools
  /\ pc[t] \in {"update_bps", "update_bps_again"} => op[t] \in Tools \cap Breakpoints


-----------------------------------------------------------------------------
(* What is said in the pipes and in the channel.                           *)

\* The i-th message in the pipe of process g, and the i-th event in the channel.
Told(g, i, word)   == i \in DOMAIN outq[g] /\ outq[g][i].body = word
Announced(i, word) == i \in DOMAIN events /\ events[i].name = word

LEMMA NothingUnderWay ==
  ASSUME PendingInv, NEW t \in Tasks, pc[t] # "wait"
  PROVE  /\ answer[t] = NoAnswer
         /\ \A g \in Procs : \A i : ~Asked(g, i, t) /\ ~Said(g, i, t)
BY DEF PendingInv, Routed, Waits, UnderWay

\* No adapter says any more that its program continues,
PipeQuiet(g) == \A i : ~Told(g, i, "continued")
LineQuiet    == \A i : ~Announced(i, "continued")
\* or it says afterwards that it has stopped.
PipeStops(g) == \E j : Told(g, j, "stopped") /\ \A i : Told(g, i, "continued") => i < j
LineStops    == \E j : Announced(j, "stopped") /\ \A i : Announced(i, "continued") => i < j

\* Every word of a pipe that is read from moves up by one, except the first.
LEMMA WordsRead ==
  ASSUME TypeOK, NEW g \in Procs, Read(g)
  PROVE  /\ outq[g] # <<>> /\ 1 \in DOMAIN outq[g] /\ Head(outq[g]) = outq[g][1]
         /\ Head(outq[g]) \in Messages
         /\ \A h \in Procs : h # g => outq'[h] = outq[h]
         /\ \A i \in DOMAIN outq'[g] : i \in Nat \ {0} /\ i + 1 \in DOMAIN outq[g] /\ outq'[g][i] = outq[g][i + 1]
         /\ \A j \in DOMAIN outq[g] : j \in Nat \ {0}
         /\ \A j \in DOMAIN outq[g] : j # 1 => j - 1 \in DOMAIN outq'[g] /\ outq'[g][j - 1] = outq[g][j]
<1>1. outq \in [Procs -> Seq(Messages)] /\ outq[g] # <<>> /\ outq' = [outq EXCEPT ![g] = Tail(@)]
  BY DEF Read, TypeOK, AdapterTypeOK
<1>2. outq'[g] = Tail(outq[g]) /\ \A h \in Procs : h # g => outq'[h] = outq[h]
  BY <1>1
<1>3. /\ Tail(outq[g]) \in Seq(Messages)
      /\ \A i \in DOMAIN Tail(outq[g]) : i \in Nat /\ i + 1 \in DOMAIN outq[g] /\ Tail(outq[g])[i] = outq[g][i + 1]
      /\ \A j \in DOMAIN outq[g] : j # 1 => j - 1 \in DOMAIN Tail(outq[g]) /\ Tail(outq[g])[j - 1] = outq[g][j]
      /\ 1 \in DOMAIN outq[g] /\ Head(outq[g]) = outq[g][1] /\ Head(outq[g]) \in Messages
  BY <1>1, TailElements
<1>4. /\ \A i \in DOMAIN Tail(outq[g]) : i \in Nat \ {0}
      /\ \A j \in DOMAIN outq[g] : j \in Nat \ {0}
  BY <1>1, <1>3, LenProperties
<1>5. QED
  BY <1>1, <1>2, <1>3, <1>4

LEMMA PipeRead ==
  ASSUME TypeOK, NEW g \in Procs, Read(g), NEW h \in Procs
  PROVE  /\ PipeQuiet(h) => PipeQuiet(h)'
         /\ PipeStops(h) => PipeStops(h)' \/ (h = g /\ Head(outq[g]).body = "stopped" /\ PipeQuiet(g)')
         /\ h = g /\ PipeQuiet(g) => Head(outq[g]).body # "continued"
<1>1. CASE h # g
  BY <1>1, WordsRead DEF PipeQuiet, PipeStops, Told
<1>2. CASE h = g
  <2>1. /\ 1 \in DOMAIN outq[g] /\ Head(outq[g]) = outq[g][1]
        /\ \A i, w : Told(g, i, w)' => i \in Nat \ {0} /\ Told(g, i + 1, w)
        /\ \A j, w : Told(g, j, w) => j \in Nat \ {0}
        /\ \A j, w : Told(g, j, w) /\ j # 1 => Told(g, j - 1, w)'
    BY WordsRead DEF Told
  <2>2. PipeQuiet(g) => PipeQuiet(g)' /\ Head(outq[g]).body # "continued"
    BY <2>1 DEF PipeQuiet, Told
  <2>3. ASSUME PipeStops(g)
        PROVE  PipeStops(g)' \/ (Head(outq[g]).body = "stopped" /\ PipeQuiet(g)')
    <3>1. PICK j : Told(g, j, "stopped") /\ \A i : Told(g, i, "continued") => i < j
      BY <2>3 DEF PipeStops
    <3>2. CASE j = 1
      <4>1. \A i : ~Told(g, i, "continued")
        BY <2>1, <3>1, <3>2
      <4>2. outq[g][1].body = "stopped"
        BY <3>1, <3>2 DEF Told
      <4>3. QED
        BY <2>1, <2>2, <4>1, <4>2 DEF PipeQuiet
    <3>3. CASE j # 1
      <4>1. j \in Nat /\ Told(g, j - 1, "stopped")'
        BY <2>1, <3>1, <3>3
      <4>2. ASSUME NEW i, Told(g, i, "continued")' PROVE i < j - 1
        <5>1. i \in Nat /\ i + 1 < j
          BY <2>1, <3>1, <4>2
        <5>2. QED
          BY <4>1, <5>1
      <4>3. QED
        BY <4>1, <4>2 DEF PipeStops
    <3>4. QED
      BY <3>2, <3>3
  <2>4. QED
    BY <1>2, <2>2, <2>3
<1>3. QED
  BY <1>1, <1>2

\* What the reader puts into the channel comes last in it.
LEMMA LineGrows ==
  ASSUME TypeOK, NEW g \in Procs, Read(g), Head(outq[g]).body \in Events
  PROVE  \E n \in Nat :
           /\ \A i, w : Announced(i, w)' <=> Announced(i, w) \/ (i = n /\ w = Head(outq[g]).body)
           /\ \A i, w : Announced(i, w) => i < n
<1>1. PICK m \in Messages : m = Head(outq[g])
  BY WordsRead
<1>2. m.body \in Events /\ m.body \notin {"ok", "failed"}
  BY <1>1 DEF Events
<1>3. PICK e \in [name : Events, stamp : Stamps] : e = [name |-> m.body, stamp |-> m.stamp]
  BY <1>2 DEF Messages
<1>4. events' = Append(events, e) /\ events \in Seq([name : Events, stamp : Stamps])
  BY <1>1, <1>2, <1>3 DEF Read, TypeOK, ClientTypeOK
<1>5. PICK n \in Nat : n = Len(events) + 1
  BY <1>4, LenProperties
<1>6. /\ DOMAIN events' = DOMAIN events \cup {n}
      /\ \A i \in DOMAIN events : events'[i] = events[i] /\ i < n
      /\ events'[n] = e
  <2>1. /\ DOMAIN events' = DOMAIN events \cup {Len(events) + 1}
        /\ \A i \in DOMAIN events : events'[i] = events[i]
        /\ events'[Len(events) + 1] = e
    BY <1>4, AppendElements
  <2>2. \A i \in DOMAIN events : i < n
    BY <1>4, <1>5, LenProperties
  <2>3. QED
    BY <1>5, <2>1, <2>2
<1>7. QED
  BY <1>1, <1>3, <1>6 DEF Announced

LEMMA LineRead ==
  ASSUME TypeOK, NEW g \in Procs, Read(g)
  PROVE  /\ Head(outq[g]).body = "stopped" => LineStops'
         /\ LineQuiet /\ Head(outq[g]).body # "continued" => LineQuiet'
         /\ LineStops /\ Head(outq[g]).body # "continued" => LineStops'
<1>1. PICK m \in Messages : m = Head(outq[g])
  BY WordsRead
<1>2. CASE m.body \notin Events
  <2>1. events' = events /\ m.body # "stopped"
    BY <1>1, <1>2 DEF Read, Events
  <2>2. QED
    BY <1>1, <2>1 DEF LineQuiet, LineStops, Announced
<1>3. CASE m.body \in Events
  <2>1. PICK n \in Nat :
          /\ \A i, w : Announced(i, w)' <=> Announced(i, w) \/ (i = n /\ w = m.body)
          /\ \A i, w : Announced(i, w) => i < n
    BY <1>1, <1>3, LineGrows
  <2>2. m.body = "stopped" => LineStops'
    <3>1. ASSUME m.body = "stopped"
          PROVE  Announced(n, "stopped")' /\ \A i : Announced(i, "continued")' => i < n
      BY <2>1, <3>1
    <3>2. QED
      BY <3>1 DEF LineStops
  <2>3. LineQuiet /\ m.body # "continued" => LineQuiet'
    BY <2>1 DEF LineQuiet
  <2>4. LineStops /\ m.body # "continued" => LineStops'
    BY <2>1 DEF LineStops
  <2>5. QED
    BY <1>1, <2>2, <2>3, <2>4
<1>4. QED
  BY <1>2, <1>3

\* The event that is taken came first in it.
LEMMA LineShifts ==
  ASSUME TypeOK, NEW t \in Tasks, TakeEvent(t)
  PROVE  /\ \A i, w : Announced(i, w)' => i \in Nat \ {0} /\ Announced(i + 1, w)
         /\ \A j, w : Announced(j, w) => j \in Nat \ {0}
         /\ \A j, w : Announced(j, w) /\ j # 1 => Announced(j - 1, w)'
         /\ Announced(1, op'[t])
<1>1. events \in Seq([name : Events, stamp : Stamps]) /\ events # <<>> /\ events' = Tail(events)
  BY DEF TakeEvent, TypeOK, ClientTypeOK
<1>2. /\ \A i \in DOMAIN Tail(events) : i \in Nat /\ i + 1 \in DOMAIN events /\ Tail(events)[i] = events[i + 1]
      /\ \A j \in DOMAIN events : j # 1 => j - 1 \in DOMAIN Tail(events) /\ Tail(events)[j - 1] = events[j]
      /\ 1 \in DOMAIN events /\ Head(events) = events[1]
  BY <1>1, TailElements
<1>3. \A j \in DOMAIN events : j \in Nat \ {0}
  BY <1>1, LenProperties
<1>4. \A j \in DOMAIN Tail(events) : j \in Nat \ {0}
  BY <1>1, HeadTailProperties, LenProperties
<1>5. op'[t] = events[1].name
  BY <1>2 DEF TakeEvent, TypeOK, TaskTypeOK
<1>6. QED
  BY <1>1, <1>2, <1>3, <1>4, <1>5 DEF Announced

LEMMA LineTaken ==
  ASSUME TypeOK, NEW t \in Tasks, TakeEvent(t)
  PROVE  /\ LineQuiet => LineQuiet' /\ op'[t] # "continued"
         /\ LineStops => LineStops' \/ (LineQuiet' /\ op'[t] = "stopped")
<1>1. LineQuiet => LineQuiet' /\ op'[t] # "continued"
  BY LineShifts DEF LineQuiet
<1>2. ASSUME LineStops
      PROVE  LineStops' \/ (LineQuiet' /\ op'[t] = "stopped")
  <2>1. PICK j : Announced(j, "stopped") /\ \A i : Announced(i, "continued") => i < j
    BY <1>2 DEF LineStops
  <2>2. CASE j = 1
    <3>1. \A i : ~Announced(i, "continued")
      BY <2>1, <2>2, LineShifts
    <3>2. op'[t] = "stopped"
      BY <2>1, <2>2, LineShifts DEF Announced
    <3>3. QED
      BY <1>1, <3>1, <3>2 DEF LineQuiet
  <2>3. CASE j # 1
    <3>1. j \in Nat /\ Announced(j - 1, "stopped")'
      BY <2>1, <2>3, LineShifts
    <3>2. ASSUME NEW i, Announced(i, "continued")' PROVE i < j - 1
      <4>1. i \in Nat /\ i + 1 < j
        BY <2>1, <3>2, LineShifts
      <4>2. QED
        BY <3>1, <4>1
    <3>3. QED
      BY <3>1, <3>2 DEF LineStops
  <2>4. QED
    BY <2>2, <2>3
<1>3. QED
  BY <1>1, <1>2

\* What is written to a pipe comes last in it, after the n words that are there.
Written(g, more, n) ==
  /\ n \in Nat
  /\ \A h \in Procs : h # g => outq'[h] = outq[h]
  /\ \A i \in DOMAIN outq[g] :
       i \in Nat /\ i <= n /\ i \in DOMAIN outq'[g] /\ outq'[g][i] = outq[g][i]
  /\ \A i \in DOMAIN outq'[g] :
       \/ i \in DOMAIN outq[g]
       \/ i \in Nat /\ n < i /\ i - n \in DOMAIN more /\ outq'[g][i] = more[i - n]
  /\ 1 \in DOMAIN more => n + 1 \in DOMAIN outq'[g] /\ outq'[g][n + 1] = more[1]

LEMMA WordsWritten ==
  ASSUME TypeOK, NEW g \in Procs, NEW more \in Seq(Messages), outq' = [outq EXCEPT ![g] = @ \o more]
  PROVE  Written(g, more, Len(outq[g]))
<1>0. PICK n : n = Len(outq[g])
  OBVIOUS
<1>1. outq \in [Procs -> Seq(Messages)]
  BY DEF TypeOK, AdapterTypeOK
<1>2. PICK q \in Seq(Messages) : q = outq[g]
  BY <1>1
<1>3. outq'[g] = q \o more /\ \A h \in Procs : h # g => outq'[h] = outq[h]
  BY <1>1, <1>2
<1>4. /\ n \in Nat /\ DOMAIN q = 1..n /\ Len(more) \in Nat /\ DOMAIN more = 1..Len(more)
  BY <1>0, <1>2, LenProperties
<1>5. PICK p \in Seq(Messages) : p = q \o more
  BY ConcatProperties
<1>6. /\ DOMAIN p = 1..(n + Len(more))
      /\ \A i \in 1..(n + Len(more)) : p[i] = IF i <= n THEN q[i] ELSE more[i - n]
  <2>1. Len(p) = n + Len(more)
    BY <1>0, <1>2, <1>5, ConcatProperties
  <2>2. QED
    BY <1>0, <1>2, <1>5, <2>1, ConcatProperties, LenProperties
<1>7. \A i \in 1..n : i \in Nat /\ i <= n /\ i \in 1..(n + Len(more))
  BY <1>4
<1>8. \A i \in 1..(n + Len(more)) : i \in 1..n \/ (i \in Nat /\ n < i /\ ~(i <= n) /\ i - n \in 1..Len(more))
  BY <1>4
<1>9. 1 \in 1..Len(more) => n + 1 \in 1..(n + Len(more)) /\ ~(n + 1 <= n) /\ (n + 1) - n = 1
  BY <1>4
<1>10. /\ \A i \in DOMAIN q : i \in Nat /\ i <= n /\ i \in DOMAIN p /\ p[i] = q[i]
       /\ \A i \in DOMAIN p : i \in DOMAIN q \/ (i \in Nat /\ n < i /\ i - n \in DOMAIN more /\ p[i] = more[i - n])
       /\ 1 \in DOMAIN more => n + 1 \in DOMAIN p /\ p[n + 1] = more[1]
  BY <1>4, <1>6, <1>7, <1>8, <1>9
<1>11. Written(g, more, n)
  BY <1>2, <1>3, <1>4, <1>5, <1>10 DEF Written
<1>12. QED
  BY <1>0, <1>11

LEMMA PipeWritten ==
  ASSUME TypeOK, NEW g \in Procs, NEW more \in Seq(Messages), outq' = [outq EXCEPT ![g] = @ \o more],
         \A k \in DOMAIN more : more[k].body # "continued", NEW h \in Procs
  PROVE  /\ PipeQuiet(h) => PipeQuiet(h)'
         /\ PipeStops(h) => PipeStops(h)'
         /\ \A i : Told(h, i, "continued")' => Told(h, i, "continued")
<1>1. PICK n : Written(g, more, n)
  BY WordsWritten
<1>2. /\ \A i, w : Told(h, i, w) => Told(h, i, w)'
      /\ \A i : Told(h, i, "continued")' => Told(h, i, "continued")
  <2>1. CASE h # g
    BY <1>1, <2>1 DEF Told, Written
  <2>2. CASE h = g
    BY <1>1, <2>2 DEF Told, Written
  <2>3. QED
    BY <2>1, <2>2
<1>3. QED
  BY <1>2 DEF PipeQuiet, PipeStops

\* What a pipe keeps when something is written to it.
LEMMA WrittenPlaces ==
  ASSUME NEW t \in Tasks, NEW g \in Procs, NEW more, NEW n, Written(g, more, n)
  PROVE  /\ \A h \in Procs : \A i, w : h # g => (Said(h, i, t)' <=> Said(h, i, t)) /\ (Told(h, i, w)' <=> Told(h, i, w))
         /\ \A h \in Procs : \A i, w : (Said(h, i, t) => Said(h, i, t)') /\ (Told(h, i, w) => Told(h, i, w)')
         /\ \A i, w : Said(g, i, t) /\ Told(g, i, w)' => Told(g, i, w)
         /\ \A i : Said(g, i, t)' => Said(g, i, t) \/
              (i \in Nat /\ n < i /\ i - n \in DOMAIN more /\ more[i - n].task = t)
         /\ \A i, w : Told(g, i, w) => i \in Nat /\ i <= n
BY DEF Written, Said, Told

\* A stop that the adapter reports comes last in its pipe.
LEMMA StopComesLast ==
  ASSUME TypeOK, NEW g \in Procs, NEW more \in Seq(Messages), outq' = [outq EXCEPT ![g] = @ \o more],
         DOMAIN more = {1}, more[1].body = "stopped"
  PROVE  PipeStops(g)'
<1>1. PICK n : Written(g, more, n)
  BY WordsWritten
<1>2. n \in Nat
  BY <1>1 DEF Written
<1>3. n + 1 \in DOMAIN outq'[g] /\ outq'[g][n + 1] = more[1]
  <2>1. 1 \in DOMAIN more
    OBVIOUS
  <2>2. QED
    BY <1>1, <2>1 DEF Written
<1>4. Told(g, n + 1, "stopped")'
  BY <1>3 DEF Told
<1>5. ASSUME NEW i, Told(g, i, "continued")' PROVE i < n + 1
  <2>1. CASE i \in DOMAIN outq[g]
    <3>1. i \in Nat /\ i <= n
      BY <1>1, <2>1 DEF Written
    <3>2. QED
      BY <1>2, <3>1
  <2>2. CASE i \notin DOMAIN outq[g]
    <3>1. i \in DOMAIN outq'[g] /\ outq'[g][i].body = "continued"
      BY <1>5 DEF Told
    <3>2. i - n \in DOMAIN more /\ outq'[g][i] = more[i - n]
      BY <1>1, <2>2, <3>1 DEF Written
    <3>3. QED
      BY <3>1, <3>2
  <2>3. QED
    BY <2>1, <2>2
<1>6. QED
  BY <1>4, <1>5 DEF PipeStops

LEMMA StopSays ==
  ASSUME TypeOK, NEW g \in Procs, Stop(g)
  PROVE  \E more \in Seq(Messages) :
           /\ outq' = [outq EXCEPT ![g] = @ \o more]
           /\ DOMAIN more = {1} /\ more[1].body = "stopped" /\ more[1].task = Nobody
<1>1. "stopped" \in Events /\ <<"stopped">> \in Seq(Events) /\ DOMAIN <<"stopped">> = {1}
  BY DEF Events
<1>2. stops[g] + 1 \in 0..MaxStops
  BY BoundsAssumption DEF Stop, TypeOK, AdapterTypeOK
<1>3. PICK more \in Seq(Messages) : more = Announce(g, <<"stopped">>, stops[g] + 1)
  BY <1>1, <1>2, AnnounceType, BoundsAssumption
<1>4. DOMAIN more = {1} /\ more[1].body = "stopped" /\ more[1].task = Nobody
  BY <1>1, <1>3 DEF Announce
<1>5. outq' = [outq EXCEPT ![g] = @ \o more]
  BY <1>3 DEF Stop
<1>6. QED
  BY <1>4, <1>5

LEMMA StopWritten ==
  ASSUME TypeOK, NEW g \in Procs, Stop(g)
  PROVE  PipeStops(g)'
BY StopSays, StopComesLast

\* The end of the program is no move of it.
LEMMA ExitSays ==
  ASSUME TypeOK, NEW g \in Procs, Exit(g)
  PROVE  \E more \in Seq(Messages) :
           /\ outq' = [outq EXCEPT ![g] = @ \o more]
           /\ \A k \in DOMAIN more : more[k].body # "continued"
           /\ \A k \in DOMAIN more : more[k].body \in {"exited", "terminated"} /\ more[k].task = Nobody
           /\ 1 \in DOMAIN more /\ more[1].body = "exited"
<1>1. PICK more : more = Announce(g, <<"exited", "terminated">>, stops[g])
  OBVIOUS
<1>2. <<"exited", "terminated">> \in Seq(Events) /\ stops[g] \in 0..MaxStops
  BY DEF Events, TypeOK, AdapterTypeOK
<1>3. more \in Seq(Messages)
  BY <1>1, <1>2, AnnounceType, BoundsAssumption
<1>4. /\ \A k \in DOMAIN more : more[k].body \in {"exited", "terminated"} /\ more[k].task = Nobody
      /\ 1 \in DOMAIN more /\ more[1].body = "exited"
  BY <1>1 DEF Announce
<1>5. \A k \in DOMAIN more : more[k].body # "continued"
  BY <1>4
<1>6. outq' = [outq EXCEPT ![g] = @ \o more]
  BY <1>1 DEF Exit
<1>7. QED
  BY <1>3, <1>4, <1>5, <1>6


-----------------------------------------------------------------------------
(* The requests, and how an adapter reacts.                                *)

\* What the reactions of an adapter do to its program, and say of it.
LEMMA ReactionsTrue ==
  ASSUME NEW g, NEW c, NEW d \in ProgramStates, NEW x \in Reactions(g, c, d)
  PROVE  /\ \A k \in DOMAIN x.announced : x.announced[k] = "continued" => c \in Resuming /\ x.next = "running"
         /\ x.next = "stopped" /\ x.result = "ok" => c \notin Resuming \cup {"configuration_done"}
         /\ x.next = "stopped" => d = "stopped"
         /\ d \in {"none", "launched", "exited"} =>
              \/ x.next \in {"none", "launched", "exited"}
              \/ c = "configuration_done" /\ x.result = "ok"
<1> USE DEF Accept, ProgramStates
<1>1. CASE c = "initialize"
  BY <1>1 DEF Reactions, Acceptances, Resuming
<1>2. CASE c \in {"launch", "attach"} /\ d = "none"
  BY <1>2 DEF Reactions, Acceptances, Resuming
<1>3. CASE c = "configuration_done" /\ d = "launched"
  BY <1>3 DEF Reactions, Acceptances, Resuming
<1>4. CASE c \in Resuming /\ d = "stopped"
  BY <1>4 DEF Reactions, Acceptances, Resuming, Breakpoints, Inspecting
<1>5. CASE c = "disconnect"
  BY <1>5 DEF Reactions, Acceptances, Resuming
<1>6. CASE \/ c \in Breakpoints
           \/ c \in {"pause", "get_threads"} /\ d = "running"
           \/ c \in Inspecting \cup {"get_threads"} /\ d = "stopped"
  BY <1>6 DEF Reactions, Acceptances, Resuming, Breakpoints, Inspecting
<1>7. CASE ~ \/ c = "initialize" \/ (c \in {"launch", "attach"} /\ d = "none")
             \/ (c = "configuration_done" /\ d = "launched") \/ (c \in Resuming /\ d = "stopped")
             \/ c = "disconnect" \/ c \in Breakpoints
             \/ (c \in {"pause", "get_threads"} /\ d = "running")
             \/ (c \in Inspecting \cup {"get_threads"} /\ d = "stopped")
  <2>1. x = [result |-> "failed", announced |-> <<>>, next |-> d]
    BY <1>7 DEF Reactions, Acceptances
  <2>2. QED
    BY <2>1
<1>8. QED
  BY <1>1, <1>2, <1>3, <1>4, <1>5, <1>6, <1>7

\* What an adapter makes of a program that stands at a stop, or has ended.
LEMMA ReactionsStop ==
  ASSUME NEW g, NEW c, NEW d \in ProgramStates, NEW x \in Reactions(g, c, d)
  PROVE  /\ \A k \in DOMAIN x.announced : x.announced[k] # "stopped"
         /\ c \in Resuming /\ d = "stopped" => x.next = IF x.result = "ok" THEN "running" ELSE "stopped"
         /\ d = "stopped" /\ c \notin Resuming => x.next = "stopped" \/ (c = "disconnect" /\ x.next = "exited")
         /\ d = "exited" => x.next = "exited"
<1> USE DEF Accept, ProgramStates
<1>1. CASE c = "initialize"
  BY <1>1 DEF Reactions, Acceptances, Resuming
<1>2. CASE c \in {"launch", "attach"} /\ d = "none"
  BY <1>2 DEF Reactions, Acceptances, Resuming
<1>3. CASE c = "configuration_done" /\ d = "launched"
  BY <1>3 DEF Reactions, Acceptances, Resuming
<1>4. CASE c \in Resuming /\ d = "stopped"
  BY <1>4 DEF Reactions, Acceptances, Resuming, Breakpoints, Inspecting
<1>5. CASE c = "disconnect"
  BY <1>5 DEF Reactions, Acceptances, Resuming
<1>6. CASE \/ c \in Breakpoints
           \/ c \in {"pause", "get_threads"} /\ d = "running"
           \/ c \in Inspecting \cup {"get_threads"} /\ d = "stopped"
  BY <1>6 DEF Reactions, Acceptances, Resuming, Breakpoints, Inspecting
<1>7. CASE ~ \/ c = "initialize" \/ (c \in {"launch", "attach"} /\ d = "none")
             \/ (c = "configuration_done" /\ d = "launched") \/ (c \in Resuming /\ d = "stopped")
             \/ c = "disconnect" \/ c \in Breakpoints
             \/ (c \in {"pause", "get_threads"} /\ d = "running")
             \/ (c \in Inspecting \cup {"get_threads"} /\ d = "stopped")
  <2>1. x = [result |-> "failed", announced |-> <<>>, next |-> d]
    BY <1>7 DEF Reactions, Acceptances
  <2>2. QED
    BY <1>7, <2>1
<1>8. QED
  BY <1>1, <1>2, <1>3, <1>4, <1>5, <1>6, <1>7

\* An adapter announces the end of its program when it is asked to end it.
LEMMA ReactionsEnd ==
  ASSUME NEW g, NEW c, NEW d \in ProgramStates, NEW x \in Reactions(g, c, d)
  PROVE  /\ \A k \in DOMAIN x.announced : x.announced[k] \in {"exited", "terminated"} => x.next = "exited"
         /\ x.next = "exited" => d = "exited" \/ c = "disconnect"
         /\ x.next \in ProgramStates
<1> USE DEF Accept, ProgramStates
<1>1. CASE c = "initialize"
  BY <1>1 DEF Reactions, Acceptances, Resuming
<1>2. CASE c \in {"launch", "attach"} /\ d = "none"
  BY <1>2 DEF Reactions, Acceptances, Resuming
<1>3. CASE c = "configuration_done" /\ d = "launched"
  BY <1>3 DEF Reactions, Acceptances, Resuming
<1>4. CASE c \in Resuming /\ d = "stopped"
  BY <1>4 DEF Reactions, Acceptances, Resuming, Breakpoints, Inspecting
<1>5. CASE c = "disconnect"
  BY <1>5 DEF Reactions, Acceptances, Resuming
<1>6. CASE \/ c \in Breakpoints
           \/ c \in {"pause", "get_threads"} /\ d = "running"
           \/ c \in Inspecting \cup {"get_threads"} /\ d = "stopped"
  BY <1>6 DEF Reactions, Acceptances, Resuming, Breakpoints, Inspecting
<1>7. CASE ~ \/ c = "initialize" \/ (c \in {"launch", "attach"} /\ d = "none")
             \/ (c = "configuration_done" /\ d = "launched") \/ (c \in Resuming /\ d = "stopped")
             \/ c = "disconnect" \/ c \in Breakpoints
             \/ (c \in {"pause", "get_threads"} /\ d = "running")
             \/ (c \in Inspecting \cup {"get_threads"} /\ d = "stopped")
  <2>1. x = [result |-> "failed", announced |-> <<>>, next |-> d]
    BY <1>7 DEF Reactions, Acceptances
  <2>2. QED
    BY <1>7, <2>1
<1>8. QED
  BY <1>1, <1>2, <1>3, <1>4, <1>5, <1>6, <1>7

\* Variables can be had of a program that stands at a stop only.
LEMMA ReactionsVariables ==
  ASSUME NEW g, NEW d, NEW x \in Reactions(g, "get_variables", d), x.result = "ok"
  PROVE  d = "stopped" /\ x.next = "stopped"
<1>1. CASE d = "stopped"
  BY <1>1 DEF Reactions, Acceptances, Accept, Resuming, Breakpoints, Inspecting
<1>2. CASE d # "stopped"
  <2>1. x = [result |-> "failed", announced |-> <<>>, next |-> d]
    BY <1>2 DEF Reactions, Acceptances, Resuming, Breakpoints, Inspecting
  <2>2. QED
    BY <2>1
<1>3. QED
  BY <1>1, <1>2

\* The response to the oldest request, and after it what the adapter has to announce.
Replied(g, r, x, more) ==
  /\ 1 \in DOMAIN inq[g] /\ r = inq[g][1] /\ g \in alive
  /\ inq' = [inq EXCEPT ![g] = Tail(@)] /\ inq[g] # <<>>
  /\ outq' = [outq EXCEPT ![g] = @ \o more]
  /\ debuggee' = [debuggee EXCEPT ![g] = x.next]
  /\ alive' = alive \/ (r.command = "disconnect" /\ alive' = alive \ {g})
  /\ 1 \in DOMAIN more /\ more[1].task = r.task /\ more[1].body = x.result
  /\ more[1].stamp = <<g, stops[g]>> /\ UNCHANGED stops
  /\ x.result \in {"ok", "failed"}
  /\ \A k \in DOMAIN more : k \in Nat /\ (k # 1 =>
       more[k].task = Nobody /\ \E l \in DOMAIN x.announced : more[k].body = x.announced[l])

LEMMA ServeReplies ==
  ASSUME TypeOK, NEW g \in Procs, Serve(g)
  PROVE  \E r \in Requests : \E x \in Reactions(g, r.command, debuggee[g]) :
           \E more \in Seq(Messages) : Replied(g, r, x, more)
<1>1. inq[g] \in Seq(Requests) /\ inq[g] # <<>> /\ inq' = [inq EXCEPT ![g] = Tail(@)] /\ g \in alive
  BY DEF Serve, TypeOK, AdapterTypeOK
<1>2. 1 \in DOMAIN inq[g] /\ Head(inq[g]) = inq[g][1] /\ Head(inq[g]) \in Requests
  BY <1>1, TailElements
<1>3. PICK r \in Requests : r = Head(inq[g])
  BY <1>2
<1>4. PICK x \in Reactions(g, r.command, debuggee[g]) :
        /\ debuggee' = [debuggee EXCEPT ![g] = x.next]
        /\ outq' = [outq EXCEPT ![g] = @ \o
             <<[task |-> r.task, body |-> x.result, stamp |-> <<g, stops[g]>>]>>
             \o Announce(g, x.announced, stops[g])]
  BY <1>3 DEF Serve
<1>5. x.result \in {"ok", "failed"} /\ x.announced \in Seq(Events)
  <2>1. debuggee[g] \in ProgramStates
    BY DEF TypeOK, AdapterTypeOK, ProgramStates
  <2>2. QED
    BY <2>1, ReactionsType
<1>6. stops[g] \in 0..MaxStops /\ <<g, stops[g]>> \in Stamps
  BY DEF TypeOK, AdapterTypeOK, Stamps, Procs
<1>7. PICK response \in Messages :
        response = [task |-> r.task, body |-> x.result, stamp |-> <<g, stops[g]>>]
  BY <1>5, <1>6 DEF Requests, Messages
<1>8. PICK news \in Seq(Messages) : news = Announce(g, x.announced, stops[g])
  BY <1>5, <1>6, AnnounceType, BoundsAssumption
<1>9. \A l \in DOMAIN news : news[l].task = Nobody /\ l \in DOMAIN x.announced /\ news[l].body = x.announced[l]
  BY <1>8 DEF Announce
<1>10. <<response>> \in Seq(Messages) /\ \E more \in Seq(Messages) : more = <<response>> \o news
  <2>1. <<response>> \in Seq(Messages)
    OBVIOUS
  <2>2. QED
    BY <2>1, ConcatProperties
<1>11. PICK more \in Seq(Messages) : more = <<response>> \o news
  BY <1>10
<1>12. outq' = [outq EXCEPT ![g] = @ \o more]
  <2>1. outq[g] \in Seq(Messages)
    BY DEF TypeOK, AdapterTypeOK
  <2>2. outq' = [outq EXCEPT ![g] = (outq[g] \o <<response>>) \o news]
    BY <1>4, <1>7, <1>8
  <2>3. PICK said \in Seq(Messages) : said = <<response>>
    BY <1>10
  <2>4. PICK q \in Seq(Messages) : q = outq[g]
    BY <2>1
  <2>5. (q \o said) \o news = q \o (said \o news)
    BY SMTT(30), ConcatAssociative
  <2>6. QED
    BY <1>11, <2>2, <2>3, <2>4, <2>5
<1>13. /\ 1 \in DOMAIN more /\ more[1] = response
       /\ \A k \in DOMAIN more : k \in Nat /\ (k # 1 => k - 1 \in DOMAIN news /\ more[k] = news[k - 1])
  <2>1. <<response>> \in Seq(Messages) /\ DOMAIN <<response>> = {1} /\ <<response>>[1] = response
        /\ Len(<<response>>) = 1
    OBVIOUS
  <2>2. /\ \A i \in DOMAIN <<response>> : i \in DOMAIN more /\ more[i] = <<response>>[i]
        /\ \A i \in DOMAIN more :
             i \in DOMAIN <<response>> \/ (i - 1 \in DOMAIN news /\ more[i] = news[i - 1])
    BY <1>11, <2>1, ConcatElements
  <2>3. \A k \in DOMAIN more : k \in Nat
    BY LenProperties
  <2>4. QED
    BY <2>1, <2>2, <2>3
<1>14. \A k \in DOMAIN more : k \in Nat /\ (k # 1 =>
         more[k].task = Nobody /\ \E l \in DOMAIN x.announced : more[k].body = x.announced[l])
  <2>1. ASSUME NEW k \in DOMAIN more, k # 1
        PROVE  more[k].task = Nobody /\ \E l \in DOMAIN x.announced : more[k].body = x.announced[l]
    <3>1. k - 1 \in DOMAIN news /\ more[k] = news[k - 1]
      BY <1>13, <2>1
    <3>2. PICK l \in DOMAIN news : more[k] = news[l]
      BY <3>1
    <3>3. QED
      BY <1>9, <3>2
  <2>2. QED
    BY <1>13, <2>1
<1>15. /\ more[1].task = r.task /\ more[1].body = x.result
       /\ more[1].stamp = <<g, stops[g]>> /\ UNCHANGED stops
  BY <1>7, <1>13 DEF Serve
<1>16. alive' = alive \/ (r.command = "disconnect" /\ alive' = alive \ {g})
  BY <1>3 DEF Serve
<1>17. Replied(g, r, x, more)
  BY <1>1, <1>2, <1>3, <1>4, <1>5, <1>12, <1>13, <1>14, <1>15, <1>16 DEF Replied
<1>18. QED
  BY <1>17

\* The requests that remain when the oldest one is answered.
LEMMA RequestsServed ==
  ASSUME TypeOK, NEW g \in Procs, inq' = [inq EXCEPT ![g] = Tail(@)], inq[g] # <<>>, NEW h \in Procs
  PROVE  \A i \in DOMAIN inq'[h] : \E j \in DOMAIN inq[h] : inq'[h][i] = inq[h][j]
<1>1. inq \in [Procs -> Seq(Requests)]
  BY DEF TypeOK, AdapterTypeOK
<1>2. CASE h = g
  <2>1. \A i \in DOMAIN Tail(inq[g]) : i + 1 \in DOMAIN inq[g] /\ Tail(inq[g])[i] = inq[g][i + 1]
    BY <1>1, TailElements
  <2>2. QED
    BY <1>1, <1>2, <2>1
<1>3. CASE h # g
  BY <1>1, <1>3
<1>4. QED
  BY <1>2, <1>3


-----------------------------------------------------------------------------
(* A call that has been granted, and a start that has got a process.       *)

\* The call has been granted: its answer is "ok", or is not waited for.
Assented(t) ==
  answer[t].result = "ok" \/ \E g \in Procs : \E i : Said(g, i, t) /\ Told(g, i, "ok")
Granted(t) ==
  /\ op[t] \in Resuming \cup {"configuration_done"}
  /\ pc[t] \in {"clear_halt", "transition"} \/ (pc[t] = "wait" /\ Assented(t))

\* What only a request or a transition under way can be.
LEMMA GrantedPlaces ==
  ASSUME NEW t \in Tasks
  PROVE  /\ Granted(t) => /\ op[t] \in Resuming \cup {"configuration_done"}
                          /\ pc[t] \in {"clear_halt", "transition", "wait"}
         /\ ~(op[t] \in Resuming \cup {"configuration_done"} /\ op[t] \in Events \cup Closing \cup {"start", "initialize"})
BY DEF Granted, Resuming, Events, Closing

\* A call is granted by its answer, whether it has taken it or not.
LEMMA ReceiveGrants ==
  ASSUME TypeOK, PendingInv, NEW t \in Tasks, Receive(t)
  PROVE  Granted(t)' <=> Granted(t)
<1>1. UNCHANGED <<state, op>>
  BY DEF Receive, session
<1>2. /\ pc[t] = "wait" /\ answer[t] # NoAnswer
      /\ pc'[t] = IF answer[t].result = "ok" THEN AfterReply(op[t]) ELSE AfterFailure(op[t])
  BY DEF Receive, Goto, TypeOK, TaskTypeOK
<1>3. \A g \in Procs : \A i : ~Said(g, i, t)
  BY <1>2 DEF PendingInv, Routed, UnderWay, Waits
<1>4. Assented(t) <=> answer[t].result = "ok"
  BY <1>3 DEF Assented
<1>5. op[t] \in Resuming \cup {"configuration_done"} =>
        AfterReply(op[t]) \in {"clear_halt", "transition"} /\ AfterFailure(op[t]) = "idle"
  <2>1. op[t] \in Resuming \cup {"configuration_done"} => op[t] \notin Closing
    BY DEF Closing, Resuming
  <2>2. op[t] \in Resuming => AfterReply(op[t]) = "clear_halt"
    BY <2>1 DEF AfterReply, Resuming, Breakpoints
  <2>3. op[t] = "configuration_done" => AfterReply(op[t]) = "transition"
    BY <2>1 DEF AfterReply, Resuming, Breakpoints
  <2>4. QED
    BY <2>1, <2>2, <2>3 DEF AfterFailure
<1>6. pc'[t] # "wait"
  BY <1>2, OnlySendWaits
<1>7. Granted(t) <=> op[t] \in Resuming \cup {"configuration_done"} /\ answer[t].result = "ok"
  BY <1>2, <1>4 DEF Granted
<1>8. Granted(t)' <=> op[t] \in Resuming \cup {"configuration_done"} /\ answer[t].result = "ok"
  BY <1>1, <1>2, <1>5, <1>6 DEF Granted
<1>9. QED
  BY <1>7, <1>8

\* What an event changes of the answer that a task waits for, and what an answer does.
LEMMA AssentRead ==
  ASSUME TypeOK, PendingInv, NEW t \in Tasks, NEW g \in Procs, Read(g)
  PROVE  /\ Granted(t)' <=> Granted(t)
         /\ answer'[t] = answer[t] \/ Said(g, 1, t)
<1>1. PICK m \in Messages : m = Head(outq[g])
  BY WordsRead
<1>2. /\ 1 \in DOMAIN outq[g] /\ outq[g][1] = m
      /\ \A h \in Procs : \A i, w : h # g =>
           (Said(h, i, t)' <=> Said(h, i, t)) /\ (Told(h, i, w)' <=> Told(h, i, w))
      /\ \A i : Said(g, i, t)' => Said(g, i + 1, t) /\ \A w : Told(g, i, w)' => Told(g, i + 1, w)
      /\ \A j : Said(g, j, t) /\ j # 1 => Said(g, j - 1, t)' /\ \A w : Told(g, j, w) => Told(g, j - 1, w)'
  BY <1>1, WordsRead DEF Said, Told
<1>3. UNCHANGED <<op, pc>>
  BY DEF Read
<1>4. CASE m.task # t
  <2>1. answer'[t] = answer[t]
    BY <1>1, <1>4 DEF Read, TypeOK, TaskTypeOK
  <2>2. ~Said(g, 1, t)
    BY <1>2, <1>4 DEF Said
  <2>3. Assented(t)' <=> Assented(t)
    <3>1. ASSUME NEW h \in Procs, NEW i, Said(h, i, t), Told(h, i, "ok")
          PROVE  \E k : Said(h, k, t)' /\ Told(h, k, "ok")'
      <4>1. CASE h # g
        BY <1>2, <3>1, <4>1
      <4>2. CASE h = g
        BY <1>2, <2>2, <3>1, <4>2
      <4>3. QED
        BY <4>1, <4>2
    <3>2. ASSUME NEW h \in Procs, NEW i, Said(h, i, t)', Told(h, i, "ok")'
          PROVE  \E k : Said(h, k, t) /\ Told(h, k, "ok")
      <4>1. CASE h # g
        BY <1>2, <3>2, <4>1
      <4>2. CASE h = g
        BY <1>2, <3>2, <4>2
      <4>3. QED
        BY <4>1, <4>2
    <3>3. QED
      BY <2>1, <3>1, <3>2 DEF Assented
  <2>4. QED
    BY <1>3, <2>1, <2>3 DEF Granted
<1>5. CASE m.task = t
  <2>1. Said(g, 1, t)
    BY <1>2, <1>5 DEF Said
  <2>2. Waits(t) /\ OneAtMost(t)
    BY <2>1 DEF PendingInv, Routed, UnderWay
  <2>3. answer'[t].result = m.body
    <3>1. m.task \in Tasks /\ m.task # Nobody /\ m.body \notin Events
      BY <1>2, <1>5, TasksAssumption DEF PendingInv, EventsForNobody
    <3>2. QED
      BY <1>1, <1>5, <3>1 DEF Read, TypeOK, TaskTypeOK
  <2>4. Assented(t) <=> m.body = "ok"
    <3>1. answer[t].result = "none"
      BY <2>2 DEF Waits, NoAnswer
    <3>2. \A h \in Procs : \A i : Said(h, i, t) <=> h = g /\ i = 1
      BY <2>1, <2>2 DEF OneAtMost
    <3>3. Told(g, 1, "ok") <=> m.body = "ok"
      BY <1>2 DEF Told
    <3>4. QED
      BY <3>1, <3>2, <3>3 DEF Assented
  <2>5. Assented(t)' <=> m.body = "ok"
    <3>1. \A h \in Procs : \A i : Said(h, i, t)' => FALSE
      <4>1. ASSUME NEW h \in Procs, NEW i, Said(h, i, t)' PROVE FALSE
        <5>1. CASE h # g
          BY <1>2, <2>1, <2>2, <4>1, <5>1 DEF OneAtMost
        <5>2. CASE h = g
          <6>1. i \in Nat \ {0} /\ Said(g, i + 1, t)
            BY <1>2, <4>1, <5>2, WordsRead DEF Said
          <6>2. i + 1 = 1
            BY <2>1, <2>2, <6>1 DEF OneAtMost
          <6>3. QED
            BY <6>1, <6>2
        <5>3. QED
          BY <5>1, <5>2
      <4>2. QED
        BY <4>1
    <3>2. QED
      BY <2>3, <3>1 DEF Assented
  <2>6. QED
    BY <1>3, <2>1, <2>4, <2>5 DEF Granted
<1>6. QED
  BY <1>4, <1>5

\* A granted call stays granted, whatever the adapter says.
LEMMA GrantStays ==
  ASSUME TypeOK, NEW t \in Tasks, NEW g \in Procs, NEW more \in Seq(Messages),
         outq' = [outq EXCEPT ![g] = @ \o more], UNCHANGED <<op, pc, answer>>
  PROVE  Granted(t) => Granted(t)'
<1>1. PICK n : Written(g, more, n)
  BY WordsWritten
<1>2. \A h \in Procs : \A i, w : (Said(h, i, t) => Said(h, i, t)') /\ (Told(h, i, w) => Told(h, i, w)')
  BY <1>1, WrittenPlaces
<1>3. Assented(t) => Assented(t)'
  BY <1>2 DEF Assented
<1>4. QED
  BY <1>3 DEF Granted

\* A start that has got a process and has yet to make it the session's.
Fresh(t) == op[t] = "start" /\ pc[t] \in Holding \cup {"transition"}
Untouched(g) == inq[g] = <<>> /\ outq[g] = <<>> /\ debuggee[g] = "none"
Stamp(g) == <<g, stops[g]>>

-----------------------------------------------------------------------------
(* What passes each step, for any number of tasks.                         *)

\* A task that moves from one step to another with the same operation in hand.
LEMMA GateStaged ==
  ASSUME TypeOK, NEW t \in Tasks, Staged(t), Gate(t) \/ IsRunning(t) \/ SpawnFails(t) \/ Spawn(t)
  PROVE  Staged(t)'
<1>1. /\ UNCHANGED op
      /\ \/ pc[t] = "gate" /\ pc'[t] \in {AfterGate(op[t]), "idle"}
         \/ pc[t] = "is_running" /\ pc'[t] \in {"idle", "spawn"}
         \/ pc[t] = "spawn" /\ pc'[t] \in {"idle", "set_stdin"}
  BY DEF Gate, IsRunning, SpawnFails, Spawn, Goto, TypeOK, TaskTypeOK
<1>2. QED
  BY <1>1, AfterGatePlaces DEF Staged

LEMMA RequestStaged ==
  ASSUME TypeOK, NEW t \in Tasks, Staged(t), Send(t) \/ Receive(t)
  PROVE  Staged(t)'
<1>1. /\ UNCHANGED op /\ pc[t] \in {"send", "wait"}
      /\ pc'[t] \in {"wait", AfterReply(op[t]), AfterFailure(op[t])}
  BY DEF Send, Receive, Goto, TypeOK, TaskTypeOK
<1>2. op[t] \in (Tools \ {"start"}) \cup Closing
  BY <1>1 DEF Staged
<1>3. \A o \in Closing : o \notin {"initialize", "configuration_done", "get_variables"}
                           /\ o \notin Resuming /\ o \notin Breakpoints
  BY DEF Closing, Resuming, Breakpoints
<1>4. CASE pc'[t] = "wait"
  BY <1>1, <1>2, <1>4 DEF Staged
<1>5. CASE pc'[t] # "wait"
  <2>1. /\ pc'[t] \in {"idle", "kill", "clear_halt", "transition", "update_bps", "cache_vars"}
        /\ pc'[t] = "kill" => op[t] \in Closing
        /\ pc'[t] = "clear_halt" => op[t] \in Resuming
        /\ pc'[t] = "transition" => op[t] \in {"initialize", "configuration_done"}
        /\ pc'[t] = "update_bps" => op[t] \in Breakpoints
        /\ pc'[t] = "cache_vars" => op[t] = "get_variables"
    BY <1>1, <1>5, AfterReplyPlaces
  <2>2. QED
    BY <1>1, <1>2, <1>3, <2>1 DEF Staged
<1>6. QED
  BY <1>4, <1>5

LEMMA FieldStaged ==
  ASSUME TypeOK, NEW t \in Tasks, Staged(t),
         \/ SetStdin(t) \/ SetChild(t) \/ SetKind(t) \/ SetHalt(t) \/ ClearHalt(t) \/ Recheck(t)
         \/ transition_to(t) \/ Kill(t) \/ ClearBreakpoints(t) \/ UpdateBreakpoints(t) \/ CacheVariables(t)
  PROVE  Staged(t)'
<1>1. /\ UNCHANGED op
      /\ \/ pc[t] = "set_stdin" /\ pc'[t] = "set_child"
         \/ pc[t] = "set_child" /\ pc'[t] = "set_kind"
         \/ pc[t] = "set_kind" /\ pc'[t] = "transition"
         \/ pc[t] = "set_halt" /\ pc'[t] = "transition"
         \/ pc[t] = "clear_halt" /\ pc'[t] = IF op[t] = "continued" THEN "recheck" ELSE "transition"
         \/ pc[t] = "recheck" /\ pc'[t] \in {"idle", "transition"}
         \/ pc[t] = "transition" /\ pc'[t] \in {"idle", IF op[t] \in Closing THEN "clear_bps" ELSE "idle"}
         \/ pc[t] = "kill" /\ pc'[t] = "recheck"
         \/ pc[t] = "update_bps" /\ pc'[t] = "update_bps_again"
         \/ pc[t] \in {"clear_bps", "update_bps_again", "cache_vars"} /\ pc'[t] = "idle"
  BY DEF SetStdin, SetChild, SetKind, SetHalt, ClearHalt, Recheck, transition_to, Kill, ClearBreakpoints,
         UpdateBreakpoints, CacheVariables, Goto, TypeOK, TaskTypeOK
<1>2. /\ op[t] \in Closing => op[t] \in Events \/ op[t] \in Tools
      /\ op[t] \in Closing => op[t] = "shutdown" \/ op[t] \in Events
      /\ {"stopped", "continued", "initialized"} \subseteq Events
  BY DEF TypeOK, TaskTypeOK, Closing, Events
<1>3. QED
  BY <1>1, <1>2 DEF Staged

LEMMA BeginStaged ==
  ASSUME TypeOK, NEW t \in Tasks, Call(t) \/ TakeEvent(t) \/ Cancel(t)
  PROVE  Staged(t)'
<1>1. CASE Call(t)
  <2>1. pc'[t] = "gate" /\ op'[t] \in Tools
    BY <1>1 DEF Call, Goto, TypeOK, TaskTypeOK
  <2>2. QED
    BY <2>1 DEF Staged
<1>2. CASE TakeEvent(t)
  <2>1. PICK e \in Events : pc'[t] = FirstStep(e) /\ op'[t] = e
    <3>1. Head(events) \in [name : Events, stamp : Stamps]
      BY <1>2, HeadTailProperties DEF TakeEvent, TypeOK, ClientTypeOK
    <3>2. QED
      BY <1>2, <3>1 DEF TakeEvent, Goto, TypeOK, TaskTypeOK
  <2>2. /\ FirstStep(e) \in {"send", "recheck", "set_halt", "clear_halt"}
        /\ FirstStep(e) = "send" => e \in Closing
        /\ FirstStep(e) = "recheck" => e = "initialized"
        /\ FirstStep(e) = "set_halt" => e = "stopped"
        /\ FirstStep(e) = "clear_halt" => e = "continued"
    BY DEF FirstStep, Events, Closing
  <2>3. QED
    BY <2>1, <2>2 DEF Staged
<1>3. CASE Cancel(t)
  <2>1. pc'[t] = "idle"
    BY <1>3 DEF Cancel, Goto, TypeOK, TaskTypeOK
  <2>2. QED
    BY <2>1 DEF Staged
<1>4. QED
  BY <1>1, <1>2, <1>3

\* The steps of a task touch no other task's place.
LEMMA OthersStay ==
  ASSUME TypeOK, NEW t \in Tasks, Call(t) \/ TakeEvent(t) \/ Step(t) \/ Cancel(t), NEW u \in Tasks \ {t}
  PROVE  op'[u] = op[u] /\ pc'[u] = pc[u] /\ arg'[u] = arg[u] /\ answer'[u] = answer[u]
<1> USE DEF Goto, TypeOK, TaskTypeOK
<1>1. CASE Call(t) \/ TakeEvent(t) \/ Cancel(t)
  BY <1>1 DEF Call, TakeEvent, Cancel
<1>2. CASE Gate(t) \/ IsRunning(t) \/ SpawnFails(t) \/ Spawn(t) \/ SetStdin(t) \/ SetChild(t) \/ SetKind(t)
  BY <1>2 DEF Gate, IsRunning, SpawnFails, Spawn, SetStdin, SetChild, SetKind
<1>3. CASE Send(t) \/ Receive(t) \/ SetHalt(t) \/ ClearHalt(t) \/ Recheck(t) \/ transition_to(t)
  BY <1>3 DEF Send, Receive, SetHalt, ClearHalt, Recheck, transition_to
<1>4. CASE Kill(t) \/ ClearBreakpoints(t) \/ UpdateBreakpoints(t) \/ CacheVariables(t)
  BY <1>4 DEF Kill, ClearBreakpoints, UpdateBreakpoints, CacheVariables
<1>5. QED
  BY <1>1, <1>2, <1>3, <1>4 DEF Step

StagedInv == \A t \in Tasks : Staged(t)

LEMMA NextStaged == TypeOK /\ StagedInv /\ [Next]_vars => StagedInv'
<1> SUFFICES ASSUME TypeOK, StagedInv, [Next]_vars, NEW t \in Tasks PROVE Staged(t)'
  BY DEF StagedInv
<1>1. Staged(t)
  BY DEF StagedInv
<1>2. ASSUME op'[t] = op[t], pc'[t] = pc[t] PROVE Staged(t)'
  BY <1>1, <1>2 DEF Staged
<1>3. ASSUME NEW u \in Tasks, Call(u) \/ TakeEvent(u) \/ Step(u) \/ Cancel(u) PROVE Staged(t)'
  <2>1. CASE u = t
    BY <1>1, <1>3, <2>1, GateStaged, RequestStaged, FieldStaged, BeginStaged DEF Step
  <2>2. CASE u # t
    BY <1>2, <1>3, <2>2, OthersStay
  <2>3. QED
    BY <2>1, <2>2
<1>4. ASSUME NEW g \in Procs, Read(g) \/ Serve(g) \/ Stop(g) \/ Exit(g) \/ Crash(g) PROVE Staged(t)'
  BY <1>2, <1>4 DEF Read, Serve, Stop, Exit, Crash, tasks
<1>5. CASE UNCHANGED vars
  BY <1>2, <1>5 DEF vars, tasks
<1>6. QED
  BY <1>3, <1>4, <1>5 DEF Next

-----------------------------------------------------------------------------
(* One caller c and, beside it, one event loop l: the MCP stdio server.    *)

Beside(c, l) == c # l /\ Callers = {c} /\ Loops = {l} /\ Cancellable = {}

\* The caller makes calls, the loop handles events.
Roles(c, l) == op[c] \notin Events /\ op[l] \notin Tools

\* The requests under way are those of the operations that wait for their answers, but for
\* the two that may be sent without waiting.
CommandsTrue ==
  \A g \in Procs : \A i \in DOMAIN inq[g] :
    \/ inq[g][i].task = Nobody /\ inq[g][i].command \in {"launch", "configuration_done"}
    \/ inq[g][i].task \in Tasks /\ inq[g][i].command = Command(op[inq[g][i].task])

BesideBase(c, l) == IInv /\ PendingInv /\ StagedInv /\ Roles(c, l) /\ CommandsTrue

\* Whose step it is.
LEMMA BesideSteps ==
  ASSUME NEW c, NEW l, Beside(c, l), Next
  PROVE  \/ Call(c) \/ Step(c)
         \/ TakeEvent(l) \/ Step(l)
         \/ \E g \in Procs : Read(g) \/ Serve(g) \/ Stop(g) \/ Exit(g) \/ Crash(g)
<1>1. Tasks = {c, l} /\ c \notin Loops /\ l \notin Callers
  BY DEF Beside, Tasks
<1>2. QED
  BY <1>1 DEF Beside, Next, Call, TakeEvent, Cancel

LEMMA BesideTasks ==
  ASSUME NEW c, NEW l, Beside(c, l)
  PROVE  Tasks = {c, l} /\ c \in Tasks /\ l \in Tasks /\ c # l
BY DEF Beside, Tasks

\* What a task takes up when it has been idle.
LEMMA TakenUp ==
  ASSUME TypeOK, NEW t \in Tasks, Call(t) \/ TakeEvent(t)
  PROVE  /\ pc[t] = "idle" /\ UNCHANGED <<session, child, stdin, adapter>>
         /\ Call(t) => op'[t] \in Tools /\ pc'[t] = "gate" /\ UNCHANGED <<events, arg>>
         /\ TakeEvent(t) => op'[t] \in Events /\ pc'[t] = FirstStep(op'[t])
<1>1. CASE Call(t)
  BY <1>1, ToolsAreNotEvents DEF Call, TakeEvent, Goto, client, TypeOK, TaskTypeOK
<1>2. CASE TakeEvent(t)
  <2>1. Head(events) \in [name : Events, stamp : Stamps]
    BY <1>2, HeadTailProperties DEF TakeEvent, TypeOK, ClientTypeOK
  <2>2. ~Call(t)
    BY <1>2, <2>1, ToolsAreNotEvents DEF Call, TakeEvent, TypeOK, TaskTypeOK
  <2>3. QED
    BY <1>2, <2>1, <2>2 DEF TakeEvent, Goto, TypeOK, TaskTypeOK
<1>3. QED
  BY <1>1, <1>2

\* A task goes on with the operation it has taken up.
LEMMA StepsKeepOp ==
  ASSUME NEW t, Step(t)
  PROVE  UNCHANGED op
BY DEF Step, Gate, IsRunning, SpawnFails, Spawn, SetStdin, SetChild, SetKind, Send, Receive, SetHalt,
       ClearHalt, Recheck, transition_to, Kill, ClearBreakpoints, UpdateBreakpoints, CacheVariables

LEMMA StepsKeepRequests ==
  ASSUME NEW t, Step(t), ~Send(t)
  PROVE  UNCHANGED inq
BY DEF Step, Gate, IsRunning, SpawnFails, Spawn, SetStdin, SetChild, SetKind, Receive, SetHalt, adapter,
       ClearHalt, Recheck, transition_to, Kill, ClearBreakpoints, UpdateBreakpoints, CacheVariables

LEMMA SendCommands ==
  ASSUME TypeOK, CommandsTrue, NEW t \in Tasks, Send(t)
  PROVE  CommandsTrue'
<1> DEFINE r == [task |-> IF Blocking(op[t]) THEN t ELSE Nobody, command |-> Command(op[t])]
<1>1. UNCHANGED op
  BY DEF Send
<1>2. CASE stdin \in alive
  <2>1. r \in Requests
    BY DEF Requests, Command, TypeOK, TaskTypeOK
  <2>2. \/ r.task = Nobody /\ r.command \in {"launch", "configuration_done"}
        \/ r.task \in Tasks /\ r.command = Command(op[r.task])
    BY DEF Blocking, Command, Closing
  <2> HIDE DEF r
  <2>3. stdin \in Procs /\ inq[stdin] \in Seq(Requests)
    BY <1>2, BoundsAssumption DEF TypeOK, AdapterTypeOK, Procs
  <2>4. inq' = [inq EXCEPT ![stdin] = Append(inq[stdin], r)]
    BY <1>2 DEF Send, r
  <2>5. /\ DOMAIN Append(inq[stdin], r) = DOMAIN inq[stdin] \cup {Len(inq[stdin]) + 1}
        /\ \A i \in DOMAIN inq[stdin] : Append(inq[stdin], r)[i] = inq[stdin][i]
        /\ Append(inq[stdin], r)[Len(inq[stdin]) + 1] = r
    BY <2>1, <2>3, AppendElements
  <2>6. inq'[stdin] = Append(inq[stdin], r) /\ \A g \in Procs \ {stdin} : inq'[g] = inq[g]
    BY <2>3, <2>4 DEF TypeOK, AdapterTypeOK
  <2>7. ASSUME NEW g \in Procs, NEW i \in DOMAIN inq'[g]
        PROVE  inq'[g][i] = r \/ (i \in DOMAIN inq[g] /\ inq'[g][i] = inq[g][i])
    BY <2>5, <2>6
  <2>8. QED
    BY <1>1, <2>2, <2>7 DEF CommandsTrue
<1>3. CASE stdin \notin alive
  BY <1>1, <1>3 DEF Send, CommandsTrue
<1>4. QED
  BY <1>2, <1>3

LEMMA NextBase ==
  ASSUME NEW c, NEW l, Beside(c, l), BesideBase(c, l), [Next]_vars
  PROVE  BesideBase(c, l)'
<1>1. TypeOK /\ Tasks = {c, l} /\ c # l
  BY BesideTasks DEF BesideBase, IInv
<1>2. IInv' /\ PendingInv' /\ StagedInv'
  BY <1>1, StepInv, NextPending, NextStaged DEF BesideBase
<1>3. CASE Call(c) \/ TakeEvent(l)
  <2>1. PICK t \in Tasks : Call(t) \/ TakeEvent(t)
    BY <1>1, <1>3
  <2>2. /\ pc[t] = "idle" /\ UNCHANGED inq
        /\ \A u \in Tasks \ {t} : op'[u] = op[u]
    BY <1>1, <2>1, TakenUp, OthersStay DEF adapter
  <2>3. \A g \in Procs : \A i \in DOMAIN inq[g] : inq[g][i].task # t
    BY <2>2, NothingUnderWay DEF BesideBase, Asked
  <2>4. CommandsTrue'
    BY <2>2, <2>3 DEF BesideBase, CommandsTrue
  <2>5. Roles(c, l)'
    BY <1>1, <1>3, TakenUp, OthersStay, ToolsAreNotEvents DEF BesideBase, Roles
  <2>6. QED
    BY <1>2, <2>4, <2>5 DEF BesideBase
<1>4. ASSUME NEW t \in Tasks, Step(t) PROVE BesideBase(c, l)'
  <2>1. Roles(c, l)'
    BY <1>4, StepsKeepOp DEF BesideBase, Roles
  <2>2. CommandsTrue'
    BY <1>1, <1>4, SendCommands, StepsKeepRequests, StepsKeepOp DEF BesideBase, CommandsTrue
  <2>3. QED
    BY <1>2, <2>1, <2>2 DEF BesideBase
<1>5. ASSUME NEW g \in Procs, Read(g) \/ Stop(g) \/ Exit(g) \/ Crash(g) PROVE BesideBase(c, l)'
  <2>1. UNCHANGED <<op, inq>>
    BY <1>5 DEF Read, Stop, Exit, Crash, tasks
  <2>2. QED
    BY <1>2, <2>1 DEF BesideBase, Roles, CommandsTrue
<1>6. ASSUME NEW g \in Procs, Serve(g) PROVE BesideBase(c, l)'
  <2>1. UNCHANGED op /\ inq' = [inq EXCEPT ![g] = Tail(@)] /\ inq[g] # <<>>
    BY <1>6 DEF Serve, tasks
  <2>2. \A h \in Procs : \A i \in DOMAIN inq'[h] : \E j \in DOMAIN inq[h] : inq'[h][i] = inq[h][j]
    BY <1>1, <2>1, RequestsServed
  <2>3. CommandsTrue'
    BY <2>1, <2>2 DEF BesideBase, CommandsTrue
  <2>4. QED
    BY <1>2, <2>1, <2>3 DEF BesideBase, Roles
<1>7. CASE UNCHANGED vars
  BY <1>2, <1>7 DEF vars, tasks, adapter, BesideBase, Roles, CommandsTrue
<1>8. QED
  BY <1>1, <1>3, <1>4, <1>5, <1>6, <1>7, BesideSteps

\* Nothing has come of the first adapter before it is the session's.
StartTrue(c, l) ==
  /\ child \in {0, spawned}
  /\ \A g \in Procs : g > spawned => Untouched(g)
  /\ pc[c] \in Holding => arg[c][1] = spawned
  /\ op[c] = "start" /\ pc[c] \notin {"idle", "gate"} => state = "Disconnected"
  /\ spawned = 0 \/ Fresh(c) => events = <<>> /\ pc[l] = "idle" /\ \A g \in Procs : Untouched(g)
  /\ spawned = 0 => state = "Disconnected" /\ child = 0 /\ pc[c] \in {"idle", "gate", "is_running", "spawn"}

\* The one that ends the session, be it the caller or the loop, kills first and
\* disconnects afterwards.
Leaving(t) == op[t] \in Closing /\ pc[t] \in {"recheck", "transition"}
ChildTrue(c, l) ==
  /\ \A t \in Tasks : Leaving(t) \/ (op[t] \in Closing /\ pc[t] = "clear_bps") => child = 0
  /\ state = "Disconnected" /\ child # 0 => op[c] = "start" /\ pc[c] \in {"set_kind", "transition"}
  /\ op[c] = "start" /\ pc[c] \in {"set_kind", "transition"} => child # 0
  /\ state # "Disconnected" /\ child = 0 => \E t \in Tasks : Leaving(t)

OrderTrue(c, l) == StartTrue(c, l) /\ ChildTrue(c, l)

\* The session is entered by a start only, and no event is one.
LEMMA RolesPlaces ==
  ASSUME NEW c, NEW l, Beside(c, l), BesideBase(c, l)
  PROVE  /\ op[l] \notin Tools /\ op[l] # "start" /\ op[c] \notin Events
         /\ pc[c] \in {"is_running", "spawn"} \cup Holding => op[c] = "start"
         /\ pc[l] \notin {"gate", "is_running", "spawn", "cache_vars", "update_bps", "update_bps_again"} \cup Holding
         /\ pc[c] # "set_halt" /\ (pc[c] = "clear_halt" => op[c] \in Resuming)
         /\ pc[c] \in {"kill", "recheck", "clear_bps"} => op[c] = "shutdown"
         /\ pc[c] = "transition" => op[c] \in {"start", "initialize", "configuration_done", "shutdown"} \cup Resuming
         /\ pc[c] \in {"send", "wait"} => op[c] # "start"
         /\ pc[l] \in {"send", "wait", "kill", "clear_bps"} => op[l] \in Closing
         /\ pc[l] = "clear_halt" => op[l] = "continued"
         /\ pc[l] = "recheck" => op[l] \in Closing \cup {"initialized", "continued"}
         /\ pc[l] = "transition" => op[l] \in Events
<1>1. Staged(c) /\ Staged(l) /\ TypeOK
  BY BesideTasks DEF BesideBase, StagedInv, IInv
<1>2. op[c] \in Tools \cup {"none"} /\ op[l] \in Events \cup {"none"} /\ op[c] \notin Events /\ op[l] \notin Tools
  BY <1>1, BesideTasks DEF BesideBase, Roles, TypeOK, TaskTypeOK
<1>3. {"stopped", "continued", "initialized", "terminated", "exited"} \subseteq Events /\ "start" \notin Events
  BY DEF Events
<1>4. op[l] # "start"
  BY <1>2, <1>3
<1>5. pc[c] \in {"kill", "recheck", "clear_bps"} => op[c] = "shutdown"
  BY <1>1, <1>2, <1>3 DEF Staged, Closing
<1>6. pc[l] \notin {"gate", "is_running", "spawn", "cache_vars", "update_bps", "update_bps_again"} \cup Holding
  BY <1>1, <1>2 DEF Staged, Holding
<1>7. op[l] \notin Resuming /\ "start" \notin Closing
  BY <1>2 DEF Resuming, Events, Closing
<1>8. pc[c] # "set_halt" /\ (pc[c] = "clear_halt" => op[c] \in Resuming)
  BY <1>1, <1>2, <1>3 DEF Staged
<1>9. QED
  BY <1>1, <1>2, <1>3, <1>4, <1>5, <1>6, <1>7, <1>8 DEF Staged, Holding

\* A step of one task, as the other one sees it.
LEMMA BesideMoves ==
  ASSUME NEW c, NEW l, Beside(c, l), BesideBase(c, l), NEW t \in Tasks, Step(t)
  PROVE  /\ UNCHANGED op /\ (t = c => pc'[l] = pc[l]) /\ (t = l => pc'[c] = pc[c] /\ arg'[c] = arg[c])
         /\ t = c \/ t = l
<1>1. TypeOK
  BY DEF BesideBase, IInv
<1>2. QED
  BY <1>1, BesideTasks, StepsKeepOp, OthersStay

LEMMA CallOrder ==
  ASSUME NEW c, NEW l, Beside(c, l), BesideBase(c, l), OrderTrue(c, l), Call(c) \/ TakeEvent(l)
  PROVE  OrderTrue(c, l)'
<1>1. TypeOK /\ Tasks = {c, l} /\ c # l
  BY BesideTasks DEF BesideBase, IInv
<1>2. CASE Call(c)
  <2>1. /\ pc[c] = "idle" /\ pc'[c] = "gate" /\ pc'[l] = pc[l] /\ op'[l] = op[l]
        /\ UNCHANGED <<state, child, spawned, events, inq, outq, debuggee>>
    BY <1>1, <1>2, TakenUp, OthersStay DEF session, adapter
  <2>2. QED
    BY <1>1, <2>1 DEF OrderTrue, StartTrue, ChildTrue, Leaving, Fresh, Untouched, Holding
<1>3. CASE TakeEvent(l)
  <2>1. /\ pc[l] = "idle" /\ op'[l] \in Events /\ pc'[l] = FirstStep(op'[l]) /\ events # <<>>
        /\ pc'[c] = pc[c] /\ op'[c] = op[c] /\ arg'[c] = arg[c]
        /\ UNCHANGED <<state, child, spawned, inq, outq, debuggee>>
    BY <1>1, <1>3, TakenUp, OthersStay DEF session, adapter, TakeEvent
  <2>2. op'[l] \in Closing => pc'[l] = "send"
    BY <2>1 DEF FirstStep, Closing
  <2>3. spawned # 0 /\ ~Fresh(c)
    BY <2>1 DEF OrderTrue, StartTrue
  <2>4. QED
    BY <1>1, <2>1, <2>2, <2>3 DEF OrderTrue, StartTrue, ChildTrue, Leaving, Fresh, Untouched, Holding
<1>4. QED
  BY <1>2, <1>3

LEMMA GateOrder ==
  ASSUME NEW c, NEW l, Beside(c, l), BesideBase(c, l), OrderTrue(c, l), NEW t \in Tasks,
         Gate(t) \/ IsRunning(t) \/ SpawnFails(t)
  PROVE  OrderTrue(c, l)'
<1>1. TypeOK /\ Tasks = {c, l} /\ c # l /\ Step(t)
  BY BesideTasks DEF BesideBase, IInv, Step
<1>2. t = c /\ pc'[l] = pc[l] /\ UNCHANGED op
  BY <1>1, BesideMoves, RolesPlaces DEF Gate, IsRunning, SpawnFails
<1>3. /\ UNCHANGED <<state, child, spawned, events, inq, outq, debuggee>>
      /\ \/ pc[c] = "gate" /\ pc'[c] = IF is_allowed(op[c], state) THEN AfterGate(op[c]) ELSE "idle"
         \/ pc[c] \in {"is_running", "spawn"} /\ pc'[c] \in {"idle", "spawn"}
  BY <1>1, <1>2 DEF Gate, IsRunning, SpawnFails, Goto, session, client, adapter, TypeOK, TaskTypeOK
<1>4. /\ op[c] = "start" => allowed_states(op[c]) = {"Disconnected"}
      /\ state = "Disconnected" /\ is_allowed(op[c], state) => op[c] = "start"
  BY DEF is_allowed, allowed_states, SessionStates, Resuming, Breakpoints, Inspecting
<1>5. AfterGate(op[c]) \in {"is_running", "idle", "send"} /\ (op[c] = "start" => AfterGate(op[c]) = "is_running")
  BY DEF AfterGate
<1>6. QED
  BY <1>1, <1>2, <1>3, <1>4, <1>5
  DEF OrderTrue, StartTrue, ChildTrue, Leaving, Fresh, Untouched, Holding, is_allowed

LEMMA StartOrder ==
  ASSUME NEW c, NEW l, Beside(c, l), BesideBase(c, l), OrderTrue(c, l), NEW t \in Tasks,
         Spawn(t) \/ SetStdin(t) \/ SetChild(t) \/ SetKind(t), spawned <= 1, spawned' <= 1
  PROVE  OrderTrue(c, l)'
<1>1. TypeOK /\ Tasks = {c, l} /\ c # l /\ Step(t)
  BY BesideTasks DEF BesideBase, IInv, Step
<1>2. t = c /\ pc'[l] = pc[l] /\ UNCHANGED op /\ op[c] = "start" /\ op[c] \notin Closing
  <2>1. pc[t] \in {"spawn"} \cup Holding
    BY DEF Spawn, SetStdin, SetChild, SetKind, Holding
  <2>2. "start" \notin Closing
    BY DEF Closing
  <2>3. QED
    BY <1>1, <2>1, <2>2, BesideMoves, RolesPlaces
<1>3. UNCHANGED <<state, events, inq, outq, debuggee>> /\ spawned \in Nat
  BY BoundsAssumption
  DEF Spawn, SetStdin, SetChild, SetKind, session, client, adapter, BesideBase, IInv, TypeOK, AdapterTypeOK
<1>4. CASE Spawn(t)
  <2>1. /\ pc[c] = "spawn" /\ pc'[c] = "set_stdin" /\ spawned' = spawned + 1 /\ child' = child
        /\ arg'[c] = <<spawned + 1, 0>>
    BY <1>1, <1>2, <1>4 DEF Spawn, Goto, client, TypeOK, TaskTypeOK
  <2>2. spawned = 0
    BY <1>3, <2>1
  <2>3. QED
    BY <1>1, <1>2, <1>3, <2>1, <2>2 DEF OrderTrue, StartTrue, ChildTrue, Leaving, Fresh, Untouched, Holding
<1>5. CASE ~Spawn(t)
  <2>1. /\ UNCHANGED <<spawned, arg>>
        /\ \/ pc[c] = "set_stdin" /\ pc'[c] = "set_child" /\ child' = child
           \/ pc[c] = "set_child" /\ pc'[c] = "set_kind" /\ child' = arg[c][1]
           \/ pc[c] = "set_kind" /\ pc'[c] = "transition" /\ child' = child
    BY <1>1, <1>2, <1>5 DEF SetStdin, SetChild, SetKind, Goto, client, adapter, TypeOK, TaskTypeOK
  <2>2. Fresh(c) /\ Fresh(c)' /\ pc[c] \in Holding /\ spawned # 0
    BY <1>2, <2>1 DEF Fresh, Holding, OrderTrue, StartTrue
  <2>3. QED
    BY <1>1, <1>2, <1>3, <2>1, <2>2 DEF OrderTrue, StartTrue, ChildTrue, Leaving, Untouched, Holding
<1>6. QED
  BY <1>4, <1>5

LEMMA RequestOrder ==
  ASSUME NEW c, NEW l, Beside(c, l), BesideBase(c, l), OrderTrue(c, l), NEW t \in Tasks,
         Send(t) \/ Receive(t)
  PROVE  OrderTrue(c, l)'
<1>1. TypeOK /\ Tasks = {c, l} /\ c # l /\ Step(t)
  BY BesideTasks DEF BesideBase, IInv, Step
<1>2. /\ UNCHANGED <<op, state, child, spawned, events, outq, debuggee>>
      /\ pc[t] \in {"send", "wait"}
      /\ pc'[t] \in {"wait", AfterReply(op[t]), AfterFailure(op[t])}
  BY <1>1 DEF Send, Receive, Goto, session, client, adapter, TypeOK, TaskTypeOK
<1>3. /\ pc'[t] \in {"wait", "idle", "kill", "clear_halt", "transition", "update_bps", "cache_vars"}
      /\ pc'[t] = "transition" => op[t] \in {"initialize", "configuration_done"}
  BY <1>2, AfterReplyPlaces
<1>4. op[t] # "start" /\ (pc'[t] = "transition" => op[t] \notin Closing)
  BY <1>1, <1>2, <1>3, RolesPlaces DEF Closing
<1>5. spawned # 0 /\ ~Fresh(c)
  BY <1>1, <1>2, <1>4 DEF OrderTrue, StartTrue, Fresh
<1>6. \A g \in Procs : g > spawned => inq'[g] = inq[g]
  <2>1. \A g \in Procs : g > spawned => g \notin alive
    BY <1>1, BoundsAssumption DEF TypeOK, AdapterTypeOK, Procs
  <2>2. stdin \in alive => stdin \in Procs
    BY <1>1, BoundsAssumption DEF TypeOK, AdapterTypeOK, Procs
  <2>3. QED
    BY <1>1, <2>1, <2>2 DEF Send, Receive, adapter, TypeOK, AdapterTypeOK
<1>7. \A u \in Tasks \ {t} : pc'[u] = pc[u] /\ arg'[u] = arg[u]
  BY <1>1, OthersStay
<1>8. ~Fresh(c)'
  BY <1>1, <1>2, <1>4, <1>5, <1>7 DEF Fresh
<1>9. StartTrue(c, l)'
  BY <1>1, <1>2, <1>3, <1>4, <1>5, <1>6, <1>7, <1>8 DEF OrderTrue, StartTrue, Untouched, Holding
<1>10. ChildTrue(c, l)'
  BY <1>1, <1>2, <1>3, <1>4, <1>7 DEF OrderTrue, ChildTrue, Leaving
<1>11. QED
  BY <1>9, <1>10 DEF OrderTrue

LEMMA FieldOrder ==
  ASSUME NEW c, NEW l, Beside(c, l), BesideBase(c, l), OrderTrue(c, l), NEW t \in Tasks,
         SetHalt(t) \/ ClearHalt(t) \/ Recheck(t) \/ UpdateBreakpoints(t) \/ CacheVariables(t)
  PROVE  OrderTrue(c, l)'
<1>1. TypeOK /\ Tasks = {c, l} /\ c # l /\ Step(t) /\ Staged(t)
  BY BesideTasks DEF BesideBase, IInv, Step, StagedInv
<1>2. /\ UNCHANGED <<op, state, child, spawned, events, inq, outq, debuggee>>
      /\ \/ pc[t] = "set_halt" /\ pc'[t] = "transition"
         \/ pc[t] = "clear_halt" /\ pc'[t] = IF op[t] = "continued" THEN "recheck" ELSE "transition"
         \/ pc[t] = "recheck" /\ pc'[t] = IF state = Target(op[t]) THEN "idle" ELSE "transition"
         \/ pc[t] = "update_bps" /\ pc'[t] = "update_bps_again"
         \/ pc[t] \in {"update_bps_again", "cache_vars"} /\ pc'[t] = "idle"
  BY <1>1 DEF SetHalt, ClearHalt, Recheck, UpdateBreakpoints, CacheVariables, Goto, session, client, adapter,
              TypeOK, TaskTypeOK
<1>3. /\ op[t] # "start"
      /\ pc[t] \in {"set_halt", "clear_halt", "cache_vars", "update_bps", "update_bps_again"} => op[t] \notin Closing
  BY <1>1, <1>2 DEF Staged, Closing, Resuming, Breakpoints
<1>4. op[t] \in Closing => Target(op[t]) = "Disconnected"
  BY DEF Target, Closing, Resuming
<1>5. spawned # 0 /\ ~Fresh(c)
  BY <1>1, <1>2, <1>3 DEF OrderTrue, StartTrue, Fresh
<1>6. \A u \in Tasks \ {t} : pc'[u] = pc[u] /\ arg'[u] = arg[u]
  BY <1>1, OthersStay
<1>7. ~Fresh(c)'
  BY <1>1, <1>2, <1>3, <1>5, <1>6 DEF Fresh
<1>8. StartTrue(c, l)'
  BY <1>1, <1>2, <1>3, <1>5, <1>6, <1>7 DEF OrderTrue, StartTrue, Untouched, Holding
<1>9. ChildTrue(c, l)'
  BY <1>1, <1>2, <1>3, <1>4, <1>6 DEF OrderTrue, ChildTrue, Leaving
<1>10. QED
  BY <1>8, <1>9 DEF OrderTrue

LEMMA TransitionOrder ==
  ASSUME NEW c, NEW l, Beside(c, l), BesideBase(c, l), OrderTrue(c, l), NEW t \in Tasks, transition_to(t)
  PROVE  OrderTrue(c, l)'
<1>1. TypeOK /\ Tasks = {c, l} /\ c # l /\ Step(t) /\ state \in SessionStates
  BY BesideTasks DEF BesideBase, IInv, Step, TypeOK, SessionTypeOK
<1>2. /\ UNCHANGED <<op, child, spawned, events, inq, outq, debuggee, arg>> /\ pc[t] = "transition"
      /\ \/ /\ can_transition_to(state, Target(op[t])) /\ state' = Target(op[t])
            /\ pc'[t] = IF op[t] \in Closing THEN "clear_bps" ELSE "idle"
         \/ ~can_transition_to(state, Target(op[t])) /\ state' = state /\ pc'[t] = "idle"
  BY <1>1 DEF transition_to, Goto, client, adapter, TypeOK, TaskTypeOK
<1>3. op[t] \in Events \cup {"start", "initialize", "configuration_done", "shutdown"} \cup Resuming
  BY <1>1, <1>2, RolesPlaces
<1>4. /\ Target(op[t]) = "Disconnected" <=> op[t] \in Closing
      /\ Target(op[t]) = "Connected" <=> op[t] = "start"
  BY <1>3, TargetPlaces
<1>5. /\ op[t] \in Closing /\ state # "Disconnected" => can_transition_to(state, Target(op[t]))
      /\ state = "Disconnected" /\ can_transition_to(state, Target(op[t])) => op[t] = "start"
      /\ state = "Disconnected" /\ op[t] = "start" => can_transition_to(state, Target(op[t]))
  BY <1>1, <1>4 DEF can_transition_to, SessionStates
<1>6. \A u \in Tasks \ {t} : pc'[u] = pc[u]
  BY <1>1, OthersStay
<1>7. t = l => op[l] # "start" /\ ~Fresh(c) /\ spawned # 0
  BY <1>1, <1>2, RolesPlaces DEF OrderTrue, StartTrue
<1>8. spawned # 0 /\ "start" \notin Closing
  BY <1>1, <1>2, <1>7 DEF OrderTrue, StartTrue, Closing
<1>9. StartTrue(c, l)'
  BY <1>1, <1>2, <1>4, <1>5, <1>6, <1>7, <1>8 DEF OrderTrue, StartTrue, Untouched, Holding, Fresh
<1>10. ChildTrue(c, l)'
  BY <1>1, <1>2, <1>4, <1>5, <1>6, <1>7, <1>8 DEF OrderTrue, StartTrue, ChildTrue, Leaving
<1>11. QED
  BY <1>9, <1>10 DEF OrderTrue

LEMMA KillOrder ==
  ASSUME NEW c, NEW l, Beside(c, l), BesideBase(c, l), OrderTrue(c, l), NEW t \in Tasks,
         Kill(t) \/ ClearBreakpoints(t)
  PROVE  OrderTrue(c, l)'
<1>1. TypeOK /\ Tasks = {c, l} /\ c # l /\ Step(t) /\ Staged(t)
  BY BesideTasks DEF BesideBase, IInv, Step, StagedInv
<1>2. /\ UNCHANGED <<op, state, spawned, events, inq, outq, debuggee, arg>>
      /\ \/ pc[t] = "kill" /\ pc'[t] = "recheck" /\ child' = 0
         \/ pc[t] = "clear_bps" /\ pc'[t] = "idle" /\ child' = child
  BY <1>1 DEF Kill, ClearBreakpoints, Goto, session, client, adapter, TypeOK, TaskTypeOK
<1>3. op[t] \in Closing /\ op[t] # "start"
  BY <1>1, <1>2 DEF Staged, Closing
<1>4. spawned # 0 /\ ~Fresh(c)
  BY <1>1, <1>2, <1>3 DEF OrderTrue, StartTrue, Fresh
<1>5. \A u \in Tasks \ {t} : pc'[u] = pc[u]
  BY <1>1, OthersStay
<1>6. ~Fresh(c)'
  BY <1>1, <1>2, <1>3, <1>4, <1>5 DEF Fresh
<1>7. StartTrue(c, l)'
  BY <1>1, <1>2, <1>3, <1>4, <1>5, <1>6 DEF OrderTrue, StartTrue, Untouched, Holding
<1>8. ChildTrue(c, l)'
  BY <1>1, <1>2, <1>3, <1>4, <1>5 DEF OrderTrue, ChildTrue, Leaving, Fresh, Holding
<1>9. QED
  BY <1>7, <1>8 DEF OrderTrue

LEMMA AdapterOrder ==
  ASSUME NEW c, NEW l, Beside(c, l), BesideBase(c, l), OrderTrue(c, l), NEW g \in Procs,
         Read(g) \/ Serve(g) \/ Stop(g) \/ Exit(g) \/ Crash(g)
  PROVE  /\ OrderTrue(c, l)'
         /\ ~Crash(g) => g <= spawned /\ spawned # 0 /\ ~Fresh(c)
<1>1. TypeOK /\ g \in Nat /\ spawned \in Nat
  BY BoundsAssumption DEF BesideBase, IInv, TypeOK, AdapterTypeOK, Procs
<1>2. UNCHANGED <<op, pc, arg, state, child, spawned>>
  BY DEF Read, Serve, Stop, Exit, Crash, session, client, tasks
<1>3. CASE Crash(g)
  <2>1. UNCHANGED <<events, inq, outq, debuggee>>
    BY <1>3 DEF Crash, client
  <2>2. QED
    BY <1>2, <1>3, <2>1 DEF OrderTrue, StartTrue, ChildTrue, Leaving, Fresh, Untouched
<1>4. CASE ~Crash(g)
  <2>1. ~Untouched(g)
    BY <1>4 DEF Read, Serve, Stop, Exit, Untouched
  <2>2. ~(g > spawned) /\ spawned # 0 /\ ~Fresh(c)
    BY <2>1 DEF OrderTrue, StartTrue
  <2>3. \A h \in Procs \ {g} : UNCHANGED <<inq[h], outq[h], debuggee[h]>>
    BY <1>1, <1>4 DEF Read, Serve, Stop, Exit, TypeOK, AdapterTypeOK
  <2>4. ~Fresh(c)' /\ \A h \in Procs : h > spawned => Untouched(h)'
    BY <1>2, <2>2, <2>3 DEF OrderTrue, StartTrue, Fresh, Untouched
  <2>5. OrderTrue(c, l)'
    BY <1>2, <2>2, <2>4 DEF OrderTrue, StartTrue, ChildTrue, Leaving
  <2>6. QED
    BY <1>1, <2>2, <2>5
<1>5. QED
  BY <1>3, <1>4

LEMMA NextOrder ==
  ASSUME NEW c, NEW l, Beside(c, l), BesideBase(c, l), OrderTrue(c, l), spawned <= 1, spawned' <= 1, [Next]_vars
  PROVE  OrderTrue(c, l)'
<1>1. ASSUME NEW t \in Tasks, Step(t) PROVE OrderTrue(c, l)'
  BY <1>1, GateOrder, StartOrder, RequestOrder, FieldOrder, TransitionOrder, KillOrder DEF Step
<1>2. CASE UNCHANGED vars
  BY <1>2 DEF vars, session, client, tasks, adapter, OrderTrue, StartTrue, ChildTrue, Leaving, Fresh, Untouched
<1>3. QED
  BY <1>1, <1>2, CallOrder, AdapterOrder, BesideSteps, BesideTasks

-----------------------------------------------------------------------------
(* A word that is on its way to the loop.                                  *)

PipeHas(g, w) == \E i : Told(g, i, w)
LineHas(w)    == \E i : Announced(i, w)
Hand(l, w)    == op[l] = w /\ pc[l] # "idle"
Coming(g, l, w) == PipeHas(g, w) \/ LineHas(w) \/ Hand(l, w)

\* It is under way no more than once.
PipeOnce(g, w) == \A i, j : Told(g, i, w) /\ Told(g, j, w) => i = j
LineOnce(w)    == \A i, j : Announced(i, w) /\ Announced(j, w) => i = j
ComesOnce(g, l, w) ==
  /\ PipeOnce(g, w) /\ LineOnce(w)
  /\ PipeHas(g, w) => ~LineHas(w) /\ ~Hand(l, w)
  /\ LineHas(w) => ~Hand(l, w)

LEMMA WordRead ==
  ASSUME TypeOK, NEW g \in Procs, Read(g), NEW w \in Events
  PROVE  /\ PipeHas(g, w)' => PipeHas(g, w)
         /\ LineHas(w)' <=> LineHas(w) \/ Head(outq[g]).body = w
         /\ Head(outq[g]).body = w => PipeHas(g, w)
         /\ PipeHas(g, w) => PipeHas(g, w)' \/ Head(outq[g]).body = w
         /\ PipeOnce(g, w) => PipeOnce(g, w)' /\ (Head(outq[g]).body = w => ~PipeHas(g, w)')
         /\ LineOnce(w) /\ ~(LineHas(w) /\ Head(outq[g]).body = w) => LineOnce(w)'
<1>1. PICK m \in Messages : m = Head(outq[g])
  BY WordsRead
<1>2. /\ 1 \in DOMAIN outq[g] /\ m = outq[g][1]
      /\ \A i : Told(g, i, w)' => i \in Nat \ {0} /\ Told(g, i + 1, w)
      /\ \A j : Told(g, j, w) => j \in Nat \ {0}
      /\ \A j : Told(g, j, w) /\ j # 1 => Told(g, j - 1, w)'
  BY <1>1, WordsRead DEF Told
<1>3. Told(g, 1, w) <=> m.body = w
  BY <1>2 DEF Told
<1>4. /\ PipeHas(g, w)' => PipeHas(g, w)
      /\ m.body = w => PipeHas(g, w)
      /\ PipeHas(g, w) => PipeHas(g, w)' \/ m.body = w
  BY <1>2, <1>3 DEF PipeHas
<1>5. ASSUME PipeOnce(g, w) PROVE PipeOnce(g, w)' /\ (m.body = w => ~PipeHas(g, w)')
  <2>1. ASSUME NEW i, NEW j, Told(g, i, w)', Told(g, j, w)' PROVE i = j
    <3>1. i \in Nat /\ j \in Nat /\ i + 1 = j + 1
      BY <1>2, <1>5, <2>1 DEF PipeOnce
    <3>2. QED
      BY <3>1
  <2>2. ASSUME NEW i, Told(g, i, w)', m.body = w PROVE FALSE
    <3>1. i \in Nat \ {0} /\ i + 1 = 1
      BY <1>2, <1>3, <1>5, <2>2 DEF PipeOnce
    <3>2. QED
      BY <3>1
  <2>3. QED
    BY <2>1, <2>2 DEF PipeOnce, PipeHas
<1>6. CASE m.body \in Events
  <2>1. PICK n \in Nat :
          /\ \A i, v : Announced(i, v)' <=> Announced(i, v) \/ (i = n /\ v = m.body)
          /\ \A i, v : Announced(i, v) => i < n
    BY <1>1, <1>6, LineGrows
  <2>2. LineHas(w)' <=> LineHas(w) \/ m.body = w
    BY <2>1 DEF LineHas
  <2>3. LineOnce(w) /\ ~(LineHas(w) /\ m.body = w) => LineOnce(w)'
    BY <2>1 DEF LineOnce, LineHas
  <2>4. QED
    BY <1>1, <1>4, <1>5, <2>2, <2>3
<1>7. CASE m.body \notin Events
  <2>1. events' = events /\ m.body # w
    BY <1>1, <1>7 DEF Read
  <2>2. (LineHas(w)' <=> LineHas(w)) /\ (LineOnce(w) => LineOnce(w)')
    BY <2>1 DEF LineHas, LineOnce, Announced
  <2>3. QED
    BY <1>1, <1>4, <1>5, <2>1, <2>2
<1>8. QED
  BY <1>6, <1>7

LEMMA WordTaken ==
  ASSUME TypeOK, NEW t \in Tasks, TakeEvent(t), NEW w
  PROVE  /\ LineHas(w)' => LineHas(w)
         /\ op'[t] = w => LineHas(w)
         /\ LineHas(w) => LineHas(w)' \/ op'[t] = w
         /\ LineOnce(w) => LineOnce(w)' /\ (op'[t] = w => ~LineHas(w)')
<1>1. Announced(1, w) <=> op'[t] = w
  BY LineShifts DEF Announced
<1>2. /\ LineHas(w)' => LineHas(w)
      /\ op'[t] = w => LineHas(w)
      /\ LineHas(w) => LineHas(w)' \/ op'[t] = w
  BY <1>1, LineShifts DEF LineHas
<1>3. ASSUME LineOnce(w) PROVE LineOnce(w)' /\ (op'[t] = w => ~LineHas(w)')
  <2>1. ASSUME NEW i, NEW j, Announced(i, w)', Announced(j, w)' PROVE i = j
    <3>1. i \in Nat /\ j \in Nat /\ i + 1 = j + 1
      BY <1>3, <2>1, LineShifts DEF LineOnce
    <3>2. QED
      BY <3>1
  <2>2. ASSUME NEW i, Announced(i, w)', op'[t] = w PROVE FALSE
    <3>1. i \in Nat \ {0} /\ i + 1 = 1
      BY <1>1, <1>3, <2>2, LineShifts DEF LineOnce
    <3>2. QED
      BY <3>1
  <2>3. QED
    BY <2>1, <2>2 DEF LineOnce, LineHas
<1>4. QED
  BY <1>2, <1>3

\* What is not said is not heard, and what is said once is under way once.
LEMMA WordWritten ==
  ASSUME TypeOK, NEW g \in Procs, NEW more \in Seq(Messages), outq' = [outq EXCEPT ![g] = @ \o more], NEW w
  PROVE  /\ PipeHas(g, w) => PipeHas(g, w)'
         /\ (\A k \in DOMAIN more : more[k].body # w) =>
              (PipeHas(g, w)' => PipeHas(g, w)) /\ (PipeOnce(g, w) => PipeOnce(g, w)')
         /\ 1 \in DOMAIN more /\ more[1].body = w => PipeHas(g, w)'
         /\ DOMAIN more = {1} /\ ~PipeHas(g, w) => PipeOnce(g, w)'
<1>1. PICK n : Written(g, more, n)
  BY WordsWritten
<1>2. \A i : Told(g, i, w) => Told(g, i, w)'
  BY <1>1 DEF Written, Told
<1>3. ASSUME \A k \in DOMAIN more : more[k].body # w
      PROVE  \A i : Told(g, i, w)' => Told(g, i, w)
  BY <1>1, <1>3 DEF Written, Told
<1>4. 1 \in DOMAIN more /\ more[1].body = w => Told(g, n + 1, w)'
  BY <1>1 DEF Written, Told
<1>5. ASSUME DOMAIN more = {1}, ~PipeHas(g, w), NEW i, Told(g, i, w)' PROVE i = n + 1
  <2>1. n \in Nat /\ i \notin DOMAIN outq[g] /\ i \in DOMAIN outq'[g]
    BY <1>1, <1>5 DEF Written, Told, PipeHas
  <2>2. i \in Nat /\ i - n = 1
    BY <1>1, <1>5, <2>1 DEF Written
  <2>3. QED
    BY <2>1, <2>2
<1>6. QED
  BY <1>2, <1>3, <1>4, <1>5 DEF PipeHas, PipeOnce
-----------------------------------------------------------------------------
(* The program of the first adapter, and what the loop is yet to hear of it. *)

\* A task that ends the session, and has still to leave its state.
Shutting(t) == op[t] \in Closing /\ pc[t] \in {"send", "wait", "kill", "recheck", "transition"}
Quitting(t) == Shutting(t) /\ pc[t] # "send"

\* The loop is yet to be told that the program has ended, or acts on it.
EndComing(g, l) == Shutting(l) \/ \E w \in {"exited", "terminated"} : PipeHas(g, w) \/ LineHas(w)

\* What is on its way to the loop is true of the program: a stop that it stands at, and no
\* resumption from that stop; and that it has ended, if it has.
WordsTrue(g, l) ==
  /\ debuggee[g] \in {"none", "launched", "running"} => ~Coming(g, l, "stopped")
  /\ debuggee[g] = "stopped" =>
       \/ PipeStops(g)
       \/ PipeQuiet(g) /\ (LineStops \/ (LineQuiet /\ ~Hand(l, "continued")))
  /\ ComesOnce(g, l, "stopped")
  /\ \A w \in {"exited", "terminated"} : Coming(g, l, w) => debuggee[g] = "exited"

\* Halted is true of the program, unless a call has been granted that resumes it, or the
\* session is being ended.
HaltedTrue(g, c, l) ==
  /\ state = "Halted" /\ ~Granted(c) =>
       \/ debuggee[g] = "stopped" /\ ~Coming(g, l, "stopped")
       \/ debuggee[g] = "exited" /\ Quitting(c)
  /\ debuggee[g] = "exited" =>
       \/ state = "Disconnected" \/ Quitting(c)
       \/ ~Coming(g, l, "stopped") /\ EndComing(g, l)

\* A call that was admitted to a halted session finds it halted until it is granted, and
\* the cache holds handles in a halted session only.
CallsTrue(c) ==
  /\ op[c] \in Resuming \cup Inspecting /\ pc[c] \notin {"idle", "gate"} /\ ~Granted(c) => state = "Halted"
  /\ state # "Halted" => varCache = {}

\* The handles cached, and those on their way to the cache, are of the stop that the program
\* stands at.
StampsTrue(g, c) ==
  /\ state = "Halted" /\ ~Granted(c) => varCache \subseteq {Stamp(g)}
  /\ op[c] = "get_variables" =>
       /\ pc[c] = "cache_vars" => arg[c] = Stamp(g)
       /\ answer[c].result = "ok" => answer[c].stamp = Stamp(g)
       /\ \A i : Said(g, i, c) /\ Told(g, i, "ok") => outq[g][i].stamp = Stamp(g)

ProgramTrue(g, c, l) == WordsTrue(g, l) /\ HaltedTrue(g, c, l) /\ StampsTrue(g, c)

\* The steps of a task say nothing, nor do they move the program.
LEMMA StepsSayNothing ==
  ASSUME NEW t, Step(t) \/ Call(t)
  PROVE  UNCHANGED <<events, outq, debuggee, stops>>
BY DEF Step, Call, Gate, IsRunning, SpawnFails, Spawn, SetStdin, SetChild, SetKind, Send, Receive, SetHalt,
       ClearHalt, Recheck, transition_to, Kill, ClearBreakpoints, UpdateBreakpoints, CacheVariables,
       adapter, client

LEMMA StepsKeepState ==
  ASSUME NEW t, Step(t)
  PROVE  /\ state' = state \/ transition_to(t)
         /\ varCache' = varCache \/ transition_to(t) \/ CacheVariables(t)
         /\ answer' = answer \/ Receive(t)
         /\ pc[t] # "idle"
<1>1. CASE Gate(t) \/ IsRunning(t) \/ SpawnFails(t) \/ Spawn(t) \/ SetStdin(t) \/ SetChild(t) \/ SetKind(t)
  BY <1>1 DEF Gate, IsRunning, SpawnFails, Spawn, SetStdin, SetChild, SetKind, session
<1>2. CASE Send(t) \/ Receive(t) \/ SetHalt(t) \/ ClearHalt(t) \/ Recheck(t) \/ transition_to(t)
  BY <1>2 DEF Send, Receive, SetHalt, ClearHalt, Recheck, transition_to, session
<1>3. CASE Kill(t) \/ ClearBreakpoints(t) \/ UpdateBreakpoints(t) \/ CacheVariables(t)
  BY <1>3 DEF Kill, ClearBreakpoints, UpdateBreakpoints, CacheVariables, session
<1>4. QED
  BY <1>1, <1>2, <1>3 DEF Step

\* Where nothing is said, what is under way stays so, but for what the loop has done with.
LEMMA WordsKept ==
  ASSUME NEW g \in Procs, NEW l, UNCHANGED <<events, outq, debuggee>>,
         \A w : Hand(l, w)' => Hand(l, w)
  PROVE  /\ \A w : Coming(g, l, w)' => Coming(g, l, w)
         /\ \A w : (PipeHas(g, w)' <=> PipeHas(g, w)) /\ (LineHas(w)' <=> LineHas(w))
         /\ WordsTrue(g, l) => WordsTrue(g, l)'
<1>1. \A i, w : (Told(g, i, w)' <=> Told(g, i, w)) /\ (Announced(i, w)' <=> Announced(i, w))
  BY DEF Told, Announced
<1>2. \A w : (PipeHas(g, w)' <=> PipeHas(g, w)) /\ (LineHas(w)' <=> LineHas(w))
  BY <1>1 DEF PipeHas, LineHas
<1>3. \A w : Coming(g, l, w)' => Coming(g, l, w)
  BY <1>2 DEF Coming
<1>4. ComesOnce(g, l, "stopped") => ComesOnce(g, l, "stopped")'
  BY <1>1, <1>2 DEF ComesOnce, PipeOnce, LineOnce
<1>5. /\ PipeStops(g)' <=> PipeStops(g)
      /\ PipeQuiet(g)' <=> PipeQuiet(g)
      /\ LineStops' <=> LineStops
      /\ LineQuiet' <=> LineQuiet
  BY <1>1 DEF PipeStops, PipeQuiet, LineStops, LineQuiet
<1>6. QED
  BY <1>2, <1>3, <1>4, <1>5 DEF WordsTrue

\* The end of a session is carried through.
LEMMA ShutsThrough ==
  ASSUME TypeOK, NEW t \in Tasks, Step(t), Shutting(t)
  PROVE  Quitting(t)' \/ state' = "Disconnected"
<1>1. /\ op[t] \in Closing /\ op'[t] = op[t] /\ state \in SessionStates
      /\ Target(op[t]) = "Disconnected" /\ AfterReply(op[t]) = "kill" /\ AfterFailure(op[t]) = "kill"
  <2>1. op[t] \in Closing /\ op'[t] = op[t] /\ state \in SessionStates
    BY StepsKeepOp DEF Shutting, TypeOK, SessionTypeOK
  <2>2. Target(op[t]) = "Disconnected"
    BY <2>1, TargetPlaces DEF Closing, Events
  <2>3. AfterReply(op[t]) = "kill" /\ AfterFailure(op[t]) = "kill"
    BY <2>1 DEF AfterReply, AfterFailure, Closing, Resuming, Breakpoints
  <2>4. QED
    BY <2>1, <2>2, <2>3
<1>2. CASE pc[t] \in {"send", "wait", "kill"}
  <2>1. Send(t) \/ Receive(t) \/ Kill(t)
    BY <1>2, StepAt
  <2>2. \E l \in {"wait", "kill", "recheck"} : pc' = [pc EXCEPT ![t] = l]
    BY <1>1, <2>1 DEF Send, Receive, Kill, Goto
  <2>3. pc'[t] \in {"wait", "kill", "recheck"}
    BY <2>2 DEF TypeOK, TaskTypeOK
  <2>4. QED
    BY <1>1, <2>3 DEF Quitting, Shutting
<1>3. CASE pc[t] = "recheck"
  <2>1. UNCHANGED state /\ pc'[t] = IF state = "Disconnected" THEN "idle" ELSE "transition"
    BY <1>1, <1>3, StepAt DEF Recheck, Goto, session, TypeOK, TaskTypeOK
  <2>2. QED
    BY <1>1, <2>1 DEF Quitting, Shutting
<1>4. CASE pc[t] = "transition"
  <2>1. transition_to(t)
    BY <1>4, StepAt
  <2>2. QED
    BY <1>1, <2>1 DEF transition_to, can_transition_to, SessionStates
<1>5. QED
  BY <1>2, <1>3, <1>4 DEF Shutting

\* A granted call stays granted until it makes its transition, after which the session is
\* not halted.
LEMMA GrantedThrough ==
  ASSUME TypeOK, PendingInv, StagedInv, NEW t \in Tasks, Step(t), Granted(t)
  PROVE  Granted(t)' \/ (pc'[t] = "idle" /\ state' # "Halted")
<1>1. /\ op[t] \in Resuming \cup {"configuration_done"} /\ op'[t] = op[t]
      /\ pc[t] \in {"clear_halt", "transition", "wait"} /\ state \in SessionStates
      /\ op[t] \notin Closing /\ op[t] # "continued"
  BY StepsKeepOp, GrantedPlaces DEF TypeOK, SessionTypeOK, Closing, Resuming
<1>2. CASE pc[t] = "wait"
  BY <1>2, StepAt, ReceiveGrants
<1>3. CASE pc[t] = "clear_halt"
  <2>1. pc'[t] = "transition"
    BY <1>1, <1>3, StepAt DEF ClearHalt, Goto, TypeOK, TaskTypeOK
  <2>2. QED
    BY <1>1, <2>1 DEF Granted
<1>4. CASE pc[t] = "transition"
  <2>1. transition_to(t) /\ Target(op[t]) = "Running"
    BY <1>1, <1>4, StepAt DEF Target, Resuming
  <2>2. pc'[t] = "idle"
    BY <1>1, <2>1 DEF transition_to, Goto, TypeOK, TaskTypeOK
  <2>3. state' # "Halted"
    BY <1>1, <2>1 DEF transition_to, can_transition_to, SessionStates
  <2>4. QED
    BY <2>2, <2>3
<1>5. QED
  BY <1>1, <1>2, <1>3, <1>4

\* What it takes for a task to remain granted, or not.
LEMMA GrantKept ==
  ASSUME NEW t \in Tasks, UNCHANGED outq, op'[t] = op[t], pc'[t] = pc[t], answer'[t] = answer[t]
  PROVE  Granted(t)' <=> Granted(t)
BY DEF Granted, Assented, Said, Told
\* What is known of the first adapter's program when there is one.
FirstProgram(c, l) == \A g \in Procs : g = spawned => ProgramTrue(g, c, l)
BesideTrue(c, l) == OrderTrue(c, l) /\ CallsTrue(c) /\ FirstProgram(c, l)

LEMMA ProgramOf ==
  ASSUME NEW c, NEW l, BesideBase(c, l), BesideTrue(c, l)
  PROVE  /\ spawned # 0 => spawned \in Procs /\ ProgramTrue(spawned, c, l)
         /\ state # "Disconnected" => spawned # 0
BY BoundsAssumption DEF BesideTrue, FirstProgram, OrderTrue, StartTrue, BesideBase, IInv, TypeOK, AdapterTypeOK, Procs

\* A transition of the loop.
LEMMA LoopTransition ==
  ASSUME NEW c, NEW l, Beside(c, l), BesideBase(c, l), transition_to(l)
  PROVE  /\ op[l] \in Events /\ pc[l] = "transition" /\ pc'[l] # "transition"
         /\ op[l] \notin Closing => pc'[l] = "idle"
         /\ UNCHANGED <<op, events, outq, debuggee, stops>>
         /\ state \in SessionStates
         /\ state' \in {state, Target(op[l])} /\ (state' # state => can_transition_to(state, Target(op[l])))
         /\ varCache' \in {varCache, {}}
<1>1. TypeOK /\ l \in Tasks /\ Step(l)
  BY BesideTasks DEF BesideBase, IInv, Step
<1>2. pc[l] = "transition" /\ UNCHANGED <<op, events, outq, debuggee, stops>>
  BY DEF transition_to, adapter, client
<1>3. /\ pc'[l] # "transition"
      /\ op[l] \notin Closing => pc'[l] = "idle"
  BY <1>1 DEF transition_to, Goto, TypeOK, TaskTypeOK
<1>4. /\ state' \in {state, Target(op[l])} /\ (state' # state => can_transition_to(state, Target(op[l])))
      /\ varCache' \in {varCache, {}} /\ state \in SessionStates
  BY <1>1 DEF transition_to, TypeOK, SessionTypeOK
<1>5. QED
  BY <1>2, <1>3, <1>4, RolesPlaces

\* The loop does not take a session out of Halted while its program stands at a stop of which
\* the session knows.
LEMMA LoopLeavesHalt ==
  ASSUME NEW c, NEW l, Beside(c, l), BesideBase(c, l), NEW g \in Procs, ProgramTrue(g, c, l),
         transition_to(l), state = "Halted", ~Granted(c), ~Quitting(c)
  PROVE  state' = "Halted"
<1>1. op[l] \in Events /\ Hand(l, op[l])
  BY LoopTransition DEF Hand
<1>2. debuggee[g] = "stopped" /\ ~Coming(g, l, "stopped")
  BY DEF ProgramTrue, HaltedTrue
<1>3. op[l] \notin {"exited", "terminated"}
  BY <1>1, <1>2 DEF ProgramTrue, WordsTrue, Coming
<1>4. op[l] # "continued"
  <2>1. ~PipeStops(g) /\ ~LineStops
    BY <1>2 DEF Coming, PipeHas, LineHas, PipeStops, LineStops
  <2>2. ~Hand(l, "continued")
    BY <1>2, <2>1 DEF ProgramTrue, WordsTrue
  <2>3. QED
    BY <1>1, <2>2
<1>5. op[l] \in {"initialized", "stopped"}
  BY <1>1, <1>3, <1>4 DEF Events
<1>6. Target(op[l]) \in {"Initialized", "Halted"}
  <2>1. Target("initialized") = "Initialized" /\ Target("stopped") = "Halted"
    BY DEF Target, Closing, Resuming
  <2>2. QED
    BY <1>5, <2>1
<1>7. ~can_transition_to("Halted", "Initialized") /\ ~can_transition_to("Halted", "Halted")
  BY DEF can_transition_to
<1>8. QED
  BY <1>6, <1>7, LoopTransition

\* The session becomes Halted for a stop that the program stands at, of which there is
\* nothing more to be heard.
LEMMA LoopHalts ==
  ASSUME NEW c, NEW l, Beside(c, l), BesideBase(c, l), NEW g \in Procs, ProgramTrue(g, c, l),
         transition_to(l), state # "Halted", state' = "Halted"
  PROVE  /\ debuggee[g] = "stopped" \/ (debuggee[g] = "exited" /\ Quitting(c))
         /\ ~Coming(g, l, "stopped")'
<1>1. op[l] \in Events /\ Target(op[l]) = "Halted" /\ state = "Running"
  BY LoopTransition DEF can_transition_to
<1>2. op[l] = "stopped"
  <2>1. op[l] \in {"initialized", "continued", "terminated", "exited"} => Target(op[l]) # "Halted"
    BY DEF Target, Closing, Resuming
  <2>2. QED
    BY <1>1, <2>1 DEF Events
<1>3. Hand(l, "stopped") /\ ~Hand(l, "stopped")'
  BY <1>2, LoopTransition DEF Hand, Closing
<1>4. debuggee[g] \in {"stopped", "exited"}
  <2>1. debuggee[g] \in ProgramStates
    BY DEF BesideBase, IInv, TypeOK, AdapterTypeOK, ProgramStates
  <2>2. QED
    BY <1>3, <2>1 DEF ProgramTrue, WordsTrue, Coming, ProgramStates
<1>5. debuggee[g] = "exited" => Quitting(c)
  BY <1>1, <1>3 DEF ProgramTrue, HaltedTrue, Coming
<1>6. ~PipeHas(g, "stopped")' /\ ~LineHas("stopped")'
  <2>1. ~PipeHas(g, "stopped") /\ ~LineHas("stopped")
    BY <1>3 DEF ProgramTrue, WordsTrue, ComesOnce
  <2>2. UNCHANGED <<events, outq>>
    BY LoopTransition
  <2>3. QED
    BY <2>1, <2>2 DEF PipeHas, LineHas, Told, Announced
<1>7. QED
  BY <1>3, <1>4, <1>5, <1>6 DEF Coming

\* A transition of the caller does not lead to Halted, and it is granted if it resumes.
LEMMA CallerTransition ==
  ASSUME NEW c, NEW l, Beside(c, l), BesideBase(c, l), transition_to(c)
  PROVE  /\ state' = "Halted" => state = "Halted"
         /\ op[c] \in Resuming \cup Inspecting => Granted(c)
         /\ state = "Disconnected" /\ state' # "Disconnected" => Fresh(c)
<1>1. /\ op[c] \in {"start", "initialize", "configuration_done", "shutdown"} \cup Resuming
      /\ pc[c] = "transition" /\ c \in Tasks
      /\ state' \in {state, Target(op[c])} /\ (state' # state => can_transition_to(state, Target(op[c])))
  BY RolesPlaces, BesideTasks DEF transition_to
<1>2. Target(op[c]) # "Halted"
  BY <1>1 DEF Target, Closing, Resuming
<1>3. op[c] \in Inspecting => op[c] \in Resuming
  BY <1>1 DEF Inspecting, Resuming
<1>4. state = "Disconnected" /\ state' # "Disconnected" => op[c] = "start"
  <2>1. Target(op[c]) = "Connected" <=> op[c] = "start"
    BY <1>1, TargetPlaces
  <2>2. can_transition_to("Disconnected", Target(op[c])) => Target(op[c]) = "Connected"
    BY DEF can_transition_to
  <2>3. QED
    BY <1>1, <2>1, <2>2
<1>5. QED
  BY <1>1, <1>2, <1>3, <1>4 DEF Granted, Fresh

\* What the steps of a task make of CallsTrue.
LEMMA StepCalls ==
  ASSUME NEW c, NEW l, Beside(c, l), BesideBase(c, l), BesideTrue(c, l), NEW t \in Tasks, Step(t)
  PROVE  CallsTrue(c)'
<1>1. /\ TypeOK /\ PendingInv /\ StagedInv /\ c \in Tasks /\ l \in Tasks /\ c # l
      /\ UNCHANGED <<op, outq>> /\ pc[t] # "idle"
  BY BesideTasks, StepsKeepOp, StepsSayNothing, StepsKeepState DEF BesideBase, IInv
<1> DEFINE Reads == op[c] \in Resuming \cup Inspecting
<1>2. /\ Reads /\ pc[c] \notin {"idle", "gate"} /\ ~Granted(c) => state = "Halted"
      /\ state # "Halted" => varCache = {}
  BY DEF BesideTrue, CallsTrue
<1>3. Reads => op[c] \notin Closing /\ ~Quitting(c)
  BY DEF Resuming, Inspecting, Closing, Quitting, Shutting
<1>4. CASE t = c
  <2>1. ASSUME Reads, pc'[c] \notin {"idle", "gate"}, ~Granted(c)'
        PROVE  state' = "Halted"
    <3>1. ~Granted(c)
      BY <1>1, <1>4, <2>1, GrantedThrough
    <3>2. ~transition_to(c)
      BY <2>1, <3>1, CallerTransition
    <3>3. state' = state
      BY <1>4, <3>2, StepsKeepState
    <3>4. CASE pc[c] = "gate"
      <4>1. is_allowed(op[c], state)
        <5>1. Gate(c)
          BY <1>4, <3>4, StepAt
        <5>2. QED
          BY <1>1, <2>1, <5>1 DEF Gate, Goto, TypeOK, TaskTypeOK
      <4>2. state = "Halted"
        BY <2>1, <4>1 DEF is_allowed, allowed_states, Resuming, Inspecting, Breakpoints
      <4>3. QED
        BY <3>3, <4>2
    <3>5. QED
      BY <1>1, <1>2, <1>4, <2>1, <3>1, <3>3, <3>4
  <2>2. ASSUME state' # "Halted" PROVE varCache' = {}
    <3>1. CASE transition_to(c)
      BY <1>2, <2>2, <3>1 DEF transition_to
    <3>2. CASE CacheVariables(c)
      <4>1. op[c] = "get_variables" /\ pc[c] = "cache_vars" /\ state' = state
        BY <1>1, <3>2 DEF CacheVariables, StagedInv, Staged
      <4>2. Reads /\ ~Granted(c)
        BY <4>1 DEF Inspecting, Granted
      <4>3. QED
        BY <1>2, <2>2, <4>1, <4>2
    <3>3. CASE ~transition_to(c) /\ ~CacheVariables(c)
      BY <1>2, <1>4, <2>2, <3>3, StepsKeepState
    <3>4. QED
      BY <3>1, <3>2, <3>3
  <2>3. QED
    BY <1>1, <2>1, <2>2 DEF CallsTrue
<1>5. CASE t = l
  <2>1. pc'[c] = pc[c] /\ answer'[c] = answer[c] /\ (Granted(c)' <=> Granted(c))
    BY <1>1, <1>5, OthersStay, GrantKept
  <2>2. ASSUME Reads, pc'[c] \notin {"idle", "gate"}, ~Granted(c)'
        PROVE  state' = "Halted"
    <3>1. state = "Halted" /\ ~Granted(c) /\ ~Quitting(c)
      BY <1>2, <1>3, <2>1, <2>2
    <3>2. CASE transition_to(l)
      <4>1. PICK g \in Procs : ProgramTrue(g, c, l)
        BY <3>1, ProgramOf
      <4>2. QED
        BY <3>1, <3>2, <4>1, LoopLeavesHalt
    <3>3. QED
      BY <1>5, <3>1, <3>2, StepsKeepState
  <2>3. ASSUME state' # "Halted" PROVE varCache' = {}
    <3>1. CASE transition_to(l)
      BY <1>2, <2>3, <3>1 DEF transition_to
    <3>2. ~CacheVariables(l)
      BY RolesPlaces DEF CacheVariables
    <3>3. QED
      BY <1>2, <1>5, <2>3, <3>1, <3>2, StepsKeepState
  <2>4. QED
    BY <1>1, <2>2, <2>3 DEF CallsTrue
<1>6. QED
  BY <1>1, <1>4, <1>5, BesideMoves

\* What goes on under a step of a task: the words that are under way, and Halted.
LEMMA StepWords ==
  ASSUME NEW c, NEW l, Beside(c, l), BesideBase(c, l), NEW g \in Procs, NEW t \in Tasks, Step(t), WordsTrue(g, l)
  PROVE  /\ WordsTrue(g, l)'
         /\ \A w : Coming(g, l, w)' => Coming(g, l, w)
         /\ \A w : (PipeHas(g, w)' <=> PipeHas(g, w)) /\ (LineHas(w)' <=> LineHas(w))
<1>1. /\ UNCHANGED <<op, events, outq, debuggee>> /\ pc[t] # "idle"
      /\ l # t => pc'[l] = pc[l]
  BY BesideTasks, StepsKeepOp, StepsSayNothing, StepsKeepState, OthersStay DEF BesideBase, IInv
<1>2. \A w : Hand(l, w)' => Hand(l, w)
  BY <1>1 DEF Hand
<1>3. QED
  BY <1>1, <1>2, WordsKept

LEMMA StepHalted ==
  ASSUME NEW c, NEW l, Beside(c, l), BesideBase(c, l), BesideTrue(c, l), NEW g \in Procs, ProgramTrue(g, c, l),
         NEW t \in Tasks, Step(t)
  PROVE  /\ HaltedTrue(g, c, l)'
         /\ state' = "Halted" /\ ~Granted(c)' =>
              \/ state = "Halted" /\ ~Granted(c)
              \/ state # "Halted" /\ t = l
<1>1. /\ TypeOK /\ PendingInv /\ StagedInv /\ c \in Tasks /\ l \in Tasks /\ c # l
      /\ UNCHANGED <<op, outq, debuggee>> /\ WordsTrue(g, l)
  BY BesideTasks, StepsKeepOp, StepsSayNothing DEF BesideBase, IInv, ProgramTrue
<1>2. /\ \A w : Coming(g, l, w)' => Coming(g, l, w)
      /\ \A w : (PipeHas(g, w)' <=> PipeHas(g, w)) /\ (LineHas(w)' <=> LineHas(w))
  BY <1>1, StepWords
<1>3. /\ state = "Halted" /\ ~Granted(c) =>
           (debuggee[g] = "stopped" /\ ~Coming(g, l, "stopped")) \/ (debuggee[g] = "exited" /\ Quitting(c))
      /\ debuggee[g] = "exited" =>
           state = "Disconnected" \/ Quitting(c) \/ (~Coming(g, l, "stopped") /\ EndComing(g, l))
  BY DEF ProgramTrue, HaltedTrue
<1>4. CASE t = c
  <2>1. state' = "Halted" /\ ~Granted(c)' => state = "Halted" /\ ~Granted(c)
    BY <1>1, <1>4, GrantedThrough, CallerTransition, StepsKeepState
  <2>2. Quitting(c) => Quitting(c)' \/ state' = "Disconnected"
    BY <1>1, <1>4, ShutsThrough DEF Quitting
  <2>3. state = "Disconnected" /\ debuggee[g] = "exited" => state' = "Disconnected"
    <3>1. Fresh(c) => Untouched(g)
      BY DEF BesideTrue, OrderTrue, StartTrue
    <3>2. QED
      BY <1>4, <3>1, CallerTransition, StepsKeepState DEF Untouched
  <2>4. EndComing(g, l) => EndComing(g, l)'
    <3>1. pc'[l] = pc[l]
      BY <1>1, <1>4, OthersStay
    <3>2. QED
      BY <1>1, <1>2, <3>1 DEF EndComing, Shutting
  <2>5. HaltedTrue(g, c, l)'
    BY <1>1, <1>2, <1>3, <2>1, <2>2, <2>3, <2>4 DEF HaltedTrue
  <2>6. QED
    BY <2>1, <2>5
<1>5. CASE t = l
  <2>1. /\ pc'[c] = pc[c] /\ answer'[c] = answer[c] /\ (Granted(c)' <=> Granted(c))
        /\ Quitting(c)' <=> Quitting(c)
    BY <1>1, <1>5, OthersStay, GrantKept DEF Quitting, Shutting
  <2>2. state' = state \/ transition_to(l)
    BY <1>5, StepsKeepState
  <2>3. state' = "Halted" /\ state # "Halted" =>
          /\ debuggee[g] = "stopped" \/ (debuggee[g] = "exited" /\ Quitting(c))
          /\ ~Coming(g, l, "stopped")'
    BY <2>2, LoopHalts
  <2>4. state = "Disconnected" => state' = "Disconnected"
    <3>1. ASSUME transition_to(l), state = "Disconnected", state' # state PROVE FALSE
      <4>1. op[l] \in Events /\ can_transition_to("Disconnected", Target(op[l]))
        BY <3>1, LoopTransition
      <4>2. Target(op[l]) = "Connected"
        BY <4>1 DEF can_transition_to
      <4>3. op[l] = "start"
        BY <4>1, <4>2, TargetPlaces
      <4>4. QED
        BY <4>3, RolesPlaces
    <3>2. QED
      BY <2>2, <3>1
  <2>5. EndComing(g, l) => EndComing(g, l)' \/ state' = "Disconnected"
    BY <1>1, <1>2, <1>5, ShutsThrough DEF EndComing, Quitting
  <2>6. HaltedTrue(g, c, l)'
    BY <1>1, <1>2, <1>3, <2>1, <2>3, <2>4, <2>5 DEF HaltedTrue
  <2>7. QED
    BY <1>5, <2>1, <2>6
<1>6. QED
  BY <1>1, <1>4, <1>5, BesideMoves

\* The handles, under a step of a task.
LEMMA StepStamps ==
  ASSUME NEW c, NEW l, Beside(c, l), BesideBase(c, l), BesideTrue(c, l), NEW g \in Procs, ProgramTrue(g, c, l),
         NEW t \in Tasks, Step(t)
  PROVE  StampsTrue(g, c)'
<1>1. /\ TypeOK /\ c \in Tasks /\ l \in Tasks /\ c # l /\ StagedInv /\ PendingInv
      /\ UNCHANGED <<op, outq, stops>>
  BY BesideTasks, StepsKeepOp, StepsSayNothing DEF BesideBase, IInv
<1>2. /\ Stamp(g)' = Stamp(g)
      /\ \A i, w : (Said(g, i, c)' <=> Said(g, i, c)) /\ (Told(g, i, w)' <=> Told(g, i, w))
  BY <1>1 DEF Stamp, Said, Told
<1>3. /\ state = "Halted" /\ ~Granted(c) => varCache \subseteq {Stamp(g)}
      /\ op[c] = "get_variables" =>
           /\ pc[c] = "cache_vars" => arg[c] = Stamp(g)
           /\ answer[c].result = "ok" => answer[c].stamp = Stamp(g)
           /\ \A i : Said(g, i, c) /\ Told(g, i, "ok") => outq[g][i].stamp = Stamp(g)
      /\ state # "Halted" => varCache = {}
  BY DEF ProgramTrue, StampsTrue, BesideTrue, CallsTrue
<1>4. state' = "Halted" /\ ~Granted(c)' => (state = "Halted" /\ ~Granted(c)) \/ (state # "Halted" /\ t = l)
  BY StepHalted
<1>5. CASE t = c
  <2>1. varCache' \subseteq varCache \/ (op[c] = "get_variables" /\ pc[c] = "cache_vars" /\ varCache' = varCache \cup {arg[c]})
    <3>1. CASE transition_to(c)
      BY <3>1 DEF transition_to
    <3>2. CASE CacheVariables(c)
      BY <1>1, <3>2 DEF CacheVariables, StagedInv, Staged
    <3>3. QED
      BY <1>5, <3>1, <3>2, StepsKeepState
  <2>2. state' = "Halted" /\ ~Granted(c)' => varCache' \subseteq {Stamp(g)}
    BY <1>1, <1>3, <1>4, <1>5, <2>1
  <2>3. ASSUME op[c] = "get_variables"
        PROVE  /\ pc'[c] = "cache_vars" => arg'[c] = Stamp(g)
               /\ answer'[c].result = "ok" => answer'[c].stamp = Stamp(g)
    <3>1. CASE Receive(c)
      <4>1. /\ answer'[c] = NoAnswer /\ arg'[c] = answer[c].stamp
            /\ pc'[c] = IF answer[c].result = "ok" THEN AfterReply(op[c]) ELSE AfterFailure(op[c])
        BY <1>1, <3>1 DEF Receive, Goto, TypeOK, TaskTypeOK
      <4>2. AfterFailure(op[c]) # "cache_vars"
        BY DEF AfterFailure
      <4>3. QED
        BY <1>3, <2>3, <4>1, <4>2 DEF NoAnswer
    <3>2. CASE ~Receive(c)
      <4>1. answer' = answer
        BY <1>5, <3>2, StepsKeepState
      <4>2. pc'[c] # "cache_vars"
        <5>1. pc[c] # "wait"
          BY <1>5, <3>2, StepAt
        <5>2. CASE Send(c)
          <6>1. Blocking(op[c]) /\ AfterFailure(op[c]) = "idle"
            BY <2>3 DEF Blocking, AfterFailure, Closing
          <6>2. QED
            BY <1>1, <5>2, <6>1 DEF Send, Goto, TypeOK, TaskTypeOK
        <5>3. CASE Gate(c) \/ IsRunning(c) \/ SpawnFails(c) \/ Spawn(c) \/ SetStdin(c) \/ SetChild(c) \/ SetKind(c)
          <6>1. \E a \in Labels \ {"cache_vars"} : pc' = [pc EXCEPT ![c] = a]
            BY <5>3, AfterGatePlaces
            DEF Gate, IsRunning, SpawnFails, Spawn, SetStdin, SetChild, SetKind, Goto, Labels
          <6>2. QED
            BY <1>1, <6>1 DEF TypeOK, TaskTypeOK
        <5>4. CASE SetHalt(c) \/ ClearHalt(c) \/ Recheck(c) \/ transition_to(c) \/ Kill(c)
                     \/ ClearBreakpoints(c) \/ UpdateBreakpoints(c) \/ CacheVariables(c)
          <6>1. \E a \in Labels \ {"cache_vars"} : pc' = [pc EXCEPT ![c] = a]
            BY <5>4 DEF SetHalt, ClearHalt, Recheck, transition_to, Kill, ClearBreakpoints, UpdateBreakpoints,
                        CacheVariables, Goto, Labels
          <6>2. QED
            BY <1>1, <6>1 DEF TypeOK, TaskTypeOK
        <5>5. QED
          BY <1>5, <3>2, <5>2, <5>3, <5>4 DEF Step
      <4>3. QED
        BY <1>3, <2>3, <4>1, <4>2
    <3>3. QED
      BY <3>1, <3>2
  <2>4. QED
    BY <1>1, <1>2, <1>3, <2>2, <2>3 DEF StampsTrue
<1>6. CASE t = l
  <2>1. pc'[c] = pc[c] /\ arg'[c] = arg[c] /\ answer'[c] = answer[c]
    BY <1>1, <1>6, OthersStay
  <2>2. varCache' \subseteq varCache
    <3>1. transition_to(l) => varCache' \subseteq varCache
      BY DEF transition_to
    <3>2. ~CacheVariables(l)
      BY RolesPlaces DEF CacheVariables
    <3>3. QED
      BY <1>6, <3>1, <3>2, StepsKeepState
  <2>3. state' = "Halted" /\ ~Granted(c)' => varCache' \subseteq {Stamp(g)}
    BY <1>3, <1>4, <2>2
  <2>4. QED
    BY <1>1, <1>2, <1>3, <2>1, <2>3 DEF StampsTrue
<1>7. QED
  BY <1>1, <1>5, <1>6, BesideMoves

LEMMA StepBeside ==
  ASSUME NEW c, NEW l, Beside(c, l), BesideBase(c, l), BesideTrue(c, l), NEW t \in Tasks, Step(t), UNCHANGED spawned
  PROVE  CallsTrue(c)' /\ FirstProgram(c, l)'
<1>1. CallsTrue(c)'
  BY StepCalls
<1>2. ASSUME NEW g \in Procs, g = spawned PROVE ProgramTrue(g, c, l)'
  <2>1. ProgramTrue(g, c, l)
    BY <1>2 DEF BesideTrue, FirstProgram
  <2>2. WordsTrue(g, l)' /\ HaltedTrue(g, c, l)' /\ StampsTrue(g, c)'
    BY <2>1, StepWords, StepHalted, StepStamps DEF ProgramTrue
  <2>3. QED
    BY <2>2 DEF ProgramTrue
<1>3. QED
  BY <1>1, <1>2 DEF FirstProgram

\* The one step that makes a new process makes the first.
LEMMA SpawnBeside ==
  ASSUME NEW c, NEW l, Beside(c, l), BesideBase(c, l), BesideTrue(c, l), NEW t \in Tasks, Spawn(t),
         spawned <= 1, spawned' <= 1
  PROVE  CallsTrue(c)' /\ FirstProgram(c, l)'
<1>1. TypeOK /\ Tasks = {c, l} /\ c # l /\ Step(t)
  BY BesideTasks DEF BesideBase, IInv, Step
<1>2. OrderTrue(c, l)' /\ CallsTrue(c)'
  BY <1>1, StartOrder, StepCalls DEF BesideTrue
<1>3. t = c /\ op[c] = "start" /\ UNCHANGED op /\ pc'[c] = "set_stdin"
  <2>1. t = c /\ op[c] = "start"
    BY <1>1, RolesPlaces DEF Spawn
  <2>2. QED
    BY <1>1, <2>1 DEF Spawn, Goto, TypeOK, TaskTypeOK
<1>4. Fresh(c)'
  BY <1>3 DEF Fresh, Holding
<1>5. events' = <<>> /\ pc'[l] = "idle" /\ (\A g \in Procs : Untouched(g)') /\ state' = "Disconnected"
  <2>1. state' = "Disconnected"
    BY <1>2, <1>3 DEF OrderTrue, StartTrue
  <2>2. QED
    BY <1>2, <1>4, <2>1 DEF OrderTrue, StartTrue
<1>6. ASSUME NEW g \in Procs PROVE ProgramTrue(g, c, l)'
  <2>1. outq'[g] = <<>> /\ debuggee'[g] = "none"
    BY <1>5 DEF Untouched
  <2>2. \A i, w : ~Told(g, i, w)' /\ ~Announced(i, w)'
    BY <1>5, <2>1 DEF Told, Announced
  <2>3. \A w : ~Coming(g, l, w)' /\ ~PipeHas(g, w)' /\ ~LineHas(w)'
    BY <1>5, <2>2 DEF Coming, PipeHas, LineHas, Hand
  <2>4. WordsTrue(g, l)'
    BY <2>1, <2>2, <2>3 DEF WordsTrue, ComesOnce, PipeOnce, LineOnce
  <2>5. HaltedTrue(g, c, l)' /\ StampsTrue(g, c)'
    BY <1>3, <1>5, <2>1 DEF HaltedTrue, StampsTrue
  <2>6. QED
    BY <2>4, <2>5 DEF ProgramTrue
<1>7. QED
  BY <1>2, <1>6 DEF FirstProgram

LEMMA CallBeside ==
  ASSUME NEW c, NEW l, Beside(c, l), BesideBase(c, l), BesideTrue(c, l), Call(c)
  PROVE  CallsTrue(c)' /\ FirstProgram(c, l)'
<1>1. TypeOK /\ PendingInv /\ c \in Tasks /\ l \in Tasks /\ c # l
  BY BesideTasks DEF BesideBase, IInv
<1>2. /\ pc[c] = "idle" /\ pc'[c] = "gate" /\ UNCHANGED <<state, varCache, spawned, events, outq, debuggee, stops, arg, answer>>
      /\ op'[l] = op[l] /\ pc'[l] = pc[l]
  BY <1>1, OthersStay DEF Call, Goto, session, client, adapter, TypeOK, TaskTypeOK
<1>3. ~Granted(c) /\ ~Granted(c)' /\ ~Quitting(c)
  BY <1>2 DEF Granted, Quitting, Shutting
<1>4. CallsTrue(c)'
  BY <1>2 DEF BesideTrue, CallsTrue
<1>5. ASSUME NEW g \in Procs, g = spawned PROVE ProgramTrue(g, c, l)'
  <2>1. ProgramTrue(g, c, l)
    BY <1>5 DEF BesideTrue, FirstProgram
  <2>2. \A w : Hand(l, w)' => Hand(l, w)
    BY <1>2 DEF Hand
  <2>3. /\ WordsTrue(g, l)' /\ (\A w : Coming(g, l, w)' => Coming(g, l, w))
        /\ \A w : (PipeHas(g, w)' <=> PipeHas(g, w)) /\ (LineHas(w)' <=> LineHas(w))
    BY <1>2, <2>1, <2>2, WordsKept DEF ProgramTrue
  <2>4. EndComing(g, l) => EndComing(g, l)'
    BY <1>2, <2>3 DEF EndComing, Shutting
  <2>5. HaltedTrue(g, c, l)'
    BY <1>2, <1>3, <2>1, <2>3, <2>4 DEF ProgramTrue, HaltedTrue
  <2>6. StampsTrue(g, c)'
    <3>1. answer'[c] = NoAnswer /\ \A i : ~Said(g, i, c)'
      <4>1. answer[c] = NoAnswer /\ \A i : ~Said(g, i, c)
        BY <1>1, <1>2, NothingUnderWay
      <4>2. QED
        BY <1>2, <4>1 DEF Said
    <3>2. state' = "Halted" => varCache' \subseteq {Stamp(g)'}
      BY <1>2, <1>3, <2>1 DEF ProgramTrue, StampsTrue, Stamp
    <3>3. QED
      BY <1>2, <3>1, <3>2 DEF StampsTrue, NoAnswer
  <2>7. QED
    BY <2>3, <2>5, <2>6 DEF ProgramTrue
<1>6. QED
  BY <1>2, <1>4, <1>5 DEF FirstProgram

LEMMA TakeBeside ==
  ASSUME NEW c, NEW l, Beside(c, l), BesideBase(c, l), BesideTrue(c, l), TakeEvent(l)
  PROVE  CallsTrue(c)' /\ FirstProgram(c, l)'
<1>1. TypeOK /\ c \in Tasks /\ l \in Tasks /\ c # l
  BY BesideTasks DEF BesideBase, IInv
<1>2. /\ pc[l] = "idle" /\ op'[l] \in Events /\ pc'[l] = FirstStep(op'[l])
      /\ UNCHANGED <<state, varCache, spawned, outq, debuggee, stops>>
      /\ op'[c] = op[c] /\ pc'[c] = pc[c] /\ arg'[c] = arg[c] /\ answer'[c] = answer[c]
  BY <1>1, TakenUp, OthersStay DEF session, adapter
<1>3. (Granted(c)' <=> Granted(c)) /\ (Quitting(c)' <=> Quitting(c))
  BY <1>1, <1>2, GrantKept DEF Quitting, Shutting
<1>4. CallsTrue(c)'
  BY <1>2, <1>3 DEF BesideTrue, CallsTrue
<1>5. ASSUME NEW g \in Procs, g = spawned PROVE ProgramTrue(g, c, l)'
  <2>1. ProgramTrue(g, c, l)
    BY <1>5 DEF BesideTrue, FirstProgram
  <2>2. \A w : ~Hand(l, w) /\ (Hand(l, w)' => op'[l] = w)
    BY <1>2 DEF Hand
  <2>3. \A i, w : Told(g, i, w)' <=> Told(g, i, w)
    BY <1>2 DEF Told
  <2>4. /\ \A w : PipeHas(g, w)' <=> PipeHas(g, w)
        /\ (PipeStops(g)' <=> PipeStops(g)) /\ (PipeQuiet(g)' <=> PipeQuiet(g))
        /\ PipeOnce(g, "stopped")' <=> PipeOnce(g, "stopped")
    BY <2>3 DEF PipeHas, PipeStops, PipeQuiet, PipeOnce
  <2>5. \A w : Coming(g, l, w)' => Coming(g, l, w)
    <3>1. \A w : (LineHas(w)' => LineHas(w)) /\ (op'[l] = w => LineHas(w))
      BY <1>1, WordTaken
    <3>2. QED
      BY <2>2, <2>4, <3>1 DEF Coming
  <2>6. ComesOnce(g, l, "stopped") => ComesOnce(g, l, "stopped")'
    <3>1. /\ LineHas("stopped")' => LineHas("stopped")
          /\ op'[l] = "stopped" => LineHas("stopped")
          /\ LineOnce("stopped") => LineOnce("stopped")' /\ (op'[l] = "stopped" => ~LineHas("stopped")')
      BY <1>1, WordTaken
    <3>2. QED
      BY <2>2, <2>4, <3>1 DEF ComesOnce
  <2>7. /\ LineQuiet => LineQuiet' /\ ~Hand(l, "continued")'
        /\ LineStops => LineStops' \/ (LineQuiet' /\ ~Hand(l, "continued")')
    <3>1. /\ LineQuiet => LineQuiet' /\ op'[l] # "continued"
          /\ LineStops => LineStops' \/ (LineQuiet' /\ op'[l] = "stopped")
      BY <1>1, LineTaken
    <3>2. QED
      BY <2>2, <3>1
  <2>8. WordsTrue(g, l)'
    BY <1>2, <2>1, <2>4, <2>5, <2>6, <2>7 DEF ProgramTrue, WordsTrue
  <2>9. EndComing(g, l) => EndComing(g, l)'
    <3>1. ~Shutting(l)
      BY <1>2 DEF Shutting
    <3>2. \A w \in {"exited", "terminated"} : LineHas(w) => LineHas(w)' \/ Shutting(l)'
      <4>1. \A w \in {"exited", "terminated"} : LineHas(w) => LineHas(w)' \/ op'[l] = w
        BY <1>1, WordTaken
      <4>2. op'[l] \in {"exited", "terminated"} => Shutting(l)'
        BY <1>2 DEF Shutting, FirstStep, Closing
      <4>3. QED
        BY <4>1, <4>2
    <3>3. QED
      BY <2>4, <3>1, <3>2 DEF EndComing
  <2>10. HaltedTrue(g, c, l)'
    BY <1>2, <1>3, <2>1, <2>5, <2>9 DEF ProgramTrue, HaltedTrue
  <2>11. StampsTrue(g, c)'
    BY <1>2, <1>3, <2>1, <2>3 DEF ProgramTrue, StampsTrue, Stamp, Said
  <2>12. QED
    BY <2>8, <2>10, <2>11 DEF ProgramTrue
<1>6. QED
  BY <1>2, <1>4, <1>5 DEF FirstProgram

\* Of the reader's steps those of another process say nothing of this one.
LEMMA ReadBeside ==
  ASSUME NEW c, NEW l, Beside(c, l), BesideBase(c, l), BesideTrue(c, l), NEW g \in Procs, g = spawned, Read(g)
  PROVE  CallsTrue(c)' /\ ProgramTrue(g, c, l)'
<1>1. TypeOK /\ PendingInv /\ c \in Tasks /\ l \in Tasks /\ ProgramTrue(g, c, l)
  BY BesideTasks DEF BesideBase, IInv, BesideTrue, FirstProgram
<1>2. UNCHANGED <<state, varCache, op, pc, arg, debuggee, stops>>
  BY DEF Read, session
<1>3. (Granted(c)' <=> Granted(c)) /\ (answer'[c] = answer[c] \/ Said(g, 1, c))
  BY <1>1, AssentRead
<1>4. CallsTrue(c)'
  BY <1>2, <1>3 DEF BesideTrue, CallsTrue
<1>5. \A w : (Hand(l, w)' <=> Hand(l, w)) /\ (Quitting(c)' <=> Quitting(c)) /\ (Shutting(l)' <=> Shutting(l))
  BY <1>2 DEF Hand, Quitting, Shutting
<1>6. \A w \in Events :
        /\ PipeHas(g, w)' => PipeHas(g, w)
        /\ LineHas(w)' <=> LineHas(w) \/ Head(outq[g]).body = w
        /\ Head(outq[g]).body = w => PipeHas(g, w)
        /\ PipeHas(g, w) => PipeHas(g, w)' \/ Head(outq[g]).body = w
        /\ PipeOnce(g, w) => PipeOnce(g, w)' /\ (Head(outq[g]).body = w => ~PipeHas(g, w)')
        /\ LineOnce(w) /\ ~(LineHas(w) /\ Head(outq[g]).body = w) => LineOnce(w)'
  BY <1>1, WordRead
<1>7. \A w \in Events : Coming(g, l, w)' => Coming(g, l, w)
  BY <1>5, <1>6 DEF Coming
<1>8. {"stopped", "exited", "terminated"} \subseteq Events
  BY DEF Events
<1>9. ComesOnce(g, l, "stopped") => ComesOnce(g, l, "stopped")'
  BY <1>5, <1>6, <1>8 DEF ComesOnce
<1>10. debuggee[g] = "stopped" =>
         PipeStops(g)' \/ (PipeQuiet(g)' /\ (LineStops' \/ (LineQuiet' /\ ~Hand(l, "continued")')))
  <2>1. /\ PipeQuiet(g) => PipeQuiet(g)' /\ Head(outq[g]).body # "continued"
        /\ PipeStops(g) => PipeStops(g)' \/ (Head(outq[g]).body = "stopped" /\ PipeQuiet(g)')
    BY <1>1, PipeRead
  <2>2. /\ Head(outq[g]).body = "stopped" => LineStops'
        /\ LineQuiet /\ Head(outq[g]).body # "continued" => LineQuiet'
        /\ LineStops /\ Head(outq[g]).body # "continued" => LineStops'
    BY <1>1, LineRead
  <2>3. QED
    BY <1>1, <1>5, <2>1, <2>2 DEF ProgramTrue, WordsTrue
<1>11. WordsTrue(g, l)'
  BY <1>1, <1>2, <1>7, <1>8, <1>9, <1>10 DEF ProgramTrue, WordsTrue
<1>12. EndComing(g, l) => EndComing(g, l)'
  BY <1>5, <1>6, <1>8 DEF EndComing
<1>13. HaltedTrue(g, c, l)'
  BY <1>1, <1>2, <1>3, <1>5, <1>7, <1>8, <1>12 DEF ProgramTrue, HaltedTrue
<1>14. StampsTrue(g, c)'
  <2>1. /\ 1 \in DOMAIN outq[g] /\ Head(outq[g]) = outq[g][1] /\ Head(outq[g]) \in Messages
        /\ \A i \in DOMAIN outq'[g] : i + 1 \in DOMAIN outq[g] /\ outq'[g][i] = outq[g][i + 1]
    BY <1>1, WordsRead
  <2>2. ASSUME op[c] = "get_variables", answer'[c].result = "ok" PROVE answer'[c].stamp = Stamp(g)
    <3>1. CASE answer'[c] = answer[c]
      BY <1>1, <2>2, <3>1 DEF ProgramTrue, StampsTrue
    <3>2. CASE answer'[c] # answer[c]
      <4>1. Said(g, 1, c)
        BY <1>3, <3>2
      <4>2. PICK m \in Messages : m = outq[g][1]
        BY <2>1
      <4>3. answer'[c] = [result |-> m.body, stamp |-> m.stamp]
        <5>1. m.task = c /\ c # Nobody
          BY <1>1, <4>1, <4>2, TasksAssumption DEF Said
        <5>2. m.body \notin Events
          BY <1>1, <2>1, <4>2, <5>1 DEF PendingInv, EventsForNobody
        <5>3. QED
          BY <1>1, <2>1, <4>2, <5>1, <5>2 DEF Read, TypeOK, TaskTypeOK
      <4>4. Told(g, 1, "ok")
        BY <2>1, <2>2, <4>2, <4>3 DEF Told
      <4>5. QED
        BY <1>1, <2>2, <4>1, <4>2, <4>3, <4>4 DEF ProgramTrue, StampsTrue
    <3>3. QED
      BY <3>1, <3>2
  <2>3. ASSUME op[c] = "get_variables", NEW i, Said(g, i, c)', Told(g, i, "ok")'
        PROVE  outq'[g][i].stamp = Stamp(g)
    <3>1. Said(g, i + 1, c) /\ Told(g, i + 1, "ok") /\ outq'[g][i] = outq[g][i + 1]
      BY <2>1, <2>3 DEF Said, Told
    <3>2. QED
      BY <1>1, <2>3, <3>1 DEF ProgramTrue, StampsTrue
  <2>4. Stamp(g)' = Stamp(g)
    BY <1>2 DEF Stamp
  <2>5. QED
    BY <1>1, <1>2, <1>3, <2>2, <2>3, <2>4 DEF ProgramTrue, StampsTrue
<1>15. QED
  BY <1>4, <1>11, <1>13, <1>14 DEF ProgramTrue

-----------------------------------------------------------------------------
(* What the first adapter says and does.                                   *)

\* The words under way, when the adapter says more.
LEMMA Spoken ==
  ASSUME TypeOK, NEW g \in Procs, NEW l, NEW more \in Seq(Messages), outq' = [outq EXCEPT ![g] = @ \o more],
         UNCHANGED <<events, op, pc>>
  PROVE  /\ \A w : (LineHas(w)' <=> LineHas(w)) /\ (Hand(l, w)' <=> Hand(l, w)) /\ (PipeHas(g, w) => PipeHas(g, w)')
         /\ \A w : (\A k \in DOMAIN more : more[k].body # w) =>
              (Coming(g, l, w)' => Coming(g, l, w)) /\ (ComesOnce(g, l, w) => ComesOnce(g, l, w)')
         /\ EndComing(g, l) => EndComing(g, l)'
         /\ (\A k \in DOMAIN more : more[k].body # "continued") =>
              \/ ~(PipeStops(g) \/ (PipeQuiet(g) /\ (LineStops \/ (LineQuiet /\ ~Hand(l, "continued")))))
              \/ PipeStops(g)' \/ (PipeQuiet(g)' /\ (LineStops' \/ (LineQuiet' /\ ~Hand(l, "continued")')))
<1>1. \A i, w : Announced(i, w)' <=> Announced(i, w)
  BY DEF Announced
<1>2. /\ \A w : (LineHas(w)' <=> LineHas(w)) /\ (Hand(l, w)' <=> Hand(l, w)) /\ (LineOnce(w)' <=> LineOnce(w))
      /\ (LineStops' <=> LineStops) /\ (LineQuiet' <=> LineQuiet) /\ (Shutting(l)' <=> Shutting(l))
  BY <1>1 DEF LineHas, LineOnce, LineStops, LineQuiet, Hand, Shutting
<1>3. ASSUME NEW w
      PROVE  /\ PipeHas(g, w) => PipeHas(g, w)'
             /\ (\A k \in DOMAIN more : more[k].body # w) =>
                  (PipeHas(g, w)' => PipeHas(g, w)) /\ (PipeOnce(g, w) => PipeOnce(g, w)')
  BY WordWritten
<1>4. ASSUME NEW w, \A k \in DOMAIN more : more[k].body # w
      PROVE  (Coming(g, l, w)' => Coming(g, l, w)) /\ (ComesOnce(g, l, w) => ComesOnce(g, l, w)')
  BY <1>2, <1>3, <1>4 DEF Coming, ComesOnce
<1>5. EndComing(g, l) => EndComing(g, l)'
  BY <1>2, <1>3 DEF EndComing
<1>6. (\A k \in DOMAIN more : more[k].body # "continued") =>
        (PipeQuiet(g) => PipeQuiet(g)') /\ (PipeStops(g) => PipeStops(g)')
  BY PipeWritten
<1>7. QED
  BY <1>2, <1>3, <1>4, <1>5, <1>6

\* What a call knows of the session stays when the adapter says more.
LEMMA CallsSpoken ==
  ASSUME NEW c, NEW l, Beside(c, l), BesideBase(c, l), BesideTrue(c, l), NEW g \in Procs, NEW more \in Seq(Messages),
         outq' = [outq EXCEPT ![g] = @ \o more], UNCHANGED <<state, varCache, op, pc, answer>>
  PROVE  CallsTrue(c)' /\ (Granted(c) => Granted(c)')
<1>1. Granted(c) => Granted(c)'
  BY BesideTasks, GrantStays DEF BesideBase, IInv
<1>2. QED
  BY <1>1 DEF BesideTrue, CallsTrue

\* The handles on their way are those of the stop still, when what is said to the call is.
LEMMA StampsSpoken ==
  ASSUME NEW c, NEW l, Beside(c, l), BesideBase(c, l), NEW g \in Procs, ProgramTrue(g, c, l), NEW more \in Seq(Messages),
         outq' = [outq EXCEPT ![g] = @ \o more], UNCHANGED <<state, varCache, op, pc, answer, arg, stops>>,
         \A k \in DOMAIN more : more[k].task = c => more[k].stamp = Stamp(g)
  PROVE  StampsTrue(g, c)'
<1>1. TypeOK /\ c \in Tasks /\ (Granted(c) => Granted(c)') /\ Stamp(g)' = Stamp(g)
  BY BesideTasks, GrantStays DEF BesideBase, IInv, Stamp
<1>2. PICK n : Written(g, more, n)
  BY <1>1, WordsWritten
<1>3. ASSUME op[c] = "get_variables", NEW i, Said(g, i, c)', Told(g, i, "ok")'
      PROVE  outq'[g][i].stamp = Stamp(g)
  <2>1. i \in DOMAIN outq'[g] /\ outq'[g][i].task = c
    BY <1>3 DEF Said
  <2>2. CASE i \in DOMAIN outq[g]
    <3>1. outq'[g][i] = outq[g][i]
      BY <1>2, <2>2 DEF Written
    <3>2. Said(g, i, c) /\ Told(g, i, "ok")
      BY <1>3, <2>2, <3>1 DEF Said, Told
    <3>3. QED
      BY <1>3, <3>1, <3>2 DEF ProgramTrue, StampsTrue
  <2>3. CASE i \notin DOMAIN outq[g]
    <3>1. i - n \in DOMAIN more /\ outq'[g][i] = more[i - n]
      BY <1>2, <2>1, <2>3 DEF Written
    <3>2. QED
      BY <2>1, <3>1
  <2>4. QED
    BY <2>2, <2>3
<1>4. QED
  BY <1>1, <1>3 DEF ProgramTrue, StampsTrue

\* The program stops, of which the session does not know.
LEMMA StopBeside ==
  ASSUME NEW c, NEW l, Beside(c, l), BesideBase(c, l), BesideTrue(c, l), NEW g \in Procs, g = spawned, Stop(g)
  PROVE  CallsTrue(c)' /\ ProgramTrue(g, c, l)'
<1>1. TypeOK /\ PendingInv /\ c \in Tasks /\ l \in Tasks /\ ProgramTrue(g, c, l)
  BY BesideTasks DEF BesideBase, IInv, BesideTrue, FirstProgram
<1>2. /\ UNCHANGED <<state, varCache, events, op, pc, answer, arg>>
      /\ debuggee[g] = "running" /\ debuggee'[g] = "stopped"
  BY <1>1 DEF Stop, session, client, tasks, TypeOK, AdapterTypeOK
<1>3. PICK more \in Seq(Messages) :
        /\ outq' = [outq EXCEPT ![g] = @ \o more]
        /\ DOMAIN more = {1} /\ more[1].body = "stopped" /\ more[1].task = Nobody
  BY <1>1, StopSays
<1>4. CallsTrue(c)' /\ (Granted(c) => Granted(c)')
  BY <1>2, <1>3, CallsSpoken
<1>5. ~Coming(g, l, "stopped") /\ ~(state = "Halted" /\ ~Granted(c))
      /\ \A w \in {"exited", "terminated"} : ~Coming(g, l, w)
  BY <1>1, <1>2 DEF ProgramTrue, WordsTrue, HaltedTrue
<1>6. /\ \A w : (LineHas(w)' <=> LineHas(w)) /\ (Hand(l, w)' <=> Hand(l, w))
      /\ \A w : (\A k \in DOMAIN more : more[k].body # w) => (Coming(g, l, w)' => Coming(g, l, w))
  BY <1>1, <1>2, <1>3, Spoken
<1>7. WordsTrue(g, l)'
  <2>1. PipeStops(g)'
    BY <1>1, StopWritten
  <2>2. PipeOnce(g, "stopped")'
    BY <1>1, <1>3, <1>5, WordWritten DEF Coming
  <2>3. ComesOnce(g, l, "stopped")'
    <3>1. ~LineHas("stopped")' /\ ~Hand(l, "stopped")'
      BY <1>5, <1>6 DEF Coming
    <3>2. LineOnce("stopped")'
      BY <3>1 DEF LineOnce, LineHas
    <3>3. QED
      BY <2>2, <3>1, <3>2 DEF ComesOnce
  <2>4. \A w \in {"exited", "terminated"} : ~Coming(g, l, w)'
    BY <1>3, <1>5, <1>6
  <2>5. QED
    BY <1>2, <2>1, <2>3, <2>4 DEF WordsTrue
<1>8. HaltedTrue(g, c, l)'
  BY <1>2, <1>4, <1>5 DEF HaltedTrue
<1>9. StampsTrue(g, c)'
  <2>1. ASSUME op[c] = "get_variables"
        PROVE  answer[c] = NoAnswer /\ pc[c] # "cache_vars" /\ \A i : ~Said(g, i, c)
    <3>1. ~Granted(c) /\ op[c] \in Inspecting
      BY <2>1 DEF Granted, Resuming, Inspecting
    <3>2. pc[c] \in {"idle", "gate"}
      BY <1>5, <3>1 DEF BesideTrue, CallsTrue
    <3>3. QED
      BY <1>1, <3>2, NothingUnderWay
  <2>2. ASSUME NEW i, Said(g, i, c)' PROVE Said(g, i, c)
    <3>1. PICK n : Written(g, more, n)
      BY <1>1, <1>3, WordsWritten
    <3>2. Nobody # c
      BY <1>1, TasksAssumption
    <3>3. QED
      BY <1>3, <2>2, <3>1, <3>2 DEF Said, Written
  <2>3. QED
    BY <1>2, <1>4, <1>5, <2>1, <2>2 DEF StampsTrue, NoAnswer
<1>10. QED
  BY <1>4, <1>7, <1>8, <1>9 DEF ProgramTrue

\* The program ends, and the loop will hear of it.
LEMMA ExitBeside ==
  ASSUME NEW c, NEW l, Beside(c, l), BesideBase(c, l), BesideTrue(c, l), NEW g \in Procs, g = spawned, Exit(g)
  PROVE  CallsTrue(c)' /\ ProgramTrue(g, c, l)'
<1>1. TypeOK /\ c \in Tasks /\ l \in Tasks /\ ProgramTrue(g, c, l) /\ c # Nobody
  BY BesideTasks, TasksAssumption DEF BesideBase, IInv, BesideTrue, FirstProgram
<1>2. /\ UNCHANGED <<state, varCache, events, op, pc, answer, arg, stops>>
      /\ debuggee[g] = "running" /\ debuggee'[g] = "exited"
  BY <1>1 DEF Exit, session, client, tasks, TypeOK, AdapterTypeOK
<1>3. PICK more \in Seq(Messages) :
        /\ outq' = [outq EXCEPT ![g] = @ \o more]
        /\ \A k \in DOMAIN more : more[k].body \in {"exited", "terminated"} /\ more[k].task = Nobody
        /\ 1 \in DOMAIN more /\ more[1].body = "exited"
  BY <1>1, ExitSays
<1>4. CallsTrue(c)' /\ (Granted(c) => Granted(c)')
  BY <1>2, <1>3, CallsSpoken
<1>5. ~Coming(g, l, "stopped") /\ ~(state = "Halted" /\ ~Granted(c)) /\ ComesOnce(g, l, "stopped")
  BY <1>1, <1>2 DEF ProgramTrue, WordsTrue, HaltedTrue
<1>6. ~Coming(g, l, "stopped")' /\ ComesOnce(g, l, "stopped")'
  <2>1. \A k \in DOMAIN more : more[k].body # "stopped"
    BY <1>3
  <2>2. QED
    BY <1>1, <1>2, <1>3, <1>5, <2>1, Spoken
<1>7. EndComing(g, l)'
  <2>1. PipeHas(g, "exited")'
    BY <1>1, <1>3, WordWritten
  <2>2. QED
    BY <2>1 DEF EndComing
<1>8. WordsTrue(g, l)' /\ HaltedTrue(g, c, l)'
  BY <1>2, <1>4, <1>5, <1>6, <1>7 DEF WordsTrue, HaltedTrue
<1>9. StampsTrue(g, c)'
  <2>1. \A k \in DOMAIN more : more[k].task # c
    BY <1>1, <1>3
  <2>2. QED
    BY <1>1, <1>2, <1>3, <2>1, StampsSpoken
<1>10. QED
  BY <1>4, <1>8, <1>9 DEF ProgramTrue

\* Who has asked: for a resumption, the caller, in a halted session; for the end of a
\* program that has not ended, the caller too.
LEMMA WhoAsks ==
  ASSUME NEW c, NEW l, Beside(c, l), BesideBase(c, l), BesideTrue(c, l), NEW g \in Procs, ProgramTrue(g, c, l),
         NEW i \in DOMAIN inq[g]
  PROVE  /\ inq[g][i].command \in Resuming =>
              /\ inq[g][i].task = c /\ op[c] \in Resuming /\ pc[c] = "wait" /\ ~Granted(c)
              /\ debuggee[g] \in {"stopped", "exited"} /\ (debuggee[g] = "stopped" => ~Coming(g, l, "stopped"))
         /\ inq[g][i].command = "disconnect" => debuggee[g] = "exited" \/ Quitting(c)
<1>1. PendingInv /\ TypeOK /\ Tasks = {c, l} /\ c \in Tasks /\ l \in Tasks
  BY BesideTasks DEF BesideBase, IInv
<1> DEFINE r == inq[g][i]
<1>2. \/ r.task = Nobody /\ r.command \in {"launch", "configuration_done"}
      \/ r.task \in Tasks /\ r.command = Command(op[r.task])
  BY DEF BesideBase, CommandsTrue
<1>3. r.command \in Resuming \cup {"disconnect"} => r.command \notin {"launch", "configuration_done"}
  BY DEF Resuming
<1>4. ASSUME r.command \in Resuming \cup {"disconnect"}
      PROVE  /\ r.task \in {c, l} /\ r.command = Command(op[r.task]) /\ pc[r.task] = "wait" /\ Asked(g, i, r.task)
  <2>1. r.task \in {c, l} /\ r.command = Command(op[r.task]) /\ Asked(g, i, r.task)
    BY <1>1, <1>2, <1>3, <1>4 DEF Asked
  <2>2. QED
    BY <1>1, <2>1, NothingUnderWay
<1>5. op[l] \in Events \cup {"none"} /\ op[c] \in Tools \cup {"none"}
  BY <1>1 DEF TypeOK, TaskTypeOK, BesideBase, Roles
<1>6. ASSUME r.command \in Resuming
      PROVE  /\ r.task = c /\ op[c] \in Resuming /\ pc[c] = "wait" /\ ~Granted(c)
             /\ debuggee[g] \in {"stopped", "exited"} /\ (debuggee[g] = "stopped" => ~Coming(g, l, "stopped"))
  <2>1. op[r.task] \in Resuming
    BY <1>4, <1>6 DEF Command, Resuming
  <2>2. r.task = c
    BY <1>4, <1>5, <1>6, <2>1 DEF Resuming, Events
  <2>3. ~Granted(c)
    <3>1. answer[c] = NoAnswer /\ \A h \in Procs : \A j : ~Said(h, j, c)
      BY <1>1, <1>4, <1>6, <2>2 DEF PendingInv, Routed, UnderWay, Waits, OneAtMost
    <3>2. pc[c] = "wait"
      BY <1>4, <1>6, <2>2
    <3>3. QED
      BY <3>1, <3>2 DEF Granted, Assented, NoAnswer
  <2>4. state = "Halted"
    BY <1>4, <1>6, <2>1, <2>2, <2>3 DEF BesideTrue, CallsTrue
  <2>5. QED
    BY <1>4, <1>6, <2>1, <2>2, <2>3, <2>4 DEF ProgramTrue, HaltedTrue
<1>7. ASSUME r.command = "disconnect" PROVE debuggee[g] = "exited" \/ Quitting(c)
  <2>1. "disconnect" \notin Events \cup Tools \cup {"none"}
    BY ToolsAssumption DEF Events
  <2>2. op[r.task] \in Closing /\ pc[r.task] = "wait"
    BY <1>4, <1>5, <1>7, <2>1 DEF Command
  <2>3. CASE r.task = c
    BY <2>2, <2>3 DEF Quitting, Shutting
  <2>4. CASE r.task = l
    <3>1. op[l] \in {"exited", "terminated"} /\ Hand(l, op[l])
      BY <1>5, <2>2, <2>4, ToolsAreNotEvents DEF Closing, Events, Hand
    <3>2. QED
      BY <3>1 DEF ProgramTrue, WordsTrue, Coming
  <2>5. QED
    BY <1>4, <1>7, <2>3, <2>4
<1>8. QED
  BY <1>6, <1>7

LEMMA ServeBeside ==
  ASSUME NEW c, NEW l, Beside(c, l), BesideBase(c, l), BesideTrue(c, l), NEW g \in Procs, g = spawned, Serve(g)
  PROVE  CallsTrue(c)' /\ ProgramTrue(g, c, l)'
<1>1. TypeOK /\ PendingInv /\ c \in Tasks /\ l \in Tasks /\ c # Nobody /\ ProgramTrue(g, c, l)
  BY BesideTasks, TasksAssumption DEF BesideBase, IInv, BesideTrue, FirstProgram
<1>2. UNCHANGED <<state, varCache, events, op, pc, answer, arg>>
  BY DEF Serve, session, client, tasks
<1>3. PICK r \in Requests : \E x \in Reactions(g, r.command, debuggee[g]) :
        \E more \in Seq(Messages) : Replied(g, r, x, more)
  BY <1>1, ServeReplies
<1>16. PICK x \in Reactions(g, r.command, debuggee[g]) : \E more \in Seq(Messages) : Replied(g, r, x, more)
  BY <1>3
<1>17. PICK more \in Seq(Messages) : Replied(g, r, x, more)
  BY <1>16
<1>4. /\ 1 \in DOMAIN inq[g] /\ r = inq[g][1] /\ UNCHANGED stops
      /\ outq' = [outq EXCEPT ![g] = @ \o more]
      /\ 1 \in DOMAIN more /\ more[1].task = r.task /\ more[1].body = x.result /\ more[1].stamp = Stamp(g)
      /\ x.result \in {"ok", "failed"}
      /\ \A k \in DOMAIN more : k # 1 =>
           more[k].task = Nobody /\ \E n \in DOMAIN x.announced : more[k].body = x.announced[n]
  BY <1>17 DEF Replied, Stamp
<1>5. debuggee[g] \in ProgramStates /\ debuggee'[g] = x.next
  BY <1>1, <1>17 DEF Replied, TypeOK, AdapterTypeOK, ProgramStates
<1>6. CallsTrue(c)' /\ (Granted(c) => Granted(c)')
  BY <1>2, <1>4, CallsSpoken
<1>7. /\ r.command \in Resuming =>
           /\ r.task = c /\ op[c] \in Resuming /\ pc[c] = "wait"
           /\ debuggee[g] \in {"stopped", "exited"} /\ (debuggee[g] = "stopped" => ~Coming(g, l, "stopped"))
      /\ r.command = "disconnect" => debuggee[g] = "exited" \/ Quitting(c)
  BY <1>1, <1>4, WhoAsks
<1>8. r.command \in Resuming /\ x.result = "ok" => Granted(c)'
  <2>1. PICK n : Written(g, more, n)
    BY <1>1, <1>4, WordsWritten
  <2>2. n + 1 \in DOMAIN outq'[g] /\ outq'[g][n + 1] = more[1]
    BY <1>4, <2>1 DEF Written
  <2>3. ASSUME r.command \in Resuming, x.result = "ok"
        PROVE  Said(g, n + 1, c)' /\ Told(g, n + 1, "ok")'
    BY <1>4, <1>7, <2>2, <2>3 DEF Said, Told
  <2>4. QED
    BY <1>2, <1>7, <2>3 DEF Granted, Assented
<1>9. /\ \A n \in DOMAIN x.announced :
           /\ x.announced[n] # "stopped"
           /\ x.announced[n] = "continued" => x.next = "running"
           /\ x.announced[n] \in {"exited", "terminated"} => x.next = "exited"
      /\ x.next = "stopped" => debuggee[g] = "stopped"
      /\ debuggee[g] = "exited" => x.next = "exited"
      /\ x.next = "exited" => debuggee[g] = "exited" \/ r.command = "disconnect"
      /\ debuggee[g] = "stopped" /\ x.next \notin {"stopped", "exited"} => r.command \in Resuming /\ x.result = "ok"
      /\ x.next \in ProgramStates
  BY <1>5, ReactionsTrue, ReactionsStop, ReactionsEnd
<1>10. /\ \A k \in DOMAIN more : more[k].body # "stopped"
       /\ x.next = "stopped" => \A k \in DOMAIN more : more[k].body # "continued"
       /\ \A w \in {"exited", "terminated"} : x.next # "exited" => \A k \in DOMAIN more : more[k].body # w
  BY <1>4, <1>9
<1>11. /\ Coming(g, l, "stopped")' => Coming(g, l, "stopped")
       /\ ComesOnce(g, l, "stopped") => ComesOnce(g, l, "stopped")'
       /\ EndComing(g, l) => EndComing(g, l)'
       /\ \A w \in {"exited", "terminated"} : x.next # "exited" => (Coming(g, l, w)' => Coming(g, l, w))
  BY <1>1, <1>2, <1>4, <1>10, Spoken
<1>12. WordsTrue(g, l)'
  <2>1. debuggee'[g] \in {"none", "launched", "running"} => ~Coming(g, l, "stopped")'
    <3>1. debuggee[g] \in {"none", "launched", "running"} => ~Coming(g, l, "stopped")
      BY <1>1 DEF ProgramTrue, WordsTrue
    <3>2. QED
      BY <1>5, <1>7, <1>9, <1>11, <3>1 DEF ProgramStates
  <2>2. debuggee'[g] = "stopped" =>
          PipeStops(g)' \/ (PipeQuiet(g)' /\ (LineStops' \/ (LineQuiet' /\ ~Hand(l, "continued")')))
    <3>1. debuggee[g] = "stopped" =>
            PipeStops(g) \/ (PipeQuiet(g) /\ (LineStops \/ (LineQuiet /\ ~Hand(l, "continued"))))
      BY <1>1 DEF ProgramTrue, WordsTrue
    <3>2. QED
      BY <1>1, <1>2, <1>4, <1>5, <1>9, <1>10, <3>1, Spoken
  <2>3. ComesOnce(g, l, "stopped")'
    BY <1>1, <1>11 DEF ProgramTrue, WordsTrue
  <2>4. \A w \in {"exited", "terminated"} : Coming(g, l, w)' => debuggee'[g] = "exited"
    BY <1>1, <1>5, <1>9, <1>11 DEF ProgramTrue, WordsTrue
  <2>5. QED
    BY <2>1, <2>2, <2>3, <2>4 DEF WordsTrue
<1>13. HaltedTrue(g, c, l)'
  <2>1. Quitting(c)' <=> Quitting(c)
    BY <1>2 DEF Quitting, Shutting
  <2>2. ASSUME state' = "Halted", ~Granted(c)'
        PROVE  \/ debuggee'[g] = "stopped" /\ ~Coming(g, l, "stopped")'
               \/ debuggee'[g] = "exited" /\ Quitting(c)'
    <3>1. \/ debuggee[g] = "stopped" /\ ~Coming(g, l, "stopped")
          \/ debuggee[g] = "exited" /\ Quitting(c)
      BY <1>1, <1>2, <1>6, <2>2 DEF ProgramTrue, HaltedTrue
    <3>2. QED
      BY <1>5, <1>7, <1>8, <1>9, <1>11, <2>1, <2>2, <3>1
  <2>3. ASSUME debuggee'[g] = "exited"
        PROVE  state' = "Disconnected" \/ Quitting(c)' \/ (~Coming(g, l, "stopped")' /\ EndComing(g, l)')
    <3>1. debuggee[g] = "exited" =>
            state = "Disconnected" \/ Quitting(c) \/ (~Coming(g, l, "stopped") /\ EndComing(g, l))
      BY <1>1 DEF ProgramTrue, HaltedTrue
    <3>2. QED
      BY <1>2, <1>5, <1>7, <1>9, <1>11, <2>1, <2>3, <3>1
  <2>4. QED
    BY <2>2, <2>3 DEF HaltedTrue
<1>14. StampsTrue(g, c)'
  <2>1. \A k \in DOMAIN more : more[k].task = c => more[k].stamp = Stamp(g)
    BY <1>1, <1>4
  <2>2. QED
    BY <1>1, <1>2, <1>4, <2>1, StampsSpoken
<1>15. QED
  BY <1>6, <1>12, <1>13, <1>14 DEF ProgramTrue

\* Steps that neither say anything nor touch the session.
LEMMA QuietBeside ==
  ASSUME NEW c, NEW l, BesideTrue(c, l),
         UNCHANGED <<state, varCache, spawned, events, op, pc, answer, arg, outq, debuggee, stops>>
  PROVE  CallsTrue(c)' /\ FirstProgram(c, l)'
<1>1. Granted(c)' = Granted(c) /\ Quitting(c)' = Quitting(c) /\ Shutting(l)' = Shutting(l)
  BY DEF Granted, Assented, Said, Told, Quitting, Shutting
<1>2. ASSUME NEW g, NEW w
      PROVE  /\ PipeHas(g, w)' = PipeHas(g, w) /\ LineHas(w)' = LineHas(w) /\ Hand(l, w)' = Hand(l, w)
             /\ PipeOnce(g, w)' = PipeOnce(g, w) /\ LineOnce(w)' = LineOnce(w)
  BY DEF PipeHas, LineHas, Hand, PipeOnce, LineOnce, Told, Announced
<1>3. ASSUME NEW g
      PROVE  /\ PipeStops(g)' = PipeStops(g) /\ PipeQuiet(g)' = PipeQuiet(g)
             /\ LineStops' = LineStops /\ LineQuiet' = LineQuiet
  BY DEF PipeStops, PipeQuiet, LineStops, LineQuiet, Told, Announced
<1>4. ASSUME NEW g, WordsTrue(g, l) PROVE WordsTrue(g, l)'
  BY <1>2, <1>3, <1>4 DEF WordsTrue, Coming, ComesOnce
<1>5. ASSUME NEW g, HaltedTrue(g, c, l) PROVE HaltedTrue(g, c, l)'
  BY <1>1, <1>2, <1>5 DEF HaltedTrue, Coming, EndComing
<1>6. ASSUME NEW g, StampsTrue(g, c) PROVE StampsTrue(g, c)'
  BY <1>1, <1>6 DEF StampsTrue, Said, Told, Stamp
<1>7. FirstProgram(c, l)'
  BY <1>4, <1>5, <1>6 DEF BesideTrue, FirstProgram, ProgramTrue
<1>8. CallsTrue(c)'
  BY <1>1 DEF BesideTrue, CallsTrue
<1>9. QED
  BY <1>7, <1>8

-----------------------------------------------------------------------------
(* The invariant of one caller beside an event loop.                       *)

BesideInv(c, l) == BesideBase(c, l) /\ (spawned <= 1 => BesideTrue(c, l))

\* Processes are only ever added.
LEMMA SpawnedGrows ==
  ASSUME TypeOK, [Next]_vars
  PROVE  spawned \in Nat /\ spawned' \in {spawned, spawned + 1}
<1>1. \/ UNCHANGED spawned
      \/ \E t : Spawn(t)
  <2>1. ASSUME NEW t, Step(t) PROVE Spawn(t) \/ UNCHANGED spawned
    BY <2>1 DEF Step, Gate, IsRunning, SpawnFails, SetStdin, SetChild, SetKind, Send, Receive, SetHalt,
           ClearHalt, Recheck, transition_to, Kill, ClearBreakpoints, UpdateBreakpoints, CacheVariables, adapter
  <2>2. ASSUME NEW t, Call(t) \/ TakeEvent(t) \/ Cancel(t) PROVE UNCHANGED spawned
    BY <2>2 DEF Call, TakeEvent, Cancel, adapter
  <2>3. ASSUME NEW g, Read(g) \/ Serve(g) \/ Stop(g) \/ Exit(g) \/ Crash(g) PROVE UNCHANGED spawned
    BY <2>3 DEF Read, Serve, Stop, Exit, Crash
  <2>4. QED
    BY <2>1, <2>2, <2>3 DEF Next, vars, adapter
<1>2. QED
  BY <1>1, BoundsAssumption DEF Spawn, TypeOK, AdapterTypeOK

LEMMA InitBeside ==
  ASSUME NEW c, NEW l, Beside(c, l), Init
  PROVE  BesideInv(c, l)
<1>1. /\ IInv /\ PendingInv /\ c \in Tasks /\ l \in Tasks /\ Tasks = {c, l}
  BY InitInv, InitPending, BesideTasks
<1>2. /\ \A t \in Tasks : pc[t] = "idle" /\ op[t] = "none"
      /\ \A g \in Procs : inq[g] = <<>> /\ outq[g] = <<>> /\ debuggee[g] = "none"
      /\ state = "Disconnected" /\ child = 0 /\ spawned = 0 /\ events = <<>> /\ varCache = {}
  BY DEF Init
<1>3. StagedInv
  BY <1>2 DEF StagedInv, Staged
<1>4. Roles(c, l) /\ CommandsTrue
  <2>1. "none" \notin Events
    BY DEF Events
  <2>2. QED
    BY <1>1, <1>2, <2>1, ToolsAreNotEvents DEF Roles, CommandsTrue
<1>5. OrderTrue(c, l)
  <2>1. "none" \notin Closing
    BY DEF Closing
  <2>2. QED
    BY <1>1, <1>2, <2>1 DEF OrderTrue, StartTrue, ChildTrue, Leaving, Fresh, Untouched, Holding
<1>6. CallsTrue(c) /\ FirstProgram(c, l)
  BY <1>1, <1>2, BoundsAssumption DEF CallsTrue, FirstProgram, Procs
<1>7. QED
  BY <1>1, <1>3, <1>4, <1>5, <1>6 DEF BesideInv, BesideBase, BesideTrue

LEMMA NextBeside ==
  ASSUME NEW c, NEW l, Beside(c, l), BesideInv(c, l), [Next]_vars
  PROVE  BesideInv(c, l)'
<1>1. BesideBase(c, l) /\ BesideBase(c, l)' /\ TypeOK
  BY NextBase DEF BesideInv, BesideBase, IInv
<1>2. SUFFICES ASSUME spawned' <= 1 PROVE BesideTrue(c, l)'
  BY <1>1 DEF BesideInv
<1>3. spawned <= 1
  BY <1>1, <1>2, SpawnedGrows
<1>4. BesideTrue(c, l) /\ OrderTrue(c, l)'
  BY <1>1, <1>2, <1>3, NextOrder DEF BesideInv, BesideTrue
<1>5. ASSUME NEW t \in Tasks, Step(t) PROVE CallsTrue(c)' /\ FirstProgram(c, l)'
  <2>1. CASE Spawn(t)
    BY <1>1, <1>2, <1>3, <1>4, <2>1, SpawnBeside
  <2>2. CASE ~Spawn(t)
    <3>1. UNCHANGED spawned
      BY <1>5, <2>2 DEF Step, Gate, IsRunning, SpawnFails, SetStdin, SetChild, SetKind, Send, Receive, SetHalt,
           ClearHalt, Recheck, transition_to, Kill, ClearBreakpoints, UpdateBreakpoints, CacheVariables, adapter
    <3>2. QED
      BY <1>1, <1>4, <1>5, <3>1, StepBeside
  <2>3. QED
    BY <2>1, <2>2
<1>6. ASSUME Call(c) \/ TakeEvent(l) PROVE CallsTrue(c)' /\ FirstProgram(c, l)'
  BY <1>1, <1>4, <1>6, CallBeside, TakeBeside
<1>7. ASSUME NEW g \in Procs, Read(g) \/ Serve(g) \/ Stop(g) \/ Exit(g)
      PROVE  CallsTrue(c)' /\ FirstProgram(c, l)'
  <2>1. g = spawned
    <3>1. ~Untouched(g)
      BY <1>7 DEF Read, Serve, Stop, Exit, Untouched
    <3>2. ~(g > spawned)
      BY <1>4, <3>1 DEF BesideTrue, OrderTrue, StartTrue
    <3>3. g \in Nat \ {0} /\ spawned \in Nat
      BY <1>1, BoundsAssumption DEF TypeOK, AdapterTypeOK, Procs
    <3>4. QED
      BY <1>3, <3>1, <3>2, <3>3
  <2>2. CallsTrue(c)' /\ ProgramTrue(g, c, l)'
    BY <1>1, <1>4, <1>7, <2>1, ReadBeside, ServeBeside, StopBeside, ExitBeside
  <2>3. UNCHANGED spawned
    BY <1>7 DEF Read, Serve, Stop, Exit
  <2>4. QED
    BY <2>1, <2>2, <2>3 DEF FirstProgram
<1>8. ASSUME NEW g \in Procs, Crash(g) PROVE CallsTrue(c)' /\ FirstProgram(c, l)'
  BY <1>4, <1>8, QuietBeside DEF Crash, session, client, tasks
<1>9. ASSUME UNCHANGED vars PROVE CallsTrue(c)' /\ FirstProgram(c, l)'
  BY <1>4, <1>9, QuietBeside DEF vars, session, client, tasks, adapter
<1>10. QED
  BY <1>4, <1>5, <1>6, <1>7, <1>8, <1>9, BesideSteps, BesideTasks DEF BesideTrue

LEMMA BesideInvariance ==
  ASSUME NEW c, NEW l, Beside(c, l)
  PROVE  Spec => []BesideInv(c, l)
BY InitBeside, NextBeside, PTL DEF Spec

\* When all is quiet, with one adapter at most.
LEMMA BesideQuiet ==
  ASSUME NEW c, NEW l, Beside(c, l), BesideInv(c, l), spawned <= 1, Quiescent
  PROVE  /\ state = "Disconnected" <=> child = 0
         /\ state = "Halted" => /\ child \in Procs /\ debuggee[child] = "stopped"
                                /\ varCache \subseteq {<<child, stops[child]>>}
         /\ state # "Halted" => varCache = {}
<1>1. Tasks = {c, l} /\ BesideBase(c, l) /\ BesideTrue(c, l) /\ pc[c] = "idle" /\ pc[l] = "idle"
  BY BesideTasks DEF BesideInv, Quiescent
<1>2. ~Granted(c) /\ ~Quitting(c) /\ \A t \in Tasks : ~Leaving(t)
  BY <1>1 DEF Granted, Quitting, Shutting, Leaving
<1>3. state = "Disconnected" <=> child = 0
  BY <1>1, <1>2 DEF BesideTrue, OrderTrue, ChildTrue
<1>4. CASE state = "Halted"
  <2>1. child = spawned /\ child # 0
    BY <1>1, <1>3, <1>4 DEF BesideTrue, OrderTrue, StartTrue
  <2>2. spawned \in Procs /\ ProgramTrue(spawned, c, l)
    BY <1>1, <2>1, ProgramOf
  <2>3. QED
    BY <1>2, <1>3, <1>4, <2>1, <2>2 DEF ProgramTrue, HaltedTrue, StampsTrue, Stamp
<1>5. CASE state # "Halted"
  BY <1>1, <1>3, <1>5 DEF BesideTrue, CallsTrue
<1>6. QED
  BY <1>3, <1>4, <1>5

\* state.rs, server.rs: with one caller, an event loop beside it and the first adapter, which
\* may refuse, stop, exit and crash at any moment: at rest the session is Disconnected just
\* when the client has no child.
THEOREM FirstAdapterIsKnown ==
  ASSUME NEW c, NEW l, Beside(c, l)
  PROVE  Spec => [](spawned <= 1 => DisconnectedMeansNoAdapter /\ ConnectedMeansAdapter)
<1>1. BesideInv(c, l) => (spawned <= 1 => DisconnectedMeansNoAdapter /\ ConnectedMeansAdapter)
  BY BesideQuiet DEF DisconnectedMeansNoAdapter, ConnectedMeansAdapter
<1>2. QED
  BY <1>1, BesideInvariance, PTL

\* state.rs: there, Halted at rest means that the program stands at a stop, at whatever step
\* of a call the loop has handled an event.
THEOREM HaltedIsTrueBeside ==
  ASSUME NEW c, NEW l, Beside(c, l)
  PROVE  Spec => [](spawned <= 1 => HaltedMeansStopped)
<1>1. BesideInv(c, l) => (spawned <= 1 => HaltedMeansStopped)
  BY BesideQuiet DEF HaltedMeansStopped
<1>2. QED
  BY <1>1, BesideInvariance, PTL

\* cache.rs: there, the variable cache at rest holds no handle but those of the stop that
\* the program stands at, though insertions and invalidations are made by two tasks.
THEOREM HandlesAreFreshBeside ==
  ASSUME NEW c, NEW l, Beside(c, l)
  PROVE  Spec => [](spawned <= 1 => FreshHandles)
<1>1. BesideInv(c, l) => (spawned <= 1 => FreshHandles)
  <2>1. SUFFICES ASSUME BesideInv(c, l), spawned <= 1, Quiescent
                 PROVE  varCache \subseteq IF state = "Halted" /\ child # 0 THEN {<<child, stops[child]>>} ELSE {}
    BY DEF FreshHandles
  <2>2. state = "Halted" => child # 0
    BY <2>1, BesideQuiet
  <2>3. QED
    BY <2>1, <2>2, BesideQuiet
<1>2. QED
  BY <1>1, BesideInvariance, PTL

=============================================================================
