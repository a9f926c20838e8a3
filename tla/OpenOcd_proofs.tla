--------------------------- MODULE OpenOcd_proofs ---------------------------
(***************************************************************************)
(* Theorems about OpenOcd: whatever starts, stops, commands, hang-ups and  *)
(* deaths of processes interleave, no openocd process is orphaned, no      *)
(* client is taken away from a call that uses it, and no buffer outgrows   *)
(* its limit.                                                              *)
(***************************************************************************)
EXTENDS OpenOcd, SequenceFacts, TLAPS

\* The part of TypeOK that the proofs need.
TasksTypeOK ==
  /\ slot \in 0..spawned /\ spawned \in Nat /\ alive \subseteq 1..spawned
  /\ op \in [Callers -> Tools] /\ pc \in [Callers -> Labels]
  /\ client \in [Callers -> 0..spawned]

\* Only openocd_stop takes the client out of the slot, so that who has taken it keeps
\* the write lock until it has been shut down.
TakersStop == \A t \in Callers : pc[t] = "take" => op[t] = "stop"

IInv == TasksTypeOK /\ TakersStop /\ ProcessesOwned /\ ClientInUseStays

USE DEF Commanding, Reading, Writing, Goto, Return, tasks, process, reading

LEMMA InitInv == Init => IInv
BY DEF Init, IInv, TasksTypeOK, TakersStop, ProcessesOwned, ClientInUseStays, Tools, Labels

-----------------------------------------------------------------------------
(* The steps of a task.                                                    *)

LEMMA CallInv ==
  ASSUME IInv, NEW t \in Callers, Call(t)
  PROVE  IInv'
<1>1. PICK tool \in Tools :
        /\ op' = [op EXCEPT ![t] = tool]
        /\ pc' = [pc EXCEPT ![t] =
             CASE tool = "start" -> "check" [] tool = "stop" -> "take" [] OTHER -> "try"]
  BY DEF Call
<1>2. pc'[t] \in {"check", "take", "try"} /\ (pc'[t] = "take" => op'[t] = "stop")
  BY <1>1 DEF IInv, TasksTypeOK
<1>3. \A u \in Callers \ {t} : pc'[u] = pc[u] /\ op'[u] = op[u]
  BY <1>1 DEF IInv, TasksTypeOK
<1>4. TasksTypeOK'
  BY <1>1, <1>2 DEF Call, IInv, TasksTypeOK, Labels
<1>5. TakersStop'
  BY <1>2, <1>3 DEF IInv, TakersStop
<1>6. ProcessesOwned'
  BY <1>2, <1>3 DEF Call, IInv, ProcessesOwned
<1>7. ClientInUseStays'
  BY <1>2, <1>3 DEF Call, IInv, ClientInUseStays
<1>8. QED
  BY <1>4, <1>5, <1>6, <1>7 DEF IInv

\* Steps that neither take nor use a client, and those that use one: a task goes from
\* label to label of the same lock, or returns.
LEMMA WaitingInv ==
  ASSUME IInv, NEW t \in Callers, Check(t) \/ SpawnFails(t) \/ Report(t) \/ Lock(t) \/ Register(t)
  PROVE  IInv'
<1>1. UNCHANGED <<slot, op, spawned, alive>>
  BY DEF Check, SpawnFails, Report, Lock, Register
<1>2. \/ /\ pc[t] \in {"check", "spawn", "report"} /\ pc' = [pc EXCEPT ![t] = "idle"]
         /\ client' = [client EXCEPT ![t] = 0]
      \/ /\ pc[t] = "check" /\ pc' = [pc EXCEPT ![t] = "spawn"]
         /\ UNCHANGED client
      \/ /\ pc[t] = "lock" /\ pc' = [pc EXCEPT ![t] = "write"]
         /\ UNCHANGED client
      \/ /\ pc[t] = "register" /\ pc' = [pc EXCEPT ![t] = "wait"]
         /\ UNCHANGED client
  BY DEF Check, SpawnFails, Report, Lock, Register
<1>3. TasksTypeOK'
  BY <1>1, <1>2 DEF IInv, TasksTypeOK, Labels
<1>4. TakersStop'
  BY <1>1, <1>2 DEF IInv, TasksTypeOK, TakersStop
<1>5. ProcessesOwned'
  BY <1>1, <1>2 DEF IInv, TasksTypeOK, ProcessesOwned
<1>6. ClientInUseStays'
  BY <1>1, <1>2 DEF IInv, TasksTypeOK, ClientInUseStays
<1>7. QED
  BY <1>3, <1>4, <1>5, <1>6 DEF IInv

\* A command that has ended leaves its client to the stop that sent it, or lets go of it.
LEMMA CommandInv ==
  ASSUME IInv, NEW t \in Callers, Write(t) \/ Timeout(t) \/ Drain(t)
  PROVE  IInv'
<1> USE DEF Finish
<1>1. pc[t] \in Commanding
  BY DEF Write, Timeout, Drain
<1>2. UNCHANGED <<slot, op, spawned, alive>>
  BY DEF Write, Timeout, Drain
<1>3. \/ /\ \E l \in Commanding : pc' = [pc EXCEPT ![t] = l]
         /\ UNCHANGED client
      \/ /\ op[t] = "stop" /\ pc' = [pc EXCEPT ![t] = "kill"]
         /\ UNCHANGED client
      \/ /\ op[t] # "stop" /\ pc' = [pc EXCEPT ![t] = "idle"]
         /\ client' = [client EXCEPT ![t] = 0]
  BY DEF Write, Timeout, Drain
<1>4. TasksTypeOK'
  BY <1>2, <1>3 DEF IInv, TasksTypeOK, Labels
<1>5. TakersStop'
  BY <1>2, <1>3 DEF IInv, TasksTypeOK, TakersStop
<1>6. ProcessesOwned'
  BY <1>1, <1>2, <1>3 DEF IInv, TasksTypeOK, ProcessesOwned
<1>7. ClientInUseStays'
  BY <1>1, <1>2, <1>3 DEF IInv, TasksTypeOK, ClientInUseStays
<1>8. QED
  BY <1>4, <1>5, <1>6, <1>7 DEF IInv

LEMMA TryReadInv ==
  ASSUME IInv, NEW t \in Callers, TryRead(t)
  PROVE  IInv'
<1>1. UNCHANGED <<slot, op, spawned, alive>> /\ pc[t] = "try"
  BY DEF TryRead
<1>2. \/ /\ pc' = [pc EXCEPT ![t] = "idle"]
         /\ client' = [client EXCEPT ![t] = 0]
      \/ /\ \E l \in {"lock", "report"} : pc' = [pc EXCEPT ![t] = l]
         /\ client' = [client EXCEPT ![t] = slot]
  BY DEF TryRead
<1>3. TasksTypeOK'
  BY <1>1, <1>2 DEF IInv, TasksTypeOK, Labels
<1>4. TakersStop'
  BY <1>1, <1>2 DEF IInv, TasksTypeOK, TakersStop
<1>5. ProcessesOwned'
  BY <1>1, <1>2 DEF IInv, TasksTypeOK, ProcessesOwned
<1>6. ClientInUseStays'
  BY <1>1, <1>2 DEF IInv, TasksTypeOK, ClientInUseStays
<1>7. QED
  BY <1>3, <1>4, <1>5, <1>6 DEF IInv

\* The process of a new client belongs to the start that has it in its hands.
LEMMA SpawnInv ==
  ASSUME IInv, NEW t \in Callers, Spawn(t)
  PROVE  IInv'
<1> USE DEF Spawn
<1>1. TasksTypeOK'
  BY DEF IInv, TasksTypeOK, Labels
<1>2. TakersStop'
  BY DEF IInv, TasksTypeOK, TakersStop
<1>3. ProcessesOwned'
  BY DEF IInv, TasksTypeOK, ProcessesOwned
<1>4. ClientInUseStays'
  BY DEF IInv, TasksTypeOK, ClientInUseStays
<1>5. QED
  BY <1>1, <1>2, <1>3, <1>4 DEF IInv

\* The write lock keeps readers away while the slot changes, and the client that was in
\* it, if another start came first, takes its process with it.
LEMMA StoreInv ==
  ASSUME IInv, NEW t \in Callers, Store(t)
  PROVE  IInv'
<1> USE DEF Store
<1>1. TasksTypeOK'
  BY DEF IInv, TasksTypeOK, Labels
<1>2. TakersStop'
  BY DEF IInv, TasksTypeOK, TakersStop
<1>3. ProcessesOwned'
  BY DEF IInv, TasksTypeOK, ProcessesOwned
<1>4. ClientInUseStays'
  BY DEF IInv, TasksTypeOK, ClientInUseStays, WriteLockFree
<1>5. QED
  BY <1>1, <1>2, <1>3, <1>4 DEF IInv

\* What leaves the slot is in the hands of the stop that took it.
LEMMA TakeInv ==
  ASSUME IInv, NEW t \in Callers, Take(t)
  PROVE  IInv'
<1>1. /\ pc[t] = "take" /\ op[t] = "stop" /\ slot' = 0
      /\ UNCHANGED <<op, spawned, alive>>
  BY DEF Take, IInv, TakersStop
<1>2. \/ /\ slot = 0 /\ pc' = [pc EXCEPT ![t] = "idle"]
         /\ client' = [client EXCEPT ![t] = 0]
      \/ /\ \E l \in {"lock", "kill"} : pc' = [pc EXCEPT ![t] = l]
         /\ client' = [client EXCEPT ![t] = slot]
  BY DEF Take
<1>3. TasksTypeOK'
  BY <1>1, <1>2 DEF IInv, TasksTypeOK, Labels
<1>4. TakersStop'
  BY <1>1, <1>2 DEF IInv, TasksTypeOK, TakersStop
<1>5. ProcessesOwned'
  <2> SUFFICES ASSUME NEW c \in alive
               PROVE  \E u \in Callers : (pc[u] = "store" \/ Writing(u))' /\ client'[u] = c
    BY <1>1 DEF ProcessesOwned
  <2>1. c # 0
    BY DEF IInv, TasksTypeOK
  <2>2. CASE c = slot
    BY <1>1, <1>2, <2>1, <2>2 DEF IInv, TasksTypeOK
  <2>3. CASE c # slot
    BY <1>1, <1>2, <2>3 DEF IInv, TasksTypeOK, ProcessesOwned
  <2>4. QED
    BY <2>1, <2>2, <2>3
<1>6. ClientInUseStays'
  BY <1>1, <1>2 DEF Take, WriteLockFree, IInv, TasksTypeOK, ClientInUseStays
<1>7. QED
  BY <1>3, <1>4, <1>5, <1>6 DEF IInv

LEMMA KillInv ==
  ASSUME IInv, NEW t \in Callers, Kill(t)
  PROVE  IInv'
<1>1. /\ pc' = [pc EXCEPT ![t] = "idle"] /\ client' = [client EXCEPT ![t] = 0]
      /\ UNCHANGED <<slot, op, spawned>>
  BY DEF Kill
<1>2. alive' \subseteq alive
  BY DEF Kill
<1>3. TasksTypeOK'
  BY <1>1, <1>2 DEF IInv, TasksTypeOK, Labels
<1>4. TakersStop'
  BY <1>1 DEF IInv, TasksTypeOK, TakersStop
<1>5. ProcessesOwned'
  BY <1>1, <1>2 DEF Kill, IInv, TasksTypeOK, ProcessesOwned
<1>6. ClientInUseStays'
  BY <1>1 DEF IInv, TasksTypeOK, ClientInUseStays
<1>7. QED
  BY <1>3, <1>4, <1>5, <1>6 DEF IInv

\* A dropped call takes the process of the client in its hands with it.
LEMMA CancelInv ==
  ASSUME IInv, NEW t \in Callers, Cancel(t)
  PROVE  IInv'
<1>1. /\ pc' = [pc EXCEPT ![t] = "idle"] /\ client' = [client EXCEPT ![t] = 0]
      /\ UNCHANGED <<slot, op, spawned>>
  BY DEF Cancel
<1>2. alive' \subseteq alive
  BY DEF Cancel
<1>3. TasksTypeOK'
  BY <1>1, <1>2 DEF IInv, TasksTypeOK, Labels
<1>4. TakersStop'
  BY <1>1 DEF IInv, TasksTypeOK, TakersStop
<1>5. ProcessesOwned'
  BY <1>1, <1>2 DEF Cancel, IInv, TasksTypeOK, ProcessesOwned
<1>6. ClientInUseStays'
  BY <1>1 DEF IInv, TasksTypeOK, ClientInUseStays
<1>7. QED
  BY <1>3, <1>4, <1>5, <1>6 DEF IInv

-----------------------------------------------------------------------------
(* The steps of a reader and of a process.                                 *)

\* A notification moves tasks within the command they are in.
LEMMA NotifyInv ==
  ASSUME IInv, NEW c \in Clients, Notify(c)
  PROVE  IInv'
<1> USE DEF Notify
<1>1. \A t \in Callers :
        \/ pc'[t] = pc[t]
        \/ pc[t] = "wait" /\ pc'[t] = "drain"
  OBVIOUS
<1>2. TasksTypeOK'
  BY DEF IInv, TasksTypeOK, Labels
<1>3. TakersStop'
  BY <1>1 DEF IInv, TakersStop
<1>4. ProcessesOwned'
  BY <1>1 DEF IInv, ProcessesOwned
<1>5. ClientInUseStays'
  BY <1>1 DEF IInv, ClientInUseStays
<1>6. QED
  BY <1>2, <1>3, <1>4, <1>5 DEF IInv

LEMMA ProcessInv ==
  ASSUME IInv, NEW c \in Clients, Push(c) \/ EndOfFile(c) \/ Respond(c) \/ Ignore(c) \/ Log(c) \/ Die(c)
  PROVE  IInv'
<1>1. UNCHANGED <<slot, op, pc, client, spawned>> /\ alive' \subseteq alive
  BY DEF Push, EndOfFile, Respond, Ignore, Log, Die
<1>2. QED
  BY <1>1 DEF IInv, TasksTypeOK, TakersStop, ProcessesOwned, ClientInUseStays

-----------------------------------------------------------------------------
(* The theorems.                                                           *)

LEMMA StepInv == IInv /\ [Next]_vars => IInv'
<1> SUFFICES ASSUME IInv, [Next]_vars PROVE IInv'
  OBVIOUS
<1>1. ASSUME NEW t \in Callers, Call(t) \/ Cancel(t) PROVE IInv'
  BY <1>1, CallInv, CancelInv
<1>2. ASSUME NEW t \in Callers, Step(t) PROVE IInv'
  BY <1>2, WaitingInv, CommandInv, TryReadInv, SpawnInv, StoreInv, TakeInv, KillInv DEF Step
<1>3. ASSUME NEW c \in Clients, Notify(c) PROVE IInv'
  BY <1>3, NotifyInv
<1>4. ASSUME NEW c \in Clients, Push(c) \/ EndOfFile(c) \/ Respond(c) \/ Ignore(c) \/ Log(c) \/ Die(c)
      PROVE  IInv'
  BY <1>4, ProcessInv
<1>5. CASE UNCHANGED vars
  BY <1>5 DEF vars, IInv, TasksTypeOK, TakersStop, ProcessesOwned, ClientInUseStays
<1>6. QED
  BY <1>1, <1>2, <1>3, <1>4, <1>5 DEF Next

\* IInv holds in every reachable state, for any number of clients, calls and log lines.
LEMMA Invariance == Spec => []IInv
BY InitInv, StepInv, PTL DEF Spec

\* handlers/openocd.rs, openocd-client: racing starts, stops and hang-ups never leave an
\* openocd process running that no client owns.
THEOREM NoProcessIsOrphaned == Spec => []ProcessesOwned
<1>1. IInv => ProcessesOwned
  BY DEF IInv
<1>2. QED
  BY <1>1, Invariance, PTL

\* require_openocd: the client that a call reached through the slot stays there for as
\* long as the call uses it.
THEOREM ClientsStayInUse == Spec => []ClientInUseStays
<1>1. IInv => ClientInUseStays
  BY DEF IInv
<1>2. QED
  BY <1>1, Invariance, PTL

-----------------------------------------------------------------------------
(* The type invariant, which needs more than itself: that a task in the    *)
(* middle of its work has a client in its hands.                           *)

HandsFull ==
  \A t \in Callers : pc[t] \in {"store", "kill", "lock", "report"} \cup Commanding => client[t] # 0

CallsTypeOK ==
  /\ spawned <= MaxClients /\ calls \in 0..MaxCalls /\ command \in [Callers -> 0..MaxCalls]
  /\ got \in [Callers -> SUBSET (0..MaxCalls)] /\ result \in [Callers -> Results]

ClientsTypeOK ==
  /\ running \in [Clients -> BOOLEAN] /\ reader \in [Clients -> {"read", "notify", "ended"}]
  /\ buffer \in [Clients -> Seq(Lines)] /\ \A c \in Clients : Len(buffer[c]) <= BufferLimit
  /\ inq \in [Clients -> Seq(0..MaxCalls)] /\ outq \in [Clients -> Seq(Lines)]
  /\ logs \in [Clients -> 0..MaxLogs]

TInv == TasksTypeOK /\ HandsFull /\ CallsTypeOK /\ ClientsTypeOK

LEMMA InitTypes == Init => TInv
<1> SUFFICES ASSUME Init PROVE TInv
  OBVIOUS
<1>1. TasksTypeOK
  BY InitInv DEF IInv
<1>2. HandsFull /\ CallsTypeOK
  BY LimitsAssumption DEF Init, HandsFull, CallsTypeOK, Results
<1>3. \A c \in Clients : Len(buffer[c]) <= BufferLimit
  <2>1. Len(<<>>) = 0 /\ 0 <= BufferLimit
    BY LimitsAssumption
  <2>2. QED
    BY <2>1 DEF Init
<1>4. ClientsTypeOK
  BY <1>3, LimitsAssumption DEF Init, ClientsTypeOK
<1>5. QED
  BY <1>1, <1>2, <1>4 DEF TInv

LEMMA InHands ==
  ASSUME TInv, NEW t \in Callers, pc[t] \in {"store", "kill", "lock", "report"} \cup Commanding
  PROVE  client[t] \in Clients
<1>1. client[t] # 0
  BY DEF TInv, HandsFull
<1>2. client[t] \in 0..spawned /\ spawned \in Nat /\ spawned <= MaxClients
  BY DEF TInv, TasksTypeOK, CallsTypeOK
<1>3. QED
  BY <1>1, <1>2, LimitsAssumption DEF Clients

LEMMA HandsStayFull ==
  ASSUME TInv, NEW t \in Callers, Call(t) \/ Step(t) \/ Cancel(t)
  PROVE  HandsFull'
<1> USE DEF Finish
<1>1. \A u \in Callers \ {t} : pc'[u] = pc[u] /\ client'[u] = client[u]
  BY DEF TInv, TasksTypeOK, Call, Cancel, Step, Check, Spawn, SpawnFails, Store, Take, Kill, TryRead,
     Report, Lock, Write, Register, Timeout, Drain
<1>2. pc'[t] \in {"store", "kill", "lock", "report"} \cup Commanding => client'[t] # 0
  <2>1. CASE Call(t)
    <3>1. PICK tool \in Tools :
            pc' = [pc EXCEPT ![t] =
              CASE tool = "start" -> "check" [] tool = "stop" -> "take" [] OTHER -> "try"]
      BY <2>1 DEF Call
    <3>2. pc'[t] \in {"check", "take", "try"}
      BY <3>1 DEF TInv, TasksTypeOK
    <3>3. QED
      BY <3>2
  <2>2. CASE Check(t) \/ Spawn(t) \/ SpawnFails(t) \/ Store(t) \/ Kill(t) \/ TryRead(t) \/ Report(t)
             \/ Cancel(t)
    BY <2>2 DEF TInv, TasksTypeOK, Check, Spawn, SpawnFails, Store, Kill, TryRead, Report, Cancel
  <2>3. CASE Take(t)
    BY <2>3 DEF TInv, TasksTypeOK, Take
  <2>4. CASE Lock(t) \/ Write(t) \/ Register(t) \/ Timeout(t) \/ Drain(t)
    BY <2>4 DEF TInv, TasksTypeOK, HandsFull, Lock, Write, Register, Timeout, Drain
  <2>5. QED
    BY <2>1, <2>2, <2>3, <2>4 DEF Step
<1>3. QED
  BY <1>1, <1>2 DEF TInv, HandsFull

\* The lines that a command collects are lines, and the rest of the buffer no longer.
LEMMA DrainTypes ==
  ASSUME TInv, NEW t \in Callers, Drain(t)
  PROVE  /\ got' \in [Callers -> SUBSET (0..MaxCalls)]
         /\ buffer' \in [Clients -> Seq(Lines)] /\ \A c \in Clients : Len(buffer'[c]) <= BufferLimit
<1> DEFINE c == client[t]
           ends == {i \in DOMAIN buffer[c] : buffer[c][i].last}
           n == IF ends = {} THEN Len(buffer[c]) ELSE CHOOSE i \in ends : \A j \in ends : i <= j
           rest == SubSeq(buffer[c], n + 1, Len(buffer[c]))
<1>1. /\ got' = [got EXCEPT ![t] = @ \cup {buffer[c][i].of : i \in 1..n}]
      /\ buffer' = [buffer EXCEPT ![c] = rest]
  BY DEF Drain
<1>2. c \in Clients
  BY InHands DEF Drain
<1>3. /\ buffer[c] \in Seq(Lines) /\ Len(buffer[c]) \in Nat /\ Len(buffer[c]) <= BufferLimit
      /\ DOMAIN buffer[c] = 1..Len(buffer[c]) /\ \A i \in 1..Len(buffer[c]) : buffer[c][i] \in Lines
  BY <1>2, LenProperties, ElementOfSeq DEF TInv, ClientsTypeOK
<1>4. n \in 0..Len(buffer[c])
  <2>1. CASE ends = {}
    BY <1>3, <2>1
  <2>2. CASE ends # {}
    <3>1. ends \in SUBSET Nat
      BY <1>3
    <3>2. \E i \in ends : \A j \in ends : i <= j
      BY <2>2, <3>1, SmallestElement
    <3>3. n \in ends
      BY <2>2, <3>2
    <3>4. QED
      BY <1>3, <3>3
  <2>3. QED
    BY <2>1, <2>2
<1> HIDE DEF n
<1>5. \A i \in 1..n : buffer[c][i].of \in 0..MaxCalls
  BY <1>3, <1>4 DEF Lines
<1>6. rest \in Seq(Lines) /\ Len(rest) <= BufferLimit
  <2>1. \A i \in (n + 1)..Len(buffer[c]) : buffer[c][i] \in Lines
    BY <1>3, <1>4
  <2>2. n + 1 \in Int /\ Len(buffer[c]) \in Int
    BY <1>3, <1>4
  <2>3. /\ rest \in Seq(Lines)
        /\ Len(rest) = IF n + 1 <= Len(buffer[c]) THEN Len(buffer[c]) - (n + 1) + 1 ELSE 0
    BY <2>1, <2>2, SubSeqProperties
  <2>4. QED
    BY <1>3, <1>4, <2>3, LimitsAssumption
<1> HIDE DEF rest
<1>7. got' \in [Callers -> SUBSET (0..MaxCalls)]
  BY <1>1, <1>5 DEF TInv, CallsTypeOK
<1>8. QED
  BY <1>1, <1>2, <1>6, <1>7 DEF TInv, ClientsTypeOK

\* A reader puts a line at the end of the buffer and, at the limit, drops the first.
LEMMA PushTypes ==
  ASSUME TInv, NEW c \in Clients, Push(c)
  PROVE  ClientsTypeOK'
<1> DEFINE longer == Append(buffer[c], Head(outq[c]))
           trimmed == IF Len(longer) > BufferLimit THEN Tail(longer) ELSE longer
<1>1. /\ outq[c] # <<>> /\ outq' = [outq EXCEPT ![c] = Tail(@)]
      /\ buffer' = [buffer EXCEPT ![c] = trimmed] /\ reader' = [reader EXCEPT ![c] = "notify"]
      /\ UNCHANGED <<inq, logs, running>>
  BY DEF Push
<1>2. /\ buffer[c] \in Seq(Lines) /\ Len(buffer[c]) <= BufferLimit /\ outq[c] \in Seq(Lines)
      /\ Len(buffer[c]) \in Nat
  BY LenProperties DEF TInv, ClientsTypeOK
<1>3. Tail(outq[c]) \in Seq(Lines) /\ Head(outq[c]) \in Lines
  BY <1>1, <1>2, HeadTailProperties
<1>4. longer \in Seq(Lines) /\ Len(longer) = Len(buffer[c]) + 1
  BY <1>2, <1>3, AppendProperties
<1> HIDE DEF longer
<1>5. trimmed \in Seq(Lines) /\ Len(trimmed) <= BufferLimit
  <2>1. CASE Len(longer) > BufferLimit
    <3>1. longer # <<>>
      BY <1>2, <1>4, EmptySeq
    <3>2. Tail(longer) \in Seq(Lines) /\ Len(Tail(longer)) = Len(longer) - 1
      BY <1>4, <3>1, HeadTailProperties
    <3>3. QED
      BY <1>2, <1>4, <2>1, <3>2, LimitsAssumption
  <2>2. CASE ~(Len(longer) > BufferLimit)
    BY <1>2, <1>4, <2>2, LimitsAssumption
  <2>3. QED
    BY <2>1, <2>2
<1> HIDE DEF trimmed
<1>6. buffer' \in [Clients -> Seq(Lines)] /\ \A d \in Clients : Len(buffer'[d]) <= BufferLimit
  BY <1>1, <1>5 DEF TInv, ClientsTypeOK
<1>7. QED
  BY <1>1, <1>3, <1>6 DEF TInv, ClientsTypeOK

\* A process answers a command or does not, or prints a line.
LEMMA PrintTypes ==
  ASSUME TInv, NEW c \in Clients, Respond(c) \/ Ignore(c) \/ Log(c)
  PROVE  ClientsTypeOK'
<1>1. inq \in [Clients -> Seq(0..MaxCalls)] /\ outq \in [Clients -> Seq(Lines)]
  BY DEF TInv, ClientsTypeOK
<1>2. CASE Respond(c)
  <2> DEFINE line == [of |-> Head(inq[c]), last |-> TRUE]
  <2>1. Head(inq[c]) \in 0..MaxCalls /\ Tail(inq[c]) \in Seq(0..MaxCalls)
    BY <1>1, <1>2, HeadTailProperties DEF Respond
  <2>2. line \in Lines
    BY <2>1 DEF Lines
  <2>3. Append(outq[c], line) \in Seq(Lines)
    BY <1>1, <2>2, AppendProperties
  <2>4. inq' \in [Clients -> Seq(0..MaxCalls)] /\ outq' \in [Clients -> Seq(Lines)]
    BY <1>1, <1>2, <2>1, <2>3 DEF Respond
  <2>5. QED
    BY <1>2, <2>4 DEF TInv, ClientsTypeOK, Respond
<1>3. CASE Ignore(c)
  <2>1. Tail(inq[c]) \in Seq(0..MaxCalls)
    BY <1>1, <1>3, HeadTailProperties DEF Ignore
  <2>2. inq' \in [Clients -> Seq(0..MaxCalls)]
    BY <1>1, <1>3, <2>1 DEF Ignore
  <2>3. QED
    BY <1>3, <2>2 DEF TInv, ClientsTypeOK, Ignore
<1>4. CASE Log(c)
  <2> DEFINE line == [of |-> 0, last |-> FALSE]
  <2>1. line \in Lines
    BY LimitsAssumption DEF Lines
  <2>2. Append(outq[c], line) \in Seq(Lines)
    BY <1>1, <2>1, AppendProperties
  <2>3. outq' \in [Clients -> Seq(Lines)]
    BY <1>1, <1>4, <2>2 DEF Log
  <2>4. logs[c] + 1 \in 0..MaxLogs
    BY <1>4, LimitsAssumption DEF Log, TInv, ClientsTypeOK
  <2>5. QED
    BY <1>4, <2>3, <2>4 DEF TInv, ClientsTypeOK, Log
<1>5. QED
  BY <1>2, <1>3, <1>4

LEMMA StepTypes == IInv /\ TInv /\ [Next]_vars => TInv'
<1> SUFFICES ASSUME IInv, TInv, [Next]_vars PROVE TInv'
  OBVIOUS
<1>1. TasksTypeOK'
  BY StepInv DEF IInv
<1>2. ASSUME NEW t \in Callers, Call(t) \/ Cancel(t) \/ Step(t)
      PROVE  HandsFull'
  BY <1>2, HandsStayFull
<1>3. ASSUME NEW t \in Callers, Call(t)
      PROVE  CallsTypeOK' /\ ClientsTypeOK'
  <2>1. /\ calls < MaxCalls /\ calls' = calls + 1 /\ command' = [command EXCEPT ![t] = calls + 1]
        /\ got' = [got EXCEPT ![t] = {}] /\ result' = [result EXCEPT ![t] = "none"]
        /\ UNCHANGED <<spawned, inq, outq, logs, running, buffer, reader>>
    BY <1>3 DEF Call
  <2>2. QED
    BY <2>1, LimitsAssumption DEF TInv, CallsTypeOK, ClientsTypeOK, Results
<1>4. ASSUME NEW t \in Callers, Spawn(t)
      PROVE  CallsTypeOK' /\ ClientsTypeOK'
  <2>1. /\ spawned < MaxClients /\ spawned' = spawned + 1
        /\ running' = [running EXCEPT ![spawned + 1] = TRUE]
        /\ reader' = [reader EXCEPT ![spawned + 1] = "read"]
        /\ UNCHANGED <<command, got, result, calls, inq, outq, logs, buffer>>
    BY <1>4 DEF Spawn
  <2>2. QED
    <3>1. spawned + 1 <= MaxClients
      BY <2>1, LimitsAssumption DEF TInv, TasksTypeOK
    <3>2. QED
      BY <2>1, <3>1 DEF TInv, CallsTypeOK, ClientsTypeOK
<1>5. ASSUME NEW t \in Callers, Drain(t)
      PROVE  CallsTypeOK' /\ ClientsTypeOK'
  <2>1. /\ UNCHANGED <<command, calls, spawned, inq, outq, logs, running, reader>>
        /\ result' \in [Callers -> Results]
    BY <1>5 DEF Drain, Finish, TInv, CallsTypeOK, Results
  <2>2. QED
    BY <1>5, <2>1, DrainTypes DEF TInv, CallsTypeOK, ClientsTypeOK
<1>6. ASSUME NEW t \in Callers, Write(t)
      PROVE  CallsTypeOK' /\ ClientsTypeOK'
  <2>1. /\ UNCHANGED <<command, calls, got, spawned, outq, logs, running, buffer, reader>>
        /\ result' \in [Callers -> Results]
    BY <1>6 DEF Write, Finish, TInv, CallsTypeOK, Results
  <2>2. inq' \in [Clients -> Seq(0..MaxCalls)]
    <3>1. CASE inq' = inq
      BY <3>1 DEF TInv, ClientsTypeOK
    <3>2. CASE inq' = [inq EXCEPT ![client[t]] = Append(@, command[t])]
      <4>1. command[t] \in 0..MaxCalls /\ client[t] \in Clients
        BY <1>6, InHands DEF Write, TInv, CallsTypeOK
      <4>2. Append(inq[client[t]], command[t]) \in Seq(0..MaxCalls)
        BY <4>1, AppendProperties DEF TInv, ClientsTypeOK
      <4>3. QED
        BY <3>2, <4>1, <4>2 DEF TInv, ClientsTypeOK
    <3>3. QED
      BY <1>6, <3>1, <3>2 DEF Write
  <2>3. QED
    BY <2>1, <2>2 DEF TInv, CallsTypeOK, ClientsTypeOK
<1>7. ASSUME NEW t \in Callers,
             \/ Check(t) \/ SpawnFails(t) \/ Store(t) \/ Take(t) \/ Kill(t) \/ TryRead(t) \/ Report(t)
             \/ Lock(t) \/ Register(t) \/ Timeout(t) \/ Cancel(t)
      PROVE  CallsTypeOK' /\ ClientsTypeOK'
  <2>1. /\ UNCHANGED <<command, calls, got, spawned, inq, outq, logs, buffer, reader>>
        /\ result' = result \/ \E how \in Results : result' = [result EXCEPT ![t] = how]
        /\ running' = running \/ running' = [running EXCEPT ![client[t]] = FALSE]
    BY <1>7 DEF Check, SpawnFails, Store, Take, Kill, TryRead, Report, Lock, Register, Timeout, Cancel,
       Finish, Results
  <2>2. QED
    BY <2>1 DEF TInv, CallsTypeOK, ClientsTypeOK
<1>8. ASSUME NEW c \in Clients, Push(c) \/ Respond(c) \/ Ignore(c) \/ Log(c)
      PROVE  HandsFull' /\ CallsTypeOK' /\ ClientsTypeOK'
  <2>1. UNCHANGED <<pc, client, command, calls, got, result, spawned>>
    BY <1>8 DEF Push, Respond, Ignore, Log
  <2>2. QED
    BY <1>8, <2>1, PushTypes, PrintTypes DEF TInv, HandsFull, CallsTypeOK
<1>9. ASSUME NEW c \in Clients, Notify(c) \/ EndOfFile(c) \/ Die(c)
      PROVE  HandsFull' /\ CallsTypeOK' /\ ClientsTypeOK'
  <2>1. /\ UNCHANGED <<client, command, calls, got, result, spawned, inq, outq, logs, buffer>>
        /\ reader' = reader \/ \E l \in {"read", "ended"} : reader' = [reader EXCEPT ![c] = l]
        /\ running' = running \/ running' = [running EXCEPT ![c] = FALSE]
        /\ \A t \in Callers : pc'[t] = pc[t] \/ (pc[t] = "wait" /\ pc'[t] = "drain")
    BY <1>9 DEF Notify, EndOfFile, Die
  <2>2. QED
    BY <2>1 DEF TInv, HandsFull, CallsTypeOK, ClientsTypeOK
<1>10. CASE UNCHANGED vars
  BY <1>10 DEF vars, TInv, TasksTypeOK, HandsFull, CallsTypeOK, ClientsTypeOK
<1>11. QED
  BY <1>1, <1>2, <1>3, <1>4, <1>5, <1>6, <1>7, <1>8, <1>9, <1>10 DEF Next, Step, TInv

\* handlers/openocd.rs, openocd-client: tasks, client and buffers keep to their types; a
\* reader that is ahead of the commands never lets the buffer outgrow its limit.
THEOREM TypeCorrect == Spec => []TypeOK
<1>1. TInv => TypeOK
  BY LimitsAssumption DEF TInv, TasksTypeOK, CallsTypeOK, ClientsTypeOK, TypeOK
<1>2. Spec => []TInv
  BY InitTypes, StepTypes, Invariance, PTL DEF Spec
<1>3. QED
  BY <1>1, <1>2, PTL

=============================================================================
