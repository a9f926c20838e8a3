------------------------------ MODULE OpenOcd ------------------------------
(***************************************************************************)
(* The OpenOCD tools: the handlers that share Arc<RwLock<Option<Client>>>, *)
(* the OpenOcdClient behind it with its reader task, and the openocd       *)
(* processes, one per client.                                              *)
(*                                                                         *)
(* Tool calls are tasks, as in DebugSession: pc[t] is the step t takes     *)
(* next, and the locks a task holds follow from it.  A line of output is   *)
(* the command it answers (0 for a log line) and whether it carries the    *)
(* terminator \x1a.                                                        *)
(***************************************************************************)
EXTENDS Integers, Sequences, FiniteSets

CONSTANTS
  Callers,      \* tasks that make tool calls
  Cancellable,  \* those whose call is dropped when their HTTP client hangs up
  MaxClients,   \* bound: processes ever spawned
  MaxCalls,     \* bound: tool calls made
  MaxLogs,      \* bound: log lines a process prints
  PipeSize,     \* commands that fit into a process's stdin pipe
  BufferLimit   \* MAX_STDOUT_BUFFER_LINES

ASSUME CallersAssumption == Cancellable \subseteq Callers
ASSUME LimitsAssumption ==
  /\ MaxClients \in Nat /\ MaxCalls \in Nat /\ MaxLogs \in Nat
  /\ PipeSize \in Nat \ {0} /\ BufferLimit \in Nat \ {0}

Clients == 1..MaxClients
Tools == {"start", "stop", "send", "status", "output"}
Lines == [of : 0..MaxCalls, last : BOOLEAN]

VARIABLES
  slot,     \* the client in the shared Option, 0 for None
  op,       \* the tool task t runs
  pc,       \* its next step
  client,   \* the client in its hands, 0 for none
  command,  \* the command it sends, numbered by the call
  got,      \* send_command's response_lines: the commands they answer
  result,   \* how its last call ended
  calls,    \* tool calls made so far
  spawned,  \* clients, each with its process, created so far
  alive,    \* processes that run
  running,  \* OpenOcdClient.running
  buffer,   \* OpenOcdClient.stdout_lines
  reader,   \* what the reader task of each client does next
  inq,      \* each process's stdin pipe
  outq,     \* each process's stdout pipe
  logs      \* log lines each process printed

tasks   == <<op, pc, client, command, got, result, calls>>
process == <<spawned, alive, inq, outq, logs>>
reading == <<running, buffer, reader>>
vars    == <<slot, tasks, process, reading>>

-----------------------------------------------------------------------------
(* Locks.                                                                  *)

\* Steps of send_command: it holds command_lock.
Commanding == {"write", "register", "wait", "drain"}

\* openocd_stop holds the write lock from take to the end of shutdown; openocd_send,
\* openocd_status and openocd_output hold the read lock while they use the client.
Writing(t) == op[t] = "stop" /\ pc[t] \in {"lock", "kill"} \cup Commanding
Reading(t) == op[t] # "stop" /\ pc[t] \in {"lock", "report"} \cup Commanding

NoWriter == \A t \in Callers : ~Writing(t)
WriteLockFree == NoWriter /\ \A t \in Callers : ~Reading(t)
WriterWaits == \E t \in Callers : pc[t] \in {"take", "store"}
CommandLockFree(c) == \A t \in Callers : ~(client[t] = c /\ pc[t] \in Commanding)

Goto(t, label) == pc' = [pc EXCEPT ![t] = label]
Return(t, how) ==
  /\ Goto(t, "idle")
  /\ result' = [result EXCEPT ![t] = how]
  /\ client' = [client EXCEPT ![t] = 0]

-----------------------------------------------------------------------------
Init ==
  /\ slot = 0
  /\ op = [t \in Callers |-> "status"] /\ pc = [t \in Callers |-> "idle"]
  /\ client = [t \in Callers |-> 0] /\ command = [t \in Callers |-> 0]
  /\ got = [t \in Callers |-> {}] /\ result = [t \in Callers |-> "none"]
  /\ calls = 0 /\ spawned = 0 /\ alive = {}
  /\ running = [c \in Clients |-> FALSE] /\ buffer = [c \in Clients |-> <<>>]
  /\ reader = [c \in Clients |-> "ended"]
  /\ inq = [c \in Clients |-> <<>>] /\ outq = [c \in Clients |-> <<>>]
  /\ logs = [c \in Clients |-> 0]

Call(t) ==
  /\ pc[t] = "idle" /\ calls < MaxCalls
  /\ \E tool \in Tools :
       /\ op' = [op EXCEPT ![t] = tool]
       /\ Goto(t, CASE tool = "start" -> "check" [] tool = "stop" -> "take" [] OTHER -> "try")
  /\ calls' = calls + 1
  /\ command' = [command EXCEPT ![t] = calls + 1]
  /\ got' = [got EXCEPT ![t] = {}]
  /\ result' = [result EXCEPT ![t] = "none"]
  /\ UNCHANGED <<slot, client, process, reading>>

\* handle_openocd_start looks into the slot and lets go of the lock ...
Check(t) ==
  /\ pc[t] = "check" /\ NoWriter
  /\ IF slot # 0 THEN Return(t, "refused") ELSE Goto(t, "spawn") /\ UNCHANGED <<result, client>>
  /\ UNCHANGED <<slot, op, command, got, calls, process, reading>>

\* ... starts a client of its own, which no other task sees yet ...
Spawn(t) ==
  /\ pc[t] = "spawn" /\ spawned < MaxClients
  /\ spawned' = spawned + 1
  /\ alive' = alive \cup {spawned + 1}
  /\ running' = [running EXCEPT ![spawned + 1] = TRUE]
  /\ reader' = [reader EXCEPT ![spawned + 1] = "read"]
  /\ client' = [client EXCEPT ![t] = spawned + 1]
  /\ Goto(t, "store")
  /\ UNCHANGED <<slot, op, command, got, result, calls, inq, outq, logs, buffer>>

SpawnFails(t) ==
  /\ pc[t] = "spawn"
  /\ Return(t, "failed")
  /\ UNCHANGED <<slot, op, command, got, calls, process, reading>>

\* Mutant: the slot is written under no lock.
Store_Unlocked(t) ==
  /\ pc[t] = "store"
  /\ slot' = client[t]
  /\ alive' = alive \ {slot}
  /\ Return(t, "ok")
  /\ UNCHANGED <<op, command, got, calls, spawned, inq, outq, logs, reading>>

\* Mutant: the client that is overwritten is not killed as it is dropped.
Store_NoKillOnDrop(t) ==
  /\ pc[t] = "store" /\ WriteLockFree
  /\ slot' = client[t]
  /\ Return(t, "ok")
  /\ UNCHANGED <<op, command, got, calls, process, reading>>

\* ... and stores it.  A client that is overwritten is dropped: kill_on_drop.
Store(t) ==
  /\ pc[t] = "store" /\ WriteLockFree
  /\ slot' = client[t]
  /\ alive' = alive \ {slot}
  /\ Return(t, "ok")
  /\ UNCHANGED <<op, command, got, calls, spawned, inq, outq, logs, reading>>

\* handle_openocd_stop: the write lock, take, and shutdown's is_running.
Take(t) ==
  /\ pc[t] = "take" /\ WriteLockFree
  /\ IF slot = 0
       THEN Return(t, "refused")
       ELSE /\ client' = [client EXCEPT ![t] = slot]
            /\ Goto(t, IF running[slot] THEN "lock" ELSE "kill")
            /\ UNCHANGED result
  /\ slot' = 0
  /\ UNCHANGED <<op, command, got, calls, process, reading>>

\* The end of OpenOcdClient::shutdown.
Kill(t) ==
  /\ pc[t] = "kill"
  /\ alive' = alive \ {client[t]}
  /\ running' = [running EXCEPT ![client[t]] = FALSE]
  /\ Return(t, "ok")
  /\ UNCHANGED <<slot, op, command, got, calls, spawned, inq, outq, logs, buffer, reader>>

\* require_openocd: try_read fails when a writer holds the lock, and when one waits
\* and has joined the lock's queue.
TryRead(t) ==
  /\ pc[t] = "try"
  /\ \/ /\ ~NoWriter \/ WriterWaits
        /\ Return(t, "busy")
     \/ /\ NoWriter /\ slot = 0
        /\ Return(t, "refused")
     \/ /\ NoWriter /\ slot # 0
        /\ client' = [client EXCEPT ![t] = slot]
        /\ Goto(t, IF op[t] = "send" THEN "lock" ELSE "report")
        /\ UNCHANGED result
  /\ UNCHANGED <<slot, op, command, got, calls, process, reading>>

\* OpenOcdClient::status; read_output and read_errors, which read the log files, if the
\* client has any, whether its process runs or not.
Report(t) ==
  /\ pc[t] = "report"
  /\ \/ op[t] = "status" /\ Return(t, IF running[client[t]] THEN "ok" ELSE "dead")
     \/ op[t] = "output" /\ \E how \in {"ok", "failed"} : Return(t, how)
  /\ UNCHANGED <<slot, op, command, got, calls, process, reading>>

-----------------------------------------------------------------------------
(* OpenOcdClient::send_command, for openocd_send and within shutdown, which *)
(* ignores how it ends.                                                    *)

Lock(t) ==
  /\ pc[t] = "lock" /\ CommandLockFree(client[t])
  /\ Goto(t, "write")
  /\ UNCHANGED <<slot, op, client, command, got, result, calls, process, reading>>

Finish(t, how) ==
  IF op[t] = "stop" THEN Goto(t, "kill") /\ UNCHANGED <<result, client>> ELSE Return(t, how)

\* stdin is there as long as the client is shared; the write fails when its process is
\* gone, and waits, with no deadline, while the pipe of one that runs has no room.
Write(t) ==
  LET c == client[t] IN
  /\ pc[t] = "write" /\ (c \in alive => Len(inq[c]) < PipeSize)
  /\ IF c \in alive
       THEN /\ inq' = [inq EXCEPT ![c] = Append(@, command[t])]
            /\ Goto(t, "register")
            /\ UNCHANGED <<result, client>>
       ELSE inq' = inq /\ Finish(t, "failed")
  /\ UNCHANGED <<slot, op, command, got, calls, spawned, alive, outq, logs, reading>>

\* notified().await enrols the task with the Notify when it is first polled.
Register(t) ==
  /\ pc[t] = "register"
  /\ Goto(t, "wait")
  /\ UNCHANGED <<slot, op, client, command, got, result, calls, process, reading>>

\* Mutant: no deadline.
Timeout_Never(t) == FALSE /\ UNCHANGED vars

\* The deadline, which runs from after the write: the task waits to be notified or for
\* the buffer's lock.  What has been collected is returned as the response, if anything.
Timeout(t) ==
  /\ pc[t] \in {"wait", "drain"}
  /\ Finish(t, IF got[t] = {} THEN "timeout" ELSE "ok")
  /\ UNCHANGED <<slot, op, command, got, calls, process, reading>>

\* Under the buffer's lock: all lines up to the first one with the terminator.
Drain(t) ==
  LET c == client[t]
      ends == {i \in DOMAIN buffer[c] : buffer[c][i].last}
      n == IF ends = {} THEN Len(buffer[c]) ELSE CHOOSE i \in ends : \A j \in ends : i <= j
  IN /\ pc[t] = "drain"
     /\ got' = [got EXCEPT ![t] = @ \cup {buffer[c][i].of : i \in 1..n}]
     /\ buffer' = [buffer EXCEPT ![c] = SubSeq(@, n + 1, Len(@))]
     /\ IF ends = {}
          THEN Goto(t, "register") /\ UNCHANGED <<result, client>>
          ELSE Finish(t, "ok")
     /\ UNCHANGED <<slot, op, command, calls, process, running, reader>>

-----------------------------------------------------------------------------
(* read_stream_to_buffer_and_log, the reader task of client c.             *)

\* Mutant: the buffer is not trimmed.
Push_Untrimmed(c) ==
  /\ reader[c] = "read" /\ outq[c] # <<>>
  /\ outq' = [outq EXCEPT ![c] = Tail(@)]
  /\ buffer' = [buffer EXCEPT ![c] = Append(@, Head(outq[c]))]
  /\ reader' = [reader EXCEPT ![c] = "notify"]
  /\ UNCHANGED <<slot, tasks, spawned, alive, inq, logs, running>>

Push(c) ==
  LET longer == Append(buffer[c], Head(outq[c])) IN
  /\ reader[c] = "read" /\ outq[c] # <<>>
  /\ outq' = [outq EXCEPT ![c] = Tail(@)]
  /\ buffer' = [buffer EXCEPT ![c] =
       IF Len(longer) > BufferLimit THEN Tail(longer) ELSE longer]
  /\ reader' = [reader EXCEPT ![c] = "notify"]
  /\ UNCHANGED <<slot, tasks, spawned, alive, inq, logs, running>>

\* notify_waiters wakes the tasks enrolled at this moment and leaves no permit.
Notify(c) ==
  /\ reader[c] = "notify"
  /\ pc' = [t \in Callers |-> IF pc[t] = "wait" /\ client[t] = c THEN "drain" ELSE pc[t]]
  /\ reader' = [reader EXCEPT ![c] = "read"]
  /\ UNCHANGED <<slot, op, client, command, got, result, calls, process, running, buffer>>

\* The output ends with its process.  A line that is not UTF-8 makes next_line fail,
\* which ends the loop just so, though the process runs on.
EndOfFile(c) ==
  /\ reader[c] = "read" /\ outq[c] = <<>>
  /\ reader' = [reader EXCEPT ![c] = "ended"]
  /\ running' = [running EXCEPT ![c] = FALSE]
  /\ UNCHANGED <<slot, tasks, process, buffer>>

-----------------------------------------------------------------------------
(* The openocd process, an external program: it answers its commands in    *)
(* order, each with a line that ends in \x1a, or reads one and never does,  *)
(* or reads no more; it prints log lines of its own; it exits after         *)
(* `shutdown`, and may exit at any other time.                             *)

Respond(c) ==
  /\ c \in alive /\ inq[c] # <<>>
  /\ inq' = [inq EXCEPT ![c] = Tail(@)]
  /\ outq' = [outq EXCEPT ![c] = Append(@, [of |-> Head(inq[c]), last |-> TRUE])]
  /\ UNCHANGED <<slot, tasks, spawned, alive, logs, reading>>

Ignore(c) ==
  /\ c \in alive /\ inq[c] # <<>>
  /\ inq' = [inq EXCEPT ![c] = Tail(@)]
  /\ UNCHANGED <<slot, tasks, spawned, alive, outq, logs, reading>>

Log(c) ==
  /\ c \in alive /\ logs[c] < MaxLogs
  /\ logs' = [logs EXCEPT ![c] = @ + 1]
  /\ outq' = [outq EXCEPT ![c] = Append(@, [of |-> 0, last |-> FALSE])]
  /\ UNCHANGED <<slot, tasks, spawned, alive, inq, reading>>

Die(c) ==
  /\ c \in alive
  /\ alive' = alive \ {c}
  /\ UNCHANGED <<slot, tasks, spawned, inq, outq, logs, reading>>

\* The HTTP client hangs up: the call's future is dropped with its guards, and a
\* client in the hands of start or stop with its process.
Cancel(t) ==
  /\ t \in Cancellable /\ pc[t] # "idle"
  /\ alive' = IF pc[t] = "store" \/ Writing(t) THEN alive \ {client[t]} ELSE alive
  /\ Return(t, "none")
  /\ UNCHANGED <<slot, op, command, got, calls, spawned, inq, outq, logs, reading>>

-----------------------------------------------------------------------------
Step(t) ==
  \/ Check(t) \/ Spawn(t) \/ SpawnFails(t) \/ Store(t) \/ Take(t) \/ Kill(t) \/ TryRead(t)
  \/ Report(t) \/ Lock(t) \/ Write(t) \/ Register(t) \/ Timeout(t) \/ Drain(t)

Next ==
  \/ \E t \in Callers : Call(t) \/ Step(t) \/ Cancel(t)
  \/ \E c \in Clients :
       Push(c) \/ Notify(c) \/ EndOfFile(c) \/ Respond(c) \/ Ignore(c) \/ Log(c) \/ Die(c)

Spec == Init /\ [][Next]_vars

\* The runtime runs every task that can move, and the timer fires; the process owes nothing.
Fairness == \A t \in Callers : WF_vars(Step(t))
FairSpec == Spec /\ Fairness

-----------------------------------------------------------------------------
(* Properties.                                                             *)

Labels == {"idle", "check", "spawn", "store", "take", "kill", "try", "lock", "report"} \cup Commanding
Results == {"none", "ok", "refused", "failed", "busy", "dead", "timeout"}

\* Every field of the client and every task keeps to the values the code gives it.
TypeOK ==
  /\ slot \in 0..spawned /\ spawned \in 0..MaxClients /\ alive \subseteq 1..spawned
  /\ op \in [Callers -> Tools] /\ pc \in [Callers -> Labels]
  /\ client \in [Callers -> 0..spawned] /\ command \in [Callers -> 0..MaxCalls]
  /\ got \in [Callers -> SUBSET (0..MaxCalls)] /\ result \in [Callers -> Results]
  /\ calls \in 0..MaxCalls
  /\ running \in [Clients -> BOOLEAN] /\ reader \in [Clients -> {"read", "notify", "ended"}]
  /\ buffer \in [Clients -> Seq(Lines)] /\ \A c \in Clients : Len(buffer[c]) <= BufferLimit
  /\ inq \in [Clients -> Seq(0..MaxCalls)] /\ outq \in [Clients -> Seq(Lines)]
  /\ logs \in [Clients -> 0..MaxLogs]

\* No openocd process is orphaned: one that runs belongs to the shared client, or to the
\* client that a start has yet to store or a stop is shutting down.
ProcessesOwned ==
  \A c \in alive :
    c = slot \/ \E t \in Callers : (pc[t] = "store" \/ Writing(t)) /\ client[t] = c

\* A call that uses the client uses the one in the slot: neither a stop nor a second
\* start takes it away underneath, and the guard's unwrap and stdin's cannot fail.
ClientInUseStays == \A t \in Callers : Reading(t) => client[t] = slot

\* The process of the client that task u writes to runs and has left its pipe full.
WriteBlocked(u) ==
  /\ pc[u] = "write" /\ client[u] \in alive
  /\ Len(inq[client[u]]) >= PipeSize

\* Every call returns, of a process that answers late, never or not its commands, or dies:
\* each wait has a deadline or is for a lock whose holder has one.  The one that has none is
\* the write: a process that reads no more and runs on holds up its writer, and through
\* command_lock and the client's lock whoever waits for those.
EveryCallEnds ==
  \A t \in Callers : pc[t] # "idle" ~> (pc[t] = "idle" \/ \E u \in Callers : [](WriteBlocked(u)))

\* command_lock: what send_command returns is the response to its command, never that of
\* another one; log lines may be mixed in.
OwnResponse ==
  \A t \in Callers : op[t] = "send" /\ result[t] = "ok" => got[t] \subseteq {0, command[t]}

=============================================================================
