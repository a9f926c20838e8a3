------------------------------ MODULE DapClient ------------------------------
(***************************************************************************)
(* DapClient itself: the sequence counter, the map of pending requests,    *)
(* the event channel and one reader task per adapter process, which all    *)
(* outlive the process: `start` after `shutdown` goes on with the same     *)
(* counter, map and channel.  DebugSession takes for granted that a        *)
(* response reaches the call it answers; here that is shown, against       *)
(* DapRpc, with adapters that answer out of order, die, and send what the  *)
(* decoder rejects, and with calls dropped at any await.                   *)
(***************************************************************************)
EXTENDS Naturals, Sequences, SequencesExt

CONSTANTS
  Tasks,        \* tasks that call the client
  Uses,         \* the jobs each of them gives it
  Cancellable,  \* those whose call may be dropped
  Bodies,       \* what an adapter may answer
  Unsliceable,  \* a body whose text cannot be cut at byte 500 (or none of Bodies)
  Traced,       \* whether the client records a trace
  Silent,       \* an empty oneshot channel
  Without,      \* the outcome of a call that ends without an answer
  MaxSeq,       \* bound: requests
  MaxProcs,     \* bound: adapter processes
  MaxNoise      \* bound: events; a message that is neither event nor answer comes alone

Seqs  == 1..MaxSeq
Procs == 1..MaxProcs

ASSUME BoundsAssumption == MaxSeq \in Nat /\ MaxProcs \in Nat /\ MaxNoise \in Nat
Jobs  == {"send_request", "send_request_nb", "shutdown", "start"}

ASSUME TasksAssumption == Cancellable \subseteq Tasks /\ Uses \in [Tasks -> SUBSET Jobs]
ASSUME OutcomesAssumption ==
  Silent \notin Bodies /\ Without \notin Bodies /\ Silent # Without

VARIABLES
  child,      \* DapClient.child, 0 for None
  stdin,      \* DapClient.stdin: the process it leads to, 0 for None
  seq,        \* DapClient.seq
  pending,    \* DapClient.pending_requests: the keys
  slot,       \* the oneshot channel of each request
  channel,    \* DapClient.event_tx / event_rx
  readers,    \* processes whose reader task runs
  run,        \* each task: its job, its next step, and its request's seq or its process
  spawned,    \* processes spawned so far
  alive,      \* those still running
  inq,        \* their stdin pipes; 0 is a frame cut short
  outq,       \* their stdout pipes
  noise,      \* history: what each process sent of its own accord
  said,       \* history: what was answered to each request
  heard,      \* history: what each request's call returned with
  taken       \* history: the events recv_event returned

client  == <<child, stdin, seq, pending, slot, channel, readers>>
adapter == <<spawned, alive, inq, outq, noise, said>>
vars    == <<client, run, adapter, heard, taken>>

Labels == {"idle", "seq", "register", "write", "wait", "kill",
           "is_running", "spawn", "set_stdin", "set_child"}

Idle == [job |-> "none", at |-> "idle", own |-> 0]

At(t, label) == run[t].at = label
Goto(t, label) == run' = [run EXCEPT ![t].at = label]
Own(t, label, n) == run' = [run EXCEPT ![t].at = label, ![t].own = n]
End(t) == run' = [run EXCEPT ![t] = Idle]

\* shutdown goes on to kill the child whatever becomes of its disconnect request.
EndRequest(t) == IF run[t].job = "shutdown" THEN Goto(t, "kill") ELSE End(t)

\* The call of request r returns with outcome o.
Return(r, o) == heard' = [heard EXCEPT ![r] = o]

-----------------------------------------------------------------------------
Init ==
  /\ child = 0 /\ stdin = 0 /\ seq = 1 /\ pending = {}
  /\ slot = [r \in Seqs |-> Silent] /\ channel = <<>> /\ readers = {}
  /\ run = [t \in Tasks |-> Idle]
  /\ spawned = 0 /\ alive = {}
  /\ inq = [g \in Procs |-> <<>>] /\ outq = [g \in Procs |-> <<>>]
  /\ noise = [g \in Procs |-> <<>>]
  /\ said = [r \in Seqs |-> Silent] /\ heard = [r \in Seqs |-> Silent] /\ taken = <<>>

Begin(t) ==
  /\ At(t, "idle")
  /\ \E j \in Uses[t] : run' = [run EXCEPT ![t] =
       [job |-> j, at |-> IF j = "start" THEN "is_running" ELSE "seq", own |-> 0]]
  /\ UNCHANGED <<client, adapter, heard, taken>>

-----------------------------------------------------------------------------
(* start.                                                                  *)

IsRunning(t) ==
  /\ At(t, "is_running")
  /\ IF child # 0 THEN End(t) ELSE Goto(t, "spawn")
  /\ UNCHANGED <<client, adapter, heard, taken>>

\* Mutant: a new adapter starts with a new sequence counter.
Spawn_ResetsSeq(t) ==
  /\ At(t, "spawn") /\ spawned < MaxProcs
  /\ spawned' = spawned + 1
  /\ alive' = alive \cup {spawned'} /\ readers' = readers \cup {spawned'}
  /\ Own(t, "set_stdin", spawned') /\ seq' = 1
  /\ UNCHANGED <<child, stdin, pending, slot, channel, inq, outq, noise, said,
                 heard, taken>>

\* The process and its reader task.
Spawn(t) ==
  /\ At(t, "spawn") /\ spawned < MaxProcs
  /\ spawned' = spawned + 1
  /\ alive' = alive \cup {spawned'} /\ readers' = readers \cup {spawned'}
  /\ Own(t, "set_stdin", spawned')
  /\ UNCHANGED <<child, stdin, seq, pending, slot, channel, inq, outq, noise, said,
                 heard, taken>>

SpawnFails(t) ==
  /\ At(t, "spawn")
  /\ End(t)
  /\ UNCHANGED <<client, adapter, heard, taken>>

SetStdin(t) ==
  /\ At(t, "set_stdin")
  /\ stdin' = run[t].own
  /\ Goto(t, "set_child")
  /\ UNCHANGED <<child, seq, pending, slot, channel, readers, adapter, heard, taken>>

\* The Child that is overwritten, if any, is killed as it is dropped.
SetChild(t) ==
  /\ At(t, "set_child")
  /\ child' = run[t].own /\ alive' = alive \ {child}
  /\ End(t)
  /\ UNCHANGED <<stdin, seq, pending, slot, channel, readers, spawned, inq, outq,
                 noise, said, heard, taken>>

-----------------------------------------------------------------------------
(* send_request, send_request_nb and shutdown.                             *)

TakeSeq(t) ==
  /\ At(t, "seq") /\ seq <= MaxSeq
  /\ Own(t, IF run[t].job = "send_request_nb" THEN "write" ELSE "register", seq)
  /\ seq' = seq + 1
  /\ UNCHANGED <<child, stdin, pending, slot, channel, readers, adapter, heard, taken>>

\* Mutant: the waiter is registered for a request numbered one higher.
Register_OffByOne(t) ==
  /\ At(t, "register")
  /\ pending' = pending \cup {seq}
  /\ Goto(t, "write")
  /\ UNCHANGED <<child, stdin, seq, slot, channel, readers, adapter, heard, taken>>

Register(t) ==
  /\ At(t, "register")
  /\ pending' = pending \cup {run[t].own}
  /\ Goto(t, "write")
  /\ UNCHANGED <<child, stdin, seq, slot, channel, readers, adapter, heard, taken>>

\* One write under the stdin lock, which fails without a stdin or a process; the
\* pending entry stays behind then.
Write(t) ==
  /\ At(t, "write")
  /\ IF stdin \in alive
       THEN inq' = [inq EXCEPT ![stdin] = Append(@, run[t].own)]
       ELSE UNCHANGED inq
  /\ IF stdin \in alive /\ run[t].job # "send_request_nb"
       THEN Goto(t, "wait") /\ UNCHANGED heard
       ELSE EndRequest(t) /\ Return(run[t].own, Without)
  /\ UNCHANGED <<client, spawned, alive, outq, noise, said, taken>>

\* rx.await.
Receive(t) ==
  /\ At(t, "wait") /\ slot[run[t].own] # Silent
  /\ Return(run[t].own, slot[run[t].own])
  /\ slot' = [slot EXCEPT ![run[t].own] = Silent]
  /\ EndRequest(t)
  /\ UNCHANGED <<child, stdin, seq, pending, channel, readers, adapter, taken>>

Kill(t) ==
  /\ At(t, "kill")
  /\ alive' = alive \ {child} /\ child' = 0
  /\ End(t)
  /\ UNCHANGED <<stdin, seq, pending, slot, channel, readers, spawned, inq, outq,
                 noise, said, heard, taken>>

\* A call dropped at an await.  A process not yet stored is killed, one being killed
\* may have been; a write under way may have put part of a frame into the pipe.
Cancel(t) ==
  /\ t \in Cancellable /\ ~At(t, "idle")
  /\ End(t)
  /\ heard' = IF run[t].at \in {"register", "write", "wait"}
                THEN [heard EXCEPT ![run[t].own] = Without] ELSE heard
  /\ inq' \in {inq} \cup {[inq EXCEPT ![g] = Append(@, 0)] :
                            g \in IF At(t, "write") THEN {stdin} \cap alive ELSE {}}
  /\ slot' = IF At(t, "wait") THEN [slot EXCEPT ![run[t].own] = Silent] ELSE slot
  /\ \E killed \in {{}, IF At(t, "kill") THEN {child} ELSE {}} :
       alive' = (alive \ killed) \ (IF run[t].at \in {"set_stdin", "set_child"} THEN {run[t].own} ELSE {})
  /\ UNCHANGED <<child, stdin, seq, pending, channel, readers, spawned, outq, noise, said, taken>>

-----------------------------------------------------------------------------
(* The reader task of process g, one message at a time.                    *)

Reading(g, type) ==
  /\ g \in readers /\ outq[g] # <<>> /\ Head(outq[g]).type = type
  /\ outq' = [outq EXCEPT ![g] = Tail(@)]

\* The receiving end of request r's oneshot channel is still there.
Listening(r) == \E t \in Tasks : run[t].own = r /\ run[t].at \in {"write", "wait"}

\* Mutant: the entry of a response is looked up and not removed.
ReadResponse_Keeps(g) ==
  LET m == Head(outq[g])
      panics == Traced /\ m.body = Unsliceable IN
  /\ Reading(g, "response")
  /\ readers' = IF panics THEN readers \ {g} ELSE readers
  /\ slot' = IF m.seq \in pending /\ ~panics /\ Listening(m.seq)
                THEN [slot EXCEPT ![m.seq] = m.body] ELSE slot
  /\ UNCHANGED <<child, stdin, seq, pending, channel, run, spawned, alive, inq, noise, said,
                 heard, taken>>

\* The response goes to the pending entry of its request_seq, if there is one.  The
\* text is cut at byte 500 for the trace first, and cutting a character in two
\* panics: the task ends, and the entry stays.
ReadResponse(g) ==
  LET m == Head(outq[g])
      panics == Traced /\ m.body = Unsliceable IN
  /\ Reading(g, "response")
  /\ readers' = IF panics THEN readers \ {g} ELSE readers
  /\ IF m.seq \in pending /\ ~panics
       THEN /\ pending' = pending \ {m.seq}
            /\ slot' = IF Listening(m.seq) THEN [slot EXCEPT ![m.seq] = m.body] ELSE slot
       ELSE UNCHANGED <<pending, slot>>
  /\ UNCHANGED <<child, stdin, seq, channel, run, spawned, alive, inq, noise, said,
                 heard, taken>>

\* Mutant: an event goes to the front of the channel.
ReadEvent_InFront(g) ==
  /\ Reading(g, "event")
  /\ channel' = <<[proc |-> g, n |-> Head(outq[g]).seq]>> \o channel
  /\ UNCHANGED <<child, stdin, seq, pending, slot, readers, run, spawned, alive, inq, noise,
                 said, heard, taken>>

ReadEvent(g) ==
  /\ Reading(g, "event")
  /\ channel' = Append(channel, [proc |-> g, n |-> Head(outq[g]).seq])
  /\ UNCHANGED <<child, stdin, seq, pending, slot, readers, run, spawned, alive, inq, noise,
                 said, heard, taken>>

\* A reverse request is passed over with a warning.
ReadRequest(g) ==
  /\ Reading(g, "request")
  /\ UNCHANGED <<client, run, spawned, alive, inq, noise, said, heard, taken>>

\* A frame the decoder rejects ends the task.
ReadInvalid(g) ==
  /\ Reading(g, "invalid")
  /\ readers' = readers \ {g}
  /\ UNCHANGED <<child, stdin, seq, pending, slot, channel, run, spawned, alive, inq, noise,
                 said, heard, taken>>

\* So does the end of the stream; what the pipe of a dead process holds is read first.
ReadEnd(g) ==
  /\ g \in readers \ alive /\ outq[g] = <<>>
  /\ readers' = readers \ {g}
  /\ UNCHANGED <<child, stdin, seq, pending, slot, channel, run, adapter, heard, taken>>

Read(g) ==
  ReadResponse(g) \/ ReadEvent(g) \/ ReadRequest(g) \/ ReadInvalid(g) \/ ReadEnd(g)

recv_event ==
  /\ channel # <<>>
  /\ taken' = Append(taken, Head(channel)) /\ channel' = Tail(channel)
  /\ UNCHANGED <<child, stdin, seq, pending, slot, readers, run, adapter, heard>>

-----------------------------------------------------------------------------
(* The adapters: external.                                                 *)

\* Adapter g answers a request, any it has read: codelldb answers launch last.  After
\* a frame cut short it can make out no other.
Answer(g) ==
  \E i \in DOMAIN inq[g], b \in Bodies :
    /\ g \in alive /\ \A j \in 1..i : inq[g][j] # 0
    /\ inq' = [inq EXCEPT ![g] = RemoveAt(@, i)]
    /\ outq' = [outq EXCEPT ![g] = Append(@, [type |-> "response", seq |-> inq[g][i], body |-> b])]
    /\ said' = [said EXCEPT ![inq[g][i]] = b]
    /\ UNCHANGED <<client, run, spawned, alive, noise, heard, taken>>

SumLen(f) == FoldFunction(LAMBDA q, n : Len(q) + n, 0, f)

\* An event; or, if none of the adapters has sent anything yet, a message of another kind.
Announce(g) ==
  /\ g \in alive /\ SumLen(noise) < MaxNoise
  /\ \A p \in Procs : Range(noise[p]) \subseteq {"event"}
  /\ \E type \in {"event", "request", "invalid"} :
       /\ type = "event" \/ SumLen(noise) = 0
       /\ noise' = [noise EXCEPT ![g] = Append(@, type)]
       /\ outq' = [outq EXCEPT ![g] =
                      Append(@, [type |-> type, seq |-> Len(noise'[g]), body |-> Silent])]
  /\ UNCHANGED <<client, run, spawned, alive, inq, said, heard, taken>>

Die(g) ==
  /\ g \in alive
  /\ alive' = alive \ {g}
  /\ UNCHANGED <<client, run, spawned, inq, outq, noise, said, heard, taken>>

-----------------------------------------------------------------------------
Step(t) ==
  \/ IsRunning(t) \/ Spawn(t) \/ SpawnFails(t) \/ SetStdin(t) \/ SetChild(t)
  \/ TakeSeq(t) \/ Register(t) \/ Write(t) \/ Receive(t) \/ Kill(t)

Next ==
  \/ \E t \in Tasks : Begin(t) \/ Step(t) \/ Cancel(t)
  \/ \E g \in Procs : Read(g) \/ Answer(g) \/ Announce(g) \/ Die(g)
  \/ recv_event

Spec == Init /\ [][Next]_vars

\* The runtime schedules the tasks that can move.  Adapters owe nothing.
FairSpec ==
  /\ Spec
  /\ \A t \in Tasks : WF_vars(Step(t))
  /\ \A g \in Procs : WF_vars(Read(g))

-----------------------------------------------------------------------------
(* Properties.                                                             *)

Outcomes == Bodies \cup {Silent, Without}
Messages == [type : {"response", "event", "request", "invalid"}, seq : Nat, body : Bodies \cup {Silent}]

\* Every field of the client, every task and every pipe keeps to the code's values.
TypeOK ==
  /\ child \in 0..MaxProcs /\ stdin \in 0..MaxProcs /\ seq \in 1..(MaxSeq + 1)
  /\ pending \subseteq Seqs /\ slot \in [Seqs -> Bodies \cup {Silent}]
  /\ channel \in Seq([proc : Procs, n : Nat]) /\ taken \in Seq([proc : Procs, n : Nat])
  /\ run \in [Tasks -> [job : Jobs \cup {"none"}, at : Labels, own : 0..MaxSeq \cup 0..MaxProcs]]
  /\ spawned \in 0..MaxProcs /\ alive \subseteq 1..spawned /\ readers \subseteq 1..spawned
  /\ inq \in [Procs -> Seq(0..MaxSeq)] /\ outq \in [Procs -> Seq(Messages)]
  /\ noise \in [Procs -> Seq({"event", "request", "invalid"})]
  /\ said \in [Seqs -> Bodies \cup {Silent}] /\ heard \in [Seqs -> Outcomes]

Rpc == INSTANCE DapRpc WITH Requests <- Seqs

\* client.rs: responses are routed to the matching send_request waiter.  Through
\* restarts, out-of-order answers and dropped calls, a call returns with what was
\* said to its own request, once, or without an answer.
ImplementsRpc == Rpc!Spec

\* The call of request r waits for its response.
Waiting(t, r) == At(t, "wait") /\ run[t].own = r

\* The map never loses a waiter: until its answer is there, a call that waits has its
\* entry, and an answer once there stays for the call to take.
WaitersRegistered ==
  \A t \in Tasks : At(t, "wait") => (run[t].own \in pending <=> slot[run[t].own] = Silent)

\* An entry of the map that no call is about to use was left by a call that could not
\* write its request, was dropped, or lost its reader: nothing else leaks.
LeftoversExplained ==
  \A r \in pending :
    \/ \E t \in Tasks : run[t].own = r /\ run[t].at \in {"write", "wait"}
    \/ heard[r] = Without

\* The events in the order recv_event returns them, those yet in the channel included.
Delivered == taken \o channel

\* recv_event returns the events of an adapter in the order sent, each once and none
\* left out, through the one channel that all adapters share; only a reader that ended
\* leaves the rest unread.
EventsInOrder ==
  \A g \in Procs :
    LET received == {i \in DOMAIN Delivered : Delivered[i].proc = g}
        unread   == {i \in DOMAIN outq[g] : outq[g][i].type = "event"} IN
    /\ {n \in DOMAIN noise[g] : noise[g][n] = "event"} =
         {Delivered[i].n : i \in received} \cup {outq[g][i].seq : i \in unread}
    /\ \A i, j \in received : i < j => Delivered[i].n < Delivered[j].n
    /\ \A i, j \in unread : i < j => outq[g][i].seq < outq[g][j].seq
    /\ \A i \in received, j \in unread : Delivered[i].n < outq[g][j].seq

\* A response on its way to r.
Coming(g, r) == \E i \in DOMAIN outq[g] : outq[g][i].type = "response" /\ outq[g][i].seq = r

\* A response that an adapter wrote ends the wait of its call, unless the reader of
\* that adapter ended first.
AnswersArrive ==
  \A g \in Procs, r \in Seqs :
    Coming(g, r) /\ (\E t \in Tasks : Waiting(t, r)) ~> heard[r] # Silent \/ g \notin readers

=============================================================================
