--------------------------- MODULE DapClient_proofs ---------------------------
(***************************************************************************)
(* Theorems about DapClient: for any tasks, any adapters and any bounds,   *)
(* its state keeps its types, no waiter loses its entry, the entries left  *)
(* behind are explained, and the client implements DapRpc: a call hears    *)
(* what was said to its own request, once, or ends without an answer.      *)
(***************************************************************************)
EXTENDS DapClient, SequenceFacts, TLAPS

\* The task holds the number of a request it has not ended.
Asking(t) == run[t].at \in {"register", "write", "wait"}

\* Request r is in a stdin pipe: an adapter may still answer it.
Sent(r) == \E g \in Procs : \E i \in DOMAIN inq[g] : inq[g][i] = r

\* A task in start holds the process it has spawned.
StartersHoldProcess ==
  \A t \in Tasks : run[t].at \in {"set_stdin", "set_child"} => run[t].own \in 1..spawned

\* The number of a call under way has been given out by the counter, to this call
\* alone, and the call has not returned.
CallsOwnNumbers ==
  /\ \A t \in Tasks : Asking(t) =>
       run[t].own \in Seqs /\ run[t].own < seq /\ heard[run[t].own] = Silent
  /\ \A t, u \in Tasks : Asking(t) /\ Asking(u) /\ run[t].own = run[u].own => t = u

\* A number the counter has not reached has been neither sent, answered nor returned.
NumbersAhead ==
  \A r \in Seqs : r >= seq => ~Sent(r) /\ said[r] = Silent /\ heard[r] = Silent

\* Until its call has written it, a request has been neither sent nor answered.
UnwrittenUnanswered ==
  \A t \in Tasks : run[t].at \in {"register", "write"} =>
    ~Sent(run[t].own) /\ said[run[t].own] = Silent

\* A request is in the pipes once, and not after it has been answered.
SentOnce ==
  /\ \A g, h \in Procs : \A i \in DOMAIN inq[g], j \in DOMAIN inq[h] :
       inq[g][i] = inq[h][j] /\ inq[g][i] # 0 => g = h /\ i = j
  /\ \A r \in Seqs : Sent(r) => said[r] = Silent

\* A response carries what was said to the request it names.
ResponsesTrue ==
  \A g \in Procs : \A i \in DOMAIN outq[g] :
    outq[g][i].type = "response" =>
      /\ outq[g][i].seq \in Seqs /\ outq[g][i].body \in Bodies
      /\ said[outq[g][i].seq] = outq[g][i].body

\* What is in a oneshot channel was said to its request, whose call waits for it and
\* whose entry is gone.
SlotsTrue ==
  \A r \in Seqs : slot[r] # Silent =>
    slot[r] = said[r] /\ r \notin pending /\ \E t \in Tasks : Waiting(t, r)

\* A call that has registered has its entry until its answer is there.
WritersRegistered ==
  \A t \in Tasks : At(t, "write") /\ run[t].job # "send_request_nb" => run[t].own \in pending

IInv ==
  /\ TypeOK /\ StartersHoldProcess
  /\ CallsOwnNumbers /\ NumbersAhead /\ UnwrittenUnanswered
  /\ SentOnce /\ ResponsesTrue /\ SlotsTrue
  /\ WritersRegistered /\ WaitersRegistered /\ LeftoversExplained


USE DEF At, Asking, Waiting

-----------------------------------------------------------------------------
(* The pipes.                                                              *)

\* A frame is written to the stdin of process g: a request not sent before, or part of
\* a frame.
LEMMA FrameWritten ==
  ASSUME TypeOK, SentOnce, NEW g \in Procs, NEW n \in 0..MaxSeq, n = 0 \/ ~Sent(n),
         inq' = [inq EXCEPT ![g] = Append(@, n)]
  PROVE  /\ inq' \in [Procs -> Seq(0..MaxSeq)]
         /\ \A r : Sent(r)' => Sent(r) \/ r = n
         /\ \A h, k \in Procs : \A i \in DOMAIN inq'[h], j \in DOMAIN inq'[k] :
              inq'[h][i] = inq'[k][j] /\ inq'[h][i] # 0 => h = k /\ i = j
<1>1. inq \in [Procs -> Seq(0..MaxSeq)] /\ inq[g] \in Seq(0..MaxSeq)
  BY DEF TypeOK
<1>2. /\ Append(inq[g], n) \in Seq(0..MaxSeq)
      /\ DOMAIN Append(inq[g], n) = DOMAIN inq[g] \cup {Len(inq[g]) + 1}
      /\ \A i \in DOMAIN inq[g] : Append(inq[g], n)[i] = inq[g][i]
      /\ Append(inq[g], n)[Len(inq[g]) + 1] = n /\ Len(inq[g]) + 1 \notin DOMAIN inq[g]
  BY <1>1, AppendElements
<1>3. inq' \in [Procs -> Seq(0..MaxSeq)]
  BY <1>1, <1>2
<1>4. inq'[g] = Append(inq[g], n) /\ \A h \in Procs \ {g} : inq'[h] = inq[h]
  BY <1>1
<1>5. ASSUME NEW h \in Procs, NEW i \in DOMAIN inq'[h]
      PROVE  \/ i \in DOMAIN inq[h] /\ inq'[h][i] = inq[h][i]
             \/ h = g /\ i = Len(inq[g]) + 1 /\ inq'[h][i] = n
  BY <1>2, <1>4
<1>6. \A r : Sent(r)' => Sent(r) \/ r = n
  BY <1>5 DEF Sent
<1>7. ASSUME NEW h \in Procs, NEW k \in Procs, NEW i \in DOMAIN inq'[h], NEW j \in DOMAIN inq'[k],
             inq'[h][i] = inq'[k][j], inq'[h][i] # 0
      PROVE  h = k /\ i = j
  <2>1. CASE i \in DOMAIN inq[h] /\ inq'[h][i] = inq[h][i] /\ j \in DOMAIN inq[k] /\ inq'[k][j] = inq[k][j]
    BY <1>7, <2>1 DEF SentOnce
  <2>2. CASE i \in DOMAIN inq[h] /\ inq'[h][i] = inq[h][i] /\ k = g /\ inq'[k][j] = n
    BY <1>7, <2>2 DEF Sent
  <2>3. CASE j \in DOMAIN inq[k] /\ inq'[k][j] = inq[k][j] /\ h = g /\ inq'[h][i] = n
    BY <1>7, <2>3 DEF Sent
  <2>4. QED
    BY <1>5, <2>1, <2>2, <2>3
<1>8. QED
  BY <1>3, <1>6, <1>7

\* Process g reads the request at place k of its stdin.
LEMMA FrameRead ==
  ASSUME TypeOK, SentOnce, NEW g \in Procs, NEW k \in DOMAIN inq[g], inq[g][k] # 0,
         inq' = [inq EXCEPT ![g] = RemoveAt(@, k)]
  PROVE  /\ inq' \in [Procs -> Seq(0..MaxSeq)]
         /\ \A r : Sent(r)' => Sent(r) /\ r # inq[g][k]
         /\ \A h, m \in Procs : \A i \in DOMAIN inq'[h], j \in DOMAIN inq'[m] :
              inq'[h][i] = inq'[m][j] /\ inq'[h][i] # 0 => h = m /\ i = j
<1> DEFINE from(h, i) == IF h # g THEN i ELSE IF i < k THEN i ELSE i + 1
<1>1. inq \in [Procs -> Seq(0..MaxSeq)] /\ inq[g] \in Seq(0..MaxSeq)
  BY DEF TypeOK
<1>2. /\ RemoveAt(inq[g], k) \in Seq(0..MaxSeq)
      /\ \A i \in DOMAIN RemoveAt(inq[g], k) :
           /\ i \in Nat
           /\ i < k => i \in DOMAIN inq[g] /\ RemoveAt(inq[g], k)[i] = inq[g][i]
           /\ ~(i < k) =>
                i + 1 \in DOMAIN inq[g] /\ i + 1 # k /\ RemoveAt(inq[g], k)[i] = inq[g][i + 1]
  BY <1>1, RemoveAtElements
<1>3. inq' \in [Procs -> Seq(0..MaxSeq)]
  BY <1>1, <1>2
<1>4. inq'[g] = RemoveAt(inq[g], k) /\ \A h \in Procs \ {g} : inq'[h] = inq[h]
  BY <1>1
<1>5. ASSUME NEW h \in Procs, NEW i \in DOMAIN inq'[h]
      PROVE  /\ from(h, i) \in DOMAIN inq[h] /\ inq'[h][i] = inq[h][from(h, i)]
             /\ h = g => i \in Nat /\ from(h, i) # k
  BY <1>2, <1>4
<1>6. ASSUME NEW h \in Procs, NEW i \in DOMAIN inq'[h] PROVE inq'[h][i] # inq[g][k]
  BY <1>5 DEF SentOnce
<1>7. \A r : Sent(r)' => Sent(r) /\ r # inq[g][k]
  BY <1>5, <1>6 DEF Sent
<1>8. k \in Nat
  BY <1>1, LenProperties
<1>9. ASSUME NEW h \in Procs, NEW m \in Procs, NEW i \in DOMAIN inq'[h], NEW j \in DOMAIN inq'[m],
             inq'[h][i] = inq'[m][j], inq'[h][i] # 0
      PROVE  h = m /\ i = j
  <2>1. h = m /\ from(h, i) = from(m, j)
    BY <1>5, <1>9 DEF SentOnce
  <2>2. QED
    BY SMTT(30), <1>5, <1>8, <2>1
<1>10. QED
  BY <1>3, <1>7, <1>9

\* A message is added to a stdout pipe, or the first one taken from it.
LEMMA MessageWritten ==
  ASSUME TypeOK, NEW g \in Procs, NEW m \in Messages, outq' = [outq EXCEPT ![g] = Append(@, m)]
  PROVE  /\ outq' \in [Procs -> Seq(Messages)]
         /\ \A h \in Procs : \A i \in DOMAIN outq'[h] :
              outq'[h][i] = m \/ \E j \in DOMAIN outq[h] : outq'[h][i] = outq[h][j]
<1>1. outq \in [Procs -> Seq(Messages)] /\ outq[g] \in Seq(Messages)
  BY DEF TypeOK
<1>2. /\ Append(outq[g], m) \in Seq(Messages)
      /\ DOMAIN Append(outq[g], m) = DOMAIN outq[g] \cup {Len(outq[g]) + 1}
      /\ \A i \in DOMAIN outq[g] : Append(outq[g], m)[i] = outq[g][i]
      /\ Append(outq[g], m)[Len(outq[g]) + 1] = m
  BY <1>1, AppendElements
<1>3. outq'[g] = Append(outq[g], m) /\ \A h \in Procs \ {g} : outq'[h] = outq[h]
  BY <1>1
<1>4. QED
  BY <1>1, <1>2, <1>3

LEMMA MessageRead ==
  ASSUME TypeOK, NEW g \in Procs, outq[g] # <<>>, outq' = [outq EXCEPT ![g] = Tail(@)]
  PROVE  /\ outq' \in [Procs -> Seq(Messages)]
         /\ \A h \in Procs : \A i \in DOMAIN outq'[h] :
              \E j \in DOMAIN outq[h] : outq'[h][i] = outq[h][j]
         /\ \E j \in DOMAIN outq[g] : Head(outq[g]) = outq[g][j]
         /\ Head(outq[g]) \in Messages
<1>1. outq \in [Procs -> Seq(Messages)] /\ outq[g] \in Seq(Messages)
  BY DEF TypeOK
<1>2. /\ Tail(outq[g]) \in Seq(Messages)
      /\ \A i \in DOMAIN Tail(outq[g]) : \E j \in DOMAIN outq[g] : Tail(outq[g])[i] = outq[g][j]
  BY <1>1, TailElements
<1>3. outq'[g] = Tail(outq[g]) /\ \A h \in Procs \ {g} : outq'[h] = outq[h]
  BY <1>1
<1>4. Head(outq[g]) \in Messages
  BY <1>1, HeadTailProperties
<1>5. 1 \in DOMAIN outq[g] /\ Head(outq[g]) = outq[g][1]
  BY <1>1, TailElements
<1>6. QED
  BY <1>1, <1>2, <1>3, <1>4, <1>5


-----------------------------------------------------------------------------
(* The steps.                                                              *)

LEMMA InitInv == Init => IInv
<1> SUFFICES ASSUME Init PROVE IInv
  OBVIOUS
<1> USE DEF Init
<1>1. TypeOK
  <2>1. Idle \in [job : Jobs \cup {"none"}, at : Labels, own : 0..MaxSeq \cup 0..MaxProcs]
    BY BoundsAssumption DEF Idle, Labels
  <2>2. \A S : <<>> \in Seq(S)
    BY EmptySeq
  <2>3. 0 \in 0..MaxProcs /\ 1 \in 1..(MaxSeq + 1)
    BY BoundsAssumption
  <2>4. QED
    BY <2>1, <2>2, <2>3 DEF TypeOK, Outcomes
<1>2. \A t \in Tasks : run[t].at = "idle"
  BY DEF Idle
<1>3. \A g \in Procs : DOMAIN inq[g] = {} /\ DOMAIN outq[g] = {}
  OBVIOUS
<1>4. \A r : ~Sent(r)
  BY <1>3 DEF Sent
<1>5. StartersHoldProcess /\ CallsOwnNumbers /\ UnwrittenUnanswered
  BY <1>2 DEF StartersHoldProcess, CallsOwnNumbers, UnwrittenUnanswered
<1>6. NumbersAhead /\ SentOnce /\ ResponsesTrue
  BY <1>3, <1>4 DEF NumbersAhead, SentOnce, ResponsesTrue
<1>7. SlotsTrue /\ WritersRegistered /\ WaitersRegistered /\ LeftoversExplained
  BY <1>2 DEF SlotsTrue, WritersRegistered, WaitersRegistered, LeftoversExplained
<1>8. QED
  BY <1>1, <1>5, <1>6, <1>7 DEF IInv

\* A step that touches no call under way, none of the requests' state and no response
\* but to take one away.
LEMMA QuietInv ==
  ASSUME IInv, TypeOK', StartersHoldProcess',
         UNCHANGED <<seq, pending, slot, inq, said, heard>>,
         \A t \in Tasks : run'[t] = run[t] \/ (~Asking(t) /\ ~Asking(t)'),
         \A g \in Procs : \A i \in DOMAIN outq'[g] : outq'[g][i].type = "response" =>
           \E j \in DOMAIN outq[g] : outq'[g][i] = outq[g][j]
  PROVE  IInv'
<1>1. \A r : Sent(r)' <=> Sent(r)
  BY DEF Sent
<1>2. \A t \in Tasks : Asking(t)' => run'[t] = run[t] /\ Asking(t)
  OBVIOUS
<1>3. \A t \in Tasks : Asking(t) => run'[t] = run[t]
  OBVIOUS
<1>4. CallsOwnNumbers'
  BY <1>2 DEF IInv, CallsOwnNumbers
<1>5. NumbersAhead'
  BY <1>1 DEF IInv, NumbersAhead
<1>6. UnwrittenUnanswered'
  BY <1>1, <1>2 DEF IInv, UnwrittenUnanswered
<1>7. SentOnce'
  BY <1>1 DEF IInv, SentOnce
<1>8. ResponsesTrue'
  BY DEF IInv, ResponsesTrue
<1>9. SlotsTrue'
  BY <1>3 DEF IInv, SlotsTrue
<1>10. WritersRegistered' /\ WaitersRegistered'
  BY <1>2 DEF IInv, WritersRegistered, WaitersRegistered
<1>11. LeftoversExplained'
  BY <1>3 DEF IInv, LeftoversExplained
<1>12. QED
  BY <1>4, <1>5, <1>6, <1>7, <1>8, <1>9, <1>10, <1>11 DEF IInv

\* Task t goes to label l, with job j and number n, and no other task moves.
Moved(t, j, l, n) ==
  /\ run' \in [Tasks -> [job : Jobs \cup {"none"}, at : Labels, own : 0..MaxSeq \cup 0..MaxProcs]]
  /\ run'[t].job = j /\ run'[t].at = l /\ run'[t].own = n
  /\ \A u \in Tasks \ {t} : run'[u] = run[u]

LEMMA GotoMoves ==
  ASSUME TypeOK, NEW t \in Tasks, NEW l \in Labels, Goto(t, l)
  PROVE  Moved(t, run[t].job, l, run[t].own)
BY DEF TypeOK, Goto, Moved

LEMMA OwnMoves ==
  ASSUME TypeOK, NEW t \in Tasks, NEW l \in Labels, NEW n \in 0..MaxSeq \cup 0..MaxProcs, Own(t, l, n)
  PROVE  Moved(t, run[t].job, l, n)
BY DEF TypeOK, Own, Moved

LEMMA EndMoves ==
  ASSUME TypeOK, NEW t \in Tasks, End(t)
  PROVE  Moved(t, "none", "idle", 0)
<1>1. Idle \in [job : Jobs \cup {"none"}, at : Labels, own : 0..MaxSeq \cup 0..MaxProcs]
  BY BoundsAssumption DEF Idle, Labels
<1>2. QED
  BY <1>1 DEF TypeOK, End, Idle, Moved

LEMMA EndRequestMoves ==
  ASSUME TypeOK, NEW t \in Tasks, EndRequest(t)
  PROVE  Moved(t, run[t].job, "kill", run[t].own) \/ Moved(t, "none", "idle", 0)
<1>1. "kill" \in Labels
  BY DEF Labels
<1>2. QED
  BY <1>1, GotoMoves, EndMoves DEF EndRequest

\* A step of start, or kill's: it moves one task to a label where it asks for nothing.
LEMMA LifecycleStep ==
  ASSUME IInv, NEW t \in Tasks, NEW j, NEW l, NEW n,
         l \in {"spawn", "set_stdin", "set_child", "idle", "seq", "is_running"},
         Moved(t, j, l, n), l \in {"set_stdin", "set_child"} => n \in 1..spawned',
         ~Asking(t), UNCHANGED <<seq, pending, slot, channel, inq, outq, noise, said, heard, taken>>,
         child' \in 0..MaxProcs, stdin' \in 0..MaxProcs, spawned' \in 0..MaxProcs,
         alive' \subseteq 1..spawned', readers' \subseteq 1..spawned', spawned <= spawned'
  PROVE  IInv'
<1>1. TypeOK /\ StartersHoldProcess
  BY DEF IInv
<1>2. TypeOK'
  BY <1>1 DEF TypeOK, Moved
<1>3. StartersHoldProcess'
  <2>1. spawned \in Nat /\ spawned' \in Nat
    BY <1>1, BoundsAssumption DEF TypeOK
  <2>2. ASSUME NEW u \in Tasks, run'[u].at \in {"set_stdin", "set_child"}
        PROVE  run'[u].own \in 1..spawned'
    <3>1. CASE u = t
      BY <2>2, <3>1 DEF Moved
    <3>2. CASE u # t
      BY <1>1, <2>1, <2>2, <3>2 DEF StartersHoldProcess, Moved
    <3>3. QED
      BY <3>1, <3>2
  <2>3. QED
    BY <2>2 DEF StartersHoldProcess
<1>4. \A u \in Tasks : run'[u] = run[u] \/ (~Asking(u) /\ ~Asking(u)')
  BY DEF Moved
<1>5. \A g \in Procs : \A i \in DOMAIN outq'[g] : outq'[g][i].type = "response" =>
        \E k \in DOMAIN outq[g] : outq'[g][i] = outq[g][k]
  OBVIOUS
<1>6. QED
  BY <1>2, <1>3, <1>4, <1>5, QuietInv

LEMMA LifecycleInv ==
  ASSUME IInv, NEW t \in Tasks,
         \/ Begin(t) \/ IsRunning(t) \/ Spawn(t) \/ SpawnFails(t) \/ SetStdin(t)
         \/ SetChild(t) \/ Kill(t)
  PROVE  IInv'
<1>1. TypeOK /\ StartersHoldProcess
  BY DEF IInv
<1>2. {"spawn", "set_stdin", "set_child", "idle", "seq", "is_running"} \subseteq Labels
  BY DEF Labels
<1>3. run[t].at \in {"set_stdin", "set_child"} => run[t].own \in 1..spawned
  BY <1>1 DEF StartersHoldProcess
<1>4. /\ child \in 0..MaxProcs /\ stdin \in 0..MaxProcs /\ spawned \in 0..MaxProcs
      /\ alive \subseteq 1..spawned /\ readers \subseteq 1..spawned /\ spawned <= spawned
      /\ 1..spawned \subseteq 0..MaxProcs
  BY <1>1, BoundsAssumption DEF TypeOK
<1>5. CASE Begin(t)
  <2>1. PICK j \in Uses[t] : run' = [run EXCEPT ![t] =
          [job |-> j, at |-> IF j = "start" THEN "is_running" ELSE "seq", own |-> 0]]
    BY <1>5 DEF Begin
  <2>2. j \in Jobs
    BY TasksAssumption, <2>1
  <2>3. [job |-> j, at |-> IF j = "start" THEN "is_running" ELSE "seq", own |-> 0]
          \in [job : Jobs \cup {"none"}, at : Labels, own : 0..MaxSeq \cup 0..MaxProcs]
    BY <1>2, <2>2, BoundsAssumption
  <2>4. Moved(t, j, "is_running", 0) \/ Moved(t, j, "seq", 0)
    BY <1>1, <2>1, <2>3 DEF TypeOK, Moved
  <2>5. QED
    BY <1>4, <1>5, <2>4, LifecycleStep DEF Begin, client, adapter
<1>6. CASE IsRunning(t) \/ SpawnFails(t)
  <2>1. Moved(t, "none", "idle", 0) \/ Moved(t, run[t].job, "spawn", run[t].own)
    BY <1>1, <1>2, <1>6, EndMoves, GotoMoves DEF IsRunning, SpawnFails
  <2>2. UNCHANGED <<client, adapter, heard, taken>> /\ ~Asking(t)
    BY <1>6 DEF IsRunning, SpawnFails
  <2>3. QED
    BY <1>4, <2>1, <2>2, LifecycleStep DEF client, adapter
<1>7. CASE Spawn(t)
  <2>1. spawned' = spawned + 1 /\ spawned + 1 \in 1..MaxProcs
    BY <1>1, <1>7, BoundsAssumption DEF Spawn, TypeOK
  <2>2. Moved(t, run[t].job, "set_stdin", spawned + 1)
    BY <1>1, <1>2, <1>7, <2>1, OwnMoves DEF Spawn
  <2>3. /\ alive' \subseteq 1..spawned' /\ readers' \subseteq 1..spawned' /\ spawned <= spawned'
        /\ spawned' \in 0..MaxProcs /\ spawned + 1 \in 1..spawned'
    BY <1>4, <1>7, <2>1, BoundsAssumption DEF Spawn
  <2>4. QED
    BY <1>4, <1>7, <2>2, <2>3, LifecycleStep DEF Spawn
<1>8. CASE SetStdin(t)
  <2>1. Moved(t, run[t].job, "set_child", run[t].own)
    BY <1>1, <1>2, <1>8, GotoMoves DEF SetStdin
  <2>2. QED
    BY <1>3, <1>4, <1>8, <2>1, LifecycleStep DEF SetStdin, adapter
<1>9. CASE SetChild(t) \/ Kill(t)
  <2>1. Moved(t, "none", "idle", 0)
    BY <1>1, <1>9, EndMoves DEF SetChild, Kill
  <2>2. alive' \subseteq 1..spawned /\ UNCHANGED <<stdin, readers, spawned>> /\ ~Asking(t)
    BY <1>4, <1>9 DEF SetChild, Kill
  <2>3. child' \in 0..MaxProcs
    BY <1>3, <1>4, <1>9, BoundsAssumption DEF SetChild, Kill
  <2>4. UNCHANGED <<seq, pending, slot, channel, inq, outq, noise, said, heard, taken>>
    BY <1>9 DEF SetChild, Kill
  <2>5. QED
    BY <1>4, <2>1, <2>2, <2>3, <2>4, LifecycleStep
<1>10. QED
  BY <1>5, <1>6, <1>7, <1>8, <1>9

\* The reader task, but for responses, and the adapter of its own accord.
LEMMA PassiveInv ==
  ASSUME IInv, NEW g \in Procs,
         ReadEvent(g) \/ ReadRequest(g) \/ ReadInvalid(g) \/ ReadEnd(g) \/ Announce(g) \/ Die(g)
  PROVE  IInv'
<1>1. TypeOK /\ StartersHoldProcess
  BY DEF IInv
<1>2. /\ UNCHANGED <<child, stdin, seq, pending, slot, run, spawned, inq, said, heard, taken>>
      /\ readers' \subseteq readers /\ alive' \subseteq alive
  BY DEF ReadEvent, ReadRequest, ReadInvalid, ReadEnd, Announce, Die, Reading, client, adapter
<1>3. /\ outq' \in [Procs -> Seq(Messages)]
      /\ \A h \in Procs : \A i \in DOMAIN outq'[h] : outq'[h][i].type = "response" =>
           \E j \in DOMAIN outq[h] : outq'[h][i] = outq[h][j]
      /\ channel' \in Seq([proc : Procs, n : Nat])
      /\ noise' \in [Procs -> Seq({"event", "request", "invalid"})]
  <2> USE <1>1
  <2>1. CASE ReadEvent(g)
    <3>1. outq[g] # <<>> /\ outq' = [outq EXCEPT ![g] = Tail(@)]
      BY <2>1 DEF ReadEvent, Reading
    <3>2. [proc |-> g, n |-> Head(outq[g]).seq] \in [proc : Procs, n : Nat]
      BY <3>1, MessageRead DEF Messages
    <3>3. channel' \in Seq([proc : Procs, n : Nat])
      BY <2>1, <3>2, AppendElements DEF ReadEvent, TypeOK
    <3>4. QED
      BY <2>1, <3>1, <3>3, MessageRead DEF ReadEvent, TypeOK
  <2>2. CASE ReadRequest(g) \/ ReadInvalid(g)
    <3>1. outq[g] # <<>> /\ outq' = [outq EXCEPT ![g] = Tail(@)] /\ UNCHANGED <<channel, noise>>
      BY <2>2 DEF ReadRequest, ReadInvalid, Reading, client
    <3>2. QED
      BY <3>1, MessageRead DEF TypeOK
  <2>3. CASE ReadEnd(g) \/ Die(g)
    BY <2>3 DEF ReadEnd, Die, client, adapter, TypeOK
  <2>4. CASE Announce(g)
    <3>1. PICK type \in {"event", "request", "invalid"} :
            /\ noise' = [noise EXCEPT ![g] = Append(@, type)]
            /\ outq' = [outq EXCEPT ![g] =
                 Append(@, [type |-> type, seq |-> Len(noise'[g]), body |-> Silent])]
      BY <2>4 DEF Announce
    <3>2. Append(noise[g], type) \in Seq({"event", "request", "invalid"})
      BY AppendElements DEF TypeOK
    <3>3. noise' \in [Procs -> Seq({"event", "request", "invalid"})]
      BY <3>1, <3>2 DEF TypeOK
    <3>4. Len(noise'[g]) \in Nat
      BY <3>3, LenProperties
    <3>5. PICK m \in Messages : m.type = type /\ outq' = [outq EXCEPT ![g] = Append(@, m)]
      BY <3>1, <3>4 DEF Messages
    <3>6. /\ outq' \in [Procs -> Seq(Messages)]
          /\ \A h \in Procs : \A i \in DOMAIN outq'[h] :
               outq'[h][i] = m \/ \E j \in DOMAIN outq[h] : outq'[h][i] = outq[h][j]
      BY <3>5, MessageWritten
    <3>7. m.type # "response"
      BY <3>5
    <3>8. UNCHANGED channel
      BY <2>4 DEF Announce, client
    <3>9. QED
      BY <3>3, <3>6, <3>7, <3>8 DEF TypeOK
  <2>5. QED
    BY <2>1, <2>2, <2>3, <2>4
<1>4. TypeOK'
  BY <1>1, <1>2, <1>3 DEF TypeOK
<1>5. StartersHoldProcess'
  BY <1>1, <1>2 DEF StartersHoldProcess
<1>6. \A t \in Tasks : run'[t] = run[t] \/ (~Asking(t) /\ ~Asking(t)')
  BY <1>2
<1>7. QED
  BY <1>2, <1>3, <1>4, <1>5, <1>6, QuietInv

LEMMA TakenInv ==
  ASSUME IInv, recv_event
  PROVE  IInv'
<1>1. TypeOK /\ StartersHoldProcess
  BY DEF IInv
<1>2. UNCHANGED <<child, stdin, seq, pending, slot, readers, run, adapter, heard>>
  BY DEF recv_event
<1>3. /\ Head(channel) \in [proc : Procs, n : Nat] /\ Tail(channel) \in Seq([proc : Procs, n : Nat])
  BY <1>1, HeadTailProperties DEF recv_event, TypeOK
<1>4. channel' \in Seq([proc : Procs, n : Nat]) /\ taken' \in Seq([proc : Procs, n : Nat])
  BY <1>1, <1>3, AppendElements DEF recv_event, TypeOK
<1>5. TypeOK' /\ StartersHoldProcess'
  BY <1>1, <1>2, <1>4 DEF TypeOK, StartersHoldProcess, adapter
<1>6. \A t \in Tasks : run'[t] = run[t] \/ (~Asking(t) /\ ~Asking(t)')
  BY <1>2
<1>7. \A g \in Procs : \A i \in DOMAIN outq'[g] : outq'[g][i].type = "response" =>
        \E j \in DOMAIN outq[g] : outq'[g][i] = outq[g][j]
  BY <1>2 DEF adapter
<1>8. QED
  BY <1>2, <1>5, <1>6, <1>7, QuietInv DEF adapter

-----------------------------------------------------------------------------
(* The steps of a request.                                                 *)

LEMMA TakeSeqInv ==
  ASSUME IInv, NEW t \in Tasks, TakeSeq(t)
  PROVE  IInv'
<1>1. TypeOK
  BY DEF IInv
<1>2. /\ seq \in Seqs /\ seq \in Nat /\ seq' = seq + 1 /\ seq' \in 1..(MaxSeq + 1)
      /\ ~Asking(t)
      /\ UNCHANGED <<child, stdin, pending, slot, channel, readers, adapter, heard, taken>>
  BY <1>1, BoundsAssumption DEF TakeSeq, TypeOK, Seqs
<1>3. PICK l \in {"write", "register"} :
        /\ Moved(t, run[t].job, l, seq)
        /\ l = "write" => run[t].job = "send_request_nb"
  <2>1. "write" \in Labels /\ "register" \in Labels /\ seq \in 0..MaxSeq
    BY <1>2, BoundsAssumption DEF Labels, Seqs
  <2>2. QED
    BY <1>1, <2>1, OwnMoves DEF TakeSeq
<1>4. /\ run'[t].at = l /\ run'[t].own = seq /\ run'[t].job = run[t].job
      /\ \A u \in Tasks : u # t => run'[u] = run[u]
  BY <1>3 DEF Moved
<1>5. \A r : Sent(r)' <=> Sent(r)
  BY <1>2 DEF Sent, adapter
<1>6. ~Sent(seq) /\ said[seq] = Silent /\ heard[seq] = Silent
  BY <1>2 DEF IInv, NumbersAhead
<1>7. TypeOK'
  BY <1>1, <1>2, <1>3 DEF TypeOK, Moved, adapter
<1>8. StartersHoldProcess'
  BY <1>2, <1>4 DEF IInv, StartersHoldProcess, adapter
<1>9. CallsOwnNumbers'
  <2>1. ASSUME NEW u \in Tasks, Asking(u)'
        PROVE  (run[u].own \in Seqs /\ run[u].own < seq /\ heard[run[u].own] = Silent)' 
    <3>1. CASE u = t
      BY <1>2, <1>4, <1>6, <3>1
    <3>2. CASE u # t
      BY <1>2, <1>4, <2>1, <3>2 DEF IInv, CallsOwnNumbers, Seqs
    <3>3. QED
      BY <3>1, <3>2
  <2>2. ASSUME NEW u \in Tasks, NEW v \in Tasks, Asking(u)', Asking(v)', run'[u].own = run'[v].own
        PROVE  u = v
    <3>1. \A w \in Tasks : (w # t /\ Asking(w)') => run'[w].own < seq
      BY <1>4 DEF IInv, CallsOwnNumbers
    <3>2. ~(seq < seq)
      BY <1>2
    <3>3. CASE u = t \/ v = t
      BY <1>4, <2>2, <3>1, <3>2, <3>3
    <3>4. CASE u # t /\ v # t
      BY <1>4, <2>2, <3>4 DEF IInv, CallsOwnNumbers
    <3>5. QED
      BY <3>3, <3>4
  <2>3. QED
    BY <2>1, <2>2 DEF CallsOwnNumbers
<1>10. NumbersAhead'
  BY <1>2, <1>5 DEF IInv, NumbersAhead, adapter, Seqs
<1>11. UnwrittenUnanswered'
  BY <1>2, <1>4, <1>5, <1>6 DEF IInv, UnwrittenUnanswered, adapter
<1>12. SentOnce' /\ ResponsesTrue'
  BY <1>2, <1>5 DEF IInv, SentOnce, ResponsesTrue, adapter
<1>13. SlotsTrue'
  BY <1>2, <1>4 DEF IInv, SlotsTrue, adapter
<1>14. WritersRegistered' /\ WaitersRegistered'
  BY <1>2, <1>3, <1>4 DEF IInv, WritersRegistered, WaitersRegistered
<1>15. LeftoversExplained'
  BY <1>2, <1>4 DEF IInv, LeftoversExplained
<1>16. QED
  BY <1>7, <1>8, <1>9, <1>10, <1>11, <1>12, <1>13, <1>14, <1>15 DEF IInv

LEMMA RegisterInv ==
  ASSUME IInv, NEW t \in Tasks, Register(t)
  PROVE  IInv'
<1>1. TypeOK
  BY DEF IInv
<1>2. /\ run[t].at = "register" /\ pending' = pending \cup {run[t].own}
      /\ UNCHANGED <<child, stdin, seq, slot, channel, readers, adapter, heard, taken>>
  BY DEF Register
<1>3. Moved(t, run[t].job, "write", run[t].own)
  <2>1. "write" \in Labels
    BY DEF Labels
  <2>2. QED
    BY <1>1, <2>1, GotoMoves DEF Register
<1>4. /\ run'[t].at = "write" /\ run'[t].own = run[t].own
      /\ \A u \in Tasks : u # t => run'[u] = run[u]
  BY <1>3 DEF Moved
<1>5. \A r : Sent(r)' <=> Sent(r)
  BY <1>2 DEF Sent, adapter
<1>6. run[t].own \in Seqs /\ said[run[t].own] = Silent /\ heard[run[t].own] = Silent
  BY <1>2 DEF IInv, CallsOwnNumbers, UnwrittenUnanswered
<1>7. slot[run[t].own] = Silent
  BY <1>6 DEF IInv, SlotsTrue
<1>8. TypeOK'
  BY <1>1, <1>2, <1>3, <1>6 DEF TypeOK, Moved, adapter
<1>9. StartersHoldProcess'
  BY <1>2, <1>4 DEF IInv, StartersHoldProcess, adapter
<1>10. CallsOwnNumbers' /\ UnwrittenUnanswered'
  BY <1>2, <1>4, <1>5 DEF IInv, CallsOwnNumbers, UnwrittenUnanswered, adapter
<1>11. NumbersAhead' /\ SentOnce' /\ ResponsesTrue'
  BY <1>2, <1>5 DEF IInv, NumbersAhead, SentOnce, ResponsesTrue, adapter
<1>12. SlotsTrue'
  BY <1>2, <1>4, <1>7 DEF IInv, SlotsTrue, adapter
<1>13. WritersRegistered'
  BY <1>2, <1>4 DEF IInv, WritersRegistered
<1>14. WaitersRegistered'
  <2>1. ASSUME NEW u \in Tasks, run'[u].at = "wait"
        PROVE  run'[u] = run[u] /\ run[u].own # run[t].own
    BY <1>2, <1>4, <2>1 DEF IInv, CallsOwnNumbers
  <2>2. QED
    BY <1>2, <2>1 DEF IInv, WaitersRegistered
<1>15. LeftoversExplained'
  BY <1>2, <1>4 DEF IInv, LeftoversExplained
<1>16. QED
  BY <1>8, <1>9, <1>10, <1>11, <1>12, <1>13, <1>14, <1>15 DEF IInv

\* What a pipe of stdin may come to hold in a step that answers nothing: request q, not
\* answered yet.
PipesGain(q) ==
  /\ inq' \in [Procs -> Seq(0..MaxSeq)]
  /\ \A r \in Seqs : Sent(r)' => Sent(r) \/ r = q
  /\ \A g, h \in Procs : \A i \in DOMAIN inq'[g], j \in DOMAIN inq'[h] :
       inq'[g][i] = inq'[h][j] /\ inq'[g][i] # 0 => g = h /\ i = j

LEMMA PipesGainNothing ==
  ASSUME IInv, UNCHANGED inq
  PROVE  PipesGain(0)
BY DEF IInv, TypeOK, SentOnce, PipesGain, Sent

\* A call ends its request, with an answer that has taken its entry away or without one.
LEMMA EndingInv ==
  ASSUME IInv, NEW t \in Tasks, Asking(t), NEW q, q = run[t].own,
         NEW j, NEW l \in {"idle", "kill"}, NEW n, Moved(t, j, l, n),
         NEW o \in Bodies \cup {Without}, heard' = [heard EXCEPT ![q] = o],
         q \in pending => o = Without, slot' = [slot EXCEPT ![q] = Silent],
         (PipesGain(q) /\ said[q] = Silent) \/ PipesGain(0), alive' \subseteq alive,
         UNCHANGED <<child, stdin, seq, pending, channel, readers, spawned, outq, noise, said, taken>>
  PROVE  IInv'
<1>1. TypeOK
  BY DEF IInv
<1>2. /\ ~Asking(t)' /\ run'[t].at \notin {"set_stdin", "set_child"}
      /\ \A u \in Tasks : u # t => run'[u] = run[u]
  BY DEF Moved
<1>3. q \in Seqs /\ q < seq /\ seq \in Nat /\ Seqs \subseteq Nat \ {0}
  BY <1>1, BoundsAssumption DEF IInv, CallsOwnNumbers, TypeOK, Seqs
<1>4. /\ inq' \in [Procs -> Seq(0..MaxSeq)]
      /\ \A r \in Seqs : Sent(r)' => (Sent(r) \/ r = q) /\ said[r] = Silent
  BY <1>3 DEF PipesGain, IInv, SentOnce
<1>5. /\ \A r \in Seqs : r # q => heard'[r] = heard[r] /\ slot'[r] = slot[r]
      /\ heard'[q] = o /\ slot'[q] = Silent
  BY <1>1, <1>3 DEF TypeOK
<1>6. \A u \in Tasks : Asking(u)' => u # t /\ run'[u] = run[u] /\ run[u].own # q
  BY <1>2 DEF IInv, CallsOwnNumbers
<1>7. TypeOK'
  BY <1>1, <1>3, <1>4 DEF TypeOK, Moved, Outcomes
<1>8. StartersHoldProcess'
  BY <1>2 DEF IInv, StartersHoldProcess
<1>9. CallsOwnNumbers'
  BY <1>5, <1>6 DEF IInv, CallsOwnNumbers
<1>10. NumbersAhead'
  BY <1>3, <1>4, <1>5 DEF IInv, NumbersAhead
<1>11. UnwrittenUnanswered'
  BY <1>4, <1>6 DEF IInv, CallsOwnNumbers, UnwrittenUnanswered
<1>12. SentOnce'
  BY <1>4 DEF SentOnce, PipesGain
<1>13. ResponsesTrue'
  BY DEF IInv, ResponsesTrue
<1>14. SlotsTrue'
  <2>1. ASSUME NEW r \in Seqs, slot'[r] # Silent
        PROVE  slot'[r] = said'[r] /\ r \notin pending' /\ \E u \in Tasks : Waiting(u, r)'
    <3>1. r # q /\ slot[r] # Silent
      BY <1>5, <2>1
    <3>2. PICK u \in Tasks : Waiting(u, r)
      BY <3>1 DEF IInv, SlotsTrue
    <3>3. u # t
      BY <3>1, <3>2
    <3>4. QED
      BY <1>2, <1>5, <3>1, <3>2, <3>3 DEF IInv, SlotsTrue
  <2>2. QED
    BY <2>1 DEF SlotsTrue
<1>15. WritersRegistered'
  BY <1>6 DEF IInv, WritersRegistered
<1>16. WaitersRegistered'
  <2>1. \A u \in Tasks : run'[u].at = "wait" =>
          run'[u] = run[u] /\ run[u].own \in Seqs /\ run[u].own # q
    BY <1>6 DEF IInv, CallsOwnNumbers
  <2>2. QED
    BY <1>5, <2>1 DEF IInv, WaitersRegistered
<1>17. LeftoversExplained'
  <2>1. ASSUME NEW r \in pending
        PROVE  \/ \E u \in Tasks : run'[u].own = r /\ run'[u].at \in {"write", "wait"}
               \/ heard'[r] = Without
    <3>1. r \in Seqs
      BY <1>1 DEF TypeOK
    <3>2. CASE r = q
      BY <1>5, <3>2
    <3>3. CASE r # q
      BY <1>2, <1>5, <3>1, <3>3 DEF IInv, LeftoversExplained
    <3>4. QED
      BY <3>2, <3>3
  <2>2. QED
    BY <2>1 DEF LeftoversExplained
<1>18. QED
  BY <1>7, <1>8, <1>9, <1>10, <1>11, <1>12, <1>13, <1>14, <1>15, <1>16, <1>17 DEF IInv

LEMMA ReceiveInv ==
  ASSUME IInv, NEW t \in Tasks, Receive(t)
  PROVE  IInv'
<1> DEFINE q == run[t].own
<1>1. TypeOK /\ q \in Seqs /\ run[t].at = "wait"
  BY DEF Receive, IInv, CallsOwnNumbers
<1>2. slot[q] \in Bodies /\ q \notin pending
  BY <1>1 DEF Receive, IInv, TypeOK, SlotsTrue
<1>3. \E j : \E l \in {"idle", "kill"} : \E n : Moved(t, j, l, n)
  BY <1>1, EndRequestMoves DEF Receive
<1>4. PipesGain(0)
  BY PipesGainNothing DEF Receive, adapter
<1>5. /\ heard' = [heard EXCEPT ![q] = slot[q]] /\ slot' = [slot EXCEPT ![q] = Silent]
      /\ alive' \subseteq alive
      /\ UNCHANGED <<child, stdin, seq, pending, channel, readers, spawned, outq, noise, said, taken>>
  BY DEF Receive, Return, adapter
<1>6. QED
  BY <1>1, <1>2, <1>3, <1>4, <1>5, EndingInv

\* Dropped while it asks for nothing, a call leaves the requests as they are.
LEMMA CancelInv ==
  ASSUME IInv, NEW t \in Tasks, Cancel(t)
  PROVE  IInv'
<1> DEFINE q == run[t].own
<1>1. TypeOK
  BY DEF IInv
<1>2. Moved(t, "none", "idle", 0)
  BY <1>1, EndMoves DEF Cancel
<1>3. /\ alive' \subseteq alive
      /\ UNCHANGED <<child, stdin, seq, pending, channel, readers, spawned, outq, noise, said, taken>>
  BY DEF Cancel
<1>4. CASE ~Asking(t)
  <2>1. UNCHANGED <<inq, slot, heard>>
    BY <1>4 DEF Cancel
  <2>2. /\ child \in 0..MaxProcs /\ stdin \in 0..MaxProcs /\ spawned \in 0..MaxProcs
        /\ alive \subseteq 1..spawned /\ readers \subseteq 1..spawned /\ spawned <= spawned
    BY <1>1, BoundsAssumption DEF TypeOK
  <2>3. QED
    BY <1>2, <1>3, <1>4, <2>1, <2>2, LifecycleStep
<1>5. CASE Asking(t)
  <2>1. q \in Seqs
    BY <1>5 DEF IInv, CallsOwnNumbers
  <2>2. heard' = [heard EXCEPT ![q] = Without]
    BY <1>5 DEF Cancel
  <2>3. slot' = [slot EXCEPT ![q] = Silent]
    <3>1. CASE run[t].at = "wait"
      BY <3>1 DEF Cancel
    <3>2. CASE run[t].at # "wait"
      <4>1. UNCHANGED slot /\ said[q] = Silent
        BY <1>5, <3>2 DEF Cancel, IInv, UnwrittenUnanswered
      <4>2. slot[q] = Silent
        BY <2>1, <4>1 DEF IInv, SlotsTrue
      <4>3. QED
        BY <1>1, <4>1, <4>2 DEF TypeOK
    <3>3. QED
      BY <3>1, <3>2
  <2>4. PipesGain(0)
    <3>1. CASE UNCHANGED inq
      BY <3>1, PipesGainNothing
    <3>2. CASE \E g \in {stdin} \cap alive : inq' = [inq EXCEPT ![g] = Append(@, 0)]
      <4>1. alive \subseteq Procs
        BY <1>1, BoundsAssumption DEF TypeOK, Procs
      <4>2. PICK g \in Procs : inq' = [inq EXCEPT ![g] = Append(@, 0)]
        BY <3>2, <4>1
      <4>3. 0 \in 0..MaxSeq /\ SentOnce
        BY BoundsAssumption DEF IInv
      <4>4. /\ inq' \in [Procs -> Seq(0..MaxSeq)]
            /\ \A r : Sent(r)' => Sent(r) \/ r = 0
            /\ \A h, k \in Procs : \A i \in DOMAIN inq'[h], j \in DOMAIN inq'[k] :
                 inq'[h][i] = inq'[k][j] /\ inq'[h][i] # 0 => h = k /\ i = j
        BY <1>1, <4>2, <4>3, FrameWritten
      <4>5. QED
        BY <4>4 DEF PipesGain
    <3>3. QED
      BY <3>1, <3>2 DEF Cancel
  <2>5. QED
    BY <1>2, <1>3, <1>5, <2>2, <2>3, <2>4, EndingInv
<1>6. QED
  BY <1>4, <1>5

LEMMA WriteInv ==
  ASSUME IInv, NEW t \in Tasks, Write(t)
  PROVE  IInv'
<1> DEFINE q == run[t].own
<1>1. TypeOK /\ SentOnce
  BY DEF IInv
<1>2. run[t].at = "write" /\ UNCHANGED <<client, spawned, alive, outq, noise, said, taken>>
  BY DEF Write
<1>3. /\ q \in Seqs /\ q \in 0..MaxSeq /\ q < seq /\ seq \in Nat
      /\ heard[q] = Silent /\ said[q] = Silent /\ ~Sent(q)
  BY <1>1, <1>2, BoundsAssumption DEF IInv, CallsOwnNumbers, UnwrittenUnanswered, TypeOK, Seqs
<1>4. slot[q] = Silent
  BY <1>3 DEF IInv, SlotsTrue
<1>5. PipesGain(q) \/ PipesGain(0)
  <2>1. CASE stdin \in alive
    <3>1. stdin \in Procs
      BY <1>1, <2>1, BoundsAssumption DEF TypeOK, Procs
    <3>2. inq' = [inq EXCEPT ![stdin] = Append(@, q)]
      BY <2>1 DEF Write
    <3>3. QED
      BY <1>1, <1>3, <3>1, <3>2, FrameWritten DEF PipesGain
  <2>2. CASE stdin \notin alive
    BY <2>2, PipesGainNothing DEF Write
  <2>3. QED
    BY <2>1, <2>2
<1>6. CASE EndRequest(t) /\ Return(q, Without)
  <2>1. \E j : \E l \in {"idle", "kill"} : \E n : Moved(t, j, l, n)
    BY <1>1, <1>6, EndRequestMoves
  <2>2. heard' = [heard EXCEPT ![q] = Without] /\ slot' = [slot EXCEPT ![q] = Silent]
    BY <1>1, <1>2, <1>3, <1>4, <1>6 DEF Return, TypeOK, client
  <2>3. UNCHANGED <<child, stdin, seq, pending, channel, readers, spawned, outq, noise, said, taken>>
    BY <1>2 DEF client
  <2>4. alive' \subseteq alive /\ Asking(t)
    BY <1>2
  <2>5. QED
    BY ZenonT(30), <1>3, <1>5, <2>1, <2>2, <2>3, <2>4, EndingInv
<1>7. CASE run[t].job # "send_request_nb" /\ Goto(t, "wait") /\ UNCHANGED heard
  <2>1. "wait" \in Labels
    BY DEF Labels
  <2>2. Moved(t, run[t].job, "wait", q)
    BY <1>1, <1>7, <2>1, GotoMoves
  <2>3. /\ run'[t].at = "wait" /\ run'[t].own = q
        /\ \A u \in Tasks : u # t => run'[u] = run[u]
    BY <2>2 DEF Moved
  <2>4. /\ inq' \in [Procs -> Seq(0..MaxSeq)]
        /\ \A r \in Seqs : Sent(r)' => (Sent(r) \/ r = q) /\ said[r] = Silent
    BY <1>1, <1>3, <1>5, BoundsAssumption DEF PipesGain, SentOnce, Seqs
  <2>5. q \in pending
    BY <1>2, <1>7 DEF IInv, WritersRegistered
  <2>6. \A u \in Tasks : run'[u].at \in {"register", "write"} =>
          u # t /\ run'[u] = run[u] /\ run[u].own # q /\ run[u].own \in Seqs
    BY <1>2, <2>3 DEF IInv, CallsOwnNumbers
  <2>7. TypeOK'
    BY <1>1, <1>2, <1>7, <2>2, <2>4 DEF TypeOK, Moved, client
  <2>8. StartersHoldProcess' /\ CallsOwnNumbers'
    BY <1>2, <1>7, <2>3 DEF IInv, StartersHoldProcess, CallsOwnNumbers, client
  <2>9. NumbersAhead'
    BY <1>2, <1>3, <1>7, <2>4 DEF IInv, NumbersAhead, client
  <2>10. UnwrittenUnanswered'
    BY <1>2, <2>4, <2>6 DEF IInv, UnwrittenUnanswered
  <2>11. SentOnce'
    BY <1>2, <1>5, <2>4 DEF SentOnce, PipesGain
  <2>12. ResponsesTrue' /\ SlotsTrue'
    BY <1>2, <2>3 DEF IInv, ResponsesTrue, SlotsTrue, client
  <2>13. WritersRegistered' /\ WaitersRegistered'
    BY <1>2, <1>4, <2>3, <2>5 DEF IInv, WritersRegistered, WaitersRegistered, client
  <2>14. LeftoversExplained'
    BY <1>2, <1>7, <2>3 DEF IInv, LeftoversExplained, client
  <2>15. QED
    BY <2>7, <2>8, <2>9, <2>10, <2>11, <2>12, <2>13, <2>14 DEF IInv
<1>8. QED
  BY <1>6, <1>7 DEF Write

\* A response takes the entry of its request away, and what its call receives was said
\* to it; with no call listening the answer is dropped.
LEMMA ReadResponseInv ==
  ASSUME IInv, NEW g \in Procs, ReadResponse(g)
  PROVE  IInv'
<1> DEFINE m == Head(outq[g])
           r == m.seq
<1>1. TypeOK
  BY DEF IInv
<1>2. /\ outq[g] # <<>> /\ m.type = "response" /\ outq' = [outq EXCEPT ![g] = Tail(@)]
      /\ UNCHANGED <<child, stdin, seq, channel, run, spawned, alive, inq, noise, said, heard, taken>>
      /\ readers' \subseteq readers
  BY DEF ReadResponse, Reading
<1>3. /\ outq' \in [Procs -> Seq(Messages)]
      /\ \A h \in Procs : \A i \in DOMAIN outq'[h] :
           \E j \in DOMAIN outq[h] : outq'[h][i] = outq[h][j]
      /\ \E j \in DOMAIN outq[g] : m = outq[g][j]
  BY <1>1, <1>2, MessageRead
<1>4. r \in Seqs /\ m.body \in Bodies /\ said[r] = m.body
  BY <1>2, <1>3 DEF IInv, ResponsesTrue
<1>5. \A u \in Tasks : run[u].at \in {"register", "write"} => run[u].own # r
  BY <1>4, OutcomesAssumption DEF IInv, UnwrittenUnanswered
<1>6. \/ /\ pending' = pending \ {r} /\ r \in pending
         /\ \/ Listening(r) /\ slot' = [slot EXCEPT ![r] = m.body]
            \/ ~Listening(r) /\ UNCHANGED slot
      \/ UNCHANGED <<pending, slot>>
  BY DEF ReadResponse
<1>7. TypeOK'
  BY <1>1, <1>2, <1>3, <1>4, <1>6 DEF TypeOK
<1>8. StartersHoldProcess' /\ CallsOwnNumbers'
  BY <1>2 DEF IInv, StartersHoldProcess, CallsOwnNumbers
<1>9. \A q : Sent(q)' <=> Sent(q)
  BY <1>2 DEF Sent
<1>10. NumbersAhead' /\ UnwrittenUnanswered' /\ SentOnce'
  BY <1>2, <1>9 DEF IInv, NumbersAhead, UnwrittenUnanswered, SentOnce
<1>11. ResponsesTrue'
  BY <1>2, <1>3 DEF IInv, ResponsesTrue
<1>12. CASE UNCHANGED <<pending, slot>>
  <2>1. SlotsTrue' /\ WritersRegistered' /\ WaitersRegistered' /\ LeftoversExplained'
    BY <1>2, <1>12 DEF IInv, SlotsTrue, WritersRegistered, WaitersRegistered, LeftoversExplained
  <2>2. QED
    BY <1>7, <1>8, <1>10, <1>11, <2>1 DEF IInv
<1>13. CASE /\ pending' = pending \ {r} /\ r \in pending
            /\ \/ Listening(r) /\ slot' = [slot EXCEPT ![r] = m.body]
               \/ ~Listening(r) /\ UNCHANGED slot
  <2>1. Listening(r) <=> \E u \in Tasks : Waiting(u, r)
    BY <1>5 DEF Listening
  <2>2. /\ \A q \in Seqs : q # r => slot'[q] = slot[q]
        /\ Listening(r) => slot'[r] = m.body
        /\ ~Listening(r) => slot'[r] = slot[r]
    BY <1>1, <1>4, <1>13 DEF TypeOK
  <2>3. SlotsTrue'
    <3>1. ASSUME NEW q \in Seqs, slot'[q] # Silent
          PROVE  slot'[q] = said[q] /\ q \notin pending' /\ \E u \in Tasks : Waiting(u, q)
      <4>1. CASE q = r
        BY <1>4, <1>13, <2>1, <2>2, <3>1, <4>1 DEF IInv, SlotsTrue
      <4>2. CASE q # r
        BY <1>13, <2>2, <3>1, <4>2 DEF IInv, SlotsTrue
      <4>3. QED
        BY <4>1, <4>2
    <3>2. QED
      BY <1>2, <3>1 DEF SlotsTrue
  <2>4. WritersRegistered'
    BY <1>2, <1>5, <1>13 DEF IInv, WritersRegistered
  <2>5. WaitersRegistered'
    <3>1. ASSUME NEW u \in Tasks, run[u].at = "wait"
          PROVE  run[u].own \in pending' <=> slot'[run[u].own] = Silent
      <4>1. run[u].own \in Seqs
        BY <3>1 DEF IInv, CallsOwnNumbers
      <4>2. CASE run[u].own = r
        BY <1>4, <1>13, <2>1, <2>2, <3>1, <4>2, OutcomesAssumption
      <4>3. CASE run[u].own # r
        BY <1>13, <2>2, <3>1, <4>1, <4>3 DEF IInv, WaitersRegistered
      <4>4. QED
        BY <4>2, <4>3
    <3>2. QED
      BY <1>2, <3>1 DEF WaitersRegistered
  <2>6. LeftoversExplained'
    BY <1>2, <1>13 DEF IInv, LeftoversExplained
  <2>7. QED
    BY <1>7, <1>8, <1>10, <1>11, <2>3, <2>4, <2>5, <2>6 DEF IInv
<1>14. QED
  BY <1>6, <1>12, <1>13

\* An adapter answers a request it has read, which nobody has answered before.
LEMMA AnswerInv ==
  ASSUME IInv, NEW g \in Procs, Answer(g)
  PROVE  IInv' /\ \E r \in Seqs, b \in Bodies : said[r] = Silent /\ said' = [said EXCEPT ![r] = b]
<1>1. TypeOK /\ SentOnce
  BY DEF IInv
<1>2. PICK k \in DOMAIN inq[g], b \in Bodies :
        /\ g \in alive /\ \A j \in 1..k : inq[g][j] # 0
        /\ inq' = [inq EXCEPT ![g] = RemoveAt(@, k)]
        /\ outq' = [outq EXCEPT ![g] = Append(@, [type |-> "response", seq |-> inq[g][k], body |-> b])]
        /\ said' = [said EXCEPT ![inq[g][k]] = b]
        /\ UNCHANGED <<client, run, spawned, alive, noise, heard, taken>>
  BY DEF Answer
<1> DEFINE r == inq[g][k]
<1>3. r \in Seqs /\ r # 0 /\ Sent(r)
  <2>1. inq[g] \in Seq(0..MaxSeq)
    BY <1>1 DEF TypeOK
  <2>2. k \in 1..Len(inq[g]) /\ Len(inq[g]) \in Nat /\ r \in 0..MaxSeq
    BY <2>1, LenProperties, ElementOfSeq
  <2>3. r # 0
    BY <1>2, <2>2
  <2>4. QED
    BY <2>2, <2>3, BoundsAssumption DEF Seqs, Sent
<1>4. /\ inq' \in [Procs -> Seq(0..MaxSeq)]
      /\ \A q : Sent(q)' => Sent(q) /\ q # r
      /\ \A h, m \in Procs : \A i \in DOMAIN inq'[h], j \in DOMAIN inq'[m] :
           inq'[h][i] = inq'[m][j] /\ inq'[h][i] # 0 => h = m /\ i = j
  BY <1>1, <1>2, <1>3, FrameRead
<1>5. said[r] = Silent /\ slot[r] = Silent
  BY <1>1, <1>3 DEF SentOnce, IInv, SlotsTrue
<1>6. PICK m \in Messages : /\ m.type = "response" /\ m.seq = r /\ m.body = b
                            /\ outq' = [outq EXCEPT ![g] = Append(@, m)]
  <2>1. r \in Nat
    BY <1>3, BoundsAssumption DEF Seqs
  <2>2. [type |-> "response", seq |-> r, body |-> b] \in Messages
    BY <2>1 DEF Messages
  <2>3. QED
    BY <1>2, <2>2
<1>7. /\ outq' \in [Procs -> Seq(Messages)]
      /\ \A h \in Procs : \A i \in DOMAIN outq'[h] :
           outq'[h][i] = m \/ \E j \in DOMAIN outq[h] : outq'[h][i] = outq[h][j]
  BY <1>1, <1>6, MessageWritten
<1>8. said' \in [Seqs -> Bodies \cup {Silent}] /\ said'[r] = b /\ \A q \in Seqs : q # r => said'[q] = said[q]
  BY <1>1, <1>2, <1>3 DEF TypeOK
<1>9. \A u \in Tasks : run[u].at \in {"register", "write"} => run[u].own # r /\ run[u].own \in Seqs
  BY <1>3 DEF IInv, UnwrittenUnanswered, CallsOwnNumbers
<1>10. r < seq /\ seq \in Nat
  BY <1>1, <1>3, BoundsAssumption DEF IInv, NumbersAhead, TypeOK, Seqs
<1>11. TypeOK'
  BY <1>1, <1>2, <1>4, <1>7, <1>8 DEF TypeOK, client
<1>12. StartersHoldProcess' /\ CallsOwnNumbers'
  BY <1>2 DEF IInv, StartersHoldProcess, CallsOwnNumbers, client
<1>13. NumbersAhead'
  <2>1. \A q \in Seqs : q >= seq => q # r
    BY <1>10, BoundsAssumption DEF Seqs
  <2>2. UNCHANGED <<seq, heard>>
    BY <1>2 DEF client
  <2>3. QED
    BY <1>4, <1>8, <2>1, <2>2 DEF IInv, NumbersAhead
<1>14. UnwrittenUnanswered'
  BY <1>2, <1>4, <1>8, <1>9 DEF IInv, UnwrittenUnanswered
<1>15. SentOnce'
  BY <1>1, <1>4, <1>8 DEF SentOnce
<1>16. ResponsesTrue'
  <2>1. ASSUME NEW h \in Procs, NEW i \in DOMAIN outq'[h], outq'[h][i].type = "response"
        PROVE  /\ outq'[h][i].seq \in Seqs /\ outq'[h][i].body \in Bodies
               /\ said'[outq'[h][i].seq] = outq'[h][i].body
    <3>1. CASE outq'[h][i] = m
      BY <1>3, <1>6, <1>8, <3>1
    <3>2. CASE \E j \in DOMAIN outq[h] : outq'[h][i] = outq[h][j]
      <4>1. /\ outq'[h][i].seq \in Seqs /\ outq'[h][i].body \in Bodies
            /\ said[outq'[h][i].seq] = outq'[h][i].body
        BY <2>1, <3>2 DEF IInv, ResponsesTrue
      <4>2. outq'[h][i].seq # r
        BY <1>5, <4>1, OutcomesAssumption
      <4>3. QED
        BY <1>8, <4>1, <4>2
    <3>3. QED
      BY <1>7, <3>1, <3>2
  <2>2. QED
    BY <2>1 DEF ResponsesTrue
<1>17. SlotsTrue'
  BY <1>2, <1>5, <1>8 DEF IInv, SlotsTrue, client
<1>18. WritersRegistered' /\ WaitersRegistered' /\ LeftoversExplained'
  BY <1>2 DEF IInv, WritersRegistered, WaitersRegistered, LeftoversExplained, client
<1>19. QED
  BY <1>2, <1>3, <1>5, <1>11, <1>12, <1>13, <1>14, <1>15, <1>16, <1>17, <1>18 DEF IInv

LEMMA StutterInv ==
  ASSUME IInv, UNCHANGED vars
  PROVE  IInv'
<1> USE DEF vars, client, adapter
<1>1. TypeOK' /\ StartersHoldProcess'
  BY DEF IInv, TypeOK, StartersHoldProcess
<1>2. \A g \in Procs : \A i \in DOMAIN outq'[g] : outq'[g][i].type = "response" =>
        \E j \in DOMAIN outq[g] : outq'[g][i] = outq[g][j]
  OBVIOUS
<1>3. \A t \in Tasks : run'[t] = run[t] \/ (~Asking(t) /\ ~Asking(t)')
  OBVIOUS
<1>4. QED
  BY <1>1, <1>2, <1>3, QuietInv

LEMMA NextInv == IInv /\ [Next]_vars => IInv'
<1> SUFFICES ASSUME IInv, [Next]_vars PROVE IInv'
  OBVIOUS
<1>1. ASSUME NEW t \in Tasks, Begin(t) \/ Step(t) \/ Cancel(t)
      PROVE  IInv'
  BY <1>1, LifecycleInv, TakeSeqInv, RegisterInv, WriteInv, ReceiveInv, CancelInv DEF Step
<1>2. ASSUME NEW g \in Procs, Read(g) \/ Answer(g) \/ Announce(g) \/ Die(g)
      PROVE  IInv'
  BY <1>2, ReadResponseInv, PassiveInv, AnswerInv DEF Read
<1>3. QED
  BY <1>1, <1>2, TakenInv, StutterInv DEF Next

\* The inductive invariant holds in every reachable state.
THEOREM Invariance == Spec => []IInv
BY InitInv, NextInv, PTL DEF Spec

-----------------------------------------------------------------------------
(* The properties.                                                         *)

\* Every field of the client, every task and every pipe keeps to the code's values: no
\* request goes out under a number that is not its own, no process is used that was
\* not spawned.
THEOREM TypeCorrect == Spec => []TypeOK
<1>1. IInv => TypeOK
  BY DEF IInv
<1>2. QED
  BY <1>1, Invariance, PTL

\* The map of pending requests never loses a waiter, through restarts, dropped calls,
\* dead adapters and late answers.
THEOREM WaitersKeepTheirEntry == Spec => []WaitersRegistered
<1>1. IInv => WaitersRegistered
  BY DEF IInv
<1>2. QED
  BY <1>1, Invariance, PTL

\* What the map of pending requests leaks is what unwritten, dropped and abandoned
\* calls leave, and nothing else.
THEOREM LeaksAreExplained == Spec => []LeftoversExplained
<1>1. IInv => LeftoversExplained
  BY DEF IInv
<1>2. QED
  BY <1>1, Invariance, PTL

\* A step of a request, seen by its caller: it ends with the answer to it or without
\* one, if at all.
LEMMA AskingImplements ==
  ASSUME IInv, NEW t \in Tasks, Write(t) \/ Receive(t) \/ Cancel(t)
  PROVE  [Rpc!Next]_<<said, heard>>
<1> DEFINE q == run[t].own
<1>1. UNCHANGED said
  BY DEF Write, Receive, Cancel, adapter
<1>2. CASE UNCHANGED heard
  BY <1>1, <1>2
<1>3. CASE Asking(t) /\ heard' = [heard EXCEPT ![q] = Without]
  <2>1. q \in Seqs /\ heard[q] = Silent
    BY <1>3 DEF IInv, CallsOwnNumbers
  <2>2. Rpc!GiveUp(q)
    BY <1>1, <1>3, <2>1 DEF Rpc!GiveUp
  <2>3. QED
    BY <2>1, <2>2 DEF Rpc!Next
<1>4. CASE Receive(t)
  <2>1. q \in Seqs /\ heard[q] = Silent /\ slot[q] # Silent
    BY <1>4 DEF Receive, IInv, CallsOwnNumbers
  <2>2. said[q] = slot[q] /\ said[q] \in Bodies
    BY <2>1 DEF IInv, SlotsTrue, TypeOK
  <2>3. Rpc!Hear(q)
    BY <1>1, <1>4, <2>1, <2>2 DEF Receive, Return, Rpc!Hear
  <2>4. QED
    BY <2>1, <2>3 DEF Rpc!Next
<1>5. QED
  BY <1>2, <1>3, <1>4 DEF Write, Cancel, Return

\* The client implements DapRpc: whatever the adapters answer, and in which order, a
\* call returns what was said to its own request, once, or ends without an answer.
THEOREM ClientImplementsRpc == Spec => ImplementsRpc
<1>1. Init => Rpc!Init
  BY DEF Init, Rpc!Init
<1>2. IInv /\ [Next]_vars => [Rpc!Next]_<<said, heard>>
  <2> SUFFICES ASSUME IInv, [Next]_vars PROVE [Rpc!Next]_<<said, heard>>
    OBVIOUS
  <2>1. ASSUME NEW t \in Tasks, Write(t) \/ Receive(t) \/ Cancel(t)
        PROVE  [Rpc!Next]_<<said, heard>>
    BY <2>1, AskingImplements
  <2>2. ASSUME NEW g \in Procs, Answer(g)
        PROVE  [Rpc!Next]_<<said, heard>>
    <3>1. PICK r \in Seqs, b \in Bodies : said[r] = Silent /\ said' = [said EXCEPT ![r] = b]
      BY <2>2, AnswerInv
    <3>2. UNCHANGED heard
      BY <2>2 DEF Answer
    <3>3. Rpc!Say(r)
      BY <3>1, <3>2 DEF Rpc!Say
    <3>4. QED
      BY <3>3 DEF Rpc!Next
  <2>3. CASE \/ recv_event \/ UNCHANGED vars
             \/ \E t \in Tasks : \/ Begin(t) \/ IsRunning(t) \/ Spawn(t) \/ SpawnFails(t)
                                 \/ SetStdin(t) \/ SetChild(t) \/ TakeSeq(t) \/ Register(t) \/ Kill(t)
             \/ \E g \in Procs : Read(g) \/ Announce(g) \/ Die(g)
    <3>1. UNCHANGED <<said, heard>>
      BY <2>3 DEF recv_event, vars, client, adapter, Begin, IsRunning, Spawn, SpawnFails, SetStdin,
           SetChild, TakeSeq, Register, Kill, Read, ReadResponse, ReadEvent, ReadRequest,
           ReadInvalid, ReadEnd, Announce, Die
    <3>2. QED
      BY <3>1
  <2>4. QED
    BY <2>1, <2>2, <2>3 DEF Next, Step
<1>3. QED
  BY <1>1, <1>2, Invariance, PTL DEF Spec, ImplementsRpc, Rpc!Spec

-----------------------------------------------------------------------------
(* The events.                                                             *)

\* The n-th thing process g announced is an event; it is the i-th delivered, or in the
\* i-th place of the pipe.
IsEvent(g, n) == n \in DOMAIN noise[g] /\ noise[g][n] = "event"
Got(g, i, n)  == i \in DOMAIN Delivered /\ Delivered[i].proc = g /\ Delivered[i].n = n
Due(g, i, n)  == i \in DOMAIN outq[g] /\ outq[g][i].type = "event" /\ outq[g][i].seq = n

\* EventsInOrder, for process g, said of places and numbers.
EventsOrdered(g) ==
  /\ \A n : IsEvent(g, n) <=> (\E i : Got(g, i, n)) \/ (\E i : Due(g, i, n))
  /\ \A i, j, n, m : Got(g, i, n) /\ Got(g, j, m) /\ i < j => n < m
  /\ \A i, j, n, m : Due(g, i, n) /\ Due(g, j, m) /\ i < j => n < m
  /\ \A i, j, n, m : Got(g, i, n) /\ Due(g, j, m) => n < m

AllOrdered == \A g \in Procs : EventsOrdered(g)

LEMMA OrderSaidOfPlaces == EventsInOrder <=> AllOrdered
<1> DEFINE received(g) == {i \in DOMAIN Delivered : Delivered[i].proc = g}
           unread(g) == {i \in DOMAIN outq[g] : outq[g][i].type = "event"}
           body(g) ==
             /\ {n \in DOMAIN noise[g] : noise[g][n] = "event"} =
                  {Delivered[i].n : i \in received(g)} \cup {outq[g][i].seq : i \in unread(g)}
             /\ \A i, j \in received(g) : i < j => Delivered[i].n < Delivered[j].n
             /\ \A i, j \in unread(g) : i < j => outq[g][i].seq < outq[g][j].seq
             /\ \A i \in received(g), j \in unread(g) : Delivered[i].n < outq[g][j].seq
<1>1. EventsInOrder <=> \A g \in Procs : body(g)
  BY DEF EventsInOrder
<1>2. ASSUME NEW g \in Procs
      PROVE  body(g) <=> EventsOrdered(g)
  <2>1. \A n : n \in {k \in DOMAIN noise[g] : noise[g][k] = "event"} <=> IsEvent(g, n)
    BY DEF IsEvent
  <2>2. \A n : n \in {Delivered[i].n : i \in received(g)} <=> \E i : Got(g, i, n)
    BY DEF Got
  <2>3. \A n : n \in {outq[g][i].seq : i \in unread(g)} <=> \E i : Due(g, i, n)
    BY DEF Due
  <2>4. {n \in DOMAIN noise[g] : noise[g][n] = "event"} =
          {Delivered[i].n : i \in received(g)} \cup {outq[g][i].seq : i \in unread(g)}
        <=> \A n : IsEvent(g, n) <=> (\E i : Got(g, i, n)) \/ (\E i : Due(g, i, n))
    BY <2>1, <2>2, <2>3
  <2>5. (\A i, j \in received(g) : i < j => Delivered[i].n < Delivered[j].n)
        <=> \A i, j, n, m : Got(g, i, n) /\ Got(g, j, m) /\ i < j => n < m
    BY DEF Got
  <2>6. (\A i, j \in unread(g) : i < j => outq[g][i].seq < outq[g][j].seq)
        <=> \A i, j, n, m : Due(g, i, n) /\ Due(g, j, m) /\ i < j => n < m
    BY DEF Due
  <2>7. (\A i \in received(g), j \in unread(g) : Delivered[i].n < outq[g][j].seq)
        <=> \A i, j, n, m : Got(g, i, n) /\ Due(g, j, m) => n < m
    BY DEF Got, Due
  <2>8. QED
    BY <2>4, <2>5, <2>6, <2>7 DEF EventsOrdered
<1>3. QED
  BY <1>1, <1>2 DEF AllOrdered

\* A process of which nothing changes stays in order.
LEMMA UntouchedOrdered ==
  ASSUME NEW g \in Procs, EventsOrdered(g), noise'[g] = noise[g],
         \A i, n : Got(g, i, n)' <=> Got(g, i, n), \A i, n : Due(g, i, n)' <=> Due(g, i, n)
  PROVE  EventsOrdered(g)'
<1>1. \A n : IsEvent(g, n)' <=> IsEvent(g, n)
  BY DEF IsEvent
<1>2. QED
  BY <1>1 DEF EventsOrdered

LEMMA DeliveredType ==
  ASSUME TypeOK
  PROVE  Delivered \in Seq([proc : Procs, n : Nat]) /\ DOMAIN Delivered = 1..Len(Delivered)
BY ConcatProperties, LenProperties DEF TypeOK, Delivered

\* The reader takes a message that is no event, or an event, from the pipe of process g.
LEMMA DueAfterRead ==
  ASSUME TypeOK, NEW g \in Procs, outq[g] # <<>>, outq' = [outq EXCEPT ![g] = Tail(@)]
  PROVE  /\ \A i, n : Due(g, i, n)' <=> i \in Nat \ {0} /\ Due(g, i + 1, n)
         /\ \A i, n : Due(g, i, n) => i \in Nat \ {0}
         /\ \A n : Due(g, 1, n) <=> Head(outq[g]).type = "event" /\ Head(outq[g]).seq = n
         /\ \A h \in Procs \ {g} : \A i, n : Due(h, i, n)' <=> Due(h, i, n)
<1>1. outq \in [Procs -> Seq(Messages)] /\ outq[g] \in Seq(Messages)
  BY DEF TypeOK
<1>2. outq'[g] = Tail(outq[g]) /\ \A h \in Procs \ {g} : outq'[h] = outq[h]
  BY <1>1
<1>3. /\ \A i \in DOMAIN Tail(outq[g]) :
           i \in Nat /\ i + 1 \in DOMAIN outq[g] /\ Tail(outq[g])[i] = outq[g][i + 1]
      /\ \A j \in DOMAIN outq[g] : j # 1 => j - 1 \in DOMAIN Tail(outq[g])
      /\ 1 \in DOMAIN outq[g] /\ Head(outq[g]) = outq[g][1]
  BY <1>1, TailElements
<1>4. DOMAIN outq[g] \subseteq Nat \ {0} /\ DOMAIN Tail(outq[g]) \subseteq Nat \ {0}
  BY <1>1, HeadTailProperties, LenProperties
<1>5. \A i \in Nat \ {0} : i + 1 # 1 /\ (i + 1) - 1 = i
  OBVIOUS
<1>6. \A i \in Nat \ {0} : i + 1 \in DOMAIN outq[g] => i \in DOMAIN Tail(outq[g])
  <2>1. ASSUME NEW i \in Nat \ {0}, i + 1 \in DOMAIN outq[g]
        PROVE  i \in DOMAIN Tail(outq[g])
    <3>1. (i + 1) - 1 \in DOMAIN Tail(outq[g])
      BY <1>3, <1>5, <2>1
    <3>2. QED
      BY <1>5, <3>1
  <2>2. QED
    BY <2>1
<1>7. \A i, n : Due(g, i, n)' <=> i \in Nat \ {0} /\ Due(g, i + 1, n)
  BY <1>2, <1>3, <1>4, <1>6 DEF Due
<1>8. QED
  BY <1>2, <1>3, <1>4, <1>7 DEF Due

\* A message is added to the pipe of process g.
LEMMA DueAfterWrite ==
  ASSUME TypeOK, NEW g \in Procs, NEW m \in Messages, outq' = [outq EXCEPT ![g] = Append(@, m)]
  PROVE  /\ \A i, n : Due(g, i, n)' <=>
              \/ Due(g, i, n)
              \/ i = Len(outq[g]) + 1 /\ m.type = "event" /\ m.seq = n
         /\ \A i, n : Due(g, i, n) => i \in Nat /\ i < Len(outq[g]) + 1
         /\ Len(outq[g]) \in Nat
         /\ \A h \in Procs \ {g} : \A i, n : Due(h, i, n)' <=> Due(h, i, n)
<1>1. outq \in [Procs -> Seq(Messages)] /\ outq[g] \in Seq(Messages)
  BY DEF TypeOK
<1>2. outq'[g] = Append(outq[g], m) /\ \A h \in Procs \ {g} : outq'[h] = outq[h]
  BY <1>1
<1>3. /\ DOMAIN Append(outq[g], m) = DOMAIN outq[g] \cup {Len(outq[g]) + 1}
      /\ \A i \in DOMAIN outq[g] : Append(outq[g], m)[i] = outq[g][i]
      /\ Append(outq[g], m)[Len(outq[g]) + 1] = m /\ Len(outq[g]) + 1 \notin DOMAIN outq[g]
  BY <1>1, AppendElements
<1>4. Len(outq[g]) \in Nat /\ \A i \in DOMAIN outq[g] : i \in Nat /\ i < Len(outq[g]) + 1
  BY <1>1, LenProperties
<1>5. QED
  BY <1>2, <1>3, <1>4 DEF Due

LEMMA PassedOverOrder ==
  ASSUME TypeOK, AllOrdered, NEW g \in Procs, outq[g] # <<>>, Head(outq[g]).type # "event",
         outq' = [outq EXCEPT ![g] = Tail(@)], UNCHANGED <<noise, channel, taken>>
  PROVE  AllOrdered'
<1>1. /\ \A i, n : Due(g, i, n)' <=> i \in Nat \ {0} /\ Due(g, i + 1, n)
      /\ \A i, n : Due(g, i, n) => i \in Nat \ {0}
      /\ \A n : ~Due(g, 1, n)
      /\ \A h \in Procs \ {g} : \A i, n : Due(h, i, n)' <=> Due(h, i, n)
  BY DueAfterRead
<1>2. \A h \in Procs : \A i, n : Got(h, i, n)' <=> Got(h, i, n)
  BY DEF Got, Delivered
<1>3. \A h \in Procs : EventsOrdered(h)
  BY DEF AllOrdered
<1>4. \A n : IsEvent(g, n)' <=> IsEvent(g, n)
  BY DEF IsEvent
<1>5. \A n : (\E i : Due(g, i, n)') <=> \E i : Due(g, i, n)
  <2>1. \A j \in Nat \ {0} : j # 1 => j - 1 \in Nat \ {0} /\ (j - 1) + 1 = j
    OBVIOUS
  <2>2. ASSUME NEW j, NEW n, Due(g, j, n)
        PROVE  Due(g, j - 1, n)'
    BY <1>1, <2>1, <2>2
  <2>3. QED
    BY <1>1, <2>2
<1>6. \A i, j, n, m : Due(g, i, n)' /\ Due(g, j, m)' /\ i < j => n < m
  <2> SUFFICES ASSUME NEW i, NEW j, NEW n, NEW m, Due(g, i, n)', Due(g, j, m)', i < j
               PROVE  n < m
    OBVIOUS
  <2>1. i \in Nat /\ j \in Nat /\ Due(g, i + 1, n) /\ Due(g, j + 1, m)
    BY <1>1
  <2>2. i + 1 < j + 1
    BY <2>1
  <2>3. QED
    BY <1>3, <2>1, <2>2 DEF EventsOrdered
<1>7. EventsOrdered(g)'
  BY <1>1, <1>2, <1>3, <1>4, <1>5, <1>6 DEF EventsOrdered
<1>8. ASSUME NEW h \in Procs \ {g}
      PROVE  EventsOrdered(h)'
  BY <1>1, <1>2, <1>3, UntouchedOrdered
<1>9. QED
  BY <1>7, <1>8 DEF AllOrdered

LEMMA ReadEventOrder ==
  ASSUME TypeOK, AllOrdered, NEW g \in Procs, ReadEvent(g)
  PROVE  AllOrdered'
<1> DEFINE k == Head(outq[g]).seq
           L == Len(Delivered)
<1>1. /\ outq[g] # <<>> /\ Head(outq[g]).type = "event" /\ outq' = [outq EXCEPT ![g] = Tail(@)]
      /\ channel' = Append(channel, [proc |-> g, n |-> k]) /\ UNCHANGED <<noise, taken>>
  BY DEF ReadEvent, Reading
<1>2. /\ \A i, n : Due(g, i, n)' <=> i \in Nat \ {0} /\ Due(g, i + 1, n)
      /\ \A i, n : Due(g, i, n) => i \in Nat \ {0}
      /\ \A n : Due(g, 1, n) <=> k = n
      /\ \A h \in Procs \ {g} : \A i, n : Due(h, i, n)' <=> Due(h, i, n)
  BY <1>1, DueAfterRead
<1>3. /\ L \in Nat /\ DOMAIN Delivered = 1..L
      /\ DOMAIN Delivered' = DOMAIN Delivered \cup {L + 1}
      /\ \A i \in DOMAIN Delivered : Delivered'[i] = Delivered[i]
      /\ Delivered'[L + 1] = [proc |-> g, n |-> k] /\ L + 1 \notin DOMAIN Delivered
  <2>1. [proc |-> g, n |-> k] \in [proc : Procs, n : Nat]
    BY <1>1, MessageRead DEF Messages
  <2>2. /\ taken \in Seq([proc : Procs, n : Nat]) /\ channel \in Seq([proc : Procs, n : Nat])
        /\ Delivered \in Seq([proc : Procs, n : Nat]) /\ <<[proc |-> g, n |-> k]>> \in Seq([proc : Procs, n : Nat])
    BY <2>1, DeliveredType DEF TypeOK
  <2>3. channel' = channel \o <<[proc |-> g, n |-> k]>>
    BY <1>1, <2>1, <2>2, AppendIsConcat
  <2>4. Delivered' = Delivered \o <<[proc |-> g, n |-> k]>>
    BY SMTT(30), <1>1, <2>2, <2>3, ConcatAssociative DEF Delivered
  <2>5. Delivered' = Append(Delivered, [proc |-> g, n |-> k])
    BY <2>1, <2>2, <2>4, AppendIsConcat
  <2>6. QED
    BY <2>1, <2>2, <2>5, AppendElements, LenProperties
<1>4. \A h \in Procs : \A i, n : Got(h, i, n)' <=> Got(h, i, n) \/ (h = g /\ i = L + 1 /\ n = k)
  BY <1>3 DEF Got
<1>5. \A h, i, n : Got(h, i, n) => i \in Nat /\ i < L + 1
  BY <1>3 DEF Got
<1>6. \A h \in Procs : EventsOrdered(h)
  BY DEF AllOrdered
<1>7. \A n : IsEvent(g, n)' <=> IsEvent(g, n)
  BY <1>1 DEF IsEvent
<1>8. \A n : (\E i : Due(g, i, n)') \/ n = k <=> \E i : Due(g, i, n)
  <2>1. \A j \in Nat \ {0} : j # 1 => j - 1 \in Nat \ {0} /\ (j - 1) + 1 = j
    OBVIOUS
  <2>2. ASSUME NEW j, NEW n, Due(g, j, n), j # 1
        PROVE  Due(g, j - 1, n)'
    BY <1>2, <2>1, <2>2
  <2>3. QED
    BY <1>2, <2>2
<1>9. \A i, j, n, m : Due(g, i, n)' /\ Due(g, j, m)' /\ i < j => n < m
  <2> SUFFICES ASSUME NEW i, NEW j, NEW n, NEW m, Due(g, i, n)', Due(g, j, m)', i < j
               PROVE  n < m
    OBVIOUS
  <2>1. i \in Nat /\ j \in Nat /\ Due(g, i + 1, n) /\ Due(g, j + 1, m)
    BY <1>2
  <2>2. i + 1 < j + 1
    BY <2>1
  <2>3. QED
    BY <1>6, <2>1, <2>2 DEF EventsOrdered
<1>10. \A j, m : Due(g, j, m)' => k < m
  <2> SUFFICES ASSUME NEW j, NEW m, Due(g, j, m)' PROVE k < m
    OBVIOUS
  <2>1. j \in Nat \ {0} /\ Due(g, j + 1, m) /\ Due(g, 1, k)
    BY <1>2
  <2>2. 1 < j + 1
    BY <2>1
  <2>3. QED
    BY <1>6, <2>1, <2>2 DEF EventsOrdered
<1>11. \A i, j, n, m : Got(g, i, n)' /\ Got(g, j, m)' /\ i < j => n < m
  <2> SUFFICES ASSUME NEW i, NEW j, NEW n, NEW m, Got(g, i, n)', Got(g, j, m)', i < j
               PROVE  n < m
    OBVIOUS
  <2>1. CASE Got(g, i, n) /\ Got(g, j, m)
    BY <1>6, <2>1 DEF EventsOrdered
  <2>2. CASE Got(g, i, n) /\ j = L + 1 /\ m = k
    BY <1>2, <1>6, <2>2 DEF EventsOrdered
  <2>3. CASE i = L + 1
    <3>1. ~(L + 1 < L + 1) /\ \A x \in Nat : x < L + 1 => ~(L + 1 < x)
      BY <1>3
    <3>2. QED
      BY <1>4, <1>5, <2>3, <3>1
  <2>4. QED
    BY <1>4, <2>1, <2>2, <2>3
<1>12. \A i, j, n, m : Got(g, i, n)' /\ Due(g, j, m)' => n < m
  BY <1>2, <1>4, <1>6, <1>10 DEF EventsOrdered
<1>13. \A n : IsEvent(g, n)' <=> (\E i : Got(g, i, n)') \/ (\E i : Due(g, i, n)')
  BY <1>4, <1>6, <1>7, <1>8 DEF EventsOrdered
<1>14. EventsOrdered(g)'
  BY <1>9, <1>11, <1>12, <1>13 DEF EventsOrdered
<1>15. ASSUME NEW h \in Procs \ {g}
       PROVE  EventsOrdered(h)'
  <2>1. /\ noise'[h] = noise[h] /\ EventsOrdered(h)
        /\ \A i, n : Got(h, i, n)' <=> Got(h, i, n)
        /\ \A i, n : Due(h, i, n)' <=> Due(h, i, n)
    BY <1>1, <1>2, <1>4, <1>6
  <2>2. QED
    BY <2>1, UntouchedOrdered
<1>16. QED
  BY <1>14, <1>15 DEF AllOrdered

\* An adapter says something; if an event, it is the last so far.
LEMMA SaidOrder ==
  ASSUME TypeOK, AllOrdered, NEW g \in Procs, Answer(g) \/ Announce(g)
  PROVE  AllOrdered'
<1> DEFINE K == Len(noise[g])
<1>1. noise \in [Procs -> Seq({"event", "request", "invalid"})] /\ K \in Nat /\ DOMAIN noise[g] = 1..K
  BY LenProperties DEF TypeOK
<1>2. UNCHANGED <<channel, taken>>
  BY DEF Answer, Announce, client
<1>3. PICK m \in Messages :
        /\ outq' = [outq EXCEPT ![g] = Append(@, m)]
        /\ \/ m.type # "event" /\ \A n : IsEvent(g, n)' <=> IsEvent(g, n)
           \/ /\ m.type = "event" /\ m.seq = K + 1
              /\ \A n : IsEvent(g, n)' <=> IsEvent(g, n) \/ n = K + 1
        /\ \A h \in Procs \ {g} : noise'[h] = noise[h]
  <2>1. CASE Answer(g)
    <3>1. PICK k \in DOMAIN inq[g], b \in Bodies :
            /\ outq' = [outq EXCEPT ![g] =
                 Append(@, [type |-> "response", seq |-> inq[g][k], body |-> b])]
            /\ UNCHANGED noise
      BY <2>1 DEF Answer
    <3>2. inq[g][k] \in Nat
      BY LenProperties, ElementOfSeq, BoundsAssumption DEF TypeOK
    <3>3. [type |-> "response", seq |-> inq[g][k], body |-> b] \in Messages
      BY <3>2 DEF Messages
    <3>4. QED
      BY <3>1, <3>3 DEF IsEvent
  <2>2. CASE Announce(g)
    <3>1. PICK type \in {"event", "request", "invalid"} :
            /\ noise' = [noise EXCEPT ![g] = Append(@, type)]
            /\ outq' = [outq EXCEPT ![g] =
                 Append(@, [type |-> type, seq |-> Len(noise'[g]), body |-> Silent])]
      BY <2>2 DEF Announce
    <3>2. noise'[g] = Append(noise[g], type) /\ \A h \in Procs \ {g} : noise'[h] = noise[h]
      BY <1>1, <3>1
    <3>3. /\ Append(noise[g], type) \in Seq({"event", "request", "invalid"})
          /\ Len(Append(noise[g], type)) = K + 1
          /\ DOMAIN Append(noise[g], type) = DOMAIN noise[g] \cup {K + 1}
          /\ \A i \in DOMAIN noise[g] : Append(noise[g], type)[i] = noise[g][i]
          /\ Append(noise[g], type)[K + 1] = type /\ K + 1 \notin DOMAIN noise[g]
      BY <1>1, AppendElements, AppendProperties
    <3>4. [type |-> type, seq |-> K + 1, body |-> Silent] \in Messages
      BY <1>1 DEF Messages
    <3>5. \A n : IsEvent(g, n)' <=> IsEvent(g, n) \/ (n = K + 1 /\ type = "event")
      BY <3>2, <3>3 DEF IsEvent
    <3>6. QED
      BY <3>1, <3>2, <3>3, <3>4, <3>5
  <2>3. QED
    BY <2>1, <2>2
<1> DEFINE L == Len(outq[g])
<1>4. /\ \A i, n : Due(g, i, n)' <=>
           \/ Due(g, i, n)
           \/ i = L + 1 /\ m.type = "event" /\ m.seq = n
      /\ \A i, n : Due(g, i, n) => i \in Nat /\ i < L + 1
      /\ L \in Nat
      /\ \A h \in Procs \ {g} : \A i, n : Due(h, i, n)' <=> Due(h, i, n)
  BY <1>3, DueAfterWrite
<1>5. \A h \in Procs : \A i, n : Got(h, i, n)' <=> Got(h, i, n)
  BY <1>2 DEF Got, Delivered
<1>6. \A h \in Procs : EventsOrdered(h)
  BY DEF AllOrdered
<1>7. \A n : IsEvent(g, n) => n < K + 1
  BY <1>1 DEF IsEvent
<1>8. (\A i, n : Got(g, i, n) => n < K + 1) /\ (\A i, n : Due(g, i, n) => n < K + 1)
  BY <1>6, <1>7 DEF EventsOrdered
<1>9. \A n : IsEvent(g, n)' <=> (\E i : Got(g, i, n)') \/ (\E i : Due(g, i, n)')
  <2>1. \A n : IsEvent(g, n) <=> (\E i : Got(g, i, n)) \/ (\E i : Due(g, i, n))
    BY <1>6 DEF EventsOrdered
  <2>2. CASE m.type # "event" /\ \A n : IsEvent(g, n)' <=> IsEvent(g, n)
    BY <1>4, <1>5, <2>1, <2>2
  <2>3. CASE /\ m.type = "event" /\ m.seq = K + 1
             /\ \A n : IsEvent(g, n)' <=> IsEvent(g, n) \/ n = K + 1
    <3>1. \A n : (\E i : Due(g, i, n)') <=> (\E i : Due(g, i, n)) \/ n = K + 1
      BY <1>4, <2>3
    <3>2. \A n : (\E i : Got(g, i, n)') <=> \E i : Got(g, i, n)
      BY <1>5
    <3>3. QED
      BY <2>1, <2>3, <3>1, <3>2
  <2>4. QED
    BY <1>3, <2>2, <2>3
<1>10. \A i, j, n, k : Due(g, i, n)' /\ Due(g, j, k)' /\ i < j => n < k
  <2> SUFFICES ASSUME NEW i, NEW j, NEW n, NEW k, Due(g, i, n)', Due(g, j, k)', i < j
               PROVE  n < k
    OBVIOUS
  <2>1. CASE Due(g, i, n) /\ Due(g, j, k)
    BY <1>6, <2>1 DEF EventsOrdered
  <2>2. CASE Due(g, i, n) /\ j = L + 1 /\ m.type = "event" /\ k = m.seq
    BY <1>3, <1>8, <2>2
  <2>3. CASE i = L + 1
    <3>1. ~(L + 1 < L + 1) /\ \A x \in Nat : x < L + 1 => ~(L + 1 < x)
      BY <1>4
    <3>2. QED
      BY <1>4, <2>3, <3>1
  <2>4. QED
    BY <1>4, <2>1, <2>2, <2>3
<1>11. \A i, j, n, k : Got(g, i, n)' /\ Due(g, j, k)' => n < k
  BY <1>3, <1>4, <1>5, <1>6, <1>8 DEF EventsOrdered
<1>12. EventsOrdered(g)'
  BY <1>5, <1>6, <1>9, <1>10, <1>11 DEF EventsOrdered
<1>13. ASSUME NEW h \in Procs \ {g}
       PROVE  EventsOrdered(h)'
  <2>1. /\ noise'[h] = noise[h] /\ EventsOrdered(h)
        /\ \A i, n : Got(h, i, n)' <=> Got(h, i, n)
        /\ \A i, n : Due(h, i, n)' <=> Due(h, i, n)
    BY <1>3, <1>4, <1>5, <1>6
  <2>2. QED
    BY <2>1, UntouchedOrdered
<1>14. QED
  BY <1>12, <1>13 DEF AllOrdered

\* A step that leaves the pipes and what has been announced and delivered as they are.
LEMMA StillOrder ==
  ASSUME TypeOK, AllOrdered, UNCHANGED <<outq, noise>>, Delivered' = Delivered
  PROVE  AllOrdered'
<1>1. \A h \in Procs : \A i, n : (Got(h, i, n)' <=> Got(h, i, n)) /\ (Due(h, i, n)' <=> Due(h, i, n))
  BY DEF Got, Due
<1>2. QED
  BY <1>1, UntouchedOrdered DEF AllOrdered

LEMMA TakenOrder ==
  ASSUME TypeOK, AllOrdered, recv_event
  PROVE  AllOrdered'
<1>1. Delivered' = Delivered
  BY HeadMoves DEF TypeOK, recv_event, Delivered
<1>2. QED
  BY <1>1, StillOrder DEF recv_event, adapter

\* recv_event returns the events of every adapter in the order sent, each once and none
\* left out, whatever restarts, deaths and dropped calls come in between.
THEOREM EventsKeepTheirOrder == Spec => []EventsInOrder
<1>1. Init => AllOrdered
  <2> SUFFICES ASSUME Init PROVE AllOrdered
    OBVIOUS
  <2>1. \A g \in Procs : DOMAIN noise[g] = {} /\ DOMAIN outq[g] = {}
    BY DEF Init
  <2>2. Delivered = <<>>
    BY ConcatEmptySeq, EmptySeq DEF Init, Delivered
  <2>3. QED
    BY <2>1, <2>2, OrderSaidOfPlaces DEF EventsInOrder
<1>2. TypeOK /\ AllOrdered /\ [Next]_vars => AllOrdered'
  <2> SUFFICES ASSUME TypeOK, AllOrdered, [Next]_vars PROVE AllOrdered'
    OBVIOUS
  <2>1. ASSUME NEW g \in Procs, ReadResponse(g) \/ ReadRequest(g) \/ ReadInvalid(g)
        PROVE  AllOrdered'
    <3>1. /\ outq[g] # <<>> /\ Head(outq[g]).type # "event" /\ outq' = [outq EXCEPT ![g] = Tail(@)]
          /\ UNCHANGED <<noise, channel, taken>>
      BY <2>1 DEF ReadResponse, ReadRequest, ReadInvalid, Reading, client
    <3>2. QED
      BY <3>1, PassedOverOrder
  <2>2. ASSUME NEW g \in Procs, ReadEvent(g)
        PROVE  AllOrdered'
    BY <2>2, ReadEventOrder
  <2>3. ASSUME NEW g \in Procs, Answer(g) \/ Announce(g)
        PROVE  AllOrdered'
    BY <2>3, SaidOrder
  <2>4. CASE \/ UNCHANGED vars
             \/ \E t \in Tasks : Begin(t) \/ Step(t) \/ Cancel(t)
             \/ \E g \in Procs : ReadEnd(g) \/ Die(g)
    <3>1. UNCHANGED <<outq, noise, channel, taken>>
      BY <2>4 DEF vars, client, adapter, Begin, Step, Cancel, IsRunning, Spawn, SpawnFails, SetStdin,
           SetChild, TakeSeq, Register, Write, Receive, Kill, ReadEnd, Die
    <3>2. Delivered' = Delivered
      BY <3>1 DEF Delivered
    <3>3. QED
      BY <3>1, <3>2, StillOrder
  <2>5. QED
    BY <2>1, <2>2, <2>3, <2>4, TakenOrder DEF Next, Read
<1>3. QED
  BY <1>1, <1>2, OrderSaidOfPlaces, TypeCorrect, PTL DEF Spec

=============================================================================
