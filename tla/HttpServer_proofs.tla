-------------------------- MODULE HttpServer_proofs --------------------------
(***************************************************************************)
(* Theorems about HttpServer: for any number of clients, posts, hang-ups   *)
(* and changes of state, the tasks wait where the locks' rules put them,   *)
(* the answer to a post comes back on the stream of its own client, one of *)
(* the tasks that is not done can always go on, and a client that asks for *)
(* the list again on every notice ends up with the list there is.          *)
(***************************************************************************)
EXTENDS HttpServer, SequenceFacts, TLAPS

Tasks == {Poster(p) : p \in Nat} \cup {Connector(c) : c \in Clients} \cup {Broadcaster}
Answers == [kind : {"error", "result"}, id : Nat, tools : SUBSET AllTools]
Replies == {<<>>} \cup {<<a>> : a \in Answers}
Messages == [kind : {"error", "result", "list_changed"}, id : Nat, tools : SUBSET AllTools,
             post : Nat, change : Nat]
Posted == [client : Clients, line : PostLines, dropped : BOOLEAN, change : Nat, at : Places,
           answer : Replies]

Typed ==
  /\ phase \in [Clients -> {"new", "connecting", "open", "gone"}]
  /\ clients \subseteq {c \in Clients : phase[c] \in {"open", "gone"}}
  /\ queue \in Seq(Tasks) /\ posts \in Seq(Posted)
  /\ routers \in [Clients -> Seq(Nat)] /\ stream \in [Clients -> Seq(Messages)]
  /\ state \in SessionStates /\ moves \in Nat
  /\ published \in [change : Nat, state : SessionStates] /\ last_state \in SessionStates
  /\ caster \in {"watch", "look", "broadcast"}

\* Who waits for the map of clients, each once,
Waiting == {p \in DOMAIN posts : posts[p].at \in {"read", "send"}}
MapQueue ==
  /\ IsInjective(queue)
  /\ \A p : Poster(p) \in Range(queue) <=> p \in Waiting
  /\ \A c : Connector(c) \in Range(queue) <=> c \in Clients /\ phase[c] = "connecting"
  /\ Broadcaster \in Range(queue) <=> caster = "broadcast"

\* and for the routers; a post that runs a tool is the first at its client's.
RouterQueues ==
  \A c \in Clients :
    /\ IsInjective(routers[c])
    /\ \A p : p \in Range(routers[c]) <=> p \in Readers /\ posts[p].client = c
CallersFirst ==
  \A p \in DOMAIN posts : posts[p].at = "call" => Head(routers[posts[p].client]) = p

\* The map knows every client that listens, and only clients it has known post.
ListenersKnown == \A c \in Clients : phase[c] = "open" => c \in clients
PostersConnected == \A p \in DOMAIN posts : phase[posts[p].client] \in {"open", "gone"}

\* A post has its answer from where it leaves the block on, under the id of its line.
ReplyId(line) == IF parse_incoming(line).kind = "malformed" THEN 0 ELSE line.number
AnswersReady ==
  \A p \in DOMAIN posts :
    /\ posts[p].at \in {"read", "router", "call"} =>
         posts[p].answer = <<>> /\ parse_incoming(posts[p].line).kind # "malformed"
    /\ posts[p].at \in {"respond", "send"} => posts[p].answer # <<>>
    /\ posts[p].answer # <<>> => posts[p].answer[1].id = ReplyId(posts[p].line)

\* AnswersGoHome, said of the places of the streams that hold answers.
IsAnswer(c, i) == i \in DOMAIN stream[c] /\ stream[c][i].kind # "list_changed"
AnswersOwn ==
  \A c \in Clients : \A i : IsAnswer(c, i) =>
    /\ stream[c][i].post \in DOMAIN posts
    /\ posts[stream[c][i].post].client = c /\ posts[stream[c][i].post].at = "done"
    /\ stream[c][i].id = ReplyId(posts[stream[c][i].post].line)
AnsweredOnce ==
  \A c \in Clients : \A i, j :
    IsAnswer(c, i) /\ IsAnswer(c, j) /\ stream[c][i].post = stream[c][j].post => i = j
NoneLeftOut ==
  \A c \in Clients : \A p \in DOMAIN posts :
    posts[p].client = c /\ posts[p].at = "done" /\ ~posts[p].dropped /\ posts[p].answer # <<>>
        /\ phase[c] = "open" =>
      \E i : IsAnswer(c, i) /\ stream[c][i].post = p

LockInv == Typed /\ MapQueue /\ RouterQueues /\ CallersFirst
AnswerInv ==
  /\ ListenersKnown /\ PostersConnected /\ AnswersReady
  /\ AnswersOwn /\ AnsweredOnce /\ NoneLeftOut
IInv == LockInv /\ AnswerInv

-----------------------------------------------------------------------------
(* What the operators do.                                                  *)

LEMMA TasksDiffer ==
  /\ \A p, q : Poster(p) = Poster(q) => p = q
  /\ \A c, d : Connector(c) = Connector(d) => c = d
  /\ \A p, c : Poster(p) # Connector(c)
  /\ \A p : Poster(p) # Broadcaster
  /\ \A c : Connector(c) # Broadcaster
BY DEF Poster, Connector, Broadcaster

\* A line is malformed, a notification or a request, and keeps its number.
LEMMA LinesParse ==
  ASSUME NEW line \in PostLines
  PROVE  /\ parse_incoming(line).kind \in {"malformed", "notification", "request"}
         /\ parse_incoming(line).number = line.number /\ line.number \in Nat
BY LinesAssumption DEF parse_incoming, Message

\* handle_message gives at most one answer, under the id of the line.
LEMMA HandleAnswers ==
  ASSUME NEW line \in PostLines, NEW known, NEW s,
         parse_incoming(line).kind # "malformed"
  PROVE  LET reply == handle_message(parse_incoming(line), known, s) IN
         reply \in Replies /\ (reply # <<>> => reply[1].id = ReplyId(line))
<1> DEFINE m == parse_incoming(line)
           reply == handle_message(m, known, s)
<1>1. m.kind \in {"notification", "request"} /\ m.number \in Nat /\ ReplyId(line) = m.number
  BY LinesParse DEF ReplyId
<1> HIDE DEF m
<1>2. \/ reply = <<>>
      \/ \E kind \in {"error", "result"}, tools \in SUBSET AllTools :
           reply = <<Answer(kind, m.number, tools)>>
  <2>1. list_tools_for_state(s) \in SUBSET AllTools /\ {} \in SUBSET AllTools
    BY DEF list_tools_for_state
  <2>2. QED
    <3>1. CASE m.kind = "notification"
      BY <3>1 DEF handle_message
    <3>2. CASE m.kind = "request" /\ Refused(m, known)
      BY <2>1, <3>2 DEF handle_message
    <3>3. CASE m.kind = "request" /\ ~Refused(m, known) /\ m.method = "tools/list"
      BY <2>1, <3>3 DEF handle_message
    <3>4. CASE m.kind = "request" /\ ~Refused(m, known) /\ m.method = "tools/call"
      BY <2>1, <3>4 DEF handle_message
    <3>5. CASE m.kind = "request" /\ ~Refused(m, known) /\ m.method \notin {"tools/list", "tools/call"}
      BY <2>1, <3>5 DEF handle_message
    <3>6. QED
      BY <1>1, <3>1, <3>2, <3>3, <3>4, <3>5
<1>3. \A kind \in {"error", "result"}, tools \in SUBSET AllTools :
        Answer(kind, m.number, tools) \in Answers /\ Answer(kind, m.number, tools).id = m.number
  BY <1>1 DEF Answer, Answers
<1>4. QED
  BY <1>1, <1>2, <1>3 DEF Replies, m

\* Post p goes to a place, with an answer; all others stay as they are.
Moves(p, place, answer, dropped) ==
  /\ posts' \in Seq(Posted) /\ DOMAIN posts' = DOMAIN posts
  /\ \A q \in DOMAIN posts \ {p} : posts'[q] = posts[q]
  /\ posts'[p].client = posts[p].client /\ posts'[p].line = posts[p].line
  /\ posts'[p].at = place /\ posts'[p].answer = answer /\ posts'[p].dropped = dropped

\* A place in a sequence of posts can be changed for another post.
LEMMA PostReplaced ==
  ASSUME Typed, NEW p \in DOMAIN posts, NEW post \in Posted,
         posts' = [posts EXCEPT ![p] = post]
  PROVE  Moves(p, post.at, post.answer, post.dropped) <=>
           post.client = posts[p].client /\ post.line = posts[p].line
<1>1. posts \in Seq(Posted) /\ DOMAIN posts = 1..Len(posts) /\ p \in 1..Len(posts)
  BY LenProperties DEF Typed
<1>2. posts' \in Seq(Posted) /\ DOMAIN posts' = DOMAIN posts
  BY <1>1, ExceptSeq
<1>3. posts'[p] = post /\ \A q \in DOMAIN posts \ {p} : posts'[q] = posts[q]
  BY <1>1
<1>4. QED
  BY <1>2, <1>3 DEF Moves

LEMMA PostTyped ==
  ASSUME Typed, NEW p \in DOMAIN posts
  PROVE  posts[p] \in Posted /\ p \in Nat
BY LenProperties, ElementOfSeq DEF Typed

LEMMA GotoMoves ==
  ASSUME Typed, NEW p \in DOMAIN posts, NEW place \in Places, Goto(p, place)
  PROVE  Moves(p, place, posts[p].answer, posts[p].dropped)
<1>1. posts' = [posts EXCEPT ![p] = [posts[p] EXCEPT !.at = place]]
  BY DEF Goto
<1>2. posts[p] \in Posted
  BY PostTyped
<1>3. [posts[p] EXCEPT !.at = place] \in Posted
  BY <1>2 DEF Posted
<1>4. QED
  BY <1>1, <1>2, <1>3, PostReplaced DEF Posted

LEMMA LeavesMoves ==
  ASSUME Typed, NEW p \in DOMAIN posts, NEW answer \in Replies, Leaves(p, answer)
  PROVE  Moves(p, IF answer = <<>> THEN "done" ELSE "respond", answer, posts[p].dropped)
<1> DEFINE place == IF answer = <<>> THEN "done" ELSE "respond"
           post == [posts[p] EXCEPT !.at = place, !.answer = answer, !.change = moves]
<1>1. posts' = [posts EXCEPT ![p] = post]
  BY DEF Leaves
<1>2. posts[p] \in Posted /\ moves \in Nat /\ place \in Places
  BY PostTyped DEF Typed, Places
<1>3. post \in Posted
  BY <1>2 DEF Posted
<1>4. /\ post.client = posts[p].client /\ post.line = posts[p].line
      /\ post.at = place /\ post.answer = answer /\ post.dropped = posts[p].dropped
  BY <1>2 DEF Posted
<1> HIDE DEF post, place
<1>5. QED
  BY <1>1, <1>3, <1>4, PostReplaced DEF place

LEMMA HangUpMoves ==
  ASSUME Typed, NEW p, HangUp(p)
  PROVE  p \in DOMAIN posts /\ Moves(p, "done", posts[p].answer, TRUE)
<1> DEFINE post == [posts[p] EXCEPT !.at = "done", !.dropped = TRUE]
<1>1. p \in DOMAIN posts /\ posts' = [posts EXCEPT ![p] = post]
  BY DEF HangUp
<1>2. posts[p] \in Posted
  BY <1>1, PostTyped
<1>3. post \in Posted
  BY <1>2 DEF Posted, Places
<1>4. /\ post.client = posts[p].client /\ post.line = posts[p].line
      /\ post.at = "done" /\ post.answer = posts[p].answer /\ post.dropped = TRUE
  BY <1>2 DEF Posted
<1> HIDE DEF post
<1>5. QED
  BY <1>1, <1>3, <1>4, PostReplaced

-----------------------------------------------------------------------------
LEMMA InitInv == Init => IInv
<1> SUFFICES ASSUME Init PROVE IInv
  OBVIOUS
<1>1. /\ posts = <<>> /\ queue = <<>> /\ \A c \in Clients : routers[c] = <<>> /\ stream[c] = <<>>
      /\ DOMAIN posts = {} /\ Range(queue) = {} /\ Readers = {} /\ Waiting = {}
      /\ \A c \in Clients : Range(routers[c]) = {} /\ DOMAIN stream[c] = {}
  BY DEF Init, Range, Readers, Waiting
<1>2. Typed
  <2>1. \A c \in Clients : phase[c] = IF c \in Before THEN "open" ELSE "new"
    BY DEF Init
  <2>2. /\ phase \in [Clients -> {"new", "connecting", "open", "gone"}]
        /\ clients \subseteq {c \in Clients : phase[c] \in {"open", "gone"}}
    BY <2>1, StartAssumption DEF Init
  <2>3. queue \in Seq(Tasks) /\ posts \in Seq(Posted)
    BY <1>1
  <2>4. routers \in [Clients -> Seq(Nat)] /\ stream \in [Clients -> Seq(Messages)]
    BY DEF Init
  <2>5. /\ state \in SessionStates /\ moves \in Nat
        /\ published \in [change : Nat, state : SessionStates] /\ last_state \in SessionStates
        /\ caster \in {"watch", "look", "broadcast"}
    BY StartAssumption DEF Init
  <2>6. QED
    BY <2>2, <2>3, <2>4, <2>5 DEF Typed
<1>3. MapQueue /\ RouterQueues /\ CallersFirst
  BY <1>1 DEF Init, MapQueue, RouterQueues, CallersFirst, IsInjective
<1>4. AnswerInv
  BY <1>1, StartAssumption DEF Init, AnswerInv, ListenersKnown, PostersConnected, AnswersReady,
     AnswersOwn, AnsweredOnce, NoneLeftOut, IsAnswer
<1>5. QED
  BY <1>2, <1>3, <1>4 DEF IInv, LockInv

-----------------------------------------------------------------------------
(* The queues, when one post moves.                                        *)

LEMMA WhereAfterMove ==
  ASSUME NEW p \in DOMAIN posts, NEW place, NEW answer, NEW dropped, Moves(p, place, answer, dropped)
  PROVE  /\ \A q : q \in Waiting' <=> IF q = p THEN place \in {"read", "send"} ELSE q \in Waiting
         /\ \A q : q \in Readers' <=> IF q = p THEN place \in {"router", "call"} ELSE q \in Readers
         /\ \A q \in DOMAIN posts : posts'[q].client = posts[q].client
         /\ \A q \in DOMAIN posts : q # p => posts'[q].at = posts[q].at
BY DEF Moves, Waiting, Readers

\* The map's queue keeps step with a post that joins, leaves or stays out of it.
LEMMA MapQueueMoves ==
  ASSUME MapQueue, NEW p \in DOMAIN posts, NEW place, NEW answer, NEW dropped,
         Moves(p, place, answer, dropped), UNCHANGED <<phase, caster>>, IsInjective(queue'),
         \/ place \in {"read", "send"} /\ Range(queue') = Range(queue) \cup {Poster(p)}
         \/ place \notin {"read", "send"} /\ Range(queue') = Range(queue) \ {Poster(p)}
  PROVE  MapQueue'
<1>1. \A q : q \in Waiting' <=> IF q = p THEN place \in {"read", "send"} ELSE q \in Waiting
  BY WhereAfterMove
<1>2. \A q : Poster(q) \in Range(queue') <=> q \in Waiting'
  BY <1>1, TasksDiffer DEF MapQueue
<1>3. \A c : Connector(c) \in Range(queue') <=> c \in Clients /\ phase[c] = "connecting"
  BY TasksDiffer DEF MapQueue
<1>4. Broadcaster \in Range(queue') <=> caster = "broadcast"
  BY TasksDiffer DEF MapQueue
<1>5. QED
  BY <1>2, <1>3, <1>4 DEF MapQueue

\* Of the other posts at the same router, one that runs a tool is at the head of r.
OthersFirst(p, r) ==
  \A q \in DOMAIN posts \ {p} :
    posts[q].client = posts[p].client /\ posts[q].at = "call" => Head(r) = q

\* So does the queue of its client's router, whose head goes on if it runs a tool.
LEMMA RouterMoves ==
  ASSUME Typed, RouterQueues, CallersFirst,
         NEW p \in DOMAIN posts, NEW place, NEW answer, NEW dropped, Moves(p, place, answer, dropped),
         NEW r \in Seq(Nat), routers' = [routers EXCEPT ![posts[p].client] = r], IsInjective(r),
         \/ place \in {"router", "call"} /\ Range(r) = Range(routers[posts[p].client]) \cup {p}
         \/ place \notin {"router", "call"} /\ Range(r) = Range(routers[posts[p].client]) \ {p},
         place = "call" => Head(r) = p, OthersFirst(p, r)
  PROVE  RouterQueues' /\ CallersFirst'
<1> DEFINE c == posts[p].client
<1>1. c \in Clients /\ routers \in [Clients -> Seq(Nat)]
  BY PostTyped DEF Posted, Typed
<1>2. routers'[c] = r /\ \A d \in Clients \ {c} : routers'[d] = routers[d]
  BY <1>1
<1>3. /\ \A q : q \in Readers' <=> IF q = p THEN place \in {"router", "call"} ELSE q \in Readers
      /\ \A q \in DOMAIN posts : posts'[q].client = posts[q].client
      /\ \A q \in DOMAIN posts : q # p => posts'[q].at = posts[q].at
  BY WhereAfterMove
<1>4. \A q : q \in Readers \/ q = p => q \in DOMAIN posts
  BY DEF Readers
<1>5. ASSUME NEW d \in Clients
      PROVE  /\ IsInjective(routers'[d])
             /\ \A q : q \in Range(routers'[d]) <=> q \in Readers' /\ posts'[q].client = d
  <2>1. CASE d = c
    BY <1>2, <1>3, <1>4, <2>1 DEF RouterQueues
  <2>2. CASE d # c
    BY <1>2, <1>3, <1>4, <2>2 DEF RouterQueues
  <2>3. QED
    BY <2>1, <2>2
<1>6. RouterQueues'
  BY <1>5 DEF RouterQueues
<1>7. CallersFirst'
  <2>1. ASSUME NEW q \in DOMAIN posts, posts'[q].at = "call"
        PROVE  Head(routers'[posts'[q].client]) = q
    <3>1. CASE q = p
      BY <1>2, <1>3, <2>1, <3>1 DEF Moves
    <3>2. CASE q # p /\ posts[q].client = c
      BY <1>2, <1>3, <2>1, <3>2 DEF OthersFirst
    <3>3. CASE q # p /\ posts[q].client # c
      <4>1. posts[q].client \in Clients
        BY PostTyped DEF Posted
      <4>2. QED
        BY <1>2, <1>3, <2>1, <3>3, <4>1 DEF CallersFirst
    <3>4. QED
      BY <3>1, <3>2, <3>3
  <2>2. QED
    BY <2>1 DEF CallersFirst, Moves
<1>8. QED
  BY <1>6, <1>7

\* A post that neither reads nor stops reading, or starts to run a tool at the head.
LEMMA RoutersStay ==
  ASSUME Typed, RouterQueues, CallersFirst,
         NEW p \in DOMAIN posts, NEW place, NEW answer, NEW dropped, Moves(p, place, answer, dropped),
         UNCHANGED routers,
         \/ posts[p].at \notin {"router", "call"} /\ place \notin {"router", "call"}
         \/ /\ posts[p].at \in {"router", "call"} /\ place \in {"router", "call"}
            /\ Head(routers[posts[p].client]) = p
  PROVE  RouterQueues' /\ CallersFirst'
<1>1. /\ \A q : q \in Readers' <=> IF q = p THEN place \in {"router", "call"} ELSE q \in Readers
      /\ \A q \in DOMAIN posts : posts'[q].client = posts[q].client
      /\ \A q \in DOMAIN posts : q # p => posts'[q].at = posts[q].at
  BY WhereAfterMove
<1>2. \A q : q \in Readers' <=> q \in Readers
  BY <1>1 DEF Readers
<1>3. \A q : q \in Readers => q \in DOMAIN posts
  BY DEF Readers
<1>4. RouterQueues'
  BY <1>1, <1>2, <1>3 DEF RouterQueues
<1>5. CallersFirst'
  BY <1>1 DEF CallersFirst, Moves
<1>6. QED
  BY <1>4, <1>5

\* The answers, when one post moves and nothing is sent: it takes an answer along that
\* is its own, and is not left at "done" with one, unless it has been dropped.
LEMMA AnswersMove ==
  ASSUME Typed, AnswerInv,
         NEW p \in DOMAIN posts, NEW place, NEW answer, NEW dropped, Moves(p, place, answer, dropped),
         UNCHANGED <<phase, clients, stream>>, posts[p].at # "done",
         place \in {"read", "router", "call"} =>
           answer = <<>> /\ parse_incoming(posts[p].line).kind # "malformed",
         place \in {"respond", "send"} => answer # <<>>,
         answer # <<>> => answer[1].id = ReplyId(posts[p].line),
         place = "done" => dropped \/ answer = <<>>
  PROVE  AnswerInv'
<1>1. /\ \A q \in DOMAIN posts \ {p} : posts'[q] = posts[q]
      /\ posts'[p].client = posts[p].client /\ posts'[p].line = posts[p].line
      /\ posts'[p].at = place /\ posts'[p].answer = answer /\ posts'[p].dropped = dropped
      /\ DOMAIN posts' = DOMAIN posts
  BY DEF Moves
<1>2. \A c, i : IsAnswer(c, i)' <=> IsAnswer(c, i)
  BY DEF IsAnswer
<1>3. ListenersKnown'
  BY DEF AnswerInv, ListenersKnown
<1>4. PostersConnected'
  BY <1>1 DEF AnswerInv, PostersConnected
<1>5. AnswersReady'
  BY <1>1 DEF AnswerInv, AnswersReady
<1>6. AnswersOwn'
  BY <1>1, <1>2 DEF AnswerInv, AnswersOwn
<1>7. AnsweredOnce'
  BY <1>2 DEF AnswerInv, AnsweredOnce
<1>8. NoneLeftOut'
  BY <1>1, <1>2 DEF AnswerInv, NoneLeftOut
<1>9. QED
  BY <1>3, <1>4, <1>5, <1>6, <1>7, <1>8 DEF AnswerInv

USE DEF clientVars, sessionVars, casterVars

-----------------------------------------------------------------------------
(* The steps of a post.                                                    *)

\* Whoever is first in the queue lets the next one go first.
LEMMA FirstLeaves ==
  ASSUME Typed, MapQueue, NEW task, First(task), queue' = Tail(queue)
  PROVE  queue' \in Seq(Tasks) /\ IsInjective(queue') /\ Range(queue') = Range(queue) \ {task}
BY TailOnce DEF Typed, MapQueue, First

LEMMA LastJoins ==
  ASSUME Typed, MapQueue, NEW task \in Tasks, task \notin Range(queue), queue' = Append(queue, task)
  PROVE  queue' \in Seq(Tasks) /\ IsInjective(queue') /\ Range(queue') = Range(queue) \cup {task}
BY AppendOnce DEF Typed, MapQueue

\* A post that runs a tool is one of those its client's router has in its queue.
LEMMA CallerQueues ==
  ASSUME Typed, RouterQueues, CallersFirst, NEW p \in DOMAIN posts, posts[p].at \in {"router", "call"}
  PROVE  LET c == posts[p].client IN
         /\ c \in Clients /\ routers[c] \in Seq(Nat) /\ routers[c] # <<>> /\ IsInjective(routers[c])
         /\ p \in Range(routers[c])
         /\ posts[p].at = "call" => Head(routers[c]) = p
<1>1. posts[p].client \in Clients
  BY PostTyped DEF Posted
<1>2. p \in Range(routers[posts[p].client])
  BY <1>1 DEF RouterQueues, Readers
<1>3. routers[posts[p].client] # <<>>
  BY <1>2 DEF Range
<1>4. QED
  BY <1>1, <1>2, <1>3 DEF Typed, RouterQueues, CallersFirst

LEMMA LookupInv ==
  ASSUME IInv, NEW p, Lookup(p)
  PROVE  IInv'
<1> DEFINE c == posts[p].client
<1>1. /\ p \in DOMAIN posts /\ posts[p].at = "read" /\ First(Poster(p)) /\ queue' = Tail(queue)
      /\ UNCHANGED <<phase, clients, stream, state, moves, published, last_state, caster>>
  BY DEF Lookup, At, MayRead
<1>2. Typed /\ MapQueue /\ RouterQueues /\ CallersFirst /\ AnswerInv
  BY DEF IInv, LockInv
<1>3. /\ posts[p] \in Posted /\ p \in Nat /\ c \in Clients
      /\ posts[p].answer = <<>> /\ parse_incoming(posts[p].line).kind # "malformed"
  BY <1>1, <1>2, PostTyped DEF Posted, AnswerInv, AnswersReady
<1>4. queue' \in Seq(Tasks) /\ IsInjective(queue') /\ Range(queue') = Range(queue) \ {Poster(p)}
  BY <1>1, <1>2, FirstLeaves
<1>5. CASE c \in clients
  <2> DEFINE r == Append(routers[c], p)
  <2>1. Moves(p, "router", posts[p].answer, posts[p].dropped)
    BY <1>1, <1>2, <1>5, GotoMoves DEF Lookup, Places
  <2>2. routers' = [routers EXCEPT ![c] = r]
    BY <1>5 DEF Lookup
  <2>3. routers[c] \in Seq(Nat) /\ IsInjective(routers[c]) /\ p \notin Range(routers[c])
    BY <1>1, <1>2, <1>3 DEF Typed, RouterQueues, Readers
  <2>4. /\ r \in Seq(Nat) /\ IsInjective(r) /\ Range(r) = Range(routers[c]) \cup {p}
        /\ routers[c] # <<>> => Head(r) = Head(routers[c])
    BY <1>3, <2>3, AppendOnce
  <2> HIDE DEF r
  <2>5. OthersFirst(p, r)
    BY <1>2, <2>4, CallerQueues DEF OthersFirst
  <2>6. RouterQueues' /\ CallersFirst'
    <3>1. p \in DOMAIN posts /\ r \in Seq(Nat) /\ IsInjective(r)
      BY <1>1, <2>4
    <3>2. /\ "router" \in {"router", "call"} /\ "router" # "call"
          /\ Range(r) = Range(routers[posts[p].client]) \cup {p}
      BY <2>4
    <3>3. QED
      BY <1>2, <2>1, <2>2, <2>5, <3>1, <3>2, RouterMoves
  <2>7. MapQueue'
    BY <1>1, <1>2, <1>4, <2>1, MapQueueMoves
  <2>8. Typed'
    BY <1>1, <1>2, <1>4, <2>1, <2>2, <2>4 DEF Typed, Moves
  <2>9. AnswerInv'
    BY <1>1, <1>2, <1>3, <2>1, AnswersMove
  <2>10. QED
    BY <2>6, <2>7, <2>8, <2>9 DEF IInv, LockInv
<1>6. CASE c \notin clients
  <2>1. Moves(p, "done", posts[p].answer, posts[p].dropped) /\ UNCHANGED routers
    BY <1>1, <1>2, <1>6, GotoMoves DEF Lookup, Places
  <2>2. RouterQueues' /\ CallersFirst'
    BY <1>1, <1>2, <2>1, RoutersStay
  <2>3. MapQueue'
    BY <1>1, <1>2, <1>4, <2>1, MapQueueMoves
  <2>4. Typed'
    BY <1>1, <1>2, <1>4, <2>1 DEF Typed, Moves
  <2>5. AnswerInv'
    BY <1>1, <1>2, <1>3, <2>1, AnswersMove
  <2>6. QED
    BY <2>2, <2>3, <2>4, <2>5 DEF IInv, LockInv
<1>7. QED
  BY <1>5, <1>6

\* A post leaves the block: it was first at the router, and takes its answer along.
LEMMA LeavesInv ==
  ASSUME IInv, NEW p \in DOMAIN posts, posts[p].at \in {"router", "call"},
         Head(routers[posts[p].client]) = p,
         NEW answer \in Replies, answer # <<>> => answer[1].id = ReplyId(posts[p].line),
         Leaves(p, answer),
         UNCHANGED <<phase, clients, queue, stream, state, moves, published, last_state, caster>>
  PROVE  IInv'
<1> DEFINE c == posts[p].client
           r == Tail(routers[c])
           place == IF answer = <<>> THEN "done" ELSE "respond"
<1>1. Typed /\ MapQueue /\ RouterQueues /\ CallersFirst /\ AnswerInv
  BY DEF IInv, LockInv
<1>2. /\ c \in Clients /\ routers[c] \in Seq(Nat) /\ routers[c] # <<>> /\ IsInjective(routers[c])
  BY <1>1, CallerQueues
<1>3. Moves(p, place, answer, posts[p].dropped) /\ routers' = [routers EXCEPT ![c] = r]
  BY <1>1, LeavesMoves DEF Leaves
<1>4. place \in {"done", "respond"}
  OBVIOUS
<1>5. r \in Seq(Nat) /\ IsInjective(r) /\ Range(r) = Range(routers[c]) \ {p}
  BY <1>2, TailOnce
<1>6. OthersFirst(p, r)
  BY <1>1, CallerQueues DEF OthersFirst
<1> HIDE DEF r
<1>7. RouterQueues' /\ CallersFirst'
  BY <1>1, <1>3, <1>4, <1>5, <1>6, RouterMoves
<1>8. Poster(p) \notin Range(queue)
  BY <1>1 DEF MapQueue, Waiting
<1>9. MapQueue'
  BY <1>1, <1>3, <1>4, <1>8, MapQueueMoves DEF MapQueue
<1>10. Typed'
  BY <1>1, <1>2, <1>3, <1>5 DEF Typed, Moves
<1>11. AnswerInv'
  BY <1>1, <1>3, <1>4, AnswersMove
<1>12. QED
  BY <1>7, <1>9, <1>10, <1>11 DEF IInv, LockInv

LEMMA RouteInv ==
  ASSUME IInv, NEW p, Route(p)
  PROVE  IInv'
<1> DEFINE c == posts[p].client
           m == parse_incoming(posts[p].line)
           known == c \in handshakes
<1>1. /\ p \in DOMAIN posts /\ posts[p].at = "router" /\ Head(routers[c]) = p
      /\ UNCHANGED <<phase, clients, queue, stream, state, moves, published, last_state, caster>>
  BY DEF Route, At
<1>2. Typed /\ MapQueue /\ RouterQueues /\ CallersFirst /\ AnswerInv
  BY DEF IInv, LockInv
<1>3. /\ posts[p] \in Posted /\ posts[p].line \in PostLines
      /\ posts[p].answer = <<>> /\ m.kind # "malformed"
  BY <1>1, <1>2, PostTyped DEF Posted, AnswerInv, AnswersReady
<1>4. CASE Runs(m, known, state)
  <2>1. Moves(p, "call", posts[p].answer, posts[p].dropped) /\ UNCHANGED routers
    BY <1>1, <1>2, <1>4, GotoMoves DEF Route, Places
  <2>2. RouterQueues' /\ CallersFirst'
    BY <1>1, <1>2, <2>1, RoutersStay
  <2>3. Poster(p) \notin Range(queue)
    BY <1>1, <1>2 DEF MapQueue, Waiting
  <2>4. MapQueue'
    BY <1>1, <1>2, <2>1, <2>3, MapQueueMoves DEF MapQueue
  <2>5. Typed'
    BY <1>1, <1>2, <2>1 DEF Typed, Moves
  <2>6. AnswerInv'
    BY <1>1, <1>2, <1>3, <2>1, AnswersMove
  <2>7. QED
    BY <2>2, <2>4, <2>5, <2>6 DEF IInv, LockInv
<1>5. CASE ~Runs(m, known, state)
  <2>1. Leaves(p, handle_message(m, known, state))
    BY <1>5 DEF Route
  <2>2. /\ handle_message(m, known, state) \in Replies
        /\ handle_message(m, known, state) # <<>> =>
             handle_message(m, known, state)[1].id = ReplyId(posts[p].line)
    BY <1>3, HandleAnswers
  <2>3. QED
    BY <1>1, <2>1, <2>2, LeavesInv
<1>6. QED
  BY <1>4, <1>5

LEMMA ReturnInv ==
  ASSUME IInv, NEW p, Return(p)
  PROVE  IInv'
<1> DEFINE m == parse_incoming(posts[p].line)
<1>1. /\ p \in DOMAIN posts /\ posts[p].at = "call" /\ Leaves(p, handle_message(m, TRUE, state))
      /\ UNCHANGED <<phase, clients, queue, stream, state, moves, published, last_state, caster>>
  BY DEF Return, At
<1>2. Head(routers[posts[p].client]) = p
  BY <1>1 DEF IInv, LockInv, CallersFirst
<1>3. posts[p].line \in PostLines /\ m.kind # "malformed"
  BY <1>1, PostTyped DEF Posted, IInv, LockInv, AnswerInv, AnswersReady
<1>4. /\ handle_message(m, TRUE, state) \in Replies
      /\ handle_message(m, TRUE, state) # <<>> =>
           handle_message(m, TRUE, state)[1].id = ReplyId(posts[p].line)
  BY <1>3, HandleAnswers
<1>5. QED
  BY <1>1, <1>2, <1>4, LeavesInv

LEMMA RespondInv ==
  ASSUME IInv, NEW p, Respond(p)
  PROVE  IInv'
<1>1. /\ p \in DOMAIN posts /\ posts[p].at = "respond" /\ queue' = Append(queue, Poster(p))
      /\ UNCHANGED <<phase, clients, routers, stream, state, moves, published, last_state, caster>>
  BY DEF Respond, At
<1>2. Typed /\ MapQueue /\ RouterQueues /\ CallersFirst /\ AnswerInv
  BY DEF IInv, LockInv
<1>3. Moves(p, "send", posts[p].answer, posts[p].dropped)
  BY <1>1, <1>2, GotoMoves DEF Respond, Places
<1>4. Poster(p) \in Tasks /\ Poster(p) \notin Range(queue)
  BY <1>1, <1>2, PostTyped DEF MapQueue, Waiting, Tasks
<1>5. queue' \in Seq(Tasks) /\ IsInjective(queue') /\ Range(queue') = Range(queue) \cup {Poster(p)}
  BY <1>1, <1>2, <1>4, LastJoins
<1>6. RouterQueues' /\ CallersFirst'
  BY <1>1, <1>2, <1>3, RoutersStay
<1>7. MapQueue'
  BY <1>1, <1>2, <1>3, <1>5, MapQueueMoves
<1>8. Typed'
  BY <1>1, <1>2, <1>3, <1>5 DEF Typed, Moves
<1>9. AnswerInv'
  <2>1. posts[p].answer # <<>> /\ posts[p].answer[1].id = ReplyId(posts[p].line)
    BY <1>1, <1>2 DEF AnswerInv, AnswersReady
  <2>2. QED
    BY <1>1, <1>2, <1>3, <2>1, AnswersMove
<1>10. QED
  BY <1>6, <1>7, <1>8, <1>9 DEF IInv, LockInv

LEMMA HangUpInv ==
  ASSUME IInv, NEW p, HangUp(p)
  PROVE  IInv'
<1> DEFINE c == posts[p].client
           r == RemoveFirst(routers[c], p)
<1>1. /\ p \in DOMAIN posts /\ posts[p].at \in {"read", "router", "call", "send"}
      /\ queue' = RemoveFirst(queue, Poster(p)) /\ routers' = [routers EXCEPT ![c] = r]
      /\ UNCHANGED <<phase, clients, stream, published, last_state, caster>>
  BY DEF HangUp, Typed, IInv, LockInv
<1>2. Typed /\ MapQueue /\ RouterQueues /\ CallersFirst /\ AnswerInv
  BY DEF IInv, LockInv
<1>3. state' \in SessionStates /\ moves' \in Nat
  BY <1>2 DEF HangUp, Typed, SessionStates
<1>4. Moves(p, "done", posts[p].answer, TRUE)
  BY <1>2, HangUpMoves
<1>5. queue' \in Seq(Tasks) /\ IsInjective(queue') /\ Range(queue') = Range(queue) \ {Poster(p)}
  BY <1>1, <1>2, RemoveOnce DEF Typed, MapQueue
<1>6. c \in Clients /\ routers[c] \in Seq(Nat) /\ IsInjective(routers[c])
  BY <1>1, <1>2, PostTyped DEF Posted, Typed, RouterQueues
<1>7. /\ r \in Seq(Nat) /\ IsInjective(r) /\ Range(r) = Range(routers[c]) \ {p}
      /\ routers[c] # <<>> /\ Head(routers[c]) # p => Head(r) = Head(routers[c])
  BY <1>6, RemoveOnce
<1> HIDE DEF r
<1>8. OthersFirst(p, r)
  BY <1>2, <1>7, CallerQueues DEF OthersFirst
<1>9. RouterQueues' /\ CallersFirst'
  <2>1. p \in DOMAIN posts /\ r \in Seq(Nat) /\ IsInjective(r) /\ routers' = [routers EXCEPT ![c] = r]
    BY <1>1, <1>7
  <2>2. /\ "done" \notin {"router", "call"} /\ "done" # "call"
        /\ Range(r) = Range(routers[posts[p].client]) \ {p}
    BY <1>7
  <2>3. QED
    BY <1>2, <1>4, <1>8, <2>1, <2>2, RouterMoves
<1>10. MapQueue'
  BY <1>1, <1>2, <1>4, <1>5, MapQueueMoves
<1>11. Typed'
  BY <1>1, <1>2, <1>3, <1>4, <1>5, <1>6, <1>7 DEF Typed, Moves
<1>12. AnswerInv'
  <2>1. posts[p].answer # <<>> => posts[p].answer[1].id = ReplyId(posts[p].line)
    BY <1>1, <1>2 DEF AnswerInv, AnswersReady
  <2>2. QED
    BY <1>1, <1>2, <1>4, <2>1, AnswersMove
<1>13. QED
  BY <1>9, <1>10, <1>11, <1>12 DEF IInv, LockInv

\* A message is sent on the stream of c: its other messages and the other streams stay.
LEMMA DeliverElements ==
  ASSUME Typed, NEW c \in Clients, NEW m \in Messages, Deliver(c, m)
  PROVE  LET n == Len(stream[c]) + 1 IN
         /\ stream' \in [Clients -> Seq(Messages)] /\ n \notin DOMAIN stream[c]
         /\ \A d \in Clients : DOMAIN stream'[d] = DOMAIN stream[d] \cup (IF d = c THEN {n} ELSE {})
         /\ \A d \in Clients : \A i \in DOMAIN stream[d] : stream'[d][i] = stream[d][i]
         /\ stream'[c][n] = m
<1>1. stream \in [Clients -> Seq(Messages)] /\ stream[c] \in Seq(Messages)
  BY DEF Typed
<1>2. stream'[c] = Append(stream[c], m) /\ \A d \in Clients \ {c} : stream'[d] = stream[d]
  BY <1>1 DEF Deliver
<1>3. /\ Append(stream[c], m) \in Seq(Messages) /\ Len(stream[c]) + 1 \notin DOMAIN stream[c]
      /\ DOMAIN Append(stream[c], m) = DOMAIN stream[c] \cup {Len(stream[c]) + 1}
      /\ \A i \in DOMAIN stream[c] : Append(stream[c], m)[i] = stream[c][i]
      /\ Append(stream[c], m)[Len(stream[c]) + 1] = m
  BY <1>1, AppendElements
<1>4. stream' \in [Clients -> Seq(Messages)]
  BY <1>1, <1>3 DEF Deliver
<1>5. QED
  BY <1>2, <1>3, <1>4

LEMMA SendInv ==
  ASSUME IInv, NEW p, send_to(p)
  PROVE  IInv'
<1> DEFINE c == posts[p].client
           m == FromPost(p, posts[p].answer[1])
<1>1. /\ p \in DOMAIN posts /\ posts[p].at = "send" /\ First(Poster(p)) /\ queue' = Tail(queue)
      /\ Goto(p, "done")
      /\ UNCHANGED <<phase, routers, state, moves, published, last_state, caster>>
  BY DEF send_to, At, MayWrite
<1>2. Typed /\ MapQueue /\ RouterQueues /\ CallersFirst /\ AnswerInv
  BY DEF IInv, LockInv
<1>3. /\ posts[p] \in Posted /\ p \in Nat /\ c \in Clients
      /\ posts[p].answer # <<>> /\ posts[p].answer[1].id = ReplyId(posts[p].line)
  BY <1>1, <1>2, PostTyped DEF Posted, AnswerInv, AnswersReady
<1>4. Moves(p, "done", posts[p].answer, posts[p].dropped)
  BY <1>1, <1>2, GotoMoves DEF Places
<1>5. queue' \in Seq(Tasks) /\ IsInjective(queue') /\ Range(queue') = Range(queue) \ {Poster(p)}
  BY <1>1, <1>2, FirstLeaves
<1>6. RouterQueues' /\ CallersFirst'
  BY <1>1, <1>2, <1>4, RoutersStay
<1>7. MapQueue'
  BY <1>1, <1>2, <1>4, <1>5, MapQueueMoves
<1>8. m \in Messages /\ m.kind # "list_changed" /\ m.post = p /\ m.id = ReplyId(posts[p].line)
  <2>1. posts[p].answer[1] \in Answers /\ posts[p].change \in Nat
    BY <1>3 DEF Posted, Replies
  <2>2. QED
    BY <1>3, <2>1 DEF FromPost, Messages, Answers
<1>9. \A q \in DOMAIN posts \ {p} : posts'[q] = posts[q]
  BY <1>4 DEF Moves
<1>10. /\ posts'[p].client = c /\ posts'[p].line = posts[p].line /\ posts'[p].at = "done"
       /\ posts'[p].answer = posts[p].answer /\ posts'[p].dropped = posts[p].dropped
       /\ DOMAIN posts' = DOMAIN posts /\ posts' \in Seq(Posted)
  BY <1>4 DEF Moves
<1>11. PostersConnected' /\ AnswersReady'
  BY <1>1, <1>2, <1>3, <1>9, <1>10 DEF AnswerInv, PostersConnected, AnswersReady

\* No answer to p has been sent before.
<1>12. \A d \in Clients : \A i : IsAnswer(d, i) => stream[d][i].post # p
  BY <1>1, <1>2 DEF AnswerInv, AnswersOwn
<1>13. CASE c \in clients /\ phase[c] = "open"
  <2> DEFINE n == Len(stream[c]) + 1
  <2>1. Deliver(c, m) /\ clients' = clients
    BY <1>13 DEF send_to
  <2>2. /\ stream' \in [Clients -> Seq(Messages)] /\ n \notin DOMAIN stream[c]
        /\ \A d \in Clients : DOMAIN stream'[d] = DOMAIN stream[d] \cup (IF d = c THEN {n} ELSE {})
        /\ \A d \in Clients : \A i \in DOMAIN stream[d] : stream'[d][i] = stream[d][i]
        /\ stream'[c][n] = m
    BY <1>2, <1>3, <1>8, <2>1, DeliverElements
  <2> HIDE DEF n, m
  <2>3. /\ \A d \in Clients : \A i : IsAnswer(d, i)' <=> IsAnswer(d, i) \/ (d = c /\ i = n)
        /\ \A d \in Clients : \A i : IsAnswer(d, i) => stream'[d][i] = stream[d][i]
        /\ ~IsAnswer(c, n)
    BY <1>8, <2>2 DEF IsAnswer
  <2>4. AnswersOwn'
    <3>1. ASSUME NEW d \in Clients, NEW i, IsAnswer(d, i)'
          PROVE  LET q == stream'[d][i].post IN
                 /\ q \in DOMAIN posts' /\ posts'[q].client = d /\ posts'[q].at = "done"
                 /\ stream'[d][i].id = ReplyId(posts'[q].line)
      <4>1. CASE IsAnswer(d, i)
        BY <1>2, <1>9, <1>10, <1>12, <2>3, <4>1 DEF AnswerInv, AnswersOwn
      <4>2. CASE d = c /\ i = n
        BY <1>1, <1>8, <1>10, <2>2, <4>2
      <4>3. QED
        BY <2>3, <3>1, <4>1, <4>2
    <3>2. QED
      BY <3>1 DEF AnswersOwn
  <2>5. AnsweredOnce'
    BY <1>2, <1>3, <1>8, <1>12, <2>2, <2>3 DEF AnswerInv, AnsweredOnce
  <2>6. NoneLeftOut'
    <3>1. ASSUME NEW d \in Clients, NEW q \in DOMAIN posts, posts'[q].client = d,
                 posts'[q].at = "done", ~posts'[q].dropped, posts'[q].answer # <<>>, phase[d] = "open"
          PROVE  \E i : IsAnswer(d, i)' /\ stream'[d][i].post = q
      <4>1. CASE q = p
        BY <1>3, <1>8, <1>10, <2>2, <2>3, <3>1, <4>1
      <4>2. CASE q # p
        BY <1>2, <1>9, <2>3, <3>1, <4>2 DEF AnswerInv, NoneLeftOut
      <4>3. QED
        BY <4>1, <4>2
    <3>2. QED
      BY <1>1, <1>10, <3>1 DEF NoneLeftOut
  <2>7. Typed'
    BY <1>1, <1>2, <1>5, <1>10, <2>1, <2>2 DEF Typed
  <2>8. ListenersKnown'
    BY <1>1, <1>2, <2>1 DEF AnswerInv, ListenersKnown
  <2>9. QED
    BY <1>6, <1>7, <1>11, <2>4, <2>5, <2>6, <2>7, <2>8 DEF IInv, LockInv, AnswerInv
<1>14. CASE ~(c \in clients /\ phase[c] = "open")
  <2>1. UNCHANGED stream /\ clients' = clients \ {c}
    BY <1>14 DEF send_to
  <2>2. phase[c] # "open"
    BY <1>2, <1>3, <1>14 DEF AnswerInv, ListenersKnown
  <2>3. \A d, i : IsAnswer(d, i)' <=> IsAnswer(d, i)
    BY <2>1 DEF IsAnswer
  <2>4. AnswersOwn' /\ AnsweredOnce'
    BY <1>2, <1>9, <1>10, <2>1, <2>3 DEF AnswerInv, AnswersOwn, AnsweredOnce
  <2>5. NoneLeftOut'
    BY <1>1, <1>2, <1>9, <1>10, <2>1, <2>2, <2>3 DEF AnswerInv, NoneLeftOut
  <2>6. Typed'
    BY <1>1, <1>2, <1>5, <1>10, <2>1 DEF Typed
  <2>7. ListenersKnown'
    BY <1>1, <1>2, <2>1, <2>2 DEF AnswerInv, ListenersKnown
  <2>8. QED
    BY <1>6, <1>7, <1>11, <2>4, <2>5, <2>6, <2>7 DEF IInv, LockInv, AnswerInv
<1>15. QED
  BY <1>13, <1>14

-----------------------------------------------------------------------------
(* The steps of a client.                                                  *)

\* A new post waits for the map, or has an answer from the start.
LEMMA PostInv ==
  ASSUME IInv, NEW c \in Clients, Post(c)
  PROVE  IInv'
<1> DEFINE n == Len(posts) + 1
<1>1. Typed /\ MapQueue /\ RouterQueues /\ CallersFirst /\ AnswerInv
  BY DEF IInv, LockInv
<1>2. PICK line \in PostLines :
        LET malformed == parse_incoming(line).kind = "malformed" IN
        /\ posts' = Append(posts, [client |-> c, line |-> line, dropped |-> FALSE, change |-> 0,
                                   at |-> IF malformed THEN "respond" ELSE "read",
                                   answer |-> IF malformed THEN <<ParseError>> ELSE <<>>])
        /\ queue' = IF malformed THEN queue ELSE Append(queue, Poster(n))
  BY DEF Post
<1>3. /\ phase[c] \in {"open", "gone"}
      /\ UNCHANGED <<phase, clients, routers, stream, state, moves, published, last_state, caster>>
  BY DEF Post
<1> DEFINE malformed == parse_incoming(line).kind = "malformed"
           new == [client |-> c, line |-> line, dropped |-> FALSE, change |-> 0,
                   at |-> IF malformed THEN "respond" ELSE "read",
                   answer |-> IF malformed THEN <<ParseError>> ELSE <<>>]
<1>4. new \in Posted
  <2>1. ParseError \in Answers
    BY DEF ParseError, Answer, Answers
  <2>2. QED
    BY <2>1 DEF Posted, Places, Replies
<1>5. /\ posts' \in Seq(Posted) /\ n \notin DOMAIN posts /\ n \in Nat
      /\ DOMAIN posts' = DOMAIN posts \cup {n} /\ posts'[n] = new
      /\ \A q \in DOMAIN posts : posts'[q] = posts[q]
  BY <1>1, <1>2, <1>4, AppendElements, LenProperties DEF Typed
<1>6. /\ new.client = c /\ new.line = line /\ new.at = (IF malformed THEN "respond" ELSE "read")
      /\ new.answer = (IF malformed THEN <<ParseError>> ELSE <<>>)
  OBVIOUS
<1> HIDE DEF new
<1>7. /\ \A q : q \in Waiting' <=> q \in Waiting \/ (q = n /\ ~malformed)
      /\ Readers' = Readers /\ \A q \in Readers \cup Waiting : q \in DOMAIN posts
  BY <1>5, <1>6 DEF Waiting, Readers
<1>8. queue' \in Seq(Tasks) /\ MapQueue'
  <2>1. CASE malformed
    BY <1>1, <1>2, <1>3, <1>7, <2>1 DEF MapQueue, Typed
  <2>2. CASE ~malformed
    <3>1. Poster(n) \in Tasks /\ Poster(n) \notin Range(queue)
      BY <1>1, <1>5, <1>7 DEF Tasks, MapQueue
    <3>2. queue' \in Seq(Tasks) /\ IsInjective(queue') /\ Range(queue') = Range(queue) \cup {Poster(n)}
      BY <1>1, <1>2, <2>2, <3>1, LastJoins
    <3>3. QED
      BY <1>1, <1>3, <1>7, <2>2, <3>2, TasksDiffer DEF MapQueue
  <2>3. QED
    BY <2>1, <2>2
<1>9. RouterQueues'
  BY <1>1, <1>3, <1>5, <1>7 DEF RouterQueues
<1>10. CallersFirst'
  BY <1>1, <1>3, <1>5, <1>6 DEF CallersFirst
<1>11. Typed'
  BY <1>1, <1>3, <1>5, <1>8 DEF Typed
<1>12. AnswersReady'
  <2>1. <<ParseError>>[1].id = 0 /\ <<ParseError>> # <<>>
    BY DEF ParseError, Answer
  <2>2. \A q \in DOMAIN posts' : q \in DOMAIN posts \/ q = n
    BY <1>5
  <2>3. /\ new.at \in {"read", "router", "call"} =>
             new.answer = <<>> /\ parse_incoming(new.line).kind # "malformed"
        /\ new.at \in {"respond", "send"} => new.answer # <<>>
        /\ new.answer # <<>> => new.answer[1].id = ReplyId(new.line)
    BY <1>6, <2>1 DEF ReplyId
  <2>4. QED
    BY <1>1, <1>5, <2>2, <2>3 DEF AnswerInv, AnswersReady
<1>13. PostersConnected' /\ ListenersKnown'
  BY <1>1, <1>3, <1>5, <1>6 DEF AnswerInv, PostersConnected, ListenersKnown
<1>14. \A d, i : IsAnswer(d, i)' <=> IsAnswer(d, i)
  BY <1>3 DEF IsAnswer
<1>15. AnswersOwn' /\ AnsweredOnce'
  BY <1>1, <1>3, <1>5, <1>14 DEF AnswerInv, AnswersOwn, AnsweredOnce
<1>16. NoneLeftOut'
  BY <1>1, <1>3, <1>5, <1>6, <1>14 DEF AnswerInv, NoneLeftOut
<1>17. QED
  BY <1>8, <1>9, <1>10, <1>11, <1>12, <1>13, <1>15, <1>16 DEF IInv, LockInv, AnswerInv

\* Steps that leave the posts, the routers and the answers alone.
LEMMA PostsStay ==
  ASSUME IInv, UNCHANGED <<posts, routers>>, Typed', MapQueue', ListenersKnown',
         \A d \in Clients : phase[d] \in {"open", "gone"} => phase'[d] \in {phase[d], "gone"},
         \A d \in Clients : phase[d] \notin {"open", "gone"} /\ phase'[d] # phase[d] =>
           phase'[d] = "connecting" \/ (phase[d] = "connecting" /\ phase'[d] = "open"),
         \A d \in Clients : \A i : IsAnswer(d, i)' <=> IsAnswer(d, i),
         \A d \in Clients : \A i : IsAnswer(d, i) => stream'[d][i] = stream[d][i]
  PROVE  IInv'
<1>1. RouterQueues' /\ CallersFirst' /\ AnswersReady'
  BY DEF IInv, LockInv, AnswerInv, RouterQueues, CallersFirst, AnswersReady, Readers
<1>2. \A q \in DOMAIN posts : posts[q].client \in Clients
  BY PostTyped DEF IInv, LockInv, Posted
<1>3. PostersConnected'
  BY <1>2 DEF IInv, AnswerInv, PostersConnected
<1>4. AnswersOwn' /\ AnsweredOnce'
  BY DEF IInv, AnswerInv, AnswersOwn, AnsweredOnce
<1>5. NoneLeftOut'
  BY DEF IInv, AnswerInv, NoneLeftOut, PostersConnected
<1>6. QED
  BY <1>1, <1>3, <1>4, <1>5 DEF IInv, LockInv, AnswerInv

LEMMA ConnectInv ==
  ASSUME IInv, NEW c \in Clients, Connect(c)
  PROVE  IInv'
<1>1. /\ phase[c] = "new" /\ phase' = [phase EXCEPT ![c] = "connecting"]
      /\ queue' = Append(queue, Connector(c))
      /\ UNCHANGED <<clients, posts, routers, stream, state, moves, published, last_state, caster>>
  BY DEF Connect
<1>2. Typed /\ MapQueue /\ ListenersKnown
  BY DEF IInv, LockInv, AnswerInv
<1>3. phase'[c] = "connecting" /\ \A d \in Clients \ {c} : phase'[d] = phase[d]
  BY <1>1, <1>2 DEF Typed
<1>4. Connector(c) \in Tasks /\ Connector(c) \notin Range(queue)
  BY <1>1, <1>2 DEF Tasks, MapQueue
<1>5. queue' \in Seq(Tasks) /\ IsInjective(queue') /\ Range(queue') = Range(queue) \cup {Connector(c)}
  BY <1>1, <1>2, <1>4, LastJoins
<1>6. Typed'
  BY <1>1, <1>2, <1>3, <1>5 DEF Typed
<1>7. MapQueue'
  BY <1>1, <1>2, <1>3, <1>5, TasksDiffer DEF MapQueue, Waiting
<1>8. ListenersKnown'
  BY <1>1, <1>2, <1>3 DEF ListenersKnown
<1>9. QED
  BY <1>1, <1>3, <1>6, <1>7, <1>8, PostsStay DEF IsAnswer

LEMMA RegisterInv ==
  ASSUME IInv, NEW c \in Clients, register_client(c)
  PROVE  IInv'
<1>1. /\ First(Connector(c)) /\ queue' = Tail(queue) /\ clients' = clients \cup {c}
      /\ phase' = [phase EXCEPT ![c] = "open"]
      /\ UNCHANGED <<posts, routers, stream, state, moves, published, last_state, caster>>
  BY DEF register_client, MayWrite
<1>2. Typed /\ MapQueue /\ ListenersKnown
  BY DEF IInv, LockInv, AnswerInv
<1>3. phase'[c] = "open" /\ \A d \in Clients \ {c} : phase'[d] = phase[d]
  BY <1>1, <1>2 DEF Typed
<1>4. phase[c] = "connecting"
  BY <1>1, <1>2, TailOnce DEF First, MapQueue, Typed
<1>5. queue' \in Seq(Tasks) /\ IsInjective(queue') /\ Range(queue') = Range(queue) \ {Connector(c)}
  BY <1>1, <1>2, FirstLeaves
<1>6. Typed'
  BY <1>1, <1>2, <1>3, <1>5 DEF Typed
<1>7. MapQueue'
  BY <1>1, <1>2, <1>3, <1>5, TasksDiffer DEF MapQueue, Waiting
<1>8. ListenersKnown'
  BY <1>1, <1>2, <1>3 DEF ListenersKnown
<1>9. QED
  BY <1>1, <1>3, <1>4, <1>6, <1>7, <1>8, PostsStay DEF IsAnswer

LEMMA LeaveInv ==
  ASSUME IInv, NEW c \in Clients, Leave(c)
  PROVE  IInv'
<1>1. /\ phase[c] = "open" /\ phase' = [phase EXCEPT ![c] = "gone"]
      /\ UNCHANGED <<queue, clients, posts, routers, stream, state, moves, published, last_state,
                     caster>>
  BY DEF Leave
<1>2. Typed /\ MapQueue /\ ListenersKnown
  BY DEF IInv, LockInv, AnswerInv
<1>3. phase'[c] = "gone" /\ \A d \in Clients \ {c} : phase'[d] = phase[d]
  BY <1>1, <1>2 DEF Typed
<1>4. Typed'
  BY <1>1, <1>2, <1>3 DEF Typed
<1>5. MapQueue'
  BY <1>1, <1>2, <1>3 DEF MapQueue, Waiting
<1>6. ListenersKnown'
  BY <1>1, <1>2, <1>3 DEF ListenersKnown
<1>7. QED
  BY <1>1, <1>3, <1>4, <1>5, <1>6, PostsStay DEF IsAnswer

-----------------------------------------------------------------------------
(* The steps of the session and of the broadcaster.                        *)

LEMMA SessionInv ==
  ASSUME IInv, \/ \E s \in SessionStates : transition_to(s)
               \/ Wake
               \/ UNCHANGED httpVars
  PROVE  IInv'
<1>1. UNCHANGED <<phase, clients, queue, posts, routers, stream, last_state>>
  BY DEF transition_to, Wake, httpVars
<1>2. Typed /\ MapQueue /\ ListenersKnown
  BY DEF IInv, LockInv, AnswerInv
<1>3. /\ state' \in SessionStates /\ moves' \in Nat
      /\ published' \in [change : Nat, state : SessionStates]
  BY <1>2 DEF transition_to, Wake, httpVars, Typed
<1>4. caster' = caster \/ (caster = "watch" /\ caster' = "look")
  BY DEF transition_to, Wake, httpVars
<1>5. Typed'
  BY <1>1, <1>2, <1>3, <1>4 DEF Typed
<1>6. MapQueue'
  BY <1>1, <1>2, <1>4 DEF MapQueue, Waiting
<1>7. ListenersKnown'
  BY <1>1, <1>2 DEF ListenersKnown
<1>8. QED
  BY <1>1, <1>5, <1>6, <1>7, PostsStay DEF IsAnswer

LEMMA LookInv ==
  ASSUME IInv, Look
  PROVE  IInv'
<1>1. caster = "look" /\ UNCHANGED <<phase, clients, posts, routers, stream, state, moves, published>>
  BY DEF Look
<1>2. Typed /\ MapQueue /\ ListenersKnown
  BY DEF IInv, LockInv, AnswerInv
<1>3. last_state' \in SessionStates
  BY <1>2 DEF Look, Typed
<1>4. /\ queue' \in Seq(Tasks) /\ IsInjective(queue')
      /\ \/ caster' = "watch" /\ queue' = queue
         \/ caster' = "broadcast" /\ Range(queue') = Range(queue) \cup {Broadcaster}
  <2>1. Broadcaster \in Tasks /\ Broadcaster \notin Range(queue)
    BY <1>1, <1>2 DEF Tasks, MapQueue
  <2>2. QED
    BY <1>2, <2>1, LastJoins DEF Look, Typed, MapQueue
<1>5. Typed'
  BY <1>1, <1>2, <1>3, <1>4 DEF Typed
<1>6. MapQueue'
  BY <1>1, <1>2, <1>4, TasksDiffer DEF MapQueue, Waiting
<1>7. ListenersKnown'
  BY <1>1, <1>2 DEF ListenersKnown
<1>8. QED
  BY <1>1, <1>5, <1>6, <1>7, PostsStay DEF IsAnswer

\* A notice is no answer.
LEMMA BroadcastInv ==
  ASSUME IInv, broadcast_all
  PROVE  IInv'
<1>1. /\ caster = "broadcast" /\ First(Broadcaster) /\ queue' = Tail(queue) /\ caster' = "watch"
      /\ clients' = {c \in clients : phase[c] = "open"}
      /\ UNCHANGED <<phase, posts, routers, state, moves, published, last_state>>
  BY DEF broadcast_all, MayWrite
<1>2. Typed /\ MapQueue /\ ListenersKnown
  BY DEF IInv, LockInv, AnswerInv
<1>3. queue' \in Seq(Tasks) /\ IsInjective(queue') /\ Range(queue') = Range(queue) \ {Broadcaster}
  BY <1>1, <1>2, FirstLeaves
<1>4. Notice \in Messages /\ Notice.kind = "list_changed"
  BY DEF Notice, Messages
<1>5. /\ stream' \in [Clients -> Seq(Messages)]
      /\ \A d \in Clients : \A i : IsAnswer(d, i)' <=> IsAnswer(d, i)
      /\ \A d \in Clients : \A i : IsAnswer(d, i) => stream'[d][i] = stream[d][i]
  <2>1. /\ \A d \in Clients : stream[d] \in Seq(Messages)
        /\ \A d \in Clients : stream'[d] \in {stream[d], Append(stream[d], Notice)}
    BY <1>2 DEF broadcast_all, Typed
  <2>2. ASSUME NEW d \in Clients
        PROVE  /\ stream'[d] \in Seq(Messages)
               /\ \A i : IsAnswer(d, i)' <=> IsAnswer(d, i)
               /\ \A i : IsAnswer(d, i) => stream'[d][i] = stream[d][i]
    <3>1. CASE stream'[d] = stream[d]
      BY <2>1, <3>1 DEF IsAnswer
    <3>2. CASE stream'[d] = Append(stream[d], Notice)
      <4>1. /\ Append(stream[d], Notice) \in Seq(Messages)
            /\ DOMAIN Append(stream[d], Notice) = DOMAIN stream[d] \cup {Len(stream[d]) + 1}
            /\ \A i \in DOMAIN stream[d] : Append(stream[d], Notice)[i] = stream[d][i]
            /\ Append(stream[d], Notice)[Len(stream[d]) + 1] = Notice
        BY <1>4, <2>1, AppendElements
      <4>2. QED
        BY <1>4, <3>2, <4>1 DEF IsAnswer
    <3>3. QED
      BY <2>1, <3>1, <3>2
  <2>3. \E f : stream' = [d \in Clients |-> f[d]]
    BY DEF broadcast_all
  <2>4. QED
    BY <2>2, <2>3
<1>6. Typed'
  BY <1>1, <1>2, <1>3, <1>5 DEF Typed
<1>7. MapQueue'
  BY <1>1, <1>2, <1>3, TasksDiffer DEF MapQueue, Waiting
<1>8. ListenersKnown'
  BY <1>1, <1>2 DEF ListenersKnown
<1>9. QED
  BY <1>1, <1>5, <1>6, <1>7, <1>8, PostsStay

-----------------------------------------------------------------------------
(* The theorems.                                                           *)

LEMMA NextInv == IInv /\ [Next]_httpVars => IInv'
<1> SUFFICES ASSUME IInv, [Next]_httpVars PROVE IInv'
  OBVIOUS
<1>1. ASSUME NEW c \in Clients, Connect(c) \/ register_client(c) \/ Leave(c) \/ Post(c)
      PROVE  IInv'
  BY <1>1, ConnectInv, RegisterInv, LeaveInv, PostInv
<1>2. ASSUME NEW p, Handle(p) \/ HangUp(p)
      PROVE  IInv'
  BY <1>2, LookupInv, RouteInv, ReturnInv, RespondInv, SendInv, HangUpInv DEF Handle
<1>3. CASE \/ \E s \in SessionStates : transition_to(s)
           \/ Cast
           \/ UNCHANGED httpVars
  BY <1>3, SessionInv, LookInv, BroadcastInv DEF Cast
<1>4. QED
  BY <1>1, <1>2, <1>3 DEF Next

\* IInv holds in every reachable state, for any numbers of clients, posts and changes.
LEMMA Invariance == Spec => []IInv
BY InitInv, NextInv, PTL DEF Spec

\* http_server.rs: whoever waits for the map of clients or for a router is in its queue,
\* once, and nobody else is; who has gone, or hung up, is in none.
THEOREM TypeCorrect == Spec => []TypeOK
<1>1. IInv => TypeOK
  <2> SUFFICES ASSUME IInv PROVE TypeOK
    OBVIOUS
  <2>1. Typed /\ MapQueue /\ RouterQueues
    BY DEF IInv, LockInv
  <2>2. \A p \in DOMAIN posts : posts[p].at \in Places /\ Len(posts[p].answer) <= 1
    <3>1. ASSUME NEW p \in DOMAIN posts
          PROVE  posts[p].at \in Places /\ Len(posts[p].answer) <= 1
      <4>1. posts[p].at \in Places /\ posts[p].answer \in Replies
        BY <2>1, PostTyped DEF Posted
      <4>2. Len(<<>>) = 0 /\ \A a \in Answers : Len(<<a>>) = 1
        OBVIOUS
      <4>3. \A reply \in Replies : Len(reply) \in {0, 1}
        BY <4>2 DEF Replies
      <4>4. \A n \in {0, 1} : n <= 1
        OBVIOUS
      <4>5. QED
        BY <4>1, <4>3, <4>4
    <3>2. QED
      BY <3>1
  <2>3. Range(queue) =
          {Poster(p) : p \in {q \in DOMAIN posts : posts[q].at \in {"read", "send"}}}
            \cup {Connector(c) : c \in {d \in Clients : phase[d] = "connecting"}}
            \cup (IF caster = "broadcast" THEN {Broadcaster} ELSE {})
    <3>1. \A task \in Range(queue) : task \in Tasks
      BY <2>1, LenProperties, ElementOfSeq DEF Typed, Range
    <3>2. QED
      BY <2>1, <3>1 DEF MapQueue, Waiting, Tasks
  <2>4. \A c \in Clients :
          Range(routers[c]) = {p \in Readers : posts[p].client = c} /\ IsInjective(routers[c])
    BY <2>1 DEF RouterQueues
  <2>5. QED
    BY <2>1, <2>2, <2>3, <2>4 DEF Typed, MapQueue, TypeOK
<1>2. QED
  BY <1>1, Invariance, PTL

\* http_server.rs: an answer comes on the stream of the client that posted, under the
\* post's id and once, and none is left out while the client listens, however posts,
\* hang-ups, leaving clients and broadcasts interleave.
THEOREM AnswersComeHome == Spec => []AnswersGoHome
<1>1. IInv => AnswersGoHome
  <2> SUFFICES ASSUME IInv PROVE AnswersGoHome
    OBVIOUS
  <2>1. AnswersOwn /\ AnsweredOnce /\ NoneLeftOut
    BY DEF IInv, AnswerInv
  <2>2. ASSUME NEW c \in Clients
        PROVE  LET answers == {i \in DOMAIN stream[c] : stream[c][i].kind # "list_changed"} IN
               /\ \A i \in answers :
                    LET m == stream[c][i] IN
                    /\ m.post \in DOMAIN posts /\ posts[m.post].client = c /\ At(m.post, "done")
                    /\ m.id = IF parse_incoming(posts[m.post].line).kind = "malformed"
                                THEN 0 ELSE posts[m.post].line.number
               /\ \A i, j \in answers : stream[c][i].post = stream[c][j].post => i = j
               /\ \A p \in DOMAIN posts :
                    posts[p].client = c /\ At(p, "done") /\ ~posts[p].dropped
                        /\ posts[p].answer # <<>> /\ phase[c] = "open" =>
                      \E i \in answers : stream[c][i].post = p
    <3> DEFINE answers == {i \in DOMAIN stream[c] : stream[c][i].kind # "list_changed"}
    <3>1. \A i : i \in answers <=> IsAnswer(c, i)
      BY DEF IsAnswer
    <3> HIDE DEF answers
    <3>2. /\ \A i \in answers :
               /\ stream[c][i].post \in DOMAIN posts /\ posts[stream[c][i].post].client = c
               /\ At(stream[c][i].post, "done")
               /\ stream[c][i].id = ReplyId(posts[stream[c][i].post].line)
          /\ \A i, j \in answers : stream[c][i].post = stream[c][j].post => i = j
      BY <2>1, <3>1 DEF AnswersOwn, AnsweredOnce, At
    <3>3. \A p \in DOMAIN posts :
            posts[p].client = c /\ At(p, "done") /\ ~posts[p].dropped
                /\ posts[p].answer # <<>> /\ phase[c] = "open" =>
              \E i \in answers : stream[c][i].post = p
      BY <2>1, <3>1 DEF NoneLeftOut, At
    <3>4. QED
      BY <3>2, <3>3 DEF answers, ReplyId
  <2>3. QED
    BY <2>2 DEF AnswersGoHome
<1>2. QED
  BY <1>1, Invariance, PTL

-----------------------------------------------------------------------------
(* The lists that clients have been given.                                 *)

HasList(p) == posts[p].answer # <<>> /\ posts[p].answer[1].tools # {}
ToolsIn(s) == {tool \in AllTools : Dispatches(tool, s)}

\* The post has been through the router, with an answer, or is with it.
Routed(p) == posts[p].answer # <<>> /\ parse_incoming(posts[p].line).kind # "malformed"
Past(p) == posts[p].at \in {"router", "call"} \/ Routed(p)

\* The locks' queues keep the order in which the posts have come,
MapOrder ==
  \A p, q \in DOMAIN posts :
    p < q /\ posts[p].at = "read" =>
      /\ posts[q].at = "read" => Ahead(queue, Poster(p), Poster(q))
      /\ ~Past(q)
\* and so do the queues of the routers.
RouterOrder ==
  \A p, q \in DOMAIN posts :
    p < q /\ posts[p].client = posts[q].client /\ p \in Readers =>
      /\ q \in Readers => Ahead(routers[posts[p].client], p, q)
      /\ ~Routed(q)

\* Only a client that has shaken hands is given a list, when it asks and from then on.
ListsGiven ==
  \A p \in DOMAIN posts : HasList(p) =>
    /\ AsksForList(posts[p].line) /\ posts[p].client \in handshakes
    /\ \A q \in DOMAIN posts :
         p < q /\ posts[q].client = posts[p].client /\ Routed(q) /\ AsksForList(posts[q].line) =>
           HasList(q)
CallersKnown == \A p \in DOMAIN posts : posts[p].at = "call" => posts[p].client \in handshakes
AskersAnswered ==
  \A p \in DOMAIN posts :
    posts[p].at \in {"respond", "send", "done"} /\ ~posts[p].dropped
        /\ AsksForList(posts[p].line) /\ phase[posts[p].client] = "open" =>
      posts[p].answer # <<>>

\* A stream carries what the posts were answered.
StreamsCarry ==
  \A c \in Clients : \A i \in DOMAIN stream[c] :
    IF IsAnswer(c, i)
      THEN LET p == stream[c][i].post IN
           /\ posts[p].answer # <<>> /\ stream[c][i].tools = posts[p].answer[1].tools
           /\ stream[c][i].change = posts[p].change
      ELSE stream[c][i].tools = {}

\* The last time c asked for the list.
LastAsked(c, p) ==
  /\ p \in DOMAIN posts /\ posts[p].client = c /\ AsksForList(posts[p].line)
  /\ \A q \in DOMAIN posts : q > p /\ posts[q].client = c => ~AsksForList(posts[q].line)
LastHeard ==
  /\ relist \in [Clients -> BOOLEAN]
  /\ \A c \in Clients, p \in DOMAIN posts : LastAsked(c, p) /\ ~relist[c] => ~posts[p].dropped

\* The watch channel and the broadcaster.
Watched ==
  /\ published.change <= moves
  /\ published.change = moves => published.state = state
  /\ ~unseen /\ caster # "look" => last_state = published.state
  /\ published.change = 0 => ~unseen /\ caster = "watch"

\* A list that its client goes by is current, or its change has been skipped, or the
\* broadcaster has yet to tell of a later one, or is not told itself.
Fresh(p) ==
  LET change == posts[p].change
      tools == posts[p].answer[1].tools IN
  IF change = 0 THEN caster = "broadcast" \/ tools = ToolsIn(last_state)
  ELSE \/ change \in skipped
       \/ change = moves /\ tools = ToolsIn(state)
       \/ change < published.change /\ (unseen \/ caster # "watch")
       \/ change < moves /\ published.change < moves
ListsFresh ==
  \A c \in Clients, p \in DOMAIN posts :
    LastAsked(c, p) /\ ~relist[c] /\ phase[c] = "open" /\ HasList(p) => Fresh(p)

ListInv ==
  /\ MapOrder /\ RouterOrder /\ ListsGiven /\ CallersKnown /\ AskersAnswered /\ StreamsCarry
  /\ LastHeard /\ Watched /\ ListsFresh

\* A list is given to a request for it, by a client that has shaken hands, and always then.
LEMMA HandleLists ==
  ASSUME NEW line \in PostLines, NEW known, NEW s, parse_incoming(line).kind # "malformed"
  PROVE  LET reply == handle_message(parse_incoming(line), known, s) IN
         /\ reply # <<>> /\ reply[1].tools # {} =>
              /\ AsksForList(line) /\ ~Refused(parse_incoming(line), known)
              /\ reply[1].tools = ToolsIn(s)
         /\ AsksForList(line) => reply # <<>>
         /\ AsksForList(line) /\ ~Refused(parse_incoming(line), known) => reply[1].tools # {}
<1> DEFINE m == parse_incoming(line)
           reply == handle_message(m, known, s)
<1>1. m.kind \in {"notification", "request"} /\ m.method = line.method
  BY LinesAssumption DEF parse_incoming, Message
<1>2. AsksForList(line) <=> m.kind = "request" /\ m.method = "tools/list"
  BY <1>1 DEF AsksForList
<1> HIDE DEF m
<1>3. list_tools_for_state(s) = ToolsIn(s) /\ list_tools_for_state(s) # {}
  <2>1. \A tool \in GatedTools : tool \in Operations
    BY DEF GatedTools
  <2>2. \A tool \in AllTools :
          (tool \in GatedTools => tool \in operations_for_state(s)) <=> Dispatches(tool, s)
    BY <2>1 DEF Dispatches, operations_for_state
  <2>3. list_tools_for_state(s) = ToolsIn(s)
    BY <2>2 DEF list_tools_for_state, ToolsIn
  <2>4. "get_state" \in list_tools_for_state(s)
    BY DEF list_tools_for_state, AllTools, UtilityTools, GatedTools, Operations, Resuming,
       Breakpoints, Inspecting
  <2>5. QED
    BY <2>3, <2>4
<1>4. \A kind, tools : Answer(kind, m.number, tools).tools = tools
  BY DEF Answer
<1>5. CASE m.kind = "notification"
  <2>1. reply = <<>>
    BY <1>5 DEF handle_message
  <2>2. QED
    BY <1>2, <1>5, <2>1 DEF m
<1>6. CASE m.kind = "request" /\ Refused(m, known)
  <2>1. reply = <<Answer("error", m.number, {})>> 
    BY <1>6 DEF handle_message, Refused
  <2>2. QED
    BY <1>4, <1>6, <2>1 DEF m
<1>7. CASE m.kind = "request" /\ ~Refused(m, known) /\ m.method = "tools/list"
  <2> DEFINE a == Answer("result", m.number, list_tools_for_state(s))
  <2>1. reply = <<a>>
    BY <1>7 DEF handle_message
  <2>2. a.tools = list_tools_for_state(s)
    BY DEF Answer
  <2> HIDE DEF a, reply
  <2>3. reply # <<>> /\ reply[1].tools = list_tools_for_state(s)
    BY <2>1, <2>2
  <2>4. QED
    BY <1>2, <1>3, <1>7, <2>1, <2>3 DEF reply, m
<1>8. CASE m.kind = "request" /\ ~Refused(m, known) /\ m.method # "tools/list"
  <2>1. \E kind : reply = <<Answer(kind, m.number, {})>>
    BY <1>8 DEF handle_message
  <2>2. QED
    BY <1>2, <1>4, <1>8, <2>1 DEF m
<1>9. QED
  BY <1>1, <1>5, <1>6, <1>7, <1>8

LEMMA InitLists == Init => ListInv
<1> SUFFICES ASSUME Init PROVE ListInv
  OBVIOUS
<1>1. posts = <<>> /\ DOMAIN posts = {} /\ \A c \in Clients : DOMAIN stream[c] = {}
  BY DEF Init
<1>2. Watched /\ relist \in [Clients -> BOOLEAN]
  BY DEF Init, Watched
<1>3. QED
  BY <1>1, <1>2 DEF ListInv, MapOrder, RouterOrder, ListsGiven, CallersKnown, AskersAnswered, StreamsCarry,
     LastHeard, ListsFresh

-----------------------------------------------------------------------------
(* Steps in which no post takes a new answer.                              *)

AnswersKept ==
  /\ DOMAIN posts' = DOMAIN posts
  /\ \A q \in DOMAIN posts :
       /\ posts'[q].client = posts[q].client /\ posts'[q].line = posts[q].line
       /\ posts'[q].answer = posts[q].answer /\ posts'[q].change = posts[q].change

\* A client listens after the step only if it listened before, if it has posted at all.
ListeningKept ==
  \A q \in DOMAIN posts : phase'[posts[q].client] = "open" => phase[posts[q].client] = "open"

LEMMA KeptAnswers ==
  ASSUME AnswersKept
  PROVE  /\ \A q \in DOMAIN posts : (HasList(q)' <=> HasList(q)) /\ (Routed(q)' <=> Routed(q))
         /\ \A c, p : LastAsked(c, p)' <=> LastAsked(c, p)
<1>1. \A q \in DOMAIN posts : (HasList(q)' <=> HasList(q)) /\ (Routed(q)' <=> Routed(q))
  BY DEF AnswersKept, HasList, Routed
<1>2. ASSUME NEW c, NEW p
      PROVE  LastAsked(c, p)' <=> LastAsked(c, p)
  BY DEF AnswersKept, LastAsked
<1>3. QED
  BY <1>1, <1>2

LEMMA KeptLists ==
  ASSUME AnswersKept, ListsGiven, handshakes \subseteq handshakes'
  PROVE  ListsGiven'
<1>1. \A q \in DOMAIN posts : (HasList(q)' <=> HasList(q)) /\ (Routed(q)' <=> Routed(q))
  BY KeptAnswers
<1>2. QED
  BY <1>1 DEF AnswersKept, ListsGiven

LEMMA KeptCallers ==
  ASSUME AnswersKept, CallersKnown, handshakes \subseteq handshakes',
         \A q \in DOMAIN posts :
           posts'[q].at = "call" => posts[q].at = "call" \/ posts[q].client \in handshakes'
  PROVE  CallersKnown'
BY DEF AnswersKept, CallersKnown

LEMMA KeptStreams ==
  ASSUME AnswersKept, AnswersOwn, StreamsCarry, UNCHANGED stream
  PROVE  StreamsCarry'
<1>1. \A c, i : IsAnswer(c, i)' <=> IsAnswer(c, i)
  BY DEF IsAnswer
<1>2. \A c \in Clients : \A i : IsAnswer(c, i) => stream[c][i].post \in DOMAIN posts
  BY DEF AnswersOwn
<1>3. QED
  BY <1>1, <1>2 DEF AnswersKept, StreamsCarry

LEMMA KeptHeard ==
  ASSUME AnswersKept, LastHeard, relist' \in [Clients -> BOOLEAN],
         \A c \in Clients : ~relist'[c] => ~relist[c],
         \A q \in DOMAIN posts : posts'[q].dropped => posts[q].dropped \/ relist'[posts[q].client] \/ ~AsksForList(posts[q].line)
  PROVE  LastHeard'
<1>1. \A c, p : LastAsked(c, p)' <=> LastAsked(c, p)
  BY KeptAnswers
<1>2. ASSUME NEW c \in Clients, NEW p \in DOMAIN posts, LastAsked(c, p), ~relist'[c]
      PROVE  ~posts'[p].dropped
  BY <1>2 DEF LastHeard, LastAsked
<1>3. QED
  BY <1>1, <1>2 DEF LastHeard, AnswersKept

LEMMA KeptFresh ==
  ASSUME AnswersKept, ListsFresh, ListeningKept,
         \A c \in Clients : ~relist'[c] => ~relist[c],
         \A c \in Clients, p \in DOMAIN posts :
           posts[p].client = c /\ HasList(p) /\ phase[c] = "open" /\ ~relist'[c] /\ Fresh(p) => Fresh(p)'
  PROVE  ListsFresh'
<1>1. /\ \A q \in DOMAIN posts : HasList(q)' <=> HasList(q)
      /\ \A c, p : LastAsked(c, p)' <=> LastAsked(c, p)
  BY KeptAnswers
<1>2. ASSUME NEW c \in Clients, NEW p \in DOMAIN posts,
             LastAsked(c, p), ~relist'[c], phase'[c] = "open", HasList(p)
      PROVE  Fresh(p)'
  <2>1. posts[p].client = c
    BY <1>2 DEF LastAsked
  <2>2. phase[c] = "open" /\ ~relist[c]
    BY <1>2, <2>1 DEF ListeningKept
  <2>3. QED
    BY <1>2, <2>1, <2>2 DEF ListsFresh
<1>3. DOMAIN posts' = DOMAIN posts
  BY DEF AnswersKept
<1>4. QED
  BY <1>1, <1>2, <1>3 DEF ListsFresh

\* Nothing about a list's freshness changes while session and broadcaster stand still.
LEMMA FreshStays ==
  ASSUME AnswersKept, UNCHANGED <<skipped, moves, state, published, unseen, caster, last_state>>
  PROVE  \A p \in DOMAIN posts : Fresh(p) => Fresh(p)'
BY DEF AnswersKept, Fresh

LEMMA KeptAskers ==
  ASSUME AnswersKept, AskersAnswered, ListeningKept,
         \A q \in DOMAIN posts :
           posts'[q].at \in {"respond", "send", "done"} /\ ~posts'[q].dropped
               /\ phase[posts[q].client] = "open" =>
             posts[q].answer # <<>> \/ (posts[q].at \in {"respond", "send", "done"} /\ ~posts[q].dropped)
  PROVE  AskersAnswered'
BY DEF AnswersKept, AskersAnswered, ListeningKept

LEMMA KeptOrders ==
  ASSUME AnswersKept, MapOrder, RouterOrder,
         \A q \in DOMAIN posts :
           /\ posts'[q].at = "read" => posts[q].at = "read"
           /\ posts'[q].at \in {"router", "call"} => posts[q].at \in {"router", "call"},
         \A p, q \in DOMAIN posts :
           posts'[p].at = "read" /\ posts'[q].at = "read" /\ Ahead(queue, Poster(p), Poster(q)) =>
             Ahead(queue', Poster(p), Poster(q)),
         \A c \in Clients, p, q \in DOMAIN posts :
           p \in Readers' /\ q \in Readers' /\ posts[p].client = c /\ Ahead(routers[c], p, q) =>
             Ahead(routers'[c], p, q),
         \A q \in DOMAIN posts : posts[q].client \in Clients
  PROVE  MapOrder' /\ RouterOrder'
<1>1. DOMAIN posts' = DOMAIN posts
      /\ \A q \in DOMAIN posts : (Routed(q)' <=> Routed(q)) /\ posts'[q].client = posts[q].client
  BY KeptAnswers DEF AnswersKept
<1>2. \A q \in DOMAIN posts : (Past(q)' => Past(q)) /\ (q \in Readers' => q \in Readers)
  BY <1>1 DEF Past, Readers
<1>3. MapOrder'
  <2>1. ASSUME NEW p \in DOMAIN posts, NEW q \in DOMAIN posts, p < q, posts'[p].at = "read"
        PROVE  (posts'[q].at = "read" => Ahead(queue', Poster(p), Poster(q))) /\ ~Past(q)'
    <3>1. posts[p].at = "read" /\ ~Past(q)
      BY <2>1 DEF MapOrder
    <3>2. ASSUME posts'[q].at = "read"
          PROVE  Ahead(queue', Poster(p), Poster(q))
      BY <2>1, <3>1, <3>2 DEF MapOrder
    <3>3. QED
      BY <1>2, <3>1, <3>2
  <2>2. QED
    BY <1>1, <2>1 DEF MapOrder
<1>4. RouterOrder'
  <2>1. ASSUME NEW p \in DOMAIN posts, NEW q \in DOMAIN posts, p < q,
               posts[p].client = posts[q].client, p \in Readers'
        PROVE  (q \in Readers' => Ahead(routers'[posts[p].client], p, q)) /\ ~Routed(q)
    <3>1. p \in Readers /\ ~Routed(q)
      BY <1>2, <2>1 DEF RouterOrder
    <3>2. ASSUME q \in Readers'
          PROVE  Ahead(routers'[posts[p].client], p, q)
      <4>1. Ahead(routers[posts[p].client], p, q)
        BY <1>2, <2>1, <3>1, <3>2 DEF RouterOrder
      <4>2. QED
        BY <2>1, <3>2, <4>1
    <3>3. QED
      BY <3>1, <3>2
  <2>2. QED
    BY <1>1, <2>1 DEF RouterOrder
<1>5. QED
  BY <1>3, <1>4

LEMMA GotoKeeps ==
  ASSUME Typed, NEW p \in DOMAIN posts, NEW place \in Places, Goto(p, place)
  PROVE  AnswersKept
<1>1. posts' = [posts EXCEPT ![p] = [posts[p] EXCEPT !.at = place]]
  BY DEF Goto
<1>2. DOMAIN posts' = DOMAIN posts /\ \A q \in DOMAIN posts \ {p} : posts'[q] = posts[q]
  BY GotoMoves DEF Moves
<1>3. posts[p] \in Posted /\ posts \in Seq(Posted)
  BY PostTyped DEF Typed
<1>4. posts'[p] = [posts[p] EXCEPT !.at = place]
  BY <1>1, <1>3
<1>5. /\ posts'[p].client = posts[p].client /\ posts'[p].line = posts[p].line
      /\ posts'[p].answer = posts[p].answer /\ posts'[p].change = posts[p].change
  BY <1>3, <1>4 DEF Posted
<1>6. QED
  BY <1>2, <1>5 DEF AnswersKept

LEMMA HangUpKeeps ==
  ASSUME Typed, NEW p, HangUp(p)
  PROVE  AnswersKept
<1>1. p \in DOMAIN posts /\ posts' = [posts EXCEPT ![p] = [posts[p] EXCEPT !.at = "done", !.dropped = TRUE]]
  BY DEF HangUp
<1>2. DOMAIN posts' = DOMAIN posts /\ \A q \in DOMAIN posts \ {p} : posts'[q] = posts[q]
  BY HangUpMoves DEF Moves
<1>3. posts[p] \in Posted /\ posts \in Seq(Posted)
  BY <1>1, PostTyped DEF Typed
<1>4. posts'[p] = [posts[p] EXCEPT !.at = "done", !.dropped = TRUE]
  BY <1>1, <1>3
<1>5. /\ posts'[p].client = posts[p].client /\ posts'[p].line = posts[p].line
      /\ posts'[p].answer = posts[p].answer /\ posts'[p].change = posts[p].change
  BY <1>3, <1>4 DEF Posted
<1>6. QED
  BY <1>2, <1>5 DEF AnswersKept

\* What the steps of a post take from the invariant.
LEMMA ListFacts ==
  ASSUME IInv, ListInv
  PROVE  /\ Typed /\ MapQueue /\ RouterQueues /\ CallersFirst
         /\ ListenersKnown /\ PostersConnected /\ AnswersReady /\ AnswersOwn
         /\ MapOrder /\ RouterOrder /\ ListsGiven /\ CallersKnown /\ AskersAnswered /\ StreamsCarry
         /\ LastHeard /\ Watched /\ ListsFresh
         /\ queue \in Seq(Tasks) /\ IsInjective(queue)
         /\ \A q \in DOMAIN posts : q \in Nat /\ posts[q] \in Posted /\ posts[q].client \in Clients
         /\ \A c \in Clients : routers[c] \in Seq(Nat) /\ IsInjective(routers[c])
<1>1. Typed /\ MapQueue /\ RouterQueues /\ CallersFirst
  BY DEF IInv, LockInv
<1>2. \A q \in DOMAIN posts : q \in Nat /\ posts[q] \in Posted /\ posts[q].client \in Clients
  BY <1>1, PostTyped DEF Posted
<1>3. QED
  BY <1>1, <1>2 DEF IInv, AnswerInv, ListInv, Typed, MapQueue, RouterQueues

\* Steps of one post without a new answer, after which nobody listens, has been told or
\* waits for a router who did not before.
LEMMA QuietStep ==
  ASSUME IInv, ListInv, NEW p \in DOMAIN posts, NEW place, NEW dropped,
         AnswersKept, Moves(p, place, posts[p].answer, dropped),
         UNCHANGED <<phase, skipped, moves, state, published, unseen, caster, last_state>>,
         UNCHANGED stream \/ StreamsCarry',
         handshakes \subseteq handshakes', relist' = relist, dropped = posts[p].dropped, MapOrder', RouterOrder',
         place = "call" => posts[p].client \in handshakes',
         place \in {"respond", "send", "done"} /\ phase[posts[p].client] = "open" =>
           posts[p].answer # <<>> \/ posts[p].at \in {"respond", "send", "done"}
  PROVE  ListInv'
<1>1. \A q \in DOMAIN posts : q # p => posts'[q].at = posts[q].at /\ posts'[q].dropped = posts[q].dropped
  BY DEF Moves
<1>2. posts'[p].at = place /\ posts'[p].dropped = posts[p].dropped
  BY DEF Moves
<1>3. ListsGiven'
  BY ListFacts, KeptLists
<1>4. StreamsCarry'
  BY ListFacts, KeptStreams
<1>5. AskersAnswered'
  <2>1. ListeningKept
    BY DEF ListeningKept
  <2>2. \A q \in DOMAIN posts :
           posts'[q].at \in {"respond", "send", "done"} /\ ~posts'[q].dropped
               /\ phase[posts[q].client] = "open" =>
             posts[q].answer # <<>> \/ (posts[q].at \in {"respond", "send", "done"} /\ ~posts[q].dropped)
    BY <1>1, <1>2
  <2>3. QED
    BY <2>1, <2>2, ListFacts, KeptAskers
<1>6. LastHeard'
  <2>1. relist' \in [Clients -> BOOLEAN]
    BY ListFacts DEF LastHeard
  <2>2. QED
    BY <1>1, <1>2, <2>1, ListFacts, KeptHeard
<1>7. Watched'
  BY ListFacts DEF Watched
<1>8. ListsFresh'
  <2>1. ListeningKept
    BY DEF ListeningKept
  <2>2. QED
    BY <2>1, ListFacts, FreshStays, KeptFresh
<1>9. CallersKnown'
  BY <1>1, <1>2, ListFacts, KeptCallers
<1>10. QED
  BY <1>3, <1>4, <1>5, <1>6, <1>7, <1>8, <1>9 DEF ListInv

LEMMA LookupLists ==
  ASSUME IInv, ListInv, NEW p, Lookup(p)
  PROVE  ListInv'
<1> DEFINE c == posts[p].client
<1>1. /\ p \in DOMAIN posts /\ posts[p].at = "read" /\ First(Poster(p)) /\ queue' = Tail(queue)
      /\ UNCHANGED <<phase, relist, clients, handshakes, stream, state, moves, published,
                     unseen, last_state, caster, skipped>>
  BY DEF Lookup, At, MayRead
<1>2. queue # <<>> /\ Head(queue) = Poster(p) /\ queue \in Seq(Tasks) /\ IsInjective(queue)
  BY <1>1, ListFacts DEF First
<1>3. /\ \A q \in DOMAIN posts : ~Ahead(queue, Poster(q), Poster(p))
      /\ \A q, r \in DOMAIN posts :
           Ahead(queue, Poster(q), Poster(r)) /\ q # p => Ahead(queue', Poster(q), Poster(r))
  <2>1. /\ \A a : ~Ahead(queue, a, Head(queue))
        /\ \A a, b : Ahead(queue, a, b) /\ a # Head(queue) => Ahead(Tail(queue), a, b)
    BY <1>2, AheadTail
  <2>2. QED
    BY <1>1, <1>2, <2>1, TasksDiffer

\* Everyone who is before p is past the map's lock, and nobody after p is.
<1>4. /\ \A q \in DOMAIN posts : q < p => posts[q].at # "read"
      /\ \A q \in DOMAIN posts : p < q => ~Past(q)
  BY <1>1, <1>3, ListFacts DEF MapOrder
<1>5. \A q \in DOMAIN posts : q # p => q < p \/ p < q
  BY <1>1, ListFacts
<1>6. CASE c \in clients
  <2>1. Moves(p, "router", posts[p].answer, posts[p].dropped) /\ AnswersKept
    BY <1>1, <1>6, ListFacts, GotoMoves, GotoKeeps DEF Lookup, Places
  <2>2. /\ DOMAIN posts' = DOMAIN posts /\ posts'[p].at = "router"
        /\ \A q \in DOMAIN posts \ {p} : posts'[q].at = posts[q].at
        /\ \A q \in DOMAIN posts : posts'[q].client = posts[q].client /\ (Routed(q)' <=> Routed(q))
    BY <2>1, KeptAnswers DEF Moves, AnswersKept
  <2>3. \A q \in DOMAIN posts \ {p} : (Past(q)' <=> Past(q)) /\ (q \in Readers' <=> q \in Readers)
    BY <2>2 DEF Past, Readers
  <2>4. MapOrder'
    <3>1. ASSUME NEW a \in DOMAIN posts, NEW b \in DOMAIN posts, a < b, posts'[a].at = "read"
          PROVE  (posts'[b].at = "read" => Ahead(queue', Poster(a), Poster(b))) /\ ~Past(b)'
      <4>1. a # p /\ posts[a].at = "read"
        BY <2>2, <3>1
      <4>2. b # p
        BY <1>4, <3>1, <4>1
      <4>3. (posts[b].at = "read" => Ahead(queue, Poster(a), Poster(b))) /\ ~Past(b)
        BY <3>1, <4>1, ListFacts DEF MapOrder
      <4>4. QED
        BY <1>3, <2>2, <2>3, <4>1, <4>2, <4>3
    <3>2. QED
      BY <2>2, <3>1 DEF MapOrder
  <2>5. /\ routers'[c] = Append(routers[c], p) /\ \A d \in Clients \ {c} : routers'[d] = routers[d]
        /\ c \in Clients /\ routers[c] \in Seq(Nat) /\ p \in Nat
    BY <1>1, <1>6, ListFacts DEF Lookup, Typed
  <2>6. /\ \A a, b : Ahead(routers[c], a, b) => Ahead(routers'[c], a, b)
        /\ \A a \in Range(routers[c]) : Ahead(routers'[c], a, p)
    BY <2>5, AheadAppend
  <2>7. RouterOrder'
    <3>1. ASSUME NEW a \in DOMAIN posts, NEW b \in DOMAIN posts, a < b,
                 posts[a].client = posts[b].client, a \in Readers'
          PROVE  (b \in Readers' => Ahead(routers'[posts[a].client], a, b)) /\ ~Routed(b)
      <4>1. CASE a = p
        <5>1. ~Past(b) /\ b # p
          BY <1>1, <1>4, <3>1, <4>1, ListFacts
        <5>2. b \notin Readers /\ ~Routed(b)
          BY <5>1 DEF Past, Readers
        <5>3. QED
          BY <2>3, <5>1, <5>2
      <4>2. CASE a # p /\ b = p
        <5>1. a \in Readers /\ posts[a].client = c
          BY <2>3, <3>1, <4>2
        <5>2. a \in Range(routers[c])
          BY <2>5, <5>1, ListFacts DEF RouterQueues
        <5>3. ~Routed(p)
          BY <3>1, <4>2, <5>1, ListFacts DEF RouterOrder
        <5>4. QED
          BY <2>6, <4>2, <5>1, <5>2, <5>3
      <4>3. CASE a # p /\ b # p
        <5>1. a \in Readers /\ ~Routed(b) /\ (b \in Readers => Ahead(routers[posts[a].client], a, b))
          BY <2>3, <3>1, <4>3, ListFacts DEF RouterOrder
        <5>2. posts[a].client \in Clients
          BY ListFacts
        <5>3. QED
          BY <2>3, <2>5, <2>6, <4>3, <5>1, <5>2
      <4>4. QED
        BY <4>1, <4>2, <4>3
    <3>2. QED
      BY <2>2, <3>1 DEF RouterOrder
  <2>8. "router" # "call" /\ "router" \notin {"respond", "send", "done"} /\ handshakes \subseteq handshakes'
    BY <1>1
  <2>9. QED
    BY <1>1, <2>1, <2>4, <2>7, <2>8, QuietStep
<1>7. CASE c \notin clients
  <2>1. Moves(p, "done", posts[p].answer, posts[p].dropped) /\ AnswersKept /\ UNCHANGED routers
    BY <1>1, <1>7, ListFacts, GotoMoves, GotoKeeps DEF Lookup, Places
  <2>2. phase[c] # "open"
    BY <1>1, <1>7, ListFacts DEF ListenersKnown
  <2>3. MapOrder' /\ RouterOrder'
    <3>1. \A q \in DOMAIN posts :
           /\ posts'[q].at = "read" => posts[q].at = "read" /\ q # p
           /\ posts'[q].at \in {"router", "call"} => posts[q].at \in {"router", "call"}
      BY <2>1 DEF Moves
    <3>2. QED
      BY <1>3, <2>1, <3>1, ListFacts, KeptOrders
  <2>4. "done" # "call" /\ handshakes \subseteq handshakes'
    BY <1>1
  <2>5. QED
    BY <1>1, <2>1, <2>2, <2>3, <2>4, QuietStep
<1>8. QED
  BY <1>6, <1>7

LEMMA RespondLists ==
  ASSUME IInv, ListInv, NEW p, Respond(p)
  PROVE  ListInv'
<1>1. /\ p \in DOMAIN posts /\ posts[p].at = "respond" /\ queue' = Append(queue, Poster(p))
      /\ UNCHANGED <<phase, relist, clients, handshakes, routers, stream, state, moves, published,
                     unseen, last_state, caster, skipped>>
  BY DEF Respond, At
<1>2. Moves(p, "send", posts[p].answer, posts[p].dropped) /\ AnswersKept
  BY <1>1, ListFacts, GotoMoves, GotoKeeps DEF Respond, Places
<1>3. MapOrder' /\ RouterOrder'
  <2>1. Poster(p) \in Tasks
    BY <1>1, ListFacts DEF Tasks
  <2>2. \A a, b : Ahead(queue, a, b) => Ahead(queue', a, b)
    BY <1>1, <2>1, ListFacts, AheadAppend
  <2>3. \A q \in DOMAIN posts :
         /\ posts'[q].at = "read" => posts[q].at = "read"
         /\ posts'[q].at \in {"router", "call"} => posts[q].at \in {"router", "call"}
    BY <1>2 DEF Moves
  <2>4. QED
    BY <1>1, <1>2, <2>2, <2>3, ListFacts, KeptOrders
<1>4. QED
  BY <1>1, <1>2, <1>3, QuietStep

LEMMA SendLists ==
  ASSUME IInv, ListInv, NEW p, send_to(p)
  PROVE  ListInv'
<1> DEFINE c == posts[p].client
           m == FromPost(p, posts[p].answer[1])
<1>1. /\ p \in DOMAIN posts /\ posts[p].at = "send" /\ First(Poster(p)) /\ queue' = Tail(queue)
      /\ Goto(p, "done")
      /\ UNCHANGED <<phase, relist, handshakes, routers, state, moves, published,
                     unseen, last_state, caster, skipped>>
  BY DEF send_to, At, MayWrite
<1>2. Moves(p, "done", posts[p].answer, posts[p].dropped) /\ AnswersKept
  BY <1>1, ListFacts, GotoMoves, GotoKeeps DEF Places
<1>3. MapOrder' /\ RouterOrder'
  <2>1. /\ \A a, b : Ahead(queue, a, b) /\ a # Head(queue) => Ahead(Tail(queue), a, b)
        /\ Head(queue) = Poster(p)
    BY <1>1, ListFacts, AheadTail DEF First
  <2>2. \A q \in DOMAIN posts :
         /\ posts'[q].at = "read" => posts[q].at = "read" /\ q # p
         /\ posts'[q].at \in {"router", "call"} => posts[q].at \in {"router", "call"}
    BY <1>2 DEF Moves
  <2>3. \A a, b \in DOMAIN posts :
           posts'[a].at = "read" /\ posts'[b].at = "read" /\ Ahead(queue, Poster(a), Poster(b)) =>
             Ahead(queue', Poster(a), Poster(b))
    BY <1>1, <2>1, <2>2, TasksDiffer
  <2>4. QED
    BY <1>1, <1>2, <2>2, <2>3, ListFacts, KeptOrders
<1>4. UNCHANGED stream \/ StreamsCarry'
  <2>1. CASE c \in clients /\ phase[c] = "open"
    <3> DEFINE n == Len(stream[c]) + 1
    <3>1. Deliver(c, m)
      BY <2>1 DEF send_to
    <3>2. posts[p] \in Posted /\ p \in Nat /\ c \in Clients /\ posts[p].answer # <<>>
      BY <1>1, ListFacts DEF AnswersReady
    <3>3. posts[p].answer[1] \in Answers /\ posts[p].change \in Nat
      BY <3>2 DEF Posted, Replies
    <3>4. /\ m \in Messages /\ m.kind # "list_changed" /\ m.post = p
          /\ m.tools = posts[p].answer[1].tools /\ m.change = posts[p].change
      BY <3>2, <3>3 DEF FromPost, Messages, Answers
    <3> HIDE DEF m
    <3>5. /\ n \notin DOMAIN stream[c]
          /\ \A d \in Clients : DOMAIN stream'[d] = DOMAIN stream[d] \cup (IF d = c THEN {n} ELSE {})
          /\ \A d \in Clients : \A i \in DOMAIN stream[d] : stream'[d][i] = stream[d][i]
          /\ stream'[c][n] = m
      BY <3>1, <3>2, <3>4, ListFacts, DeliverElements
    <3> HIDE DEF n
    <3>6. ASSUME NEW d \in Clients, NEW i \in DOMAIN stream'[d]
          PROVE  IF IsAnswer(d, i)'
                   THEN LET q == stream'[d][i].post IN
                        /\ posts'[q].answer # <<>> /\ stream'[d][i].tools = posts'[q].answer[1].tools
                        /\ stream'[d][i].change = posts'[q].change
                   ELSE stream'[d][i].tools = {}
      <4>1. CASE i \in DOMAIN stream[d]
        <5>1. stream'[d][i] = stream[d][i] /\ (IsAnswer(d, i)' <=> IsAnswer(d, i))
          BY <3>5, <4>1, <3>6 DEF IsAnswer
        <5>2. IsAnswer(d, i) => stream[d][i].post \in DOMAIN posts
          BY ListFacts DEF AnswersOwn
        <5>3. QED
          BY <1>2, <4>1, <5>1, <5>2, ListFacts DEF StreamsCarry, AnswersKept
      <4>2. CASE d = c /\ i = n
        <5>1. IsAnswer(d, i)' /\ stream'[d][i] = m
          BY <3>4, <3>5, <3>6, <4>2 DEF IsAnswer
        <5>2. posts'[p].answer = posts[p].answer /\ posts'[p].change = posts[p].change
          BY <1>1, <1>2 DEF AnswersKept
        <5>3. QED
          BY <3>2, <3>4, <5>1, <5>2
      <4>3. QED
        BY <3>5, <3>6, <4>1, <4>2
    <3>7. QED
      BY <3>6 DEF StreamsCarry
  <2>2. CASE ~(c \in clients /\ phase[c] = "open")
    BY <2>2 DEF send_to
  <2>3. QED
    BY <2>1, <2>2
<1>5. QED
  BY <1>1, <1>2, <1>3, <1>4, QuietStep

\* A post that hangs up may leave a change behind that is not published, and a client
\* without the list it asked for, which will ask again.
LEMMA HangUpLists ==
  ASSUME IInv, ListInv, NEW p, HangUp(p)
  PROVE  ListInv'
<1> DEFINE c == posts[p].client
<1>1. /\ p \in DOMAIN posts /\ posts[p].at \in {"read", "router", "call", "send"}
      /\ queue' = RemoveFirst(queue, Poster(p))
      /\ routers' = [routers EXCEPT ![c] = RemoveFirst(routers[c], p)]
      /\ relist' = IF AsksForList(posts[p].line) THEN [relist EXCEPT ![c] = TRUE] ELSE relist
      /\ UNCHANGED <<phase, handshakes, stream, published, unseen, last_state, caster, skipped>>
  BY ListFacts DEF HangUp, Typed
<1>2. UNCHANGED <<state, moves>> \/ moves' = moves + 1
  BY DEF HangUp
<1>3. Moves(p, "done", posts[p].answer, TRUE) /\ AnswersKept
  BY ListFacts, HangUpMoves, HangUpKeeps
<1>4. /\ posts'[p].at = "done" /\ posts'[p].dropped
      /\ \A q \in DOMAIN posts \ {p} : posts'[q] = posts[q]
  BY <1>3 DEF Moves
<1>5. MapOrder' /\ RouterOrder'
  <2>1. \A q \in DOMAIN posts :
         /\ posts'[q].at = "read" => posts[q].at = "read" /\ q # p
         /\ posts'[q].at \in {"router", "call"} => posts[q].at \in {"router", "call"} /\ q # p
    BY <1>4
  <2>2. \A a, b : Ahead(queue, a, b) /\ a # Poster(p) /\ b # Poster(p) => Ahead(queue', a, b)
    BY <1>1, ListFacts, AheadRemove
  <2>3. \A a, b \in DOMAIN posts :
           posts'[a].at = "read" /\ posts'[b].at = "read" /\ Ahead(queue, Poster(a), Poster(b)) =>
             Ahead(queue', Poster(a), Poster(b))
    BY <2>1, <2>2, TasksDiffer
  <2>4. c \in Clients /\ routers[c] \in Seq(Nat) /\ routers \in [Clients -> Seq(Nat)]
    BY <1>1, ListFacts DEF Typed
  <2>5. \A a, b : Ahead(routers[c], a, b) /\ a # p /\ b # p => Ahead(RemoveFirst(routers[c], p), a, b)
    BY <2>4, AheadRemove
  <2>6. /\ routers'[c] = RemoveFirst(routers[c], p) /\ \A d \in Clients \ {c} : routers'[d] = routers[d]
    BY <1>1, <2>4
  <2>7. \A d \in Clients, a, b \in DOMAIN posts :
           a \in Readers' /\ b \in Readers' /\ posts[a].client = d /\ Ahead(routers[d], a, b) =>
             Ahead(routers'[d], a, b)
    BY <2>1, <2>5, <2>6 DEF Readers
  <2>8. QED
    BY <1>3, <2>1, <2>3, <2>7, ListFacts, KeptOrders
<1>6. ListsGiven'
  BY <1>1, <1>3, ListFacts, KeptLists
<1>7. StreamsCarry'
  BY <1>1, <1>3, ListFacts, KeptStreams
<1>8. ListeningKept
  BY <1>1 DEF ListeningKept
<1>9. AskersAnswered'
  <2>1. \A q \in DOMAIN posts :
           posts'[q].at \in {"respond", "send", "done"} /\ ~posts'[q].dropped =>
             posts[q].at \in {"respond", "send", "done"} /\ ~posts[q].dropped
    BY <1>4
  <2>2. QED
    BY <1>3, <1>8, <2>1, ListFacts, KeptAskers
<1>10. LastHeard'
  <2>1. ASSUME NEW d \in Clients, NEW a \in DOMAIN posts, LastAsked(d, a), ~relist'[d]
        PROVE  ~posts'[a].dropped
    <3>1. AsksForList(posts[a].line) /\ posts[a].client = d
      BY <2>1 DEF LastAsked
    <3>2. CASE a = p
      <4>1. relist' = [relist EXCEPT ![d] = TRUE]
        BY <1>1, <3>1, <3>2
      <4>2. QED
        BY <2>1, <4>1, ListFacts DEF LastHeard
    <3>3. CASE a # p
      BY <1>1, <1>4, <2>1, <3>3, ListFacts DEF LastHeard
    <3>4. QED
      BY <3>2, <3>3
  <2>2. relist' \in [Clients -> BOOLEAN]
    BY <1>1, ListFacts DEF LastHeard
  <2>3. QED
    BY <1>3, <2>1, <2>2, KeptAnswers DEF LastHeard, AnswersKept
<1>11. Watched'
  BY <1>1, <1>2, ListFacts DEF Watched, Typed
<1>12. ListsFresh'
  <2>1. \A d \in Clients : ~relist'[d] => ~relist[d]
    BY <1>1
  <2>2. ASSUME NEW a \in DOMAIN posts, Fresh(a)
        PROVE  Fresh(a)'
    <3>1. /\ posts[a].change \in Nat /\ moves \in Nat /\ published.change \in Nat
          /\ published.change <= moves
      BY ListFacts DEF Typed, Watched, Posted
    <3>2. posts'[a].change = posts[a].change /\ posts'[a].answer = posts[a].answer
      BY <1>3 DEF AnswersKept
    <3>3. CASE UNCHANGED <<state, moves>>
      BY <1>1, <2>2, <3>2, <3>3 DEF Fresh
    <3>4. CASE moves' = moves + 1
      <4>1. \A n \in Nat : n <= moves => n < moves'
        BY <3>1, <3>4
      <4>2. QED
        BY <1>1, <2>2, <3>1, <3>2, <4>1 DEF Fresh
    <3>5. QED
      BY <1>2, <3>3, <3>4
  <2>3. QED
    BY <1>3, <1>8, <2>1, <2>2, ListFacts, KeptFresh
<1>13. CallersKnown'
  BY <1>1, <1>3, <1>4, ListFacts, KeptCallers
<1>14. QED
  BY <1>5, <1>6, <1>7, <1>9, <1>10, <1>11, <1>12, <1>13 DEF ListInv

\* A post that leaves the block takes an answer along which, if it is a list, is of the
\* moment; of the posts of its client those before it have left, those after it have not.
LEMMA LeavesLists ==
  ASSUME IInv, ListInv, NEW p \in DOMAIN posts, posts[p].at \in {"router", "call"},
         Head(routers[posts[p].client]) = p,
         NEW answer \in Replies, Leaves(p, answer), handshakes \subseteq handshakes',
         answer # <<>> /\ answer[1].tools # {} =>
           /\ AsksForList(posts[p].line) /\ posts[p].client \in handshakes
           /\ answer[1].tools = ToolsIn(state),
         AsksForList(posts[p].line) => answer # <<>>,
         AsksForList(posts[p].line) /\ posts[p].client \in handshakes => answer[1].tools # {},
         UNCHANGED <<phase, relist, clients, queue, stream, state, moves, published, unseen,
                     last_state, caster, skipped>>
  PROVE  ListInv'
<1> DEFINE c == posts[p].client
           place == IF answer = <<>> THEN "done" ELSE "respond"
<1>1. /\ Typed /\ c \in Clients /\ posts[p] \in Posted
      /\ routers[c] \in Seq(Nat) /\ routers[c] # <<>> /\ IsInjective(routers[c])
  BY ListFacts, CallerQueues
<1>2. Moves(p, place, answer, posts[p].dropped) /\ routers' = [routers EXCEPT ![c] = Tail(routers[c])]
  BY <1>1, LeavesMoves DEF Leaves
<1>3. posts'[p].change = moves
  <2>1. /\ posts' = [posts EXCEPT ![p] = [posts[p] EXCEPT !.at = place, !.answer = answer, !.change = moves]]
        /\ posts \in Seq(Posted)
    BY <1>1 DEF Leaves, Typed
  <2>2. posts'[p] = [posts[p] EXCEPT !.at = place, !.answer = answer, !.change = moves]
    BY <2>1
  <2>3. QED
    BY <1>1, <2>2 DEF Posted
<1>4. /\ DOMAIN posts' = DOMAIN posts /\ \A q \in DOMAIN posts \ {p} : posts'[q] = posts[q]
      /\ posts'[p].client = c /\ posts'[p].line = posts[p].line /\ posts'[p].at = place
      /\ posts'[p].answer = answer /\ posts'[p].dropped = posts[p].dropped
      /\ place \in {"done", "respond"}
  BY <1>2 DEF Moves
<1>5. /\ \A q \in DOMAIN posts \ {p} :
           /\ (HasList(q)' <=> HasList(q)) /\ (Routed(q)' <=> Routed(q)) /\ (Past(q)' <=> Past(q))
           /\ q \in Readers' <=> q \in Readers
      /\ p \in Readers /\ p \notin Readers' /\ Past(p)
      /\ Routed(p)' <=> answer # <<>>
      /\ HasList(p)' <=> answer # <<>> /\ answer[1].tools # {}
  BY <1>4, ListFacts DEF HasList, Routed, Past, Readers, AnswersReady
<1>6. \A d, q : LastAsked(d, q)' <=> LastAsked(d, q)
  <2>1. \A q \in DOMAIN posts : posts'[q].client = posts[q].client /\ posts'[q].line = posts[q].line
    BY <1>4
  <2>2. ASSUME NEW d, NEW q PROVE LastAsked(d, q)' <=> LastAsked(d, q)
    BY <1>4, <2>1 DEF LastAsked
  <2>3. QED
    BY <2>2

\* Nobody before p is still with the router, nobody after p has been answered.
<1>7. /\ \A q \in DOMAIN posts : q < p /\ posts[q].client = c => q \notin Readers
      /\ \A q \in DOMAIN posts : p < q /\ posts[q].client = c => ~Routed(q)
  <2>1. \A a : ~Ahead(routers[c], a, p)
    <3>1. \A s \in Seq(Nat) : s # <<>> /\ IsInjective(s) => \A a : ~Ahead(s, a, Head(s))
      BY AheadTail
    <3>2. QED
      BY <1>1, <3>1
  <2>2. QED
    BY <1>5, <2>1, ListFacts DEF RouterOrder
<1>8. \A q \in DOMAIN posts : q # p => q < p \/ p < q
  BY ListFacts
<1>9. MapOrder'
  <2>1. ASSUME NEW a \in DOMAIN posts, NEW b \in DOMAIN posts, a < b, posts'[a].at = "read"
        PROVE  (posts'[b].at = "read" => Ahead(queue', Poster(a), Poster(b))) /\ ~Past(b)'
    <3>1. a # p /\ posts[a].at = "read"
      BY <1>4, <2>1
    <3>2. ~Past(b) /\ (posts[b].at = "read" => Ahead(queue, Poster(a), Poster(b)))
      BY <2>1, <3>1, ListFacts DEF MapOrder
    <3>3. b # p
      BY <1>5, <3>2
    <3>4. QED
      BY <1>4, <1>5, <3>2, <3>3
  <2>2. QED
    BY <1>4, <2>1 DEF MapOrder
<1>10. RouterOrder'
  <2>1. \A a, b : Ahead(routers[c], a, b) /\ a # p => Ahead(Tail(routers[c]), a, b)
    BY <1>1, AheadTail
  <2>2. routers'[c] = Tail(routers[c]) /\ \A d \in Clients \ {c} : routers'[d] = routers[d]
    BY <1>1, <1>2 DEF Typed
  <2>3. ASSUME NEW a \in DOMAIN posts, NEW b \in DOMAIN posts, a < b,
               posts[a].client = posts[b].client, a \in Readers'
        PROVE  (b \in Readers' => Ahead(routers'[posts[a].client], a, b)) /\ ~Routed(b)'
    <3>1. a # p /\ a \in Readers
      BY <1>5, <2>3
    <3>2. b # p
      BY <1>7, <2>3, <3>1
    <3>3. ~Routed(b) /\ (b \in Readers => Ahead(routers[posts[a].client], a, b))
      BY <2>3, <3>1, ListFacts DEF RouterOrder
    <3>4. posts[a].client \in Clients
      BY ListFacts
    <3>5. QED
      BY <1>5, <2>1, <2>2, <3>1, <3>2, <3>3, <3>4
  <2>4. \A q \in DOMAIN posts : posts'[q].client = posts[q].client
    BY <1>4
  <2>5. QED
    BY <1>4, <2>3, <2>4 DEF RouterOrder
<1>11. ListsGiven'
  <2>1. ASSUME NEW a \in DOMAIN posts, HasList(a)'
        PROVE  /\ AsksForList(posts[a].line) /\ posts[a].client \in handshakes
               /\ \A q \in DOMAIN posts :
                    a < q /\ posts[q].client = posts[a].client /\ Routed(q)'
                        /\ AsksForList(posts[q].line) => HasList(q)'
    <3>1. CASE a = p
      <4>1. \A q \in DOMAIN posts : p < q => q # p
        BY ListFacts
      <4>2. QED
        BY <1>5, <1>7, <2>1, <3>1, <4>1
    <3>2. CASE a # p
      <4>1. HasList(a)
        BY <1>5, <2>1, <3>2
      <4>2. AsksForList(posts[a].line) /\ posts[a].client \in handshakes
        BY <4>1, ListFacts DEF ListsGiven
      <4>3. ASSUME NEW q \in DOMAIN posts, a < q, posts[q].client = posts[a].client, Routed(q)',
                   AsksForList(posts[q].line)
            PROVE  HasList(q)'
        <5>1. CASE q = p
          BY <1>5, <4>2, <4>3, <5>1
        <5>2. CASE q # p
          BY <1>5, <4>1, <4>3, <5>2, ListFacts DEF ListsGiven
        <5>3. QED
          BY <5>1, <5>2
      <4>4. QED
        BY <4>2, <4>3
    <3>3. QED
      BY <3>1, <3>2
  <2>2. \A q \in DOMAIN posts : posts'[q].client = posts[q].client /\ posts'[q].line = posts[q].line
    BY <1>4
  <2>3. QED
    BY <1>4, <2>1, <2>2 DEF ListsGiven
<1>12. CallersKnown'
  BY <1>4, ListFacts DEF CallersKnown
<1>13. AskersAnswered'
  BY <1>4, ListFacts DEF AskersAnswered
<1>14. StreamsCarry'
  <2>1. \A d, i : IsAnswer(d, i)' <=> IsAnswer(d, i)
    BY DEF IsAnswer
  <2>2. \A d \in Clients : \A i : IsAnswer(d, i) =>
          stream[d][i].post \in DOMAIN posts /\ stream[d][i].post # p
    BY ListFacts DEF AnswersOwn
  <2>3. QED
    BY <1>4, <2>1, <2>2, ListFacts DEF StreamsCarry
<1>15. LastHeard'
  BY <1>4, <1>6, ListFacts DEF LastHeard
<1>16. Watched'
  BY ListFacts DEF Watched
<1>17. ListsFresh'
  <2>1. ASSUME NEW d \in Clients, NEW a \in DOMAIN posts,
               LastAsked(d, a), ~relist[d], phase[d] = "open", HasList(a)'
        PROVE  Fresh(a)'
    <3>1. CASE a = p
      <4>1. posts'[p].answer[1].tools = ToolsIn(state)
        BY <1>4, <1>5, <2>1, <3>1
      <4>2. moves = 0 => last_state = state
        BY ListFacts DEF Watched, Typed
      <4>3. QED
        BY <1>3, <3>1, <4>1, <4>2 DEF Fresh
    <3>2. CASE a # p
      <4>1. Fresh(a) /\ posts'[a] = posts[a]
        BY <1>4, <1>5, <2>1, <3>2, ListFacts DEF ListsFresh
      <4>2. QED
        BY <4>1 DEF Fresh
    <3>3. QED
      BY <3>1, <3>2
  <2>2. QED
    BY <1>4, <1>6, <2>1 DEF ListsFresh
<1>18. QED
  BY <1>9, <1>10, <1>11, <1>12, <1>13, <1>14, <1>15, <1>16, <1>17 DEF ListInv

LEMMA RouteLists ==
  ASSUME IInv, ListInv, NEW p, Route(p)
  PROVE  ListInv'
<1> DEFINE c == posts[p].client
           m == parse_incoming(posts[p].line)
           known == c \in handshakes
<1>1. /\ p \in DOMAIN posts /\ posts[p].at = "router" /\ Head(routers[c]) = p
      /\ handshakes \subseteq handshakes'
      /\ UNCHANGED <<phase, relist, clients, queue, stream, state, moves, published, unseen,
                     last_state, caster, skipped>>
  BY DEF Route, At
<1>2. posts[p].line \in PostLines /\ m.kind # "malformed"
  BY <1>1, ListFacts DEF Posted, AnswersReady
<1>3. CASE Runs(m, known, state)
  <2>1. Moves(p, "call", posts[p].answer, posts[p].dropped) /\ AnswersKept /\ UNCHANGED routers
    BY <1>1, <1>3, ListFacts, GotoMoves, GotoKeeps DEF Route, Places
  <2>2. c \in handshakes
    BY <1>3 DEF Runs, Refused
  <2>3. MapOrder' /\ RouterOrder'
    <3>1. \A q \in DOMAIN posts :
           /\ posts'[q].at = "read" => posts[q].at = "read"
           /\ posts'[q].at \in {"router", "call"} => posts[q].at \in {"router", "call"}
      BY <1>1, <2>1 DEF Moves
    <3>2. QED
      BY <1>1, <2>1, <3>1, ListFacts, KeptOrders
  <2>4. QED
    BY <1>1, <2>1, <2>2, <2>3, QuietStep
<1>4. CASE ~Runs(m, known, state)
  <2> DEFINE answer == handle_message(m, known, state)
  <2>1. Leaves(p, answer)
    BY <1>4 DEF Route
  <2>2. answer \in Replies
    BY <1>2, HandleAnswers
  <2>3. /\ answer # <<>> /\ answer[1].tools # {} =>
             AsksForList(posts[p].line) /\ known /\ answer[1].tools = ToolsIn(state)
        /\ AsksForList(posts[p].line) => answer # <<>>
        /\ AsksForList(posts[p].line) /\ known => answer[1].tools # {}
    <3>1. /\ answer # <<>> /\ answer[1].tools # {} =>
               /\ AsksForList(posts[p].line) /\ ~Refused(m, known)
               /\ answer[1].tools = ToolsIn(state)
          /\ AsksForList(posts[p].line) => answer # <<>>
          /\ AsksForList(posts[p].line) /\ ~Refused(m, known) => answer[1].tools # {}
      BY <1>2, HandleLists
    <3>2. AsksForList(posts[p].line) => m.method # "initialize"
      BY <1>2, LinesAssumption DEF AsksForList, parse_incoming, Message
    <3>3. AsksForList(posts[p].line) => (~Refused(m, known) <=> known)
      BY <3>2 DEF Refused
    <3> HIDE DEF answer, m
    <3>4. QED
      BY <3>1, <3>3
  <2> HIDE DEF answer
  <2>4. QED
    BY <1>1, <2>1, <2>2, <2>3, LeavesLists
<1>5. QED
  BY <1>3, <1>4

LEMMA ReturnLists ==
  ASSUME IInv, ListInv, NEW p, Return(p)
  PROVE  ListInv'
<1> DEFINE m == parse_incoming(posts[p].line)
           answer == handle_message(m, TRUE, state)
<1>1. /\ p \in DOMAIN posts /\ posts[p].at = "call" /\ Leaves(p, answer) /\ UNCHANGED handshakes
      /\ UNCHANGED <<phase, relist, clients, queue, stream, state, moves, published, unseen,
                     last_state, caster, skipped>>
  BY DEF Return, At
<1>2. posts[p].line \in PostLines /\ m.kind # "malformed" /\ posts[p].client \in handshakes
  BY <1>1, ListFacts DEF Posted, AnswersReady, CallersKnown
<1>3. Head(routers[posts[p].client]) = p
  BY <1>1, ListFacts DEF CallersFirst
<1>4. answer \in Replies
  BY <1>2, HandleAnswers
<1>5. /\ answer # <<>> /\ answer[1].tools # {} =>
           AsksForList(posts[p].line) /\ answer[1].tools = ToolsIn(state)
      /\ AsksForList(posts[p].line) => answer # <<>>
      /\ AsksForList(posts[p].line) => answer[1].tools # {}
  <2>1. ~Refused(m, TRUE)
    BY DEF Refused
  <2>2. QED
    BY <1>2, <2>1, HandleLists
<1> HIDE DEF answer
<1>6. QED
  BY <1>1, <1>2, <1>3, <1>4, <1>5, LeavesLists

LEMMA PostLists ==
  ASSUME IInv, ListInv, NEW c \in Clients, Post(c)
  PROVE  ListInv'
<1>0. PICK n \in Nat : n = Len(posts) + 1
  BY ListFacts, LenProperties DEF Typed
<1>1. PICK line \in PostLines :
        LET malformed == parse_incoming(line).kind = "malformed" IN
        /\ posts' = Append(posts, [client |-> c, line |-> line, dropped |-> FALSE, change |-> 0,
                                   at |-> IF malformed THEN "respond" ELSE "read",
                                   answer |-> IF malformed THEN <<ParseError>> ELSE <<>>])
        /\ queue' = IF malformed THEN queue ELSE Append(queue, Poster(n))
        /\ relist' = IF AsksForList(line) THEN [relist EXCEPT ![c] = FALSE] ELSE relist
  BY <1>0 DEF Post
<1> DEFINE malformed == parse_incoming(line).kind = "malformed"
           new == [client |-> c, line |-> line, dropped |-> FALSE, change |-> 0,
                   at |-> IF malformed THEN "respond" ELSE "read",
                   answer |-> IF malformed THEN <<ParseError>> ELSE <<>>]
<1>2. UNCHANGED <<phase, clients, routers, handshakes, stream, state, moves, published, unseen,
                  last_state, caster, skipped>>
  BY DEF Post
<1>3. new \in Posted
  BY DEF Posted, Places, Replies, Answers, ParseError, Answer
<1>4. /\ n \notin DOMAIN posts /\ DOMAIN posts' = DOMAIN posts \cup {n} /\ posts'[n] = new
      /\ \A q \in DOMAIN posts : posts'[q] = posts[q] /\ q < n /\ q # n /\ ~(n < q)
  <2>1. posts \in Seq(Posted) /\ posts' = Append(posts, new) /\ DOMAIN posts = 1..Len(posts) /\ Len(posts) \in Nat
    BY <1>1, ListFacts, LenProperties DEF Typed
  <2>2. /\ DOMAIN posts' = DOMAIN posts \cup {n} /\ posts'[n] = new
        /\ \A q \in DOMAIN posts : posts'[q] = posts[q]
    BY <1>0, <1>3, <2>1, AppendElements
  <2>3. QED
    BY <1>0, <2>1, <2>2
<1>5. /\ posts'[n].client = c /\ posts'[n].line = line /\ ~posts'[n].dropped
      /\ posts'[n].at = (IF malformed THEN "respond" ELSE "read")
      /\ posts'[n].answer = (IF malformed THEN <<ParseError>> ELSE <<>>)
  BY <1>4
<1> HIDE DEF new
<1>6. ~HasList(n)' /\ ~Routed(n)' /\ ~Past(n)' /\ n \notin Readers'
  <2>1. <<ParseError>>[1].tools = {}
    BY DEF ParseError, Answer
  <2>2. QED
    BY <1>5, <2>1 DEF HasList, Routed, Past, Readers
<1>7. \A q \in DOMAIN posts :
        /\ (HasList(q)' <=> HasList(q)) /\ (Routed(q)' <=> Routed(q)) /\ (Past(q)' <=> Past(q))
        /\ q \in Readers' <=> q \in Readers
  BY <1>4 DEF HasList, Routed, Past, Readers

\* The request that the client goes by stays the same, unless this is a new one.
<1>8. ASSUME NEW d \in Clients, NEW q \in DOMAIN posts', LastAsked(d, q)', ~relist'[d]
      PROVE  \/ q = n
             \/ q \in DOMAIN posts /\ LastAsked(d, q) /\ ~relist[d]
  <2>1. CASE d = c /\ AsksForList(line)
    <3>1. q \in DOMAIN posts => n > q
      BY <1>4, ListFacts
    <3>2. n \in DOMAIN posts' /\ posts'[n].client = d /\ AsksForList(posts'[n].line)
      BY <1>4, <1>5, <2>1
    <3>3. q \notin DOMAIN posts
      BY <1>8, <3>1, <3>2 DEF LastAsked
    <3>4. QED
      BY <1>4, <3>3
  <2>2. CASE ~(d = c /\ AsksForList(line))
    <3>1. relist'[d] = relist[d]
      BY <1>1, <2>2, ListFacts DEF LastHeard
    <3>2. q \in DOMAIN posts => LastAsked(d, q)
      BY <1>4, <1>8 DEF LastAsked
    <3>3. QED
      BY <1>4, <1>8, <3>1, <3>2
  <2>3. QED
    BY <2>1, <2>2
<1>9. MapOrder'
  <2>1. Poster(n) \in Tasks /\ queue \in Seq(Tasks)
    BY <1>4, ListFacts DEF Tasks
  <2>2. /\ \A a, b : Ahead(queue, a, b) => Ahead(queue', a, b)
        /\ ~malformed => \A a \in Range(queue) : Ahead(queue', a, Poster(n))
    BY <1>1, <2>1, AheadAppend
  <2>3. ASSUME NEW a \in DOMAIN posts', NEW b \in DOMAIN posts', a < b, posts'[a].at = "read"
        PROVE  (posts'[b].at = "read" => Ahead(queue', Poster(a), Poster(b))) /\ ~Past(b)'
    <3>1. n < n => FALSE
      BY <1>4
    <3>2. a \in DOMAIN posts /\ posts[a].at = "read"
      BY <1>4, <2>3, <3>1
    <3>3. CASE b = n
      <4>1. Poster(a) \in Range(queue)
        BY <3>2, ListFacts DEF MapQueue, Waiting
      <4>2. QED
        BY <1>5, <1>6, <2>2, <3>3, <4>1
    <3>4. CASE b \in DOMAIN posts
      BY <1>4, <1>7, <2>2, <2>3, <3>2, <3>4, ListFacts DEF MapOrder
    <3>5. QED
      BY <1>4, <3>3, <3>4
  <2>4. QED
    BY <2>3 DEF MapOrder
<1>10. RouterOrder'
  <2>1. ASSUME NEW a \in DOMAIN posts', NEW b \in DOMAIN posts', a < b,
               posts'[a].client = posts'[b].client, a \in Readers'
        PROVE  (b \in Readers' => Ahead(routers'[posts'[a].client], a, b)) /\ ~Routed(b)'
    <3>1. a \in DOMAIN posts /\ a \in Readers
      BY <1>4, <1>6, <1>7, <2>1
    <3>2. CASE b = n
      BY <1>6, <3>2
    <3>3. CASE b \in DOMAIN posts
      BY <1>2, <1>4, <1>7, <2>1, <3>1, <3>3, ListFacts DEF RouterOrder
    <3>4. QED
      BY <1>4, <3>2, <3>3
  <2>2. QED
    BY <2>1 DEF RouterOrder
<1>11. ListsGiven'
  BY <1>2, <1>4, <1>6, <1>7, ListFacts DEF ListsGiven
<1>12. CallersKnown'
  BY <1>2, <1>4, <1>5, ListFacts DEF CallersKnown
<1>13. AskersAnswered'
  <2>1. <<ParseError>> # <<>>
    OBVIOUS
  <2>2. QED
    BY <1>2, <1>4, <1>5, <2>1, ListFacts DEF AskersAnswered
<1>14. StreamsCarry'
  <2>1. \A d, i : IsAnswer(d, i)' <=> IsAnswer(d, i)
    BY <1>2 DEF IsAnswer
  <2>2. \A d \in Clients : \A i : IsAnswer(d, i) => stream[d][i].post \in DOMAIN posts
    BY ListFacts DEF AnswersOwn
  <2>3. QED
    BY <1>2, <1>4, <2>1, <2>2, ListFacts DEF StreamsCarry
<1>15. LastHeard'
  <2>1. relist' \in [Clients -> BOOLEAN]
    BY <1>1, ListFacts DEF LastHeard
  <2>2. QED
    BY <1>4, <1>5, <1>8, <2>1, ListFacts DEF LastHeard
<1>16. Watched'
  BY <1>2, ListFacts DEF Watched
<1>17. ListsFresh'
  <2>1. ASSUME NEW d \in Clients, NEW q \in DOMAIN posts',
               LastAsked(d, q)', ~relist'[d], phase[d] = "open", HasList(q)'
        PROVE  Fresh(q)'
    <3>1. q \in DOMAIN posts /\ LastAsked(d, q) /\ ~relist[d]
      BY <1>6, <1>8, <2>1
    <3>2. Fresh(q) /\ posts'[q] = posts[q]
      BY <1>4, <1>7, <2>1, <3>1, ListFacts DEF ListsFresh
    <3>3. QED
      BY <1>2, <3>2 DEF Fresh
  <2>2. QED
    BY <1>2, <2>1 DEF ListsFresh
<1>18. QED
  BY <1>9, <1>10, <1>11, <1>12, <1>13, <1>14, <1>15, <1>16, <1>17 DEF ListInv

\* Steps that leave the posts alone.
LEMMA PostsStayLists ==
  ASSUME IInv, ListInv, UNCHANGED <<posts, routers, handshakes>>, ListeningKept,
         \A p, q : Ahead(queue, Poster(p), Poster(q)) => Ahead(queue', Poster(p), Poster(q)),
         StreamsCarry', Watched', relist' \in [Clients -> BOOLEAN],
         \A c \in Clients : ~relist'[c] => ~relist[c],
         \A c \in Clients, p \in DOMAIN posts :
           posts[p].client = c /\ HasList(p) /\ phase[c] = "open" /\ ~relist'[c] /\ Fresh(p) => Fresh(p)'
  PROVE  ListInv'
<1>1. AnswersKept
  BY DEF AnswersKept
<1>2. MapOrder' /\ RouterOrder'
  <2>1. \A q \in DOMAIN posts :
          /\ posts'[q].at = "read" => posts[q].at = "read"
          /\ posts'[q].at \in {"router", "call"} => posts[q].at \in {"router", "call"}
    OBVIOUS
  <2>2. QED
    BY <1>1, <2>1, ListFacts, KeptOrders
<1>3. ListsGiven' /\ CallersKnown'
  BY <1>1, ListFacts, KeptLists, KeptCallers
<1>4. AskersAnswered'
  BY <1>1, ListFacts, KeptAskers
<1>5. LastHeard'
  BY <1>1, ListFacts, KeptHeard
<1>6. ListsFresh'
  BY <1>1, ListFacts, KeptFresh
<1>7. QED
  BY <1>2, <1>3, <1>4, <1>5, <1>6 DEF ListInv

\* Of those, the steps that leave session and broadcaster alone as well.
LEMMA SessionStays ==
  ASSUME IInv, ListInv, ListeningKept,
         UNCHANGED <<posts, routers, handshakes, stream, relist, state, moves, published, unseen,
                     last_state, caster, skipped>>,
         \A p, q : Ahead(queue, Poster(p), Poster(q)) => Ahead(queue', Poster(p), Poster(q))
  PROVE  ListInv'
<1>1. AnswersKept
  BY DEF AnswersKept
<1>2. StreamsCarry'
  BY <1>1, ListFacts, KeptStreams
<1>3. Watched' /\ relist' \in [Clients -> BOOLEAN]
  BY ListFacts DEF Watched, LastHeard
<1>4. \A p \in DOMAIN posts : Fresh(p) => Fresh(p)'
  BY <1>1, FreshStays
<1>5. QED
  BY <1>2, <1>3, <1>4, PostsStayLists

LEMMA ClientLists ==
  ASSUME IInv, ListInv, NEW c \in Clients, Connect(c) \/ register_client(c) \/ Leave(c)
  PROVE  ListInv'
<1>1. UNCHANGED <<posts, routers, handshakes, stream, relist, state, moves, published, unseen,
                  last_state, caster, skipped>>
  BY DEF Connect, register_client, Leave
<1>2. ListeningKept
  <2>1. phase \in [Clients -> {"new", "connecting", "open", "gone"}]
    BY ListFacts DEF Typed
  <2>2. \A q \in DOMAIN posts : posts[q].client \in Clients /\ phase[posts[q].client] \in {"open", "gone"}
    BY ListFacts DEF PostersConnected
  <2>3. phase[c] \in {"new", "connecting"} \/ phase'[c] = "gone"
    <3>1. CASE Connect(c)
      BY <3>1 DEF Connect
    <3>2. CASE Leave(c)
      BY <2>1, <3>2 DEF Leave
    <3>3. CASE register_client(c)
      <4>1. Head(queue) = Connector(c) /\ queue # <<>>
        BY <3>3 DEF register_client, MayWrite, First
      <4>2. Connector(c) \in Range(queue)
        BY <4>1, ListFacts, TailOnce
      <4>3. QED
        BY <4>2, ListFacts DEF MapQueue
    <3>4. QED
      BY <3>1, <3>2, <3>3
  <2>4. \A d \in Clients : d # c => phase'[d] = phase[d]
    BY <2>1 DEF Connect, register_client, Leave
  <2>5. QED
    BY <2>2, <2>3, <2>4 DEF ListeningKept
<1>3. \A p, q : Ahead(queue, Poster(p), Poster(q)) => Ahead(queue', Poster(p), Poster(q))
  <2>1. CASE Connect(c)
    <3>1. Connector(c) \in Tasks /\ queue' = Append(queue, Connector(c))
      BY <2>1 DEF Connect, Tasks
    <3>2. QED
      BY <3>1, ListFacts, AheadAppend
  <2>2. CASE register_client(c)
    <3>1. Head(queue) = Connector(c) /\ queue # <<>> /\ queue' = Tail(queue)
      BY <2>2 DEF register_client, MayWrite, First
    <3>2. \A a, b : Ahead(queue, a, b) /\ a # Head(queue) => Ahead(Tail(queue), a, b)
      BY <3>1, ListFacts, AheadTail
    <3>3. QED
      BY <3>1, <3>2, TasksDiffer
  <2>3. CASE Leave(c)
    BY <2>3 DEF Leave
  <2>4. QED
    BY <2>1, <2>2, <2>3
<1>4. QED
  BY <1>1, <1>2, <1>3, SessionStays

\* A list that was of the moment is now older than the change that is published.
LEMMA TransitionLists ==
  ASSUME IInv, ListInv, NEW s \in SessionStates, transition_to(s)
  PROVE  ListInv'
<1>1. /\ moves' = moves + 1 /\ state' = s /\ published' = [change |-> moves + 1, state |-> s] /\ unseen'
      /\ UNCHANGED <<phase, relist, queue, handshakes, routers, posts, stream, last_state, caster, skipped>>
  BY DEF transition_to
<1>2. moves \in Nat /\ published.change \in Nat
  BY ListFacts DEF Typed
<1>3. AnswersKept /\ ListeningKept
  BY <1>1 DEF AnswersKept, ListeningKept
<1>4. StreamsCarry'
  BY <1>1, <1>3, ListFacts, KeptStreams
<1>5. published'.change = moves + 1 /\ published'.state = s
  BY <1>1
<1>6. Watched'
  <2>1. moves + 1 # 0 /\ moves + 1 <= moves + 1
    BY <1>2
  <2>2. QED
    BY <1>1, <1>5, <2>1 DEF Watched
<1>7. ASSUME NEW p \in DOMAIN posts, Fresh(p)
      PROVE  Fresh(p)'
  <2>1. posts[p].change \in Nat /\ published.change <= moves
    BY ListFacts DEF Posted, Watched
  <2>2. \A n \in Nat : n < moves \/ n = moves \/ n < published.change => n < moves + 1
    BY <1>2, <2>1
  <2>3. QED
    BY <1>1, <1>5, <1>7, <2>1, <2>2 DEF Fresh
<1>8. QED
  BY <1>1, <1>3, <1>4, <1>6, <1>7, ListFacts, PostsStayLists DEF LastHeard

LEMMA WakeLists ==
  ASSUME IInv, ListInv, Wake
  PROVE  ListInv'
<1>1. /\ caster = "watch" /\ unseen /\ ~unseen' /\ caster' = "look"
      /\ UNCHANGED <<phase, relist, queue, handshakes, routers, posts, stream, state, moves, published,
                     last_state, skipped>>
  BY DEF Wake
<1>2. AnswersKept /\ ListeningKept
  BY <1>1 DEF AnswersKept, ListeningKept
<1>3. StreamsCarry'
  BY <1>1, <1>2, ListFacts, KeptStreams
<1>4. Watched'
  BY <1>1, ListFacts DEF Watched
<1>5. \A p \in DOMAIN posts : Fresh(p) => Fresh(p)'
  BY <1>1 DEF Fresh
<1>6. QED
  BY <1>1, <1>2, <1>3, <1>4, <1>5, ListFacts, PostsStayLists DEF LastHeard

\* If the broadcaster finds the state it knows, every change before has been skipped, and
\* the lists that were made before the first one are good again.
LEMMA LookLists ==
  ASSUME IInv, ListInv, Look
  PROVE  ListInv'
<1>1. /\ caster = "look"
      /\ UNCHANGED <<phase, relist, handshakes, routers, posts, stream, state, moves, published, unseen>>
      /\ \/ /\ published.state # last_state /\ last_state' = published.state
            /\ caster' = "broadcast" /\ queue' = Append(queue, Broadcaster) /\ skipped' = skipped
         \/ /\ published.state = last_state /\ caster' = "watch"
            /\ skipped' = skipped \cup 1..(published.change - 1)
            /\ UNCHANGED <<last_state, queue>>
  BY DEF Look
<1>2. AnswersKept /\ ListeningKept
  BY <1>1 DEF AnswersKept, ListeningKept
<1>3. StreamsCarry'
  BY <1>1, <1>2, ListFacts, KeptStreams
<1>4. Watched'
  BY <1>1, ListFacts DEF Watched
<1>5. \A p, q : Ahead(queue, Poster(p), Poster(q)) => Ahead(queue', Poster(p), Poster(q))
  <2>1. Broadcaster \in Tasks
    BY DEF Tasks
  <2>2. QED
    BY <1>1, <2>1, ListFacts, AheadAppend
<1>6. ASSUME NEW p \in DOMAIN posts, Fresh(p)
      PROVE  Fresh(p)'
  <2>1. posts[p].change \in Nat /\ published.change \in Nat
    BY ListFacts DEF Posted, Typed
  <2>2. posts[p].change # 0 /\ posts[p].change < published.change =>
          posts[p].change \in 1..(published.change - 1)
    BY <2>1
  <2>3. CASE caster' = "broadcast"
    BY <1>1, <1>6, <2>3 DEF Fresh
  <2>4. CASE caster' = "watch"
    BY <1>1, <1>6, <2>2, <2>4 DEF Fresh
  <2>5. QED
    BY <1>1, <2>3, <2>4
<1>7. QED
  BY <1>1, <1>2, <1>3, <1>4, <1>5, <1>6, ListFacts, PostsStayLists DEF LastHeard

\* Whoever listens is told, and wants the list again.
LEMMA BroadcastLists ==
  ASSUME IInv, ListInv, broadcast_all
  PROVE  ListInv'
<1>1. /\ caster = "broadcast" /\ First(Broadcaster) /\ queue' = Tail(queue) /\ caster' = "watch"
      /\ stream' = [c \in Clients |-> IF c \in clients /\ phase[c] = "open"
                                        THEN Append(stream[c], Notice) ELSE stream[c]]
      /\ relist' = [c \in Clients |-> relist[c] \/ stream'[c] # stream[c]]
      /\ UNCHANGED <<phase, handshakes, routers, posts, state, moves, published, unseen, last_state, skipped>>
  BY DEF broadcast_all, MayWrite
<1>2. AnswersKept /\ ListeningKept
  BY <1>1 DEF AnswersKept, ListeningKept
<1>3. Notice \in Messages /\ Notice.kind = "list_changed" /\ Notice.tools = {}
  BY DEF Notice, Messages
<1>4. \A d \in Clients :
        /\ stream[d] \in Seq(Messages) /\ Append(stream[d], Notice) \in Seq(Messages)
        /\ DOMAIN Append(stream[d], Notice) = DOMAIN stream[d] \cup {Len(stream[d]) + 1}
        /\ \A i \in DOMAIN stream[d] : Append(stream[d], Notice)[i] = stream[d][i]
        /\ Append(stream[d], Notice)[Len(stream[d]) + 1] = Notice
        /\ Append(stream[d], Notice) # stream[d]
  <2>1. ASSUME NEW d \in Clients
        PROVE  /\ stream[d] \in Seq(Messages) /\ Append(stream[d], Notice) \in Seq(Messages)
               /\ DOMAIN Append(stream[d], Notice) = DOMAIN stream[d] \cup {Len(stream[d]) + 1}
               /\ \A i \in DOMAIN stream[d] : Append(stream[d], Notice)[i] = stream[d][i]
               /\ Append(stream[d], Notice)[Len(stream[d]) + 1] = Notice
               /\ Append(stream[d], Notice) # stream[d]
    <3>1. stream[d] \in Seq(Messages)
      BY ListFacts DEF Typed
    <3>2. /\ Append(stream[d], Notice) \in Seq(Messages)
          /\ DOMAIN Append(stream[d], Notice) = DOMAIN stream[d] \cup {Len(stream[d]) + 1}
          /\ \A i \in DOMAIN stream[d] : Append(stream[d], Notice)[i] = stream[d][i]
          /\ Append(stream[d], Notice)[Len(stream[d]) + 1] = Notice /\ Len(stream[d]) + 1 \notin DOMAIN stream[d]
      BY <1>3, <3>1, AppendElements
    <3>3. Append(stream[d], Notice) # stream[d]
      BY <3>2
    <3>4. QED
      BY <3>1, <3>2, <3>3
  <2>2. QED
    BY <2>1
<1>5. /\ \A d \in Clients : stream'[d] = IF d \in clients /\ phase[d] = "open"
                                           THEN Append(stream[d], Notice) ELSE stream[d]
      /\ \A d \in Clients : relist'[d] = (relist[d] \/ stream'[d] # stream[d])
      /\ relist' \in [Clients -> BOOLEAN]
  BY <1>1
<1>6. StreamsCarry'
  <2>1. ASSUME NEW d \in Clients, NEW i \in DOMAIN stream'[d]
        PROVE  IF IsAnswer(d, i)'
                 THEN LET q == stream'[d][i].post IN
                      /\ posts'[q].answer # <<>> /\ stream'[d][i].tools = posts'[q].answer[1].tools
                      /\ stream'[d][i].change = posts'[q].change
                 ELSE stream'[d][i].tools = {}
    <3>1. CASE i \in DOMAIN stream[d]
      <4>1. stream'[d][i] = stream[d][i] /\ (IsAnswer(d, i)' <=> IsAnswer(d, i))
        <5>1. stream'[d][i] = stream[d][i]
          <6>1. CASE stream'[d] = stream[d]
            BY <6>1
          <6>2. CASE stream'[d] = Append(stream[d], Notice)
            BY <1>4, <3>1, <6>2
          <6>3. QED
            BY <1>5, <6>1, <6>2
        <5>2. QED
          BY <2>1, <3>1, <5>1 DEF IsAnswer
      <4>2. QED
        BY <1>1, <3>1, <4>1, ListFacts DEF StreamsCarry
    <3>2. CASE i \notin DOMAIN stream[d]
      <4>1. stream'[d][i] = Notice
        <5>1. stream'[d] = Append(stream[d], Notice)
          BY <1>5, <2>1, <3>2
        <5>2. i = Len(stream[d]) + 1
          BY <1>4, <2>1, <3>2, <5>1
        <5>3. QED
          BY <1>4, <5>1, <5>2
      <4>2. QED
        BY <1>3, <4>1 DEF IsAnswer
    <3>3. QED
      BY <3>1, <3>2
  <2>2. QED
    BY <2>1 DEF StreamsCarry
<1>7. Watched'
  BY <1>1, ListFacts DEF Watched
<1>8. \A p, q : Ahead(queue, Poster(p), Poster(q)) => Ahead(queue', Poster(p), Poster(q))
  <2>1. /\ \A a, b : Ahead(queue, a, b) /\ a # Head(queue) => Ahead(Tail(queue), a, b)
        /\ Head(queue) = Broadcaster
    BY <1>1, ListFacts, AheadTail DEF First
  <2>2. QED
    BY <1>1, <2>1, TasksDiffer
<1>9. \A d \in Clients : phase[d] = "open" => relist'[d]
  BY <1>4, <1>5, ListFacts DEF ListenersKnown
<1>10. QED
  BY <1>1, <1>2, <1>5, <1>6, <1>7, <1>8, <1>9, PostsStayLists

-----------------------------------------------------------------------------
(* What a client that asks again whenever it is told goes by.              *)

LEMMA NextLists == IInv /\ ListInv /\ [Next]_httpVars => ListInv'
<1> SUFFICES ASSUME IInv, ListInv, [Next]_httpVars PROVE ListInv'
  OBVIOUS
<1>1. ASSUME NEW c \in Clients, Connect(c) \/ register_client(c) \/ Leave(c) \/ Post(c)
      PROVE  ListInv'
  BY <1>1, ClientLists, PostLists
<1>2. ASSUME NEW p, Handle(p) \/ HangUp(p)
      PROVE  ListInv'
  BY <1>2, LookupLists, RouteLists, ReturnLists, RespondLists, SendLists, HangUpLists DEF Handle
<1>3. CASE Cast \/ \E s \in SessionStates : transition_to(s)
  BY <1>3, TransitionLists, WakeLists, LookLists, BroadcastLists DEF Cast
<1>4. CASE UNCHANGED httpVars
  <2>1. ListeningKept
    BY <1>4 DEF ListeningKept, httpVars
  <2>2. QED
    BY <1>4, <2>1, SessionStays DEF httpVars
<1>5. QED
  BY <1>1, <1>2, <1>3, <1>4 DEF Next

LEMMA ListInvariance == Spec => [](IInv /\ ListInv)
BY InitInv, InitLists, NextInv, NextLists, PTL DEF Spec

\* A client that has asked for the list has asked a last time.
LEMMA SomeLastAsked ==
  ASSUME Typed, NEW c, NEW p \in DOMAIN posts, posts[p].client = c, AsksForList(posts[p].line)
  PROVE  \E q : LastAsked(c, q)
<1> DEFINE asked == {q \in DOMAIN posts : posts[q].client = c /\ AsksForList(posts[q].line)}
           n == Len(posts)
           T == {k \in 0..n : n - k \in asked}
<1>1. n \in Nat /\ DOMAIN posts = 1..n
  BY LenProperties DEF Typed
<1>2. n - p \in T
  <2>1. p \in asked /\ p \in 1..n
    BY <1>1
  <2>2. n - p \in 0..n /\ n - (n - p) = p
    BY <1>1, <2>1
  <2> HIDE DEF asked
  <2>3. QED
    BY <2>1, <2>2
<1>3. T \in SUBSET Nat
  BY <1>1
<1>4. PICK k \in T : \A j \in T : k <= j
  BY <1>2, <1>3, SmallestElement
<1>5. n - k \in asked
  OBVIOUS
<1>6. ASSUME NEW q \in asked, q > n - k
      PROVE  FALSE
  <2>1. q \in 1..n /\ k \in 0..n
    BY <1>1
  <2>2. n - q \in 0..n /\ n - (n - q) = q /\ ~(k <= n - q)
    BY <1>1, <1>6, <2>1
  <2> HIDE DEF asked
  <2>3. n - q \in T
    BY <2>2
  <2>4. QED
    BY <1>4, <2>2, <2>3
<1>7. LastAsked(c, n - k)
  BY <1>5, <1>6 DEF LastAsked
<1>8. QED
  BY <1>7

\* At rest, and as long as it listens and wants no list, the list it goes by answers its
\* last request.
LEMMA ViewAnswersLast ==
  ASSUME IInv, ListInv, NEW c \in Clients, Quiescent, phase[c] = "open", ~relist[c], Lists(c) # {}
  PROVE  \E p \in DOMAIN posts :
           /\ LastAsked(c, p) /\ HasList(p)
           /\ View(c).tools = posts[p].answer[1].tools /\ View(c).change = posts[p].change
<1>1. \A i \in Lists(c) :
        LET q == stream[c][i].post IN
        /\ q \in DOMAIN posts /\ posts[q].client = c /\ HasList(q) /\ AsksForList(posts[q].line)
        /\ stream[c][i].tools = posts[q].answer[1].tools /\ stream[c][i].change = posts[q].change
  <2>1. ASSUME NEW i \in Lists(c)
        PROVE  LET q == stream[c][i].post IN
               /\ q \in DOMAIN posts /\ posts[q].client = c /\ HasList(q) /\ AsksForList(posts[q].line)
               /\ stream[c][i].tools = posts[q].answer[1].tools /\ stream[c][i].change = posts[q].change
    <3>1. IsAnswer(c, i)
      BY ListFacts DEF Lists, StreamsCarry
    <3>2. stream[c][i].tools # {} /\ i \in DOMAIN stream[c]
      BY DEF Lists
    <3>3. stream[c][i].post \in DOMAIN posts /\ posts[stream[c][i].post].client = c
      BY <3>1, ListFacts DEF AnswersOwn
    <3>4. /\ HasList(stream[c][i].post)
          /\ stream[c][i].tools = posts[stream[c][i].post].answer[1].tools
          /\ stream[c][i].change = posts[stream[c][i].post].change
      BY <3>1, <3>2, ListFacts DEF StreamsCarry, HasList
    <3>5. QED
      BY <3>3, <3>4, ListFacts DEF ListsGiven
  <2>2. QED
    BY <2>1
<1>2. PICK i \in Lists(c) : TRUE
  OBVIOUS
<1>3. PICK p : LastAsked(c, p)
  BY <1>1, <1>2, ListFacts, SomeLastAsked
<1>4. /\ p \in DOMAIN posts /\ posts[p].client = c /\ AsksForList(posts[p].line)
      /\ posts[p].at = "done" /\ ~posts[p].dropped
  BY <1>3, ListFacts DEF LastAsked, LastHeard, Quiescent, At
<1>5. \A j \in Lists(c) : stream[c][j].post <= p
  <2>1. ASSUME NEW j \in Lists(c)
        PROVE  stream[c][j].post <= p
    <3>1. ~(stream[c][j].post > p)
      BY <1>1, <1>3 DEF LastAsked
    <3>2. stream[c][j].post \in Nat /\ p \in Nat
      BY <1>1, <1>4, ListFacts
    <3>3. QED
      BY <3>1, <3>2
  <2>2. QED
    BY <2>1

\* The last request has been answered too, and with a list.
<1>6. HasList(p)
  <2>1. posts[p].answer # <<>>
    BY <1>4, ListFacts DEF AskersAnswered
  <2>2. Routed(p)
    BY <1>4, <2>1 DEF Routed, AsksForList
  <2>3. CASE stream[c][i].post = p
    BY <1>1, <2>3
  <2>4. CASE stream[c][i].post # p
    <3>1. stream[c][i].post < p
      BY <1>1, <1>4, <1>5, <2>4, ListFacts
    <3>2. QED
      BY <1>1, <1>4, <2>2, <3>1, ListFacts DEF ListsGiven
  <2>5. QED
    BY <2>3, <2>4
<1>7. PICK j : IsAnswer(c, j) /\ stream[c][j].post = p
  BY <1>4, <1>6 DEF IInv, AnswerInv, NoneLeftOut, HasList
<1>8. j \in Lists(c)
  BY <1>4, <1>6, <1>7, ListFacts DEF StreamsCarry, IsAnswer, HasList, Lists
<1> DEFINE k == CHOOSE k \in Lists(c) : \A l \in Lists(c) : stream[c][l].post <= stream[c][k].post
<1>9. k \in Lists(c) /\ \A l \in Lists(c) : stream[c][l].post <= stream[c][k].post
  <2>1. \A l \in Lists(c) : stream[c][l].post <= stream[c][j].post
    BY <1>5, <1>7
  <2>2. QED
    BY <1>8, <2>1
<1>10. View(c) = stream[c][k]
  BY DEF View
<1> HIDE DEF k
<1>11. stream[c][k].post = p
  <2>1. p <= stream[c][k].post /\ stream[c][k].post <= p
    BY <1>5, <1>7, <1>8, <1>9
  <2>2. stream[c][k].post \in Nat /\ p \in Nat
    BY <1>1, <1>4, <1>9, ListFacts
  <2>3. QED
    BY <2>1, <2>2
<1>12. QED
  BY <1>1, <1>3, <1>4, <1>6, <1>9, <1>10, <1>11

\* http_server.rs: the broadcaster tells all clients when the tools change.  A client that
\* asks for the list again whenever it is told, and listens, goes by the tools of the
\* session's state once all is at rest, unless its list was made in a state that came and
\* went between two looks of the broadcaster: however many changes, posts, broken
\* connections and other clients there are in between.
THEOREM RelistingSuffices == Spec => []RelistingClientIsCurrent
<1>1. IInv /\ ListInv => RelistingClientIsCurrent
  <2> SUFFICES ASSUME IInv, ListInv, NEW c \in Clients,
                      Quiescent, phase[c] = "open", ~relist[c], Lists(c) # {}
               PROVE  \/ View(c).change \in skipped
                      \/ View(c).tools = {tool \in AllTools : Dispatches(tool, state)}
    BY DEF RelistingClientIsCurrent
  <2>1. PICK p \in DOMAIN posts :
          /\ LastAsked(c, p) /\ HasList(p)
          /\ View(c).tools = posts[p].answer[1].tools /\ View(c).change = posts[p].change
    BY ViewAnswersLast
  <2>2. Fresh(p)
    BY <2>1, ListFacts DEF ListsFresh
  <2>3. published.change = moves /\ ~unseen /\ caster = "watch" /\ moves \in Nat
    BY ListFacts DEF Quiescent, Typed
  <2>4. last_state = state
    BY <2>3, ListFacts DEF Watched
  <2>5. posts[p].change \in skipped \/ posts[p].answer[1].tools = ToolsIn(state)
    BY <2>2, <2>3, <2>4 DEF Fresh
  <2>6. QED
    BY <2>1, <2>5 DEF ToolsIn
<1>2. QED
  BY <1>1, ListInvariance, PTL

-----------------------------------------------------------------------------
(* Nobody waits in a circle.  NobodyStuck says it with ENABLED, which the  *)
(* provers do not reason about; here it is said with the guards of the     *)
(* steps of Progress.                                                      *)

CanGoOn ==
  \/ caster = "watch" /\ unseen
  \/ caster = "look"
  \/ caster = "broadcast" /\ MayWrite(Broadcaster)
  \/ \E c \in Clients : MayWrite(Connector(c))
  \/ \E p \in DOMAIN posts :
       \/ At(p, "read") /\ MayRead(Poster(p))
       \/ At(p, "router") /\ Head(routers[posts[p].client]) = p
       \/ At(p, "call") \/ At(p, "respond")
       \/ At(p, "send") /\ MayWrite(Poster(p))

\* http_server.rs: a post holds the map of clients for reading while it waits for its
\* router and while its tool runs, writers wait for all readers, and readers for writers
\* that came before them.  Still, as long as a post, a connection or a change of state is
\* under way, somebody holds all that its next step needs: a reader is a router's first,
\* or behind one that is; and without readers the first of the map's queue goes on.
THEOREM SomebodyCanGoOn == Spec => [](Unfinished => CanGoOn)
<1>1. IInv => (Unfinished => CanGoOn)
  <2> SUFFICES ASSUME IInv, Unfinished PROVE CanGoOn
    OBVIOUS
  <2>1. Typed /\ MapQueue /\ RouterQueues
    BY DEF IInv, LockInv
  <2>2. CASE \E p \in DOMAIN posts : posts[p].at \in {"router", "call"}
    <3>1. PICK p \in DOMAIN posts : posts[p].at \in {"router", "call"}
      BY <2>2
    <3> DEFINE c == posts[p].client
               q == Head(routers[c])
    <3>2. c \in Clients /\ routers[c] \in Seq(Nat) /\ routers[c] # <<>> /\ IsInjective(routers[c])
      BY <3>1, CallerQueues DEF IInv, LockInv
    <3>3. q \in Range(routers[c])
      BY <3>2, TailOnce
    <3>4. q \in DOMAIN posts /\ posts[q].at \in {"router", "call"} /\ posts[q].client = c
      BY <2>1, <3>2, <3>3 DEF RouterQueues, Readers
    <3>5. At(q, "call") \/ (At(q, "router") /\ Head(routers[posts[q].client]) = q)
      BY <3>4 DEF At
    <3> HIDE DEF q
    <3>6. QED
      BY <3>4, <3>5 DEF CanGoOn
  <2>3. CASE /\ \A p \in DOMAIN posts : posts[p].at \notin {"router", "call"}
             /\ queue # <<>>
    <3>1. Readers = {}
      BY <2>3 DEF Readers
    <3>2. First(Head(queue)) /\ Head(queue) \in Range(queue) /\ Head(queue) \in Tasks
      BY <2>1, <2>3, TailOnce, HeadTailProperties DEF Typed, MapQueue, First
    <3>3. CASE Head(queue) = Broadcaster
      BY <2>1, <3>1, <3>2, <3>3 DEF MapQueue, MayWrite, CanGoOn
    <3>4. ASSUME NEW c \in Clients, Head(queue) = Connector(c)
          PROVE  CanGoOn
      BY <3>1, <3>2, <3>4 DEF MayWrite, CanGoOn
    <3>5. ASSUME NEW p \in Nat, Head(queue) = Poster(p)
          PROVE  CanGoOn
      <4>1. p \in DOMAIN posts /\ posts[p].at \in {"read", "send"}
        BY <2>1, <3>2, <3>5 DEF MapQueue, Waiting
      <4>2. QED
        BY <3>1, <3>2, <3>5, <4>1 DEF At, MayRead, MayWrite, CanGoOn
    <3>6. QED
      BY <3>2, <3>3, <3>4, <3>5 DEF Tasks
  <2>4. CASE /\ \A p \in DOMAIN posts : posts[p].at \notin {"router", "call"}
             /\ queue = <<>>
    <3>1. /\ \A p \in DOMAIN posts : posts[p].at \notin {"read", "send"}
          /\ \A c \in Clients : phase[c] # "connecting"
          /\ caster # "broadcast"
      BY <2>1, <2>4 DEF MapQueue, Waiting, Range
    <3>2. \A p \in DOMAIN posts : posts[p].at \in {"respond", "done"}
      BY <2>1, <2>4, <3>1, PostTyped DEF Posted, Places
    <3>3. CASE \E p \in DOMAIN posts : ~At(p, "done")
      BY <3>2, <3>3 DEF At, CanGoOn
    <3>4. CASE unseen \/ caster # "watch"
      BY <2>1, <3>1, <3>4 DEF Typed, CanGoOn
    <3>5. QED
      BY <3>1, <3>3, <3>4 DEF Unfinished
  <2>5. QED
    BY <2>2, <2>3, <2>4
<1>2. QED
  BY <1>1, Invariance, PTL

=============================================================================
