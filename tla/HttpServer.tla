------------------------------ MODULE HttpServer ------------------------------
(***************************************************************************)
(* The HTTP/SSE server: clients that come and go, each with an SSE stream  *)
(* and a router of its own; a task per POST, which answers over the        *)
(* stream; and the task that tells all clients when the session's state,   *)
(* and with it the list of tools, has changed.                             *)
(*                                                                         *)
(* They meet at the map of clients, whose RwLock is fair: whoever asks     *)
(* for it waits behind everyone who asked before.  A POST holds it for     *)
(* reading, and its client's router for writing, until its message has     *)
(* been handled, the run of a tool included.                               *)
(***************************************************************************)
EXTENDS McpRouter, FiniteSets, SequencesExt

CONSTANTS
  Clients,      \* SSE sessions
  Before,       \* those that have connected and shaken hands at the start
  Leavers,      \* those that may close their streams
  Starts,       \* the session's states at the start
  Visited,      \* the states it moves through
  PostLines,    \* the lines a client may post
  MaxPosts,     \* bound: lines posted
  MaxHangUps,   \* bound: posts whose connection breaks
  MaxMoves      \* bound: changes of the session's state

ASSUME StartAssumption == Before \cup Leavers \subseteq Clients /\ Starts \cup Visited \subseteq SessionStates
\* What McpRouter says a line is: any JSON, with an id or without, of any kind.
ASSUME LinesAssumption ==
  PostLines \subseteq [json : STRING, method : STRING, id : {"absent", "null", "number", "string"},
                       number : Nat, tool : STRING]
ASSUME HttpBoundsAssumption == MaxPosts \in Nat /\ MaxHangUps \in Nat /\ MaxMoves \in Nat

VARIABLES
  phase,        \* each client: "new", "connecting", "open" (its stream) or "gone"
  clients,      \* SharedSession.clients: the keys
  queue,        \* the tasks waiting for its lock, the first at the head
  handshakes,   \* the clients whose McpRouter is initialized
  routers,      \* the posts waiting for or holding each client's router, in order
  posts,        \* the POSTs so far, in order
  stream,       \* what has been sent on each client's stream
  relist,       \* the client has been told of a change and not asked for the list since
  state,        \* the session's state
  moves,        \* how often it has changed
  published,    \* the watch channel's value: the number of a change, and its state
  unseen,       \* the channel has a value the broadcaster has not been woken for
  last_state,   \* the broadcaster's last_state
  caster,       \* its step: "watch", "look" or "broadcast"
  skipped       \* history: the changes that came and went between two of its looks

clientVars  == <<phase, relist>>
sessionVars == <<state, moves, published>>
casterVars  == <<unseen, last_state, caster, skipped>>
httpVars    == <<clientVars, clients, queue, handshakes, routers, posts, stream, sessionVars,
                 casterVars>>

Places == {"read", "router", "call", "respond", "send", "done"}
Poster(p)    == <<"post", p>>
Connector(c) == <<"connect", c>>
Broadcaster  == <<"broadcast", 0>>

\* The server has run for a while: some clients are connected, the session is somewhere.
Init ==
  /\ phase = [c \in Clients |-> IF c \in Before THEN "open" ELSE "new"]
  /\ clients = Before /\ handshakes = Before /\ queue = <<>>
  /\ routers = [c \in Clients |-> <<>>] /\ posts = <<>>
  /\ stream = [c \in Clients |-> <<>>] /\ relist = [c \in Clients |-> FALSE]
  /\ state \in Starts /\ moves = 0
  /\ published = [change |-> 0, state |-> state] /\ unseen = FALSE
  /\ last_state = state /\ caster = "watch" /\ skipped = {}

-----------------------------------------------------------------------------
(* The lock.  Readers hold it through several steps, a writer for one.     *)

At(p, place) == p \in DOMAIN posts /\ posts[p].at = place
Goto(p, place) == posts' = [posts EXCEPT ![p].at = place]

\* Mutant: the answer is sent from within the block that holds the read guard.
Readers_UntilSent == {p \in DOMAIN posts : posts[p].at \in {"router", "call", "respond", "send"}}

\* The posts that hold the read guard.
Readers == {p \in DOMAIN posts : posts[p].at \in {"router", "call"}}

First(task) == queue # <<>> /\ Head(queue) = task
MayRead(task)  == First(task)
MayWrite(task) == First(task) /\ Readers = {}

\* A request for the list of tools, one that the server will take for a request.
AsksForList(line) == parse_incoming(line).kind = "request" /\ line.method = "tools/list"

Deliver(c, message) == stream' = [stream EXCEPT ![c] = Append(@, message)]
FromPost(p, answer) == [kind |-> answer.kind, id |-> answer.id, tools |-> answer.tools,
                        post |-> p, change |-> posts[p].change]

-----------------------------------------------------------------------------
(* The SSE endpoint.                                                       *)

Connect(c) ==
  /\ phase[c] = "new"
  /\ phase' = [phase EXCEPT ![c] = "connecting"]
  /\ queue' = Append(queue, Connector(c))
  /\ UNCHANGED <<relist, clients, handshakes, routers, posts, stream, sessionVars,
                 casterVars>>

\* register_client; the first event tells the client where to post.
register_client(c) ==
  /\ MayWrite(Connector(c))
  /\ queue' = Tail(queue)
  /\ clients' = clients \cup {c}
  /\ phase' = [phase EXCEPT ![c] = "open"]
  /\ UNCHANGED <<relist, handshakes, routers, posts, stream, sessionVars, casterVars>>

\* The client closes its stream; the map is not told.
Leave(c) ==
  /\ c \in Leavers /\ phase[c] = "open"
  /\ phase' = [phase EXCEPT ![c] = "gone"]
  /\ UNCHANGED <<relist, clients, queue, handshakes, routers, posts, stream,
                 sessionVars, casterVars>>

-----------------------------------------------------------------------------
(* The message endpoint.                                                   *)

\* A client that has been given its session id posts a line, perhaps while earlier
\* ones are under way, perhaps after it has closed its stream.  message_handler parses
\* it; what cannot be parsed is answered, anything else asks for the map.
Post(c) ==
  /\ phase[c] \in {"open", "gone"} /\ Len(posts) < MaxPosts
  /\ \E line \in PostLines :
       LET malformed == parse_incoming(line).kind = "malformed" IN
       /\ posts' = Append(posts, [client |-> c, line |-> line, dropped |-> FALSE, change |-> 0,
                                  at |-> IF malformed THEN "respond" ELSE "read",
                                  answer |-> IF malformed THEN <<ParseError>> ELSE <<>>])
       /\ queue' = IF malformed THEN queue ELSE Append(queue, Poster(Len(posts) + 1))
       /\ relist' = IF AsksForList(line) THEN [relist EXCEPT ![c] = FALSE] ELSE relist
  /\ UNCHANGED <<phase, clients, handshakes, routers, stream, sessionVars, casterVars>>

\* The read guard is there: 404 for an unknown session, else on to the client's router.
Lookup(p) ==
  LET c == posts[p].client IN
  /\ At(p, "read") /\ MayRead(Poster(p))
  /\ queue' = Tail(queue)
  /\ IF c \in clients
       THEN Goto(p, "router") /\ routers' = [routers EXCEPT ![c] = Append(@, p)]
       ELSE Goto(p, "done") /\ UNCHANGED routers
  /\ UNCHANGED <<clientVars, clients, handshakes, stream, sessionVars, casterVars>>

\* Mutant: the router's guard outlives the block.
Leaves_KeepsRouter(p, answer) ==
  /\ posts' = [posts EXCEPT ![p].at = IF answer = <<>> THEN "done" ELSE "respond",
                            ![p].answer = answer, ![p].change = moves]
  /\ UNCHANGED routers

\* The post leaves the block with its answer, letting go of router and map.
Leaves(p, answer) ==
  /\ posts' = [posts EXCEPT ![p].at = IF answer = <<>> THEN "done" ELSE "respond",
                            ![p].answer = answer, ![p].change = moves]
  /\ routers' = [routers EXCEPT ![posts[p].client] = Tail(@)]

\* The router's lock is there: a tool that may run starts, the rest is handled at once.
Route(p) ==
  LET c == posts[p].client
      m == parse_incoming(posts[p].line)
      known == c \in handshakes
  IN
  /\ At(p, "router") /\ Head(routers[c]) = p
  /\ handshakes' = IF InitializedAfter(m, known) THEN handshakes \cup {c} ELSE handshakes
  /\ IF Runs(m, known, state)
       THEN Goto(p, "call") /\ UNCHANGED routers
       ELSE Leaves(p, handle_message(m, known, state))
  /\ UNCHANGED <<clientVars, clients, queue, stream, sessionVars, casterVars>>

\* The tool returns.
Return(p) ==
  /\ At(p, "call")
  /\ Leaves(p, handle_message(parse_incoming(posts[p].line), TRUE, state))
  /\ UNCHANGED <<clientVars, clients, queue, handshakes, stream, sessionVars, casterVars>>

\* send_to asks for the map again, to write,
Respond(p) ==
  /\ At(p, "respond")
  /\ Goto(p, "send") /\ queue' = Append(queue, Poster(p))
  /\ UNCHANGED <<clientVars, clients, handshakes, routers, stream, sessionVars, casterVars>>

\* Mutant: the answer goes to every client.
send_to_Everybody(p) ==
  /\ At(p, "send") /\ MayWrite(Poster(p))
  /\ queue' = Tail(queue) /\ Goto(p, "done")
  /\ stream' = [c \in Clients |-> IF c \in clients /\ phase[c] = "open"
                                    THEN Append(stream[c], FromPost(p, posts[p].answer[1]))
                                    ELSE stream[c]]
  /\ UNCHANGED <<clients, clientVars, handshakes, routers, sessionVars, casterVars>>

\* and sends, or drops a client that has closed its stream.
send_to(p) ==
  LET c == posts[p].client IN
  /\ At(p, "send") /\ MayWrite(Poster(p))
  /\ queue' = Tail(queue) /\ Goto(p, "done")
  /\ IF c \in clients /\ phase[c] = "open"
       THEN Deliver(c, FromPost(p, posts[p].answer[1])) /\ UNCHANGED clients
       ELSE UNCHANGED stream /\ clients' = clients \ {c}
  /\ UNCHANGED <<clientVars, handshakes, routers, sessionVars, casterVars>>

\* The connection of a POST breaks and its task is dropped where it waits; the guards
\* it holds go with it.  A tool may be caught between a change of state and the watch
\* channel, where transition_to waits to invalidate the variable cache.
HangUp(p) ==
  LET c == posts[p].client IN
  /\ p \in DOMAIN posts /\ posts[p].at \in {"read", "router", "call", "send"}
  /\ Cardinality({q \in DOMAIN posts : posts[q].dropped}) < MaxHangUps
  /\ posts' = [posts EXCEPT ![p].at = "done", ![p].dropped = TRUE]
  /\ queue' = RemoveFirst(queue, Poster(p))
  /\ routers' = [routers EXCEPT ![c] = RemoveFirst(@, p)]
  /\ \/ UNCHANGED <<state, moves>>
     \/ /\ posts[p].at = "call" /\ state = "Halted" /\ moves < MaxMoves
        /\ state' \in {"Running", "Disconnected"} \cap Visited /\ moves' = moves + 1
  \* The client has to ask for the list again.
  /\ relist' = IF AsksForList(posts[p].line) THEN [relist EXCEPT ![c] = TRUE] ELSE relist
  /\ UNCHANGED <<phase, clients, handshakes, stream, published, casterVars>>

-----------------------------------------------------------------------------
(* The session and the broadcaster.                                        *)

\* transition_to, in an event's handler or in a tool that runs.
transition_to(next) ==
  /\ moves < MaxMoves /\ moves' = moves + 1
  /\ next \in Visited /\ can_transition_to(state, next) /\ state' = next
  /\ state = "Disconnected" => \E p \in DOMAIN posts : posts[p].at = "call"
  /\ published' = [change |-> moves', state |-> next] /\ unseen' = TRUE
  /\ UNCHANGED <<clientVars, clients, queue, handshakes, routers, posts, stream, last_state,
                 caster, skipped>>

\* rx.changed returns,
Wake ==
  /\ caster = "watch" /\ unseen
  /\ unseen' = FALSE /\ caster' = "look"
  /\ UNCHANGED <<clientVars, clients, queue, handshakes, routers, posts, stream, sessionVars,
                 last_state, skipped>>

\* and the value, by now a later one perhaps, is compared with the one seen last.
Look ==
  /\ caster = "look"
  /\ IF published.state # last_state
       THEN /\ last_state' = published.state
            /\ caster' = "broadcast" /\ queue' = Append(queue, Broadcaster)
            /\ UNCHANGED skipped
       ELSE /\ caster' = "watch"
            /\ skipped' = skipped \cup 1..(published.change - 1)
            /\ UNCHANGED <<last_state, queue>>
  /\ UNCHANGED <<clientVars, clients, handshakes, routers, posts, stream, sessionVars, unseen>>

Notice == [kind |-> "list_changed", id |-> 0, tools |-> {}, post |-> 0, change |-> 0]

\* Mutant: try_write instead of write; when the map is in use the notice is left out.
broadcast_all_TryLock ==
  /\ caster = "broadcast" /\ caster' = "watch"
  /\ queue' = RemoveFirst(queue, Broadcaster)
  /\ stream' = [c \in Clients |-> IF c \in clients /\ phase[c] = "open" /\ MayWrite(Broadcaster)
                                    THEN Append(stream[c], Notice) ELSE stream[c]]
  /\ clients' = {c \in clients : phase[c] = "open"}
  /\ relist' = [c \in Clients |-> relist[c] \/ stream'[c] # stream[c]]
  /\ UNCHANGED <<phase, handshakes, routers, posts, sessionVars, unseen, last_state, skipped>>

\* broadcast_all, which drops the clients that have closed their streams.  Those that
\* receive the notice will want to ask for the list again.
broadcast_all ==
  /\ caster = "broadcast" /\ MayWrite(Broadcaster)
  /\ queue' = Tail(queue) /\ caster' = "watch"
  /\ stream' = [c \in Clients |-> IF c \in clients /\ phase[c] = "open"
                                    THEN Append(stream[c], Notice) ELSE stream[c]]
  /\ clients' = {c \in clients : phase[c] = "open"}
  /\ relist' = [c \in Clients |-> relist[c] \/ stream'[c] # stream[c]]
  /\ UNCHANGED <<phase, handshakes, routers, posts, sessionVars, unseen, last_state, skipped>>

-----------------------------------------------------------------------------
Handle(p) == Lookup(p) \/ Route(p) \/ Return(p) \/ Respond(p) \/ send_to(p)
Cast == Wake \/ Look \/ broadcast_all

Next ==
  \/ \E c \in Clients : Connect(c) \/ register_client(c) \/ Leave(c) \/ Post(c)
  \/ \E p \in 1..MaxPosts : Handle(p) \/ HangUp(p)
  \/ \E s \in SessionStates : transition_to(s)
  \/ Cast

Spec == Init /\ [][Next]_httpVars

-----------------------------------------------------------------------------
\* The tasks wait where they can, and the map knows clients that have connected.
TypeOK ==
  /\ phase \in [Clients -> {"new", "connecting", "open", "gone"}]
  /\ clients \subseteq {c \in Clients : phase[c] \in {"open", "gone"}}
  /\ \A p \in DOMAIN posts : posts[p].at \in Places /\ Len(posts[p].answer) <= 1
  /\ IsInjective(queue)
  /\ Range(queue) =
       {Poster(p) : p \in {q \in DOMAIN posts : posts[q].at \in {"read", "send"}}}
         \cup {Connector(c) : c \in {d \in Clients : phase[d] = "connecting"}}
         \cup (IF caster = "broadcast" THEN {Broadcaster} ELSE {})
  /\ \A c \in Clients :
       Range(routers[c]) = {p \in Readers : posts[p].client = c} /\ IsInjective(routers[c])
  /\ state \in SessionStates /\ last_state \in SessionStates

\* http_server.rs: responses are delivered over the client's own stream.  What a client
\* receives there answers one of its own posts, under that post's id, once, and a post
\* that has run its course is answered if its client was there all the time.
AnswersGoHome ==
  \A c \in Clients :
    LET answers == {i \in DOMAIN stream[c] : stream[c][i].kind # "list_changed"} IN
    /\ \A i \in answers :
         LET m == stream[c][i] IN
         /\ m.post \in DOMAIN posts /\ posts[m.post].client = c /\ At(m.post, "done")
         /\ m.id = IF parse_incoming(posts[m.post].line).kind = "malformed"
                     THEN 0 ELSE posts[m.post].line.number
    /\ \A i, j \in answers : stream[c][i].post = stream[c][j].post => i = j
    /\ \A p \in DOMAIN posts :
         posts[p].client = c /\ At(p, "done") /\ ~posts[p].dropped /\ posts[p].answer # <<>> /\ phase[c] = "open" =>
           \E i \in answers : stream[c][i].post = p

Quiescent ==
  /\ \A p \in DOMAIN posts : At(p, "done")
  /\ queue = <<>> /\ ~unseen /\ caster = "watch" /\ published.change = moves

\* The list a client goes by: the answer to the latest of its requests that has come.
Lists(c) == {i \in DOMAIN stream[c] : stream[c][i].tools # {}}
View(c) == stream[c][CHOOSE i \in Lists(c) : \A j \in Lists(c) : stream[c][j].post <= stream[c][i].post]

\* http_server.rs: the broadcaster watches for state changes and notifies all clients.
\* A client that asks for the list again whenever it is notified ends up with exactly
\* the tools a call of which would be let through now, unless its list was made in a
\* state that came and went before the broadcaster looked.
RelistingClientIsCurrent ==
  \A c \in Clients :
    Quiescent /\ phase[c] = "open" /\ ~relist[c] /\ Lists(c) # {} =>
      \/ View(c).change \in skipped
      \/ View(c).tools = {tool \in AllTools : Dispatches(tool, state)}

Unfinished ==
  \/ \E p \in DOMAIN posts : ~At(p, "done")
  \/ \E c \in Clients : phase[c] = "connecting"
  \/ unseen \/ caster # "watch"
Progress == Cast \/ (\E c \in Clients : register_client(c)) \/ (\E p \in 1..MaxPosts : Handle(p))

\* As long as a post, a connection or a change of state is under way, one of the tasks
\* can go on, if only a tool that is yet to return: readers, writers and the router
\* locks behind them never wait for each other in a circle.
NobodyStuck == Unfinished => ENABLED Progress

=============================================================================
