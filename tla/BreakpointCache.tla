--------------------------- MODULE BreakpointCache ---------------------------
(***************************************************************************)
(* The breakpoints TeleDAP believes are set, and the adapter's own.  DAP   *)
(* has no request that lists them: the cache lives on the answers to       *)
(* set_breakpoints and set_function_breakpoints and on the `breakpoint`    *)
(* events that follow when the adapter verifies, moves or removes one.     *)
(* Answers and events leave the adapter in one stream and part ways in the *)
(* reader task: an answer wakes the caller, an event waits in a channel    *)
(* for the event loop.                                                     *)
(***************************************************************************)
EXTENDS Naturals, Sequences, FiniteSets

CONSTANTS
  Callers,      \* tasks that set breakpoints
  Loops,        \* tasks that handle events; the same one as the caller in the CLI
  Files,        \* source files
  Lines,        \* lines of a file
  Asked,        \* the lists of lines a request may ask for
  MaxIds,       \* bound: breakpoints the adapter creates
  MaxEvents     \* bound: events it sends about them

FunctionList == "functions"    \* the key of the function breakpoints' one list
Keys == Files \cup {FunctionList}
Tasks == Callers \cup Loops

VARIABLES
  bpCached,     \* source_breakpoints and function_breakpoints: list per key
  bpTask,       \* each task: its step, the key and the list it works with, or the event
  bpInput,      \* requests on their way to the adapter
  bpPipe,       \* messages on their way from it
  bpEvents,     \* the event channel
  bpActual,     \* the adapter's own lists
  bpIds,        \* breakpoints created so far
  bpSent,       \* events sent so far
  bpRemoved     \* history: breakpoints the adapter removed by itself

bpVars == <<bpCached, bpTask, bpInput, bpPipe, bpEvents, bpActual, bpIds, bpSent, bpRemoved>>

Entries == [id : 1..MaxIds, line : Lines, verified : BOOLEAN]
Idle == [at |-> "idle", key |-> FunctionList, list |-> <<>>]

Init ==
  /\ bpCached = [k \in Keys |-> <<>>] /\ bpTask = [t \in Tasks |-> Idle]
  /\ bpInput = <<>> /\ bpPipe = <<>> /\ bpEvents = <<>>
  /\ bpActual = [k \in Keys |-> <<>>] /\ bpIds = 0 /\ bpSent = 0 /\ bpRemoved = {}

-----------------------------------------------------------------------------
(* set_breakpoints and set_function_breakpoints.                           *)

\* The request replaces the whole list of a file, or of the functions.
SetBreakpoints(t) ==
  /\ t \in Callers /\ bpTask[t].at = "idle"
  /\ \E key \in Keys, asked \in Asked :
       /\ bpIds + Len(asked) <= MaxIds
       /\ bpInput' = Append(bpInput, [task |-> t, key |-> key, lines |-> asked])
       /\ bpTask' = [bpTask EXCEPT ![t] = [at |-> "wait", key |-> key, list |-> <<>>]]
  /\ UNCHANGED <<bpCached, bpPipe, bpEvents, bpActual, bpIds, bpSent, bpRemoved>>

\* Mutant: a new list is added to the file's earlier one.
update_breakpoints_Appends(t) ==
  LET task == bpTask[t] IN
  /\ task.at \in {"update", "update_again"}
  /\ bpCached' = [bpCached EXCEPT ![task.key] = @ \o task.list]
  /\ bpTask' = [bpTask EXCEPT ![t] =
       IF task.at = "update" THEN [task EXCEPT !.at = "update_again"] ELSE Idle]
  /\ UNCHANGED <<bpInput, bpPipe, bpEvents, bpActual, bpIds, bpSent, bpRemoved>>

\* update_source_breakpoints, update_function_breakpoints: the list answered replaces
\* the one cached; first in the session, then once more in the tool handler.
update_breakpoints(t) ==
  LET task == bpTask[t] IN
  /\ task.at \in {"update", "update_again"}
  /\ bpCached' = [bpCached EXCEPT ![task.key] = task.list]
  /\ bpTask' = [bpTask EXCEPT ![t] =
       IF task.at = "update" THEN [task EXCEPT !.at = "update_again"] ELSE Idle]
  /\ UNCHANGED <<bpInput, bpPipe, bpEvents, bpActual, bpIds, bpSent, bpRemoved>>

-----------------------------------------------------------------------------
(* The reader task and the event loop.                                     *)

ReadResponse ==
  /\ bpPipe # <<>> /\ Head(bpPipe).type = "response"
  /\ bpTask' = [bpTask EXCEPT ![Head(bpPipe).task] = [@ EXCEPT !.at = "update", !.list = Head(bpPipe).list]]
  /\ bpPipe' = Tail(bpPipe)
  /\ UNCHANGED <<bpCached, bpInput, bpEvents, bpActual, bpIds, bpSent, bpRemoved>>

ReadEvent ==
  /\ bpPipe # <<>> /\ Head(bpPipe).type = "event"
  /\ bpEvents' = Append(bpEvents, Head(bpPipe).list)
  /\ bpPipe' = Tail(bpPipe)
  /\ UNCHANGED <<bpCached, bpTask, bpInput, bpActual, bpIds, bpSent, bpRemoved>>

TakeEvent(t) ==
  /\ t \in Loops /\ bpTask[t].at = "idle" /\ bpEvents # <<>>
  /\ bpTask' = [bpTask EXCEPT ![t] = [Idle EXCEPT !.at = "by_id", !.list = Head(bpEvents)]]
  /\ bpEvents' = Tail(bpEvents)
  /\ UNCHANGED <<bpCached, bpInput, bpPipe, bpActual, bpIds, bpSent, bpRemoved>>

\* Positions of the entry with an id among the lists of some keys.
Holding(keys, id) == {k \in keys : \E i \in DOMAIN bpCached[k] : bpCached[k][i].id = id}
Replace(list, e) == [i \in DOMAIN list |-> IF list[i].id = e.id THEN e ELSE list[i]]

\* Mutant: update_by_id looks among the sources only.
update_by_id_SourcesOnly(t) ==
  LET e == Head(bpTask[t].list)
      keys == IF bpTask[t].at = "by_id" THEN Files ELSE {}
  IN
  /\ bpTask[t].at \in {"by_id", "by_id_functions"}
  /\ bpCached' = [k \in Keys |-> IF k \in Holding(keys, e.id) THEN Replace(bpCached[k], e) ELSE bpCached[k]]
  /\ bpTask' = [bpTask EXCEPT ![t] =
       IF bpTask[t].at = "by_id" /\ Holding(keys, e.id) = {} THEN [@ EXCEPT !.at = "by_id_functions"]
                                                            ELSE Idle]
  /\ UNCHANGED <<bpInput, bpPipe, bpEvents, bpActual, bpIds, bpSent, bpRemoved>>

\* update_by_id: among the sources under their lock, and if the id is not there among
\* the functions under theirs.  The event's reason is not looked at, so that a removed
\* breakpoint is kept like a changed one; an id found nowhere is passed over.
update_by_id(t) ==
  LET e == Head(bpTask[t].list)
      keys == IF bpTask[t].at = "by_id" THEN Files ELSE {FunctionList}
  IN
  /\ bpTask[t].at \in {"by_id", "by_id_functions"}
  /\ bpCached' = [k \in Keys |-> IF k \in Holding(keys, e.id) THEN Replace(bpCached[k], e) ELSE bpCached[k]]
  /\ bpTask' = [bpTask EXCEPT ![t] =
       IF bpTask[t].at = "by_id" /\ Holding(keys, e.id) = {} THEN [@ EXCEPT !.at = "by_id_functions"]
                                                            ELSE Idle]
  /\ UNCHANGED <<bpInput, bpPipe, bpEvents, bpActual, bpIds, bpSent, bpRemoved>>

-----------------------------------------------------------------------------
(* The adapter: external.                                                  *)

\* It gives new breakpoints new ids and verifies each at once or later.
Answer ==
  /\ bpInput # <<>>
  /\ \E verified \in BOOLEAN :
       LET r == Head(bpInput)
           list == [i \in DOMAIN r.lines |->
                      [id |-> bpIds + i, line |-> r.lines[i], verified |-> verified]]
       IN /\ bpIds + Len(list) <= MaxIds /\ bpIds' = bpIds + Len(list)
          /\ bpActual' = [bpActual EXCEPT ![r.key] = list]
          /\ bpPipe' = Append(bpPipe, [type |-> "response", task |-> r.task, list |-> list])
  /\ bpInput' = Tail(bpInput)
  /\ UNCHANGED <<bpCached, bpTask, bpEvents, bpSent, bpRemoved>>

\* It verifies a breakpoint, at another line perhaps, or removes it, and says so.
Change ==
  /\ bpSent < MaxEvents /\ bpSent' = bpSent + 1
  /\ \E key \in Keys : \E i \in DOMAIN bpActual[key], line \in Lines, removed \in BOOLEAN :
       LET e == [id |-> bpActual[key][i].id, line |-> line, verified |-> ~removed] IN
       /\ bpActual' = [bpActual EXCEPT ![key] =
            IF removed THEN SubSeq(@, 1, i - 1) \o SubSeq(@, i + 1, Len(@)) ELSE [@ EXCEPT ![i] = e]]
       /\ bpRemoved' = IF removed THEN bpRemoved \cup {e.id} ELSE bpRemoved
       /\ bpPipe' = Append(bpPipe, [type |-> "event", task |-> CHOOSE t \in Tasks : TRUE, list |-> <<e>>])
  /\ UNCHANGED <<bpCached, bpTask, bpInput, bpEvents, bpIds>>

-----------------------------------------------------------------------------
Next ==
  \/ \E t \in Tasks : SetBreakpoints(t) \/ update_breakpoints(t) \/ TakeEvent(t) \/ update_by_id(t)
  \/ ReadResponse \/ ReadEvent \/ Answer \/ Change

Quiescent ==
  /\ \A t \in Tasks : bpTask[t].at = "idle"
  /\ bpInput = <<>> /\ bpPipe = <<>> /\ bpEvents = <<>>

\* Lists of entries, and tasks at the steps there are.
TypeOK ==
  /\ bpCached \in [Keys -> Seq(Entries)] /\ bpActual \in [Keys -> Seq(Entries)]
  /\ \A t \in Tasks : bpTask[t].at \in {"idle", "wait", "update", "update_again",
                                        "by_id", "by_id_functions"}

\* The cached list of a key without the breakpoints the adapter removed by itself,
\* which update_by_id goes on listing.
Without(list, ids) ==
  LET kept[i \in 0..Len(list)] ==
        IF i = 0 THEN <<>>
        ELSE IF list[i].id \in ids THEN kept[i - 1] ELSE Append(kept[i - 1], list[i])
  IN kept[Len(list)]
Kept(key) == Without(bpCached[key], bpRemoved)
Ids(list) == [i \in DOMAIN list |-> list[i].id]

\* breakpoints.rs: TeleDAP remembers the breakpoints it has set and refreshes them from
\* events.  Once all is handled, list_breakpoints shows the adapter's breakpoints, their
\* lines and whether they are verified.
ListShowsAdapter == Quiescent => \A k \in Keys : Kept(k) = bpActual[k]

\* The same of the ids alone, with events handled concurrently and calls made one after
\* the other, none of them dropped, as over stdio: an event may be lost between an answer
\* and its two updates, a breakpoint never is.  Over HTTP it may be: two callers may update
\* one list in the order opposite to the adapter's, or a hang-up skip the updates.
ListShowsIds == Quiescent => \A k \in Keys : Ids(Kept(k)) = Ids(bpActual[k])

=============================================================================
