------------------------- MODULE VariableHandleCache -------------------------
(***************************************************************************)
(* The cache of variable handles and its two locks.  The entries' lock is  *)
(* held by an insertion until `valid` is set as well; invalidation lets go *)
(* of it in between.                                                       *)
(***************************************************************************)
EXTENDS Naturals, Sequences, FiniteSetsExt

CONSTANTS
  Names,         \* variable names
  Places,        \* frame and scope pairs: records [frame, scope], 0 for None
  Hits(_, _),    \* whether a name contains a query, case aside
  Queries,       \* queries made
  MaxInserts     \* bound: entries inserted

VARIABLES
  varEntries,    \* VariableHandleCache.entries
  varValid,      \* VariableHandleCache.valid
  varStep,       \* what the task inside insert_batch, the one inside invalidate do next
  varClock,      \* captured_at of the newest entry; entries of a batch may share it
  varNewest      \* history: the newest entry per name and place since the last clearing

varVars == <<varEntries, varValid, varStep, varClock, varNewest>>

Entries == [name : Names, place : Places, at : 1..MaxInserts]
Keys == Names \X Places
Empty == [n \in Names |-> <<>>]

Init ==
  /\ varEntries = Empty /\ varValid = TRUE
  /\ varStep = [insert |-> "idle", invalidate |-> "idle"]
  /\ varClock = 0 /\ varNewest = [k \in Keys |-> 0]

\* The entries' lock.
Unlocked == varStep.insert = "idle"

\* retain: the entries of a list that are for other places.
Without(list, place) ==
  LET kept[i \in 0..Len(list)] ==
        IF i = 0 THEN <<>>
        ELSE IF list[i].place = place THEN kept[i - 1] ELSE Append(kept[i - 1], list[i])
  IN kept[Len(list)]

\* Mutant: an older entry for the same place stays in front of the new one.
Put_Keeps(list, e) == Append(list, e)

\* retain, then push.
Put(list, e) == Append(Without(list, e.place), e)

\* insert_batch (insert is a batch of one): the variables of one place.
insert_batch ==
  /\ Unlocked /\ varClock < MaxInserts
  /\ \E names \in SUBSET Names \ {{}}, place \in Places :
       /\ varEntries' = [n \in Names |->
            IF n \in names THEN Put(varEntries[n], [name |-> n, place |-> place, at |-> varClock + 1])
            ELSE varEntries[n]]
       /\ varNewest' = [k \in Keys |-> IF k \in names \X {place} THEN varClock + 1 ELSE varNewest[k]]
  /\ varClock' = varClock + 1
  /\ varStep' = [varStep EXCEPT !.insert = "set_valid"]
  /\ UNCHANGED varValid

SetValid ==
  /\ varStep.insert = "set_valid"
  /\ varValid' = TRUE
  /\ varStep' = [varStep EXCEPT !.insert = "idle"]
  /\ UNCHANGED <<varEntries, varClock, varNewest>>

\* invalidate, and clear, which differs in what it sets `valid` to.
invalidate ==
  /\ Unlocked /\ varStep.invalidate = "idle"
  /\ varEntries' = Empty /\ varNewest' = [k \in Keys |-> 0]
  /\ \E next \in {"set_invalid", "set_cleared"} : varStep' = [varStep EXCEPT !.invalidate = next]
  /\ UNCHANGED <<varValid, varClock>>

SetInvalid ==
  /\ varStep.invalidate # "idle"
  /\ varValid' = (varStep.invalidate = "set_cleared")
  /\ varStep' = [varStep EXCEPT !.invalidate = "idle"]
  /\ UNCHANGED <<varEntries, varClock, varNewest>>

\* mark_stale.
mark_stale ==
  /\ varValid' = FALSE
  /\ UNCHANGED <<varEntries, varStep, varClock, varNewest>>

Next == insert_batch \/ SetValid \/ invalidate \/ SetInvalid \/ mark_stale

NoEntry == [name |-> "", place |-> [frame |-> 0, scope |-> 0], at |-> 0]

\* The first entry of a list with a property, if there is one.
First(list, Test(_)) ==
  LET places == {i \in DOMAIN list : Test(list[i])} IN
  IF places = {} THEN NoEntry ELSE list[Min(places)]

\* Mutant: an entry of the same scope is preferred to one of the same frame.
lookup_ScopeFirst(name, place) ==
  LET list == varEntries[name] IN
  CASE \E i \in DOMAIN list : list[i].place = place -> First(list, LAMBDA e : e.place = place)
    [] \E i \in DOMAIN list : list[i].place.scope = place.scope ->
         First(list, LAMBDA e : e.place.scope = place.scope)
    [] OTHER -> First(list, LAMBDA e : TRUE)

\* The exact place, else the same frame, else the oldest entry with the name.  The doc
\* comment has a fourth step, a fuzzy match on the name, which the code does not take: it
\* returns None when no entry has the very name.
SameFrame(e, place) == place.frame # 0 /\ e.place.frame = place.frame
lookup(name, place) ==
  LET list == varEntries[name] IN
  CASE \E i \in DOMAIN list : list[i].place = place -> First(list, LAMBDA e : e.place = place)
    [] (\A i \in DOMAIN list : list[i].place # place)
       /\ (\E i \in DOMAIN list : SameFrame(list[i], place)) ->
         First(list, LAMBDA e : SameFrame(e, place))
    [] \A i \in DOMAIN list : list[i].place # place /\ ~SameFrame(list[i], place) ->
         First(list, LAMBDA e : TRUE)

\* Mutant: the oldest come first.
Newest_Oldest(entries) == CHOOSE e \in entries : \A d \in entries : e.at <= d.at

\* sort_by_key: among entries of one moment any may come first, in the map's own order.
Newest(entries) == CHOOSE e \in entries : \A d \in entries : d.at <= e.at

\* search: the entries under the names that contain the query, newest first, cut off.
search(query, limit) ==
  LET hits == UNION {Range(varEntries[n]) : n \in {m \in Names : Hits(m, query)}}
      left[i \in 0..Cardinality(hits)] == IF i = 0 THEN hits ELSE left[i - 1] \ {Newest(left[i - 1])}
  IN [i \in 1..Min({limit, Cardinality(hits)}) |-> Newest(left[i - 1])]

-----------------------------------------------------------------------------
\* Lists of entries under their own names.
TypeOK ==
  /\ \A n \in Names : varEntries[n] \in Seq({e \in Entries : e.name = n})
  /\ varValid \in BOOLEAN

\* cache.rs: an entry with the same name, frame and scope is replaced.  Whatever the
\* order of insertions and invalidations, the cache holds the newest handle of each
\* place since it was last emptied, once, and no other.
HoldsNewestHandles ==
  /\ UNION {Range(varEntries[n]) : n \in Names} =
       {[name |-> k[1], place |-> k[2], at |-> varNewest[k]] : k \in {k \in Keys : varNewest[k] # 0}}
  /\ \A n \in Names : IsInjective(varEntries[n])

\* cache.rs: lookup prefers the current frame and scope, then the current frame, and
\* finds something whenever the name is there.  These are the first three steps of its
\* doc comment; where the fourth promises an entry whose name contains the query, the
\* code finds nothing, and that is what is said here of a name without an entry.
Rank(e, place) ==
  CASE e.place = place                                                            -> 0
    [] e.place # place /\ SameFrame(e, place)                                       -> 1
    [] OTHER                                                                      -> 2
LookupFindsClosest ==
  \A name \in Names, place \in Places :
    LET found == lookup(name, place) IN
    IF varEntries[name] = <<>> THEN found = NoEntry
    ELSE /\ found \in Range(varEntries[name])
         /\ \A e \in Range(varEntries[name]) : Rank(found, place) <= Rank(e, place)

\* cache.rs: search gives up to limit matches, and none it leaves out is newer.
SearchFindsNewest ==
  \A query \in Queries, limit \in 0..(Cardinality(Keys) + 1) :
    LET found == search(query, limit)
        hits == {e \in UNION {Range(varEntries[n]) : n \in Names} : Hits(e.name, query)}
    IN /\ Range(found) \subseteq hits /\ IsInjective(found)
       /\ Len(found) = Min({limit, Cardinality(hits)})
       /\ \A i \in DOMAIN found : \A e \in hits \ {found[j] : j \in 1..i} : e.at <= found[i].at

=============================================================================
