------------------------ MODULE BreakpointCache_proofs ------------------------
(***************************************************************************)
(* Theorems about BreakpointCache with one task that sets breakpoints: that*)
(* the cache ends up with the adapter's breakpoints, whatever tasks handle *)
(* the events, and with their lines too when the same task handles them.   *)
(***************************************************************************)
EXTENDS BreakpointCache, SequenceFacts, TLAPS

BpConstants == Asked \subseteq Seq(Lines) /\ MaxIds \in Nat

-----------------------------------------------------------------------------
(* Lists of breakpoints.                                                   *)

\* The adapter numbers its breakpoints as it creates them.
Rising(list) == \A i, j \in DOMAIN list : i < j => list[i].id < list[j].id
IdSet(list) == {list[i].id : i \in DOMAIN list}

LEMMA EntryIds == ASSUME MaxIds \in Nat, NEW e \in Entries PROVE e.id \in Nat
BY DEF Entries

\* A list that rises is told by the ids on it.
LEMMA RisingSame ==
  ASSUME MaxIds \in Nat, NEW s \in Seq(Entries), NEW t \in Seq(Entries),
         Rising(s), Rising(t), IdSet(s) = IdSet(t)
  PROVE  Len(s) = Len(t) /\ \A i \in DOMAIN s : i \in DOMAIN t /\ s[i].id = t[i].id
<1> DEFINE Fail(i) == \/ i \in DOMAIN s /\ ~(i \in DOMAIN t /\ s[i].id = t[i].id)
                      \/ i \in DOMAIN t /\ ~(i \in DOMAIN s /\ s[i].id = t[i].id)
           Fails == {i \in Nat : Fail(i)}
<1>1. PICK m \in Nat, n \in Nat : m = Len(s) /\ n = Len(t) /\ DOMAIN s = 1..m /\ DOMAIN t = 1..n
  BY LenProperties
<1>2. /\ \A i \in 1..m : s[i].id \in Nat
      /\ \A i \in 1..n : t[i].id \in Nat
  BY <1>1, ElementOfSeq, EntryIds
<1>3. ASSUME Fails # {} PROVE FALSE
  <2>1. Fails \in SUBSET Nat
    OBVIOUS
  <2>2. PICK i \in Fails : \A j \in Fails : i <= j
    <3> HIDE DEF Fails
    <3>1. QED
      BY <1>3, <2>1, SmallestElement
  <2>3. i \in Nat /\ \A j \in Nat : j < i => ~Fail(j)
    BY <2>2
  <2>4. ASSUME i \in 1..m PROVE i \in 1..n /\ t[i].id <= s[i].id
    <3>1. PICK j \in 1..n : s[i].id = t[j].id
      <4>1. s[i].id \in IdSet(t)
        BY <1>1, <2>4 DEF IdSet
      <4>2. QED
        BY <1>1, <4>1 DEF IdSet
    <3>2. i <= j
      <4>1. ASSUME j < i PROVE FALSE
        <5>1. j \in 1..m /\ s[j].id = t[j].id
          BY <1>1, <2>3, <3>1, <4>1
        <5>2. s[j].id < s[i].id
          BY <1>1, <2>4, <4>1, <5>1 DEF Rising
        <5>3. QED
          BY <1>2, <2>4, <3>1, <5>1, <5>2
      <4>2. QED
        BY <2>3, <3>1, <4>1
    <3>3. i \in 1..n
      BY <2>4, <3>1, <3>2
    <3>4. i = j \/ t[i].id < t[j].id
      BY <1>1, <3>1, <3>2, <3>3 DEF Rising
    <3>5. QED
      BY <1>2, <2>4, <3>1, <3>3, <3>4
  <2>5. ASSUME i \in 1..n PROVE i \in 1..m /\ s[i].id <= t[i].id
    <3>1. PICK j \in 1..m : t[i].id = s[j].id
      <4>1. t[i].id \in IdSet(s)
        BY <1>1, <2>5 DEF IdSet
      <4>2. QED
        BY <1>1, <4>1 DEF IdSet
    <3>2. i <= j
      <4>1. ASSUME j < i PROVE FALSE
        <5>1. j \in 1..n /\ s[j].id = t[j].id
          BY <1>1, <2>3, <3>1, <4>1
        <5>2. t[j].id < t[i].id
          BY <1>1, <2>5, <4>1, <5>1 DEF Rising
        <5>3. QED
          BY <1>2, <2>5, <3>1, <5>1, <5>2
      <4>2. QED
        BY <2>3, <3>1, <4>1
    <3>3. i \in 1..m
      BY <2>5, <3>1, <3>2
    <3>4. i = j \/ s[i].id < s[j].id
      BY <1>1, <3>1, <3>2, <3>3 DEF Rising
    <3>5. QED
      BY <1>2, <2>5, <3>1, <3>3, <3>4
  <2>6. Fail(i)
    BY <2>2
  <2>7. ASSUME i \in 1..m PROVE FALSE
    BY <1>1, <1>2, <2>4, <2>5, <2>6, <2>7
  <2>8. ASSUME i \in 1..n PROVE FALSE
    BY <1>1, <1>2, <2>4, <2>5, <2>6, <2>8
  <2>9. QED
    BY <1>1, <2>6, <2>7, <2>8
<1>4. \A i \in Nat : ~Fail(i)
  BY <1>3
<1>5. \A i \in 1..m : i \in 1..n /\ s[i].id = t[i].id
  BY <1>1, <1>4
<1>6. \A i \in 1..n : i \in 1..m
  BY <1>1, <1>4
<1>7. m = n
  <2>1. m # 0 => m <= n
    BY <1>5
  <2>2. n # 0 => n <= m
    BY <1>6
  <2>3. QED
    BY <2>1, <2>2
<1>8. QED
  BY <1>1, <1>5, <1>7

\* The recursion that Without computes.
Keeping(f, list, ids) ==
  /\ DOMAIN f = 0..Len(list) /\ f[0] = <<>>
  /\ \A i \in 1..Len(list) :
       f[i] = IF list[i].id \in ids THEN f[i - 1] ELSE Append(f[i - 1], list[i])

LEMMA KeepingExists ==
  ASSUME NEW list \in Seq(Entries), NEW ids
  PROVE  \E f : Keeping(f, list, ids)
<1>1. PICK n \in Nat : n = Len(list) /\ \A i \in 1..n : list[i] \in Entries
  BY LenProperties, ElementOfSeq
<1> DEFINE D == Seq(Entries)
           step == [i \in 1..n |-> [s \in D |-> IF list[i].id \in ids THEN s ELSE Append(s, list[i])]]
<1>2. \A i \in 1..n, s \in D :
        /\ (IF list[i].id \in ids THEN s ELSE Append(s, list[i])) \in D
        /\ step[i][s] = IF list[i].id \in ids THEN s ELSE Append(s, list[i])
  BY <1>1, AppendProperties
<1>3. <<>> \in D /\ step \in [1..n -> [D -> D]]
  BY <1>2, EmptySeq
<1> HIDE DEF D, step
<1>4. PICK f : Recurs(f, <<>>, step, D, n)
  BY <1>3, RecursionExists
<1>5. ASSUME NEW i \in 1..n
      PROVE  f[i] = IF list[i].id \in ids THEN f[i - 1] ELSE Append(f[i - 1], list[i])
  <2>1. i - 1 \in 0..n
    OBVIOUS
  <2>2. f[i - 1] \in D /\ f[i] = step[i][f[i - 1]]
    BY <1>4, <2>1 DEF Recurs
  <2>3. QED
    BY <1>2, <2>2
<1>6. Keeping(f, list, ids)
  BY <1>1, <1>4, <1>5 DEF Keeping, Recurs
<1>7. QED
  BY <1>6

LEMMA WithoutKeeps ==
  ASSUME NEW list \in Seq(Entries), NEW ids
  PROVE  \E f : Keeping(f, list, ids) /\ Without(list, ids) = f[Len(list)]
<1> DEFINE n == Len(list)
           E(f) == f = [i \in 0..n |-> IF i = 0 THEN <<>>
                                       ELSE IF list[i].id \in ids THEN f[i - 1]
                                       ELSE Append(f[i - 1], list[i])]
           F == CHOOSE f : E(f)
<1>1. PICK f : Keeping(f, list, ids)
  BY KeepingExists
<1>2. n \in Nat
  BY LenProperties
<1>3. Without(list, ids) = F[n]
  BY DEF Without
<1> HIDE DEF n
<1>4. \A i \in 0..n : i # 0 => i \in 1..n /\ i - 1 \in 0..n
  BY <1>2
<1>5. \E g : E(g)
  <2> DEFINE g == [i \in 0..n |-> f[i]]
  <2>1. \A i \in 0..n : g[i] = IF i = 0 THEN <<>>
                               ELSE IF list[i].id \in ids THEN g[i - 1] ELSE Append(g[i - 1], list[i])
    BY <1>1, <1>4 DEF Keeping, n
  <2>2. E(g)
    BY <2>1
  <2>3. QED
    BY <2>2
<1>6. E(F)
  BY <1>5
<1>7. Keeping(F, list, ids)
  <2> HIDE DEF F
  <2>1. /\ DOMAIN F = 0..n
        /\ \A i \in 0..n : F[i] = IF i = 0 THEN <<>>
                                  ELSE IF list[i].id \in ids THEN F[i - 1] ELSE Append(F[i - 1], list[i])
    BY <1>6
  <2>2. 0 \in 0..n /\ \A i \in 1..n : i \in 0..n /\ i # 0
    BY <1>2
  <2>3. QED
    BY <2>1, <2>2 DEF Keeping, n
<1> HIDE DEF F
<1>8. QED
  BY <1>3, <1>7 DEF n

\* A list that rises still does without some of its entries, and the others stay.
LEMMA WithoutRises ==
  ASSUME MaxIds \in Nat, NEW list \in Seq(Entries), NEW ids, Rising(list)
  PROVE  /\ Without(list, ids) \in Seq(Entries) /\ Rising(Without(list, ids))
         /\ Range(Without(list, ids)) = {e \in Range(list) : e.id \notin ids}
<1>0. PICK n \in Nat : n = Len(list) /\ DOMAIN list = 1..n /\ \A i \in 1..n : list[i] \in Entries
  BY LenProperties, ElementOfSeq
<1>1. PICK f : /\ Keeping(f, list, ids) /\ n = Len(list) /\ Without(list, ids) = f[n]
               /\ DOMAIN list = 1..n /\ \A i \in 1..n : list[i] \in Entries
  BY <1>0, WithoutKeeps
<1> DEFINE P(i) == /\ f[i] \in Seq(Entries) /\ Rising(f[i])
                   /\ Range(f[i]) = {e \in {list[j] : j \in 1..i} : e.id \notin ids}
           Holds == {i \in 0..n : P(i)}
<1>2. 0 \in Holds
  <2>1. f[0] = <<>>
    BY <1>1 DEF Keeping
  <2>2. <<>> \in Seq(Entries) /\ Rising(<<>>) /\ Range(<<>>) = {}
    BY EmptySeq DEF Rising, Range
  <2>3. P(0)
    BY <2>1, <2>2
  <2>4. 0 \in 0..n
    OBVIOUS
  <2> HIDE DEF P
  <2>5. QED
    BY <2>3, <2>4
<1>3. ASSUME NEW i \in 1..n, i - 1 \in Holds PROVE i \in Holds
  <2>1. 1..i = 1..(i - 1) \cup {i} /\ i \notin 1..(i - 1) /\ i \in 0..n
    OBVIOUS
  <2>2. PICK s \in Seq(Entries) : /\ s = f[i - 1] /\ Rising(s)
                                  /\ Range(s) = {e \in {list[j] : j \in 1..(i - 1)} : e.id \notin ids}
    BY <1>3
  <2>3. f[i] = IF list[i].id \in ids THEN s ELSE Append(s, list[i])
    BY <1>1, <2>2 DEF Keeping
  <2>4. CASE list[i].id \in ids
    <3>1. P(i)
      BY <2>1, <2>2, <2>3, <2>4
    <3> HIDE DEF P
    <3>2. QED
      BY <2>1, <3>1
  <2>5. CASE list[i].id \notin ids
    <3>1. PICK k \in Nat, r \in Seq(Entries) :
                 /\ k = Len(s) /\ DOMAIN s = 1..k /\ r = f[i] /\ DOMAIN r = 1..k \cup {k + 1}
                 /\ r[k + 1] = list[i] /\ \A j \in 1..k : r[j] = s[j]
      <4>1. DOMAIN s = 1..Len(s) /\ Len(s) \in Nat
        BY LenProperties
      <4>2. PICK e \in Entries : e = list[i]
        BY <1>1
      <4>3. /\ Append(s, e) \in Seq(Entries) /\ DOMAIN Append(s, e) = DOMAIN s \cup {Len(s) + 1}
            /\ \A j \in DOMAIN s : Append(s, e)[j] = s[j]
            /\ Append(s, e)[Len(s) + 1] = e
        BY AppendElements
      <4>4. f[i] = Append(s, e)
        BY <2>3, <2>5, <4>2
      <4>5. QED
        BY <4>1, <4>2, <4>3, <4>4
    <3>2. \A j \in 1..k : s[j].id < list[i].id
      <4>1. ASSUME NEW j \in 1..k PROVE s[j].id < list[i].id
        <5>1. s[j] \in Range(s)
          BY <3>1 DEF Range
        <5>2. PICK l \in 1..(i - 1) : s[j] = list[l]
          BY <2>2, <5>1
        <5>3. l \in 1..n /\ l < i
          OBVIOUS
        <5>4. QED
          BY <1>1, <5>2, <5>3 DEF Rising
      <4>2. QED
        BY <4>1
    <3>3. Rising(r)
      <4>1. ASSUME NEW a \in DOMAIN r, NEW b \in DOMAIN r, a < b PROVE r[a].id < r[b].id
        <5>1. a \in 1..k
          BY <3>1, <4>1
        <5>2. CASE b \in 1..k
          BY <2>2, <3>1, <4>1, <5>1, <5>2 DEF Rising
        <5>3. CASE b = k + 1
          BY <3>1, <3>2, <5>1, <5>3
        <5>4. QED
          BY <3>1, <5>2, <5>3
      <4>2. QED
        BY <4>1 DEF Rising
    <3>4. Range(r) = Range(s) \cup {list[i]}
      BY <3>1 DEF Range
    <3>5. Range(r) = {e \in {list[j] : j \in 1..i} : e.id \notin ids}
      BY <2>1, <2>2, <2>5, <3>4
    <3>6. P(i)
      BY <3>1, <3>3, <3>5
    <3> HIDE DEF P
    <3>7. QED
      BY <2>1, <3>6
  <2>6. QED
    BY <2>4, <2>5
<1>4. Holds \in SUBSET (0..n)
  OBVIOUS
<1>5. n \in Holds
  <2>1. n \in 0..n
    OBVIOUS
  <2> HIDE DEF Holds
  <2>2. QED
    BY <1>2, <1>3, <1>4, <2>1, NaturalInduction
<1>6. P(n)
  BY <1>5
<1>7. Range(list) = {list[j] : j \in 1..n}
  BY <1>1 DEF Range
<1>8. QED
  BY <1>1, <1>6, <1>7

\* Whether a sequence has one of some things after its n-th place.
Beyond(s, X, n) == \E j \in DOMAIN s : j > n /\ s[j] \in X

LEMMA BeyondAppend ==
  ASSUME NEW S, NEW s \in Seq(S), NEW e \in S, NEW X
  PROVE  /\ \A n \in DOMAIN s \cup {0} : Beyond(Append(s, e), X, n) <=> Beyond(s, X, n) \/ e \in X
         /\ ~Beyond(Append(s, e), X, Len(s) + 1)
<1>1. PICK m \in Nat, r \in Seq(S) : /\ m = Len(s) /\ DOMAIN s = 1..m /\ r = Append(s, e)
                                     /\ DOMAIN r = 1..m \cup {m + 1} /\ r[m + 1] = e
                                     /\ \A i \in 1..m : r[i] = s[i]
  <2>1. /\ Append(s, e) \in Seq(S) /\ DOMAIN Append(s, e) = DOMAIN s \cup {Len(s) + 1}
        /\ \A i \in DOMAIN s : Append(s, e)[i] = s[i]
        /\ Append(s, e)[Len(s) + 1] = e
    BY AppendElements
  <2>2. Len(s) \in Nat /\ DOMAIN s = 1..Len(s)
    BY LenProperties
  <2>3. QED
    BY <2>1, <2>2
<1>2. \A n \in 1..m \cup {0} : Beyond(r, X, n) <=> Beyond(s, X, n) \/ e \in X
  BY <1>1 DEF Beyond
<1>3. ~Beyond(r, X, m + 1)
  BY <1>1 DEF Beyond
<1>4. QED
  BY <1>1, <1>2, <1>3

LEMMA BeyondTail ==
  ASSUME NEW S, NEW s \in Seq(S), s # <<>>, NEW X
  PROVE  /\ \A n \in Nat : Beyond(Tail(s), X, n) <=> Beyond(s, X, n + 1)
         /\ Beyond(s, X, 0) <=> Head(s) \in X \/ Beyond(Tail(s), X, 0)
         /\ Head(s) \notin X => (Beyond(Tail(s), X, 0) <=> Beyond(s, X, 0))
<1>1. PICK r \in Seq(S) :
        /\ r = Tail(s)
        /\ \A i \in DOMAIN r : i \in Nat /\ i + 1 \in DOMAIN s /\ r[i] = s[i + 1]
        /\ \A j \in DOMAIN s : j # 1 => j - 1 \in DOMAIN r /\ r[j - 1] = s[j]
        /\ 1 \in DOMAIN s /\ Head(s) = s[1]
  <2>1. /\ Tail(s) \in Seq(S)
        /\ \A i \in DOMAIN Tail(s) : i \in Nat /\ i + 1 \in DOMAIN s /\ Tail(s)[i] = s[i + 1]
        /\ \A j \in DOMAIN s : j # 1 => j - 1 \in DOMAIN Tail(s) /\ Tail(s)[j - 1] = s[j]
        /\ 1 \in DOMAIN s /\ Head(s) = s[1]
    BY TailElements
  <2>2. QED
    BY Zenon, <2>1
<1>2. \A j \in DOMAIN s : j \in Nat /\ j > 0
  BY LenProperties
<1>3. ASSUME NEW n \in Nat PROVE Beyond(r, X, n) <=> Beyond(s, X, n + 1)
  <2>1. ASSUME NEW j \in DOMAIN r, j > n, r[j] \in X PROVE Beyond(s, X, n + 1)
    <3>1. j + 1 \in DOMAIN s /\ j + 1 > n + 1 /\ s[j + 1] \in X
      BY <1>1, <2>1
    <3>2. QED
      BY <3>1 DEF Beyond
  <2>2. ASSUME NEW j \in DOMAIN s, j > n + 1, s[j] \in X PROVE Beyond(r, X, n)
    <3>1. j - 1 \in DOMAIN r /\ j - 1 > n /\ r[j - 1] \in X
      BY <1>1, <1>2, <2>2
    <3>2. QED
      BY <3>1 DEF Beyond
  <2>3. QED
    BY <2>1, <2>2 DEF Beyond
<1>4. Beyond(s, X, 0) <=> Head(s) \in X \/ Beyond(s, X, 1)
  BY <1>1, <1>2 DEF Beyond
<1>5. Beyond(r, X, 0) <=> Beyond(s, X, 1)
  <2>1. 0 \in Nat /\ 0 + 1 = 1
    OBVIOUS
  <2>2. QED
    BY <1>3, <2>1
<1>6. QED
  BY <1>1, <1>3, <1>4, <1>5

\* An event says what an entry has become; the ids stay where they are.
LEMMA ReplaceKeepsIds ==
  ASSUME NEW list \in Seq(Entries), NEW e \in Entries
  PROVE  /\ Replace(list, e) \in Seq(Entries) /\ DOMAIN Replace(list, e) = DOMAIN list
         /\ \A i \in DOMAIN list :
              /\ Replace(list, e)[i] = IF list[i].id = e.id THEN e ELSE list[i]
              /\ Replace(list, e)[i].id = list[i].id
         /\ IdSet(Replace(list, e)) = IdSet(list)
         /\ Rising(list) => Rising(Replace(list, e))
<1>1. PICK n \in Nat : DOMAIN list = 1..n /\ \A i \in 1..n : list[i] \in Entries
  BY LenProperties, ElementOfSeq
<1>2. PICK r : r = Replace(list, e) /\ r = [i \in 1..n |-> IF list[i].id = e.id THEN e ELSE list[i]]
  BY <1>1 DEF Replace
<1>3. /\ r \in [1..n -> Entries] /\ DOMAIN r = 1..n
      /\ \A i \in 1..n : r[i] = IF list[i].id = e.id THEN e ELSE list[i]
  BY <1>1, <1>2
<1>4. r \in Seq(Entries)
  BY <1>3
<1>5. \A i \in 1..n : r[i].id = list[i].id
  BY <1>3
<1>6. IdSet(r) = IdSet(list) /\ (Rising(list) => Rising(r))
  BY <1>1, <1>3, <1>5 DEF IdSet, Rising
<1>7. QED
  BY <1>1, <1>2, <1>3, <1>4, <1>5, <1>6

-----------------------------------------------------------------------------
(* The inductive invariant, for the one task c that sets breakpoints.      *)

Steps == {"idle", "wait", "update", "update_again", "by_id", "by_id_functions"}
Updating(task) == task.at \in {"update", "update_again"}
Handling(task) == task.at \in {"by_id", "by_id_functions"}
Requests == [task : Tasks, key : Keys, lines : Asked]
Messages == [type : {"response", "event"}, task : Tasks, list : Seq(Entries)]
Events == {<<e>> : e \in Entries}

BpTypes ==
  /\ bpCached \in [Keys -> Seq(Entries)] /\ bpActual \in [Keys -> Seq(Entries)]
  /\ bpTask \in [Tasks -> [at : Steps, key : Keys, list : Seq(Entries)]]
  /\ bpInput \in Seq(Requests) /\ bpPipe \in Seq(Messages) /\ bpEvents \in Seq(Events)
  /\ bpIds \in Nat /\ bpRemoved \subseteq 1..bpIds
  /\ \A i \in DOMAIN bpPipe : bpPipe[i].type = "event" => bpPipe[i].list \in Events
  /\ \A t \in Tasks : Handling(bpTask[t]) => bpTask[t].list \in Events

\* c has at most one request or response under way, and only c has any.
BpCalls(c) ==
  /\ \A i \in DOMAIN bpInput : bpInput[i].task = c /\ bpInput[i].key = bpTask[c].key
  /\ bpInput # <<>> => Len(bpInput) = 1 /\ bpTask[c].at = "wait"
  /\ \A i \in DOMAIN bpPipe : bpPipe[i].type = "response" =>
       /\ bpPipe[i].task = c /\ bpTask[c].at = "wait" /\ bpInput = <<>>
       /\ \A j \in DOMAIN bpPipe : bpPipe[j].type = "response" => j = i
  /\ \A t \in Tasks : bpTask[t].at = "wait" \/ Updating(bpTask[t]) => t = c

Answered == \E i \in DOMAIN bpPipe : bpPipe[i].type = "response"
Pending(c, k) == bpTask[c].key = k /\ (Updating(bpTask[c]) \/ Answered)

\* The lists the cache shows once the answer under way has been stored.
Accounted(c, base) ==
  /\ \A k \in Keys : bpCached[k] = base[k] \/ Pending(c, k)
  /\ Updating(bpTask[c]) => bpTask[c].list = base[bpTask[c].key]
  /\ \A i \in DOMAIN bpPipe : bpPipe[i].type = "response" => bpPipe[i].list = base[bpTask[c].key]

\* Their ids are those of the adapter's lists and of the breakpoints it removed.
IdsAgree(base, actual, removed, ids) ==
  /\ \A k \in Keys : /\ Rising(base[k]) /\ Rising(actual[k])
                     /\ IdSet(actual[k]) = IdSet(base[k]) \ removed
                     /\ IdSet(base[k]) \subseteq 1..ids
  /\ \A k, l \in Keys : k # l => IdSet(base[k]) \cap IdSet(base[l]) = {}

\* What the adapter said last of a breakpoint is true of it.
Telling(id) == {m \in Messages : m.type = "event" /\ m.list[1].id = id}
About(id) == {list \in Events : list[1].id = id}
Fits(actual, e) == \A k \in Keys : \A n \in DOMAIN actual[k] : actual[k][n].id = e.id => actual[k][n] = e
PipeFits(pipe, actual, ids) ==
  \A i \in DOMAIN pipe, e \in Entries : pipe[i].type = "event" /\ pipe[i].list = <<e>> =>
    e.id \in 1..ids /\ (~Beyond(pipe, Telling(e.id), i) => Fits(actual, e))
ChannelFits(channel, pipe, actual, ids) ==
  \A i \in DOMAIN channel, e \in Entries : channel[i] = <<e>> =>
    /\ e.id \in 1..ids
    /\ ~Beyond(channel, About(e.id), i) /\ ~Beyond(pipe, Telling(e.id), 0) => Fits(actual, e)
TaskFits(task, channel, pipe, actual, ids) ==
  \A e \in Entries : Handling(task) /\ task.list = <<e>> =>
    /\ e.id \in 1..ids
    /\ ~Beyond(channel, About(e.id), 0) /\ ~Beyond(pipe, Telling(e.id), 0) => Fits(actual, e)
SearchFits(task, cached) ==
  task.at = "by_id_functions" => \A k \in Files : task.list[1].id \notin IdSet(cached[k])

\* Where nothing more is to be said, the list to be shown has the adapter's own entry.
Spoken(id, task, channel, pipe) ==
  \/ Beyond(pipe, Telling(id), 0) \/ Beyond(channel, About(id), 0)
  \/ Handling(task) /\ task.list[1].id = id
ListFits(base, task, channel, pipe, actual) ==
  \A k \in Keys : \A n \in DOMAIN actual[k] :
    Spoken(actual[k][n].id, task, channel, pipe) \/ actual[k][n] \in Range(base[k])

LatestFits(c, base) ==
  /\ PipeFits(bpPipe, bpActual, bpIds)
  /\ ChannelFits(bpEvents, bpPipe, bpActual, bpIds)
  /\ TaskFits(bpTask[c], bpEvents, bpPipe, bpActual, bpIds)
  /\ SearchFits(bpTask[c], bpCached)
  /\ ListFits(base, bpTask[c], bpEvents, bpPipe, bpActual)

BpInv(c) ==
  /\ BpTypes /\ BpCalls(c)
  /\ \E base \in [Keys -> Seq(Entries)] :
       /\ Accounted(c, base) /\ IdsAgree(base, bpActual, bpRemoved, bpIds)
       /\ Loops = {c} => LatestFits(c, base)

LEMMA BpStarts ==
  ASSUME BpConstants, NEW c, Callers = {c}, Init
  PROVE  BpInv(c)
<1>1. PICK none \in Seq(Entries) : none = <<>> /\ DOMAIN none = {} /\ Range(none) = {}
  <2>1. <<>> \in Seq(Entries) /\ DOMAIN <<>> = {} /\ Range(<<>>) = {}
    BY EmptySeq DEF Range
  <2>2. QED
    BY <2>1
<1>2. FunctionList \in Keys /\ c \in Tasks
  BY DEF Keys, Tasks
<1>3. \A t \in Tasks : bpTask[t] = [at |-> "idle", key |-> FunctionList, list |-> none]
  BY <1>1 DEF Init, Idle
<1>4. BpTypes
  <2>1. [at |-> "idle", key |-> FunctionList, list |-> none] \in [at : Steps, key : Keys, list : Seq(Entries)]
    BY <1>2 DEF Steps
  <2>2. /\ bpInput \in Seq(Requests) /\ bpPipe \in Seq(Messages) /\ bpEvents \in Seq(Events)
        /\ DOMAIN bpPipe = {}
    BY EmptySeq DEF Init
  <2>3. \A t \in Tasks : ~Handling(bpTask[t])
    BY <1>3 DEF Handling
  <2>4. bpTask \in [Tasks -> [at : Steps, key : Keys, list : Seq(Entries)]]
    BY <1>1, <2>1 DEF Init, Idle
  <2>5. bpCached \in [Keys -> Seq(Entries)] /\ bpActual \in [Keys -> Seq(Entries)]
    BY <1>1 DEF Init
  <2>6. QED
    BY <2>2, <2>3, <2>4, <2>5 DEF BpTypes, Init
<1>5. BpCalls(c)
  <2>1. bpInput = <<>> /\ DOMAIN bpInput = {} /\ DOMAIN bpPipe = {}
    BY EmptySeq DEF Init
  <2>2. \A t \in Tasks : bpTask[t].at = "idle"
    BY <1>3
  <2>3. QED
    BY <2>1, <2>2 DEF BpCalls, Updating
<1>6. PICK base \in [Keys -> Seq(Entries)] : base = [k \in Keys |-> none] /\ base = bpCached /\ base = bpActual
  BY <1>1 DEF Init
<1>7. DOMAIN bpPipe = {} /\ DOMAIN bpEvents = {}
  BY EmptySeq DEF Init
<1>8. Accounted(c, base)
  BY <1>2, <1>3, <1>6, <1>7 DEF Accounted, Updating
<1>9. IdsAgree(base, bpActual, bpRemoved, bpIds)
  <2>1. \A k \in Keys : base[k] = none /\ bpActual[k] = none
    BY <1>6
  <2>2. Rising(none) /\ IdSet(none) = {}
    BY <1>1 DEF Rising, IdSet
  <2>3. QED
    BY <2>1, <2>2 DEF IdsAgree
<1>10. LatestFits(c, base)
  <2>1. bpTask[c].at = "idle"
    BY <1>2, <1>3
  <2>2. ~Handling(bpTask[c])
    BY <2>1 DEF Handling
  <2>3. PipeFits(bpPipe, bpActual, bpIds) /\ ChannelFits(bpEvents, bpPipe, bpActual, bpIds)
    BY <1>7 DEF PipeFits, ChannelFits
  <2>4. TaskFits(bpTask[c], bpEvents, bpPipe, bpActual, bpIds) /\ SearchFits(bpTask[c], bpCached)
    BY <2>1, <2>2 DEF TaskFits, SearchFits
  <2>5. \A k \in Keys : DOMAIN bpActual[k] = {}
    BY <1>1, <1>6
  <2>6. QED
    BY <2>3, <2>4, <2>5 DEF LatestFits, ListFits
<1>11. QED
  BY <1>4, <1>5, <1>8, <1>9, <1>10 DEF BpInv

LEMMA BpSets ==
  ASSUME BpConstants, NEW c, Callers = {c}, BpInv(c), NEW t \in Tasks, SetBreakpoints(t)
  PROVE  BpInv(c)'
<1>1. t = c /\ c \in Tasks /\ bpTask[c].at = "idle"
  BY DEF SetBreakpoints, Tasks
<1>2. PICK key \in Keys, asked \in Asked :
        /\ bpInput' = Append(bpInput, [task |-> c, key |-> key, lines |-> asked])
        /\ bpTask' = [bpTask EXCEPT ![c] = [at |-> "wait", key |-> key, list |-> <<>>]]
        /\ UNCHANGED <<bpCached, bpPipe, bpEvents, bpActual, bpIds, bpRemoved>>
  BY <1>1 DEF SetBreakpoints
<1>3. PICK r \in Requests : r = [task |-> c, key |-> key, lines |-> asked] /\ r.task = c /\ r.key = key
  <2>1. [task |-> c, key |-> key, lines |-> asked] \in Requests
    BY <1>1 DEF Requests
  <2>2. QED
    BY <2>1
<1>4. bpInput = <<>> /\ ~Answered /\ ~Updating(bpTask[c])
  BY <1>1 DEF BpInv, BpCalls, Answered, Updating
<1>5. bpInput' \in Seq(Requests) /\ Len(bpInput') = 1 /\ DOMAIN bpInput' = {1} /\ bpInput'[1] = r
  <2>1. bpInput \in Seq(Requests) /\ Len(bpInput) = 0
    BY <1>4, EmptySeq DEF BpInv, BpTypes
  <2>2. PICK input \in Seq(Requests) : input = bpInput' /\ Len(input) = 1 /\ input[1] = r
    <3>1. PICK before \in Seq(Requests) : before = bpInput /\ Len(before) = 0
      BY <2>1
    <3>2. /\ Append(before, r) \in Seq(Requests) /\ Len(Append(before, r)) = Len(before) + 1
          /\ Append(before, r)[Len(before) + 1] = r
      BY AppendProperties
    <3>3. bpInput' = Append(before, r)
      BY <1>2, <1>3, <3>1
    <3>4. bpInput' \in Seq(Requests) /\ Len(bpInput') = 1 /\ bpInput'[1] = r
      BY <3>1, <3>2, <3>3
    <3>5. QED
      BY <3>4
  <2>3. DOMAIN input = 1..1
    BY <2>2, LenProperties
  <2>4. QED
    BY <2>2, <2>3
<1>6. /\ bpTask' \in [Tasks -> [at : Steps, key : Keys, list : Seq(Entries)]]
      /\ bpTask'[c].at = "wait" /\ bpTask'[c].key = key
      /\ \A u \in Tasks : u # c => bpTask'[u] = bpTask[u]
  <2>1. [at |-> "wait", key |-> key, list |-> <<>>] \in [at : Steps, key : Keys, list : Seq(Entries)]
    BY EmptySeq DEF Steps
  <2>2. bpTask \in [Tasks -> [at : Steps, key : Keys, list : Seq(Entries)]]
    BY DEF BpInv, BpTypes
  <2>3. QED
    BY <1>1, <1>2, <2>1, <2>2
<1>7. BpTypes'
  <2>1. \A u \in Tasks : Handling(bpTask'[u]) => u # c /\ Handling(bpTask[u])
    BY <1>6 DEF Handling
  <2>2. QED
    BY <1>2, <1>5, <1>6, <2>1 DEF BpInv, BpTypes
<1>8. BpCalls(c)'
  BY <1>1, <1>2, <1>3, <1>4, <1>5, <1>6 DEF BpInv, BpCalls, Answered, Updating
<1>9. PICK base \in [Keys -> Seq(Entries)] :
        /\ Accounted(c, base) /\ IdsAgree(base, bpActual, bpRemoved, bpIds)
        /\ Loops = {c} => LatestFits(c, base)
  BY DEF BpInv
<1>10. Accounted(c, base)'
  <2>1. \A k \in Keys : bpCached[k] = base[k]
    BY <1>4, <1>9 DEF Accounted, Pending
  <2>2. ~Updating(bpTask'[c])
    BY <1>6 DEF Updating
  <2>3. QED
    BY <1>2, <1>4, <2>1, <2>2 DEF Accounted, Answered
<1>11. ASSUME Loops = {c} PROVE LatestFits(c, base)'
  <2>1. ~Handling(bpTask[c]) /\ ~Handling(bpTask'[c]) /\ bpTask'[c].at # "by_id_functions"
    BY <1>1, <1>6 DEF Handling
  <2>2. \A id : Spoken(id, bpTask[c], bpEvents, bpPipe) => Spoken(id, bpTask'[c], bpEvents, bpPipe)
    BY <2>1 DEF Spoken
  <2>3. QED
    BY <1>2, <1>9, <1>11, <2>1, <2>2 DEF LatestFits, TaskFits, SearchFits, ListFits
<1>12. (IdsAgree(base, bpActual, bpRemoved, bpIds))'
  BY <1>2, <1>9
<1>13. QED
  BY <1>7, <1>8, <1>10, <1>11, <1>12 DEF BpInv

LEMMA BpUpdates ==
  ASSUME BpConstants, NEW c, Callers = {c}, BpInv(c), NEW t \in Tasks, update_breakpoints(t)
  PROVE  BpInv(c)'
<1>1. t = c /\ c \in Tasks /\ Updating(bpTask[c])
  BY DEF update_breakpoints, BpInv, BpCalls, Updating
<1>2. /\ bpTask \in [Tasks -> [at : Steps, key : Keys, list : Seq(Entries)]]
      /\ bpCached \in [Keys -> Seq(Entries)]
  BY DEF BpInv, BpTypes
<1>3. PICK key \in Keys, list \in Seq(Entries) : key = bpTask[c].key /\ list = bpTask[c].list
  BY <1>1, <1>2
<1>4. /\ bpCached' = [bpCached EXCEPT ![key] = list]
      /\ bpTask' = [bpTask EXCEPT ![c] =
           IF bpTask[c].at = "update" THEN [bpTask[c] EXCEPT !.at = "update_again"] ELSE Idle]
      /\ UNCHANGED <<bpInput, bpPipe, bpEvents, bpActual, bpIds, bpRemoved>>
  BY <1>1, <1>3 DEF update_breakpoints
<1>5. /\ bpTask' \in [Tasks -> [at : Steps, key : Keys, list : Seq(Entries)]]
      /\ \/ bpTask'[c].at = "update_again" /\ bpTask'[c].key = key /\ bpTask'[c].list = list
         \/ bpTask'[c].at = "idle"
      /\ \A u \in Tasks : u # c => bpTask'[u] = bpTask[u]
  <2>1. Idle \in [at : Steps, key : Keys, list : Seq(Entries)] /\ Idle.at = "idle"
    <3>1. FunctionList \in Keys /\ <<>> \in Seq(Entries)
      BY EmptySeq DEF Keys
    <3>2. QED
      BY <3>1 DEF Idle, Steps
  <2>2. PICK again : /\ again = [bpTask[c] EXCEPT !.at = "update_again"] /\ again.at = "update_again"
                     /\ again \in [at : Steps, key : Keys, list : Seq(Entries)]
                     /\ again.key = key /\ again.list = list
    <3>1. PICK task \in [at : Steps, key : Keys, list : Seq(Entries)] : task = bpTask[c]
      BY <1>1, <1>2
    <3>2. [task EXCEPT !.at = "update_again"] \in [at : Steps, key : Keys, list : Seq(Entries)]
      BY DEF Steps
    <3>3. /\ [task EXCEPT !.at = "update_again"].at = "update_again"
          /\ [task EXCEPT !.at = "update_again"].key = task.key
          /\ [task EXCEPT !.at = "update_again"].list = task.list
      OBVIOUS
    <3>4. QED
      BY <1>3, <3>1, <3>2, <3>3
  <2>3. bpTask' = [bpTask EXCEPT ![c] = IF bpTask[c].at = "update" THEN again ELSE Idle]
    BY <1>4, <2>2
  <2>4. QED
    BY <1>1, <1>2, <2>1, <2>2, <2>3
<1>6. BpTypes'
  <2>1. \A u \in Tasks : Handling(bpTask'[u]) => u # c /\ Handling(bpTask[u])
    BY <1>5 DEF Handling
  <2>2. bpCached' \in [Keys -> Seq(Entries)]
    BY <1>2, <1>4
  <2>3. QED
    BY <1>4, <1>5, <2>1, <2>2 DEF BpInv, BpTypes
<1>7. bpInput = <<>> /\ ~Answered
  BY <1>1 DEF BpInv, BpCalls, Answered, Updating
<1>8. BpCalls(c)'
  <2>1. DOMAIN bpInput = {}
    BY <1>7, EmptySeq
  <2>2. QED
    BY <1>4, <1>5, <1>7, <2>1 DEF BpInv, BpCalls, Answered, Updating
<1>9. PICK base \in [Keys -> Seq(Entries)] :
        /\ Accounted(c, base) /\ IdsAgree(base, bpActual, bpRemoved, bpIds)
        /\ Loops = {c} => LatestFits(c, base)
  BY DEF BpInv
<1>10. list = base[key] /\ \A k \in Keys : bpCached'[k] = base[k]
  <2>1. list = base[key] /\ \A k \in Keys : k # key => bpCached[k] = base[k]
    BY <1>1, <1>3, <1>9 DEF Accounted, Pending
  <2>2. QED
    BY <1>2, <1>3, <1>4, <2>1
<1>11. Accounted(c, base)'
  BY <1>4, <1>5, <1>7, <1>10 DEF Accounted, Answered, Updating
<1>12. ASSUME Loops = {c} PROVE LatestFits(c, base)'
  <2>1. ~Handling(bpTask[c]) /\ ~Handling(bpTask'[c]) /\ bpTask'[c].at # "by_id_functions"
    BY <1>1, <1>5 DEF Handling, Updating
  <2>2. \A id : Spoken(id, bpTask[c], bpEvents, bpPipe) => Spoken(id, bpTask'[c], bpEvents, bpPipe)
    BY <2>1 DEF Spoken
  <2>3. QED
    BY <1>4, <1>9, <1>12, <2>1, <2>2 DEF LatestFits, TaskFits, SearchFits, ListFits
<1>13. (IdsAgree(base, bpActual, bpRemoved, bpIds))'
  BY <1>4, <1>9
<1>14. QED
  BY <1>6, <1>8, <1>11, <1>12, <1>13 DEF BpInv

\* The reader task takes the first message from the pipe.
LEMMA PipeRead ==
  ASSUME NEW pipe \in Seq(Messages), pipe # <<>>, NEW actual, NEW ids, PipeFits(pipe, actual, ids)
  PROVE  /\ PipeFits(Tail(pipe), actual, ids)
         /\ \A id : Beyond(pipe, Telling(id), 0) <=> Head(pipe) \in Telling(id) \/ Beyond(Tail(pipe), Telling(id), 0)
         /\ \A e \in Entries : Head(pipe).type = "event" /\ Head(pipe).list = <<e>> =>
              /\ e.id \in 1..ids
              /\ ~Beyond(Tail(pipe), Telling(e.id), 0) => Fits(actual, e)
<1>1. PICK rest \in Seq(Messages) :
        /\ rest = Tail(pipe)
        /\ \A i \in DOMAIN rest : i \in Nat /\ i + 1 \in DOMAIN pipe /\ rest[i] = pipe[i + 1]
        /\ 1 \in DOMAIN pipe /\ Head(pipe) = pipe[1]
  <2>1. /\ Tail(pipe) \in Seq(Messages)
        /\ \A i \in DOMAIN Tail(pipe) : i \in Nat /\ i + 1 \in DOMAIN pipe /\ Tail(pipe)[i] = pipe[i + 1]
        /\ 1 \in DOMAIN pipe /\ Head(pipe) = pipe[1]
    BY TailElements
  <2>2. QED
    BY Zenon, <2>1
<1>2. \A X : /\ \A n \in Nat : Beyond(rest, X, n) <=> Beyond(pipe, X, n + 1)
             /\ Beyond(pipe, X, 0) <=> Head(pipe) \in X \/ Beyond(rest, X, 0)
  BY Zenon, <1>1, BeyondTail
<1>3. PipeFits(rest, actual, ids)
  BY <1>1, <1>2 DEF PipeFits
<1>4. ASSUME NEW e \in Entries, Head(pipe).type = "event", Head(pipe).list = <<e>>
      PROVE  e.id \in 1..ids /\ (~Beyond(rest, Telling(e.id), 0) => Fits(actual, e))
  <2>1. e.id \in 1..ids /\ (~Beyond(pipe, Telling(e.id), 1) => Fits(actual, e))
    BY <1>1, <1>4 DEF PipeFits
  <2>2. 0 \in Nat /\ 0 + 1 = 1
    OBVIOUS
  <2>3. Beyond(rest, Telling(e.id), 0) <=> Beyond(pipe, Telling(e.id), 1)
    BY <1>2, <2>2
  <2>4. QED
    BY <2>1, <2>3
<1>5. QED
  BY <1>1, <1>2, <1>3, <1>4

LEMMA BpReadsResponse ==
  ASSUME BpConstants, NEW c, Callers = {c}, BpInv(c), ReadResponse
  PROVE  BpInv(c)'
<1>1. PICK pipe \in Seq(Messages), rest \in Seq(Messages) :
        /\ pipe = bpPipe /\ rest = Tail(pipe) /\ pipe # <<>>
        /\ \A i \in DOMAIN rest : i \in Nat /\ i + 1 \in DOMAIN pipe /\ rest[i] = pipe[i + 1]
        /\ 1 \in DOMAIN pipe /\ Head(pipe) = pipe[1]
  <2>1. bpPipe \in Seq(Messages) /\ bpPipe # <<>>
    BY DEF ReadResponse, BpInv, BpTypes
  <2>2. PICK pipe \in Seq(Messages) : pipe = bpPipe /\ pipe # <<>>
    BY <2>1
  <2>3. /\ Tail(pipe) \in Seq(Messages)
        /\ \A i \in DOMAIN Tail(pipe) : i \in Nat /\ i + 1 \in DOMAIN pipe /\ Tail(pipe)[i] = pipe[i + 1]
        /\ 1 \in DOMAIN pipe /\ Head(pipe) = pipe[1]
    BY <2>2, TailElements
  <2>4. QED
    BY Zenon, <2>2, <2>3
<1>2. PICK m \in Messages : m = Head(pipe) /\ m = pipe[1] /\ m.type = "response"
  <2>1. pipe[1] \in Messages
    BY <1>1, ElementOfSeq, LenProperties
  <2>2. QED
    BY <1>1, <2>1 DEF ReadResponse
<1>3. /\ m.task = c /\ c \in Tasks /\ bpTask[c].at = "wait" /\ bpInput = <<>>
      /\ \A j \in DOMAIN pipe : pipe[j].type = "response" => j = 1
  BY <1>1, <1>2 DEF BpInv, BpCalls, Tasks
<1>4. /\ bpTask' = [bpTask EXCEPT ![c] = [bpTask[c] EXCEPT !.at = "update", !.list = m.list]]
      /\ bpPipe' = rest /\ UNCHANGED <<bpCached, bpInput, bpEvents, bpActual, bpIds, bpRemoved>>
  BY <1>1, <1>2, <1>3 DEF ReadResponse
<1>5. /\ bpTask' \in [Tasks -> [at : Steps, key : Keys, list : Seq(Entries)]]
      /\ bpTask'[c].at = "update" /\ bpTask'[c].key = bpTask[c].key /\ bpTask'[c].list = m.list
      /\ \A u \in Tasks : u # c => bpTask'[u] = bpTask[u]
  <2>1. bpTask \in [Tasks -> [at : Steps, key : Keys, list : Seq(Entries)]]
    BY DEF BpInv, BpTypes
  <2>2. PICK task \in [at : Steps, key : Keys, list : Seq(Entries)] : task = bpTask[c]
    BY <1>3, <2>1
  <2>3. PICK next : next = [task EXCEPT !.at = "update", !.list = m.list]
    OBVIOUS
  <2>4. next \in [at : Steps, key : Keys, list : Seq(Entries)]
    BY <2>3 DEF Steps, Messages
  <2>5. next.at = "update" /\ next.key = task.key /\ next.list = m.list
    BY <2>3
  <2>6. bpTask' = [bpTask EXCEPT ![c] = next]
    BY <1>4, <2>2, <2>3
  <2>7. QED
    BY <1>3, <2>1, <2>2, <2>4, <2>5, <2>6
<1>6. \A i \in DOMAIN rest : rest[i].type # "response" /\ (rest[i].type = "event" => rest[i].list \in Events)
  <2>1. \A i \in DOMAIN pipe : pipe[i].type = "event" => pipe[i].list \in Events
    BY <1>1 DEF BpInv, BpTypes
  <2>2. \A i \in DOMAIN rest : i + 1 # 1
    BY <1>1
  <2>3. QED
    BY <1>1, <1>3, <2>1, <2>2
<1>7. BpTypes'
  <2>1. \A u \in Tasks : Handling(bpTask'[u]) => u # c /\ Handling(bpTask[u])
    BY <1>5 DEF Handling
  <2>2. QED
    BY <1>4, <1>5, <1>6, <2>1 DEF BpInv, BpTypes
<1>8. BpCalls(c)'
  <2>1. DOMAIN bpInput = {}
    BY <1>3, EmptySeq
  <2>2. QED
    BY <1>3, <1>4, <1>5, <1>6, <2>1 DEF BpInv, BpCalls, Updating
<1>9. PICK base \in [Keys -> Seq(Entries)] :
        /\ Accounted(c, base) /\ IdsAgree(base, bpActual, bpRemoved, bpIds)
        /\ Loops = {c} => LatestFits(c, base)
  BY DEF BpInv
<1>10. Accounted(c, base)'
  <2>1. m.list = base[bpTask[c].key]
    BY <1>1, <1>2, <1>9 DEF Accounted
  <2>2. \A k \in Keys : Pending(c, k) => k = bpTask[c].key
    BY DEF Pending
  <2>3. Updating(bpTask'[c])
    BY <1>5 DEF Updating
  <2>4. \A k \in Keys : Pending(c, k) => Pending(c, k)'
    BY <1>5, <2>3 DEF Pending
  <2>5. QED
    BY <1>4, <1>5, <1>6, <1>9, <2>1, <2>4 DEF Accounted
<1>11. ASSUME Loops = {c} PROVE LatestFits(c, base)'
  <2>1. ~Handling(bpTask[c]) /\ ~Handling(bpTask'[c]) /\ bpTask'[c].at # "by_id_functions"
    BY <1>3, <1>5 DEF Handling
  <2>2. /\ PipeFits(rest, bpActual, bpIds)
        /\ \A id : Beyond(pipe, Telling(id), 0) <=> Head(pipe) \in Telling(id) \/ Beyond(rest, Telling(id), 0)
    BY <1>1, <1>9, <1>11, PipeRead DEF LatestFits
  <2>3. \A id : Beyond(pipe, Telling(id), 0) <=> Beyond(rest, Telling(id), 0)
    BY <1>2, <2>2 DEF Telling
  <2>4. ChannelFits(bpEvents, rest, bpActual, bpIds)
    BY <1>1, <1>9, <1>11, <2>3 DEF LatestFits, ChannelFits
  <2>5. \A id : Spoken(id, bpTask[c], bpEvents, pipe) => Spoken(id, bpTask'[c], bpEvents, rest)
    BY <2>1, <2>3 DEF Spoken
  <2>6. ListFits(base, bpTask'[c], bpEvents, rest, bpActual)
    BY <1>1, <1>9, <1>11, <2>5 DEF LatestFits, ListFits
  <2>7. QED
    BY <1>4, <2>1, <2>2, <2>4, <2>6 DEF LatestFits, TaskFits, SearchFits
<1>12. (IdsAgree(base, bpActual, bpRemoved, bpIds))'
  BY <1>4, <1>9
<1>13. QED
  BY <1>7, <1>8, <1>10, <1>11, <1>12 DEF BpInv

LEMMA BpReadsEvent ==
  ASSUME BpConstants, NEW c, Callers = {c}, BpInv(c), ReadEvent
  PROVE  BpInv(c)'
<1>1. PICK pipe \in Seq(Messages), rest \in Seq(Messages) :
        /\ pipe = bpPipe /\ rest = Tail(pipe) /\ pipe # <<>>
        /\ \A i \in DOMAIN rest : i \in Nat /\ i + 1 \in DOMAIN pipe /\ rest[i] = pipe[i + 1]
        /\ \A j \in DOMAIN pipe : j # 1 => j - 1 \in DOMAIN rest /\ rest[j - 1] = pipe[j]
        /\ 1 \in DOMAIN pipe /\ Head(pipe) = pipe[1]
  <2>1. bpPipe \in Seq(Messages) /\ bpPipe # <<>>
    BY DEF ReadEvent, BpInv, BpTypes
  <2>2. PICK pipe \in Seq(Messages) : pipe = bpPipe /\ pipe # <<>>
    BY <2>1
  <2>3. /\ Tail(pipe) \in Seq(Messages)
        /\ \A i \in DOMAIN Tail(pipe) : i \in Nat /\ i + 1 \in DOMAIN pipe /\ Tail(pipe)[i] = pipe[i + 1]
        /\ \A j \in DOMAIN pipe : j # 1 => j - 1 \in DOMAIN Tail(pipe) /\ Tail(pipe)[j - 1] = pipe[j]
        /\ 1 \in DOMAIN pipe /\ Head(pipe) = pipe[1]
    BY <2>2, TailElements
  <2>4. QED
    BY Zenon, <2>2, <2>3
<1>2. PICK m \in Messages : m = Head(pipe) /\ m = pipe[1] /\ m.type = "event" /\ m.list \in Events
  <2>1. pipe[1] \in Messages
    BY <1>1, ElementOfSeq, LenProperties
  <2>2. QED
    BY <1>1, <2>1 DEF ReadEvent, BpInv, BpTypes
<1>3. PICK said \in Entries : m.list = <<said>> /\ m.list[1] = said
  BY <1>2 DEF Events
<1>4. PICK channel \in Seq(Events), longer \in Seq(Events), n \in Nat :
        /\ channel = bpEvents /\ longer = Append(channel, m.list) /\ n = Len(channel)
        /\ DOMAIN longer = DOMAIN channel \cup {n + 1}
        /\ \A i \in DOMAIN channel : longer[i] = channel[i]
        /\ longer[n + 1] = m.list
        /\ \A X : /\ \A i \in DOMAIN channel \cup {0} : Beyond(longer, X, i) <=> Beyond(channel, X, i) \/ m.list \in X
                  /\ ~Beyond(longer, X, n + 1)
  <2>1. PICK channel \in Seq(Events) : channel = bpEvents
    BY DEF BpInv, BpTypes
  <2>2. /\ Append(channel, m.list) \in Seq(Events)
        /\ DOMAIN Append(channel, m.list) = DOMAIN channel \cup {Len(channel) + 1}
        /\ \A i \in DOMAIN channel : Append(channel, m.list)[i] = channel[i]
        /\ Append(channel, m.list)[Len(channel) + 1] = m.list
    BY <1>2, AppendElements
  <2>3. \A X : /\ \A i \in DOMAIN channel \cup {0} :
                    Beyond(Append(channel, m.list), X, i) <=> Beyond(channel, X, i) \/ m.list \in X
               /\ ~Beyond(Append(channel, m.list), X, Len(channel) + 1)
    BY Zenon, <1>2, BeyondAppend
  <2>4. Len(channel) \in Nat
    BY LenProperties
  <2>5. QED
    BY Zenon, <2>1, <2>2, <2>3, <2>4
<1>5. /\ bpEvents' = longer /\ bpPipe' = rest
      /\ UNCHANGED <<bpCached, bpTask, bpInput, bpActual, bpIds, bpRemoved>>
  BY <1>1, <1>2, <1>4 DEF ReadEvent
<1>6. /\ \A i \in DOMAIN rest : rest[i].type = "event" => rest[i].list \in Events
      /\ \A i \in DOMAIN rest : rest[i].type = "response" => i + 1 \in DOMAIN pipe /\ pipe[i + 1].type = "response"
  <2>1. \A i \in DOMAIN pipe : pipe[i].type = "event" => pipe[i].list \in Events
    BY <1>1 DEF BpInv, BpTypes
  <2>2. QED
    BY <1>1, <2>1
<1>7. BpTypes'
  BY <1>4, <1>5, <1>6 DEF BpInv, BpTypes
<1>8. BpCalls(c)'
  <2>1. ASSUME NEW i \in DOMAIN rest, rest[i].type = "response"
        PROVE  /\ rest[i].task = c /\ bpTask[c].at = "wait" /\ bpInput = <<>>
               /\ \A j \in DOMAIN rest : rest[j].type = "response" => j = i
    <3>1. i + 1 \in DOMAIN pipe /\ pipe[i + 1].type = "response" /\ rest[i] = pipe[i + 1] /\ i \in Nat
      BY <1>1, <1>6, <2>1
    <3>2. /\ pipe[i + 1].task = c /\ bpTask[c].at = "wait" /\ bpInput = <<>>
          /\ \A j \in DOMAIN pipe : pipe[j].type = "response" => j = i + 1
      BY <1>1, <3>1 DEF BpInv, BpCalls
    <3>3. ASSUME NEW j \in DOMAIN rest, rest[j].type = "response" PROVE j = i
      <4>1. j + 1 = i + 1 /\ j \in Nat
        BY <1>1, <1>6, <3>2, <3>3
      <4>2. QED
        BY <3>1, <4>1
    <3>4. QED
      BY <3>1, <3>2, <3>3
  <2>2. QED
    BY <1>5, <2>1 DEF BpInv, BpCalls
<1>9. PICK base \in [Keys -> Seq(Entries)] :
        /\ Accounted(c, base) /\ IdsAgree(base, bpActual, bpRemoved, bpIds)
        /\ Loops = {c} => LatestFits(c, base)
  BY DEF BpInv
<1>10. Accounted(c, base)'
  <2>1. Answered => Answered'
    <3>1. ASSUME NEW j \in DOMAIN pipe, pipe[j].type = "response"
          PROVE  \E i \in DOMAIN rest : rest[i].type = "response"
      <4>1. j # 1
        BY <1>2, <3>1
      <4>2. PICK i : i = j - 1 /\ i \in DOMAIN rest /\ rest[i] = pipe[j]
        BY <1>1, <4>1
      <4>3. QED
        BY <3>1, <4>2
    <3>2. QED
      BY <1>1, <1>5, <3>1 DEF Answered
  <2>2. \A k \in Keys : Pending(c, k) => Pending(c, k)'
    BY <1>5, <2>1 DEF Pending
  <2>3. \A i \in DOMAIN rest : rest[i].type = "response" => rest[i].list = base[bpTask[c].key]
    BY <1>1, <1>6, <1>9 DEF Accounted
  <2>4. QED
    BY <1>5, <1>9, <2>2, <2>3 DEF Accounted
<1>11. ASSUME Loops = {c} PROVE LatestFits(c, base)'
  <2>1. /\ PipeFits(rest, bpActual, bpIds)
        /\ \A id : Beyond(pipe, Telling(id), 0) <=> Head(pipe) \in Telling(id) \/ Beyond(rest, Telling(id), 0)
        /\ \A e \in Entries : Head(pipe).type = "event" /\ Head(pipe).list = <<e>> =>
             /\ e.id \in 1..bpIds
             /\ ~Beyond(rest, Telling(e.id), 0) => Fits(bpActual, e)
    BY <1>1, <1>9, <1>11, PipeRead DEF LatestFits
  <2>2. \A id : /\ Head(pipe) \in Telling(id) <=> said.id = id
                /\ m.list \in About(id) <=> said.id = id
    BY <1>2, <1>3 DEF Telling, About
  <2>3. \A id, i : i \in DOMAIN channel \cup {0} =>
          (~Beyond(longer, About(id), i) /\ ~Beyond(rest, Telling(id), 0)
             => ~Beyond(channel, About(id), i) /\ ~Beyond(pipe, Telling(id), 0))
    BY <1>4, <2>1, <2>2
  <2>4. ChannelFits(longer, rest, bpActual, bpIds)
    <3>1. ASSUME NEW i \in DOMAIN longer, NEW e \in Entries, longer[i] = <<e>>
          PROVE  /\ e.id \in 1..bpIds
                 /\ ~Beyond(longer, About(e.id), i) /\ ~Beyond(rest, Telling(e.id), 0) => Fits(bpActual, e)
      <4>1. CASE i \in DOMAIN channel
        <5>1. channel[i] = <<e>>
          BY <1>4, <3>1, <4>1
        <5>2. /\ e.id \in 1..bpIds
              /\ ~Beyond(channel, About(e.id), i) /\ ~Beyond(pipe, Telling(e.id), 0) => Fits(bpActual, e)
          BY <1>1, <1>4, <1>9, <1>11, <4>1, <5>1 DEF LatestFits, ChannelFits
        <5>3. QED
          BY <2>3, <4>1, <5>2
      <4>2. CASE i = n + 1
        BY <1>2, <1>3, <1>4, <2>1, <3>1, <4>2
      <4>3. QED
        BY <1>4, <4>1, <4>2
    <3>2. QED
      BY <3>1 DEF ChannelFits
  <2>5. TaskFits(bpTask[c], longer, rest, bpActual, bpIds)
    BY <1>1, <1>4, <1>9, <1>11, <2>3 DEF LatestFits, TaskFits
  <2>6. \A id : Spoken(id, bpTask[c], channel, pipe) => Spoken(id, bpTask[c], longer, rest)
    BY <2>3 DEF Spoken
  <2>7. ListFits(base, bpTask[c], longer, rest, bpActual)
    BY <1>1, <1>4, <1>9, <1>11, <2>6 DEF LatestFits, ListFits
  <2>8. QED
    BY <1>5, <1>9, <1>11, <2>1, <2>4, <2>5, <2>7 DEF LatestFits
<1>12. (IdsAgree(base, bpActual, bpRemoved, bpIds))'
  BY <1>5, <1>9
<1>13. QED
  BY <1>7, <1>8, <1>10, <1>11, <1>12 DEF BpInv

LEMMA BpTakes ==
  ASSUME BpConstants, NEW c, Callers = {c}, BpInv(c), NEW t \in Tasks, TakeEvent(t)
  PROVE  BpInv(c)'
<1>1. t \in Loops /\ bpTask[t].at = "idle" /\ bpEvents # <<>> /\ c \in Tasks
  BY DEF TakeEvent, Tasks
<1>2. PICK channel \in Seq(Events), rest \in Seq(Events) :
        /\ channel = bpEvents /\ rest = Tail(channel) /\ channel # <<>>
        /\ \A i \in DOMAIN rest : i \in Nat /\ i + 1 \in DOMAIN channel /\ rest[i] = channel[i + 1]
        /\ 1 \in DOMAIN channel /\ Head(channel) = channel[1] /\ Head(channel) \in Events
        /\ \A X : /\ \A n \in Nat : Beyond(rest, X, n) <=> Beyond(channel, X, n + 1)
                  /\ Beyond(channel, X, 0) <=> Head(channel) \in X \/ Beyond(rest, X, 0)
  <2>1. PICK channel \in Seq(Events) : channel = bpEvents /\ channel # <<>>
    BY <1>1 DEF BpInv, BpTypes
  <2>2. /\ Tail(channel) \in Seq(Events)
        /\ \A i \in DOMAIN Tail(channel) : i \in Nat /\ i + 1 \in DOMAIN channel /\ Tail(channel)[i] = channel[i + 1]
        /\ 1 \in DOMAIN channel /\ Head(channel) = channel[1] /\ Head(channel) \in Events
    BY <2>1, TailElements
  <2>3. \A X : /\ \A n \in Nat : Beyond(Tail(channel), X, n) <=> Beyond(channel, X, n + 1)
               /\ Beyond(channel, X, 0) <=> Head(channel) \in X \/ Beyond(Tail(channel), X, 0)
    BY Zenon, <2>1, BeyondTail
  <2>4. QED
    BY Zenon, <2>1, <2>2, <2>3
<1>3. PICK said \in Entries : Head(channel) = <<said>> /\ Head(channel)[1] = said
  BY <1>2 DEF Events
<1>4. /\ bpTask' = [bpTask EXCEPT ![t] = [Idle EXCEPT !.at = "by_id", !.list = Head(channel)]]
      /\ bpEvents' = rest /\ UNCHANGED <<bpCached, bpInput, bpPipe, bpActual, bpIds, bpRemoved>>
  BY <1>2 DEF TakeEvent
<1>5. /\ bpTask' \in [Tasks -> [at : Steps, key : Keys, list : Seq(Entries)]]
      /\ bpTask'[t].at = "by_id" /\ bpTask'[t].list = Head(channel)
      /\ \A u \in Tasks : u # t => bpTask'[u] = bpTask[u]
  <2>1. bpTask \in [Tasks -> [at : Steps, key : Keys, list : Seq(Entries)]]
    BY DEF BpInv, BpTypes
  <2>2. PICK next : next = [Idle EXCEPT !.at = "by_id", !.list = Head(channel)]
    OBVIOUS
  <2>3. FunctionList \in Keys /\ Head(channel) \in Seq(Entries)
    <3>1. <<said>> \in Seq(Entries)
      OBVIOUS
    <3>2. QED
      BY <1>3, <3>1 DEF Keys
  <2>4. next = [at |-> "by_id", key |-> FunctionList, list |-> Head(channel)]
    BY <2>2 DEF Idle
  <2>5. next \in [at : Steps, key : Keys, list : Seq(Entries)] /\ next.at = "by_id" /\ next.list = Head(channel)
    BY <2>3, <2>4 DEF Steps
  <2>6. bpTask' = [bpTask EXCEPT ![t] = next]
    BY <1>4, <2>2
  <2>7. QED
    BY <2>1, <2>5, <2>6
<1>6. BpTypes'
  <2>1. \A u \in Tasks : Handling(bpTask'[u]) => bpTask'[u].list \in Events
    <3>1. \A u \in Tasks : Handling(bpTask[u]) => bpTask[u].list \in Events
      BY DEF BpInv, BpTypes
    <3>2. QED
      BY <1>2, <1>5, <3>1
  <2>2. QED
    BY <1>2, <1>4, <1>5, <2>1 DEF BpInv, BpTypes
<1>7. t = c => bpInput = <<>> /\ DOMAIN bpInput = {} /\ ~Answered
  <2>1. t = c => bpInput = <<>> /\ ~Answered
    BY <1>1 DEF BpInv, BpCalls, Answered
  <2>2. QED
    BY <2>1, EmptySeq
<1>8. BpCalls(c)'
  <2>1. CASE t = c
    BY <1>1, <1>4, <1>5, <1>7, <2>1 DEF BpInv, BpCalls, Answered, Updating
  <2>2. CASE t # c
    BY <1>1, <1>4, <1>5, <2>2 DEF BpInv, BpCalls, Updating
  <2>3. QED
    BY <2>1, <2>2
<1>9. PICK base \in [Keys -> Seq(Entries)] :
        /\ Accounted(c, base) /\ IdsAgree(base, bpActual, bpRemoved, bpIds)
        /\ Loops = {c} => LatestFits(c, base)
  BY DEF BpInv
<1>10. Accounted(c, base)'
  <2>1. CASE t = c
    <3>1. \A k \in Keys : ~Pending(c, k)
      BY <1>1, <1>7, <2>1 DEF Pending, Updating
    <3>2. ~Updating(bpTask'[c])
      BY <1>5, <2>1 DEF Updating
    <3>3. QED
      BY <1>4, <1>7, <1>9, <2>1, <3>1, <3>2 DEF Accounted, Answered
  <2>2. CASE t # c
    <3>1. bpTask'[c] = bpTask[c]
      BY <1>1, <1>5, <2>2
    <3>2. \A k \in Keys : Pending(c, k)' <=> Pending(c, k)
      BY <1>4, <3>1 DEF Pending, Answered
    <3>3. QED
      BY <1>4, <1>9, <3>1, <3>2 DEF Accounted
  <2>3. QED
    BY <2>1, <2>2
<1>11. ASSUME Loops = {c} PROVE LatestFits(c, base)'
  <2>1. t = c
    BY <1>1, <1>11
  <2>2. Handling(bpTask'[c]) /\ bpTask'[c].list = <<said>> /\ ~Handling(bpTask[c])
    BY <1>1, <1>3, <1>5, <2>1 DEF Handling
  <2>3. 0 \in Nat /\ 0 + 1 = 1
    OBVIOUS
  <2>4. ChannelFits(channel, bpPipe, bpActual, bpIds)
    BY <1>2, <1>9, <1>11 DEF LatestFits
  <2>5. ChannelFits(rest, bpPipe, bpActual, bpIds)
    <3>1. ASSUME NEW i \in DOMAIN rest, NEW e \in Entries, rest[i] = <<e>>
          PROVE  /\ e.id \in 1..bpIds
                 /\ ~Beyond(rest, About(e.id), i) /\ ~Beyond(bpPipe, Telling(e.id), 0) => Fits(bpActual, e)
      <4>1. i \in Nat /\ i + 1 \in DOMAIN channel /\ channel[i + 1] = <<e>>
        BY <1>2, <3>1
      <4>2. /\ e.id \in 1..bpIds
            /\ ~Beyond(channel, About(e.id), i + 1) /\ ~Beyond(bpPipe, Telling(e.id), 0) => Fits(bpActual, e)
        BY <2>4, <4>1 DEF ChannelFits
      <4>3. Beyond(rest, About(e.id), i) <=> Beyond(channel, About(e.id), i + 1)
        BY <1>2, <4>1
      <4>4. QED
        BY <4>2, <4>3
    <3>2. QED
      BY <3>1 DEF ChannelFits
  <2>6. TaskFits(bpTask'[c], rest, bpPipe, bpActual, bpIds)
    <3>1. /\ said.id \in 1..bpIds
          /\ ~Beyond(channel, About(said.id), 1) /\ ~Beyond(bpPipe, Telling(said.id), 0) => Fits(bpActual, said)
      BY <1>2, <1>3, <2>4 DEF ChannelFits
    <3>2. Beyond(rest, About(said.id), 0) <=> Beyond(channel, About(said.id), 1)
      BY <1>2, <2>3
    <3>3. \A e \in Entries : bpTask'[c].list = <<e>> => e = said
      BY <2>2
    <3>4. QED
      BY <3>1, <3>2, <3>3 DEF TaskFits
  <2>7. \A id : Spoken(id, bpTask[c], channel, bpPipe) => Spoken(id, bpTask'[c], rest, bpPipe)
    <3>1. ASSUME NEW id, Head(channel) \in About(id) PROVE bpTask'[c].list[1].id = id
      BY <1>3, <2>2, <3>1 DEF About
    <3>2. QED
      BY <1>2, <2>2, <3>1 DEF Spoken
  <2>8. ListFits(base, bpTask'[c], rest, bpPipe, bpActual)
    BY <1>2, <1>9, <1>11, <2>7 DEF LatestFits, ListFits
  <2>9. SearchFits(bpTask'[c], bpCached)
    BY <1>5, <2>1 DEF SearchFits
  <2>10. QED
    BY <1>4, <1>9, <1>11, <2>5, <2>6, <2>8, <2>9 DEF LatestFits
<1>12. (IdsAgree(base, bpActual, bpRemoved, bpIds))'
  BY <1>4, <1>9
<1>13. QED
  BY <1>6, <1>8, <1>10, <1>11, <1>12 DEF BpInv

LEMMA BpUpdatesById ==
  ASSUME BpConstants, NEW c, Callers = {c}, BpInv(c), NEW t \in Tasks, update_by_id(t)
  PROVE  BpInv(c)'
<1>1. Handling(bpTask[t]) /\ c \in Tasks
  BY DEF update_by_id, Handling, Tasks
<1>2. PICK said \in Entries : /\ bpTask[t].list = <<said>> /\ Head(bpTask[t].list) = said
                              /\ bpTask[t].list[1] = said
  <2>1. bpTask[t].list \in Events
    BY <1>1 DEF BpInv, BpTypes
  <2>2. PICK said \in Entries : bpTask[t].list = <<said>>
    BY <2>1 DEF Events
  <2>3. QED
    BY <2>2
<1>3. PICK keys : keys = IF bpTask[t].at = "by_id" THEN Files ELSE {FunctionList}
  OBVIOUS
<1>4. /\ bpCached' = [k \in Keys |-> IF k \in Holding(keys, said.id) THEN Replace(bpCached[k], said)
                                                                  ELSE bpCached[k]]
      /\ bpTask' = [bpTask EXCEPT ![t] =
           IF bpTask[t].at = "by_id" /\ Holding(keys, said.id) = {}
             THEN [bpTask[t] EXCEPT !.at = "by_id_functions"] ELSE Idle]
      /\ UNCHANGED <<bpInput, bpPipe, bpEvents, bpActual, bpIds, bpRemoved>>
  BY <1>2, <1>3 DEF update_by_id
<1>5. /\ bpTask' \in [Tasks -> [at : Steps, key : Keys, list : Seq(Entries)]]
      /\ \/ /\ bpTask[t].at = "by_id" /\ Holding(keys, said.id) = {}
            /\ bpTask'[t].at = "by_id_functions" /\ bpTask'[t].list = bpTask[t].list
         \/ /\ ~(bpTask[t].at = "by_id" /\ Holding(keys, said.id) = {})
            /\ bpTask'[t].at = "idle"
      /\ \A u \in Tasks : u # t => bpTask'[u] = bpTask[u]
  <2>1. bpTask \in [Tasks -> [at : Steps, key : Keys, list : Seq(Entries)]]
    BY DEF BpInv, BpTypes
  <2>2. Idle \in [at : Steps, key : Keys, list : Seq(Entries)] /\ Idle.at = "idle"
    <3>1. FunctionList \in Keys /\ <<>> \in Seq(Entries)
      BY EmptySeq DEF Keys
    <3>2. QED
      BY <3>1 DEF Idle, Steps
  <2>3. PICK task \in [at : Steps, key : Keys, list : Seq(Entries)] : task = bpTask[t]
    BY <2>1
  <2>4. PICK next : next = [task EXCEPT !.at = "by_id_functions"]
    OBVIOUS
  <2>5. /\ next \in [at : Steps, key : Keys, list : Seq(Entries)]
        /\ next.at = "by_id_functions" /\ next.list = task.list
    BY <2>4 DEF Steps
  <2>6. bpTask' = [bpTask EXCEPT ![t] =
                     IF bpTask[t].at = "by_id" /\ Holding(keys, said.id) = {} THEN next ELSE Idle]
    BY <1>4, <2>3, <2>4
  <2>7. QED
    BY <2>1, <2>2, <2>3, <2>5, <2>6
<1>6. bpCached' \in [Keys -> Seq(Entries)]
  <2>1. \A k \in Keys : bpCached[k] \in Seq(Entries) /\ Replace(bpCached[k], said) \in Seq(Entries)
    BY ReplaceKeepsIds DEF BpInv, BpTypes
  <2>2. QED
    BY <1>4, <2>1
<1>7. BpTypes'
  <2>1. \A u \in Tasks : Handling(bpTask'[u]) => Handling(bpTask[u]) /\ bpTask'[u].list = bpTask[u].list
    BY <1>1, <1>5 DEF Handling
  <2>2. QED
    BY <1>4, <1>5, <1>6, <2>1 DEF BpInv, BpTypes
<1>8. t = c => bpInput = <<>> /\ DOMAIN bpInput = {} /\ ~Answered
  <2>1. t = c => bpTask[c].at # "wait"
    BY <1>1 DEF Handling
  <2>2. t = c => bpInput = <<>> /\ ~Answered
    BY <2>1 DEF BpInv, BpCalls, Answered
  <2>3. QED
    BY <2>2, EmptySeq
<1>9. BpCalls(c)'
  <2>1. CASE t = c
    BY <1>1, <1>4, <1>5, <1>8, <2>1 DEF BpInv, BpCalls, Answered, Updating
  <2>2. CASE t # c
    BY <1>1, <1>4, <1>5, <2>2 DEF BpInv, BpCalls, Updating
  <2>3. QED
    BY <2>1, <2>2
<1>10. PICK base \in [Keys -> Seq(Entries)] :
         /\ Accounted(c, base) /\ IdsAgree(base, bpActual, bpRemoved, bpIds)
         /\ Loops = {c} => LatestFits(c, base)
  BY DEF BpInv
<1>11. PICK shown \in [Keys -> Seq(Entries)] :
         shown = [k \in Keys |-> IF Pending(c, k) THEN base[k] ELSE bpCached'[k]]
  BY <1>6, <1>10
<1>12. \A k \in Keys : /\ Pending(c, k) => shown[k] = base[k]
                       /\ ~Pending(c, k) => /\ bpCached[k] = base[k] /\ shown[k] = bpCached'[k]
                                            /\ k \in Holding(keys, said.id) => shown[k] = Replace(base[k], said)
                                            /\ k \notin Holding(keys, said.id) => shown[k] = base[k]
  BY <1>4, <1>10, <1>11 DEF Accounted
<1>13. \A k \in Keys : shown[k] = base[k] \/ shown[k] = Replace(base[k], said)
  BY <1>12
<1>14. \A k \in Keys : Pending(c, k)' <=> Pending(c, k)
  <2>1. CASE t = c
    <3>1. ~Updating(bpTask[c]) /\ ~Updating(bpTask'[c])
      BY <1>1, <1>5, <2>1 DEF Updating, Handling
    <3>2. QED
      BY <1>4, <1>8, <2>1, <3>1 DEF Pending, Answered
  <2>2. CASE t # c
    BY <1>1, <1>4, <1>5, <2>2 DEF Pending, Answered
  <2>3. QED
    BY <2>1, <2>2
<1>15. Accounted(c, shown)'
  <2>1. CASE t = c
    <3>1. ~Updating(bpTask'[c])
      BY <1>5, <2>1 DEF Updating
    <3>2. QED
      BY <1>4, <1>8, <1>12, <1>14, <2>1, <3>1 DEF Accounted, Answered
  <2>2. CASE t # c
    <3>1. bpTask'[c] = bpTask[c] /\ bpTask[c].key \in Keys
      BY <1>1, <1>5, <2>2 DEF BpInv, BpTypes
    <3>2. Updating(bpTask[c]) \/ Answered => shown[bpTask[c].key] = base[bpTask[c].key]
      BY <1>12, <3>1 DEF Pending
    <3>3. QED
      BY <1>4, <1>10, <1>12, <1>14, <3>1, <3>2 DEF Accounted, Answered
  <2>3. QED
    BY <2>1, <2>2
<1>16. IdsAgree(shown, bpActual, bpRemoved, bpIds)
  <2>1. \A k \in Keys : /\ IdSet(shown[k]) = IdSet(base[k])
                        /\ Rising(base[k]) => Rising(shown[k])
    <3>1. \A list \in Seq(Entries) : /\ IdSet(Replace(list, said)) = IdSet(list)
                                     /\ Rising(list) => Rising(Replace(list, said))
      BY ReplaceKeepsIds
    <3>2. \A k \in Keys : base[k] \in Seq(Entries)
      BY <1>10
    <3>3. QED
      BY <1>13, <3>1, <3>2
  <2>2. QED
    BY <1>10, <2>1 DEF IdsAgree
<1>17. ASSUME Loops = {c} PROVE LatestFits(c, shown)'
  <2>1. t = c
    BY <1>17 DEF Tasks
  <2>2. \A k \in Keys : ~Pending(c, k)
    BY <1>1, <1>8, <2>1 DEF Pending, Updating, Handling
  <2>3. TaskFits(bpTask[c], bpEvents, bpPipe, bpActual, bpIds)
    BY <1>10, <1>17 DEF LatestFits
  <2>4. TaskFits(bpTask'[c], bpEvents, bpPipe, bpActual, bpIds)
    <3>1. Handling(bpTask'[c]) => bpTask'[c].list = bpTask[c].list
      BY <1>5, <2>1 DEF Handling
    <3>2. QED
      BY <1>1, <2>1, <2>3, <3>1 DEF TaskFits
  <2>5. SearchFits(bpTask'[c], bpCached')
    <3>1. ASSUME bpTask'[c].at = "by_id_functions", NEW k \in Files
          PROVE  bpTask'[c].list[1].id \notin IdSet(bpCached'[k])
      <4>1. /\ bpTask[c].at = "by_id" /\ Holding(Files, said.id) = {} /\ keys = Files
            /\ bpTask'[c].list[1] = said
        BY <1>2, <1>3, <1>5, <2>1, <3>1
      <4>2. bpCached'[k] = bpCached[k]
        BY <1>4, <4>1 DEF Keys
      <4>3. said.id \notin IdSet(bpCached[k])
        BY <4>1 DEF Holding, IdSet
      <4>4. QED
        BY <4>1, <4>2, <4>3
    <3>2. QED
      BY <3>1 DEF SearchFits
  <2>6. ListFits(shown, bpTask'[c], bpEvents, bpPipe, bpActual)
    <3>1. ASSUME NEW k \in Keys, NEW n \in DOMAIN bpActual[k],
                 ~Spoken(bpActual[k][n].id, bpTask'[c], bpEvents, bpPipe)
          PROVE  bpActual[k][n] \in Range(shown[k])
      <4>1. PICK a : a = bpActual[k][n]
        OBVIOUS
      <4>2. ~Beyond(bpPipe, Telling(a.id), 0) /\ ~Beyond(bpEvents, About(a.id), 0)
        BY <3>1, <4>1 DEF Spoken
      <4>3. a.id = said.id => a = said
        BY <1>1, <1>2, <2>1, <2>3, <4>1, <4>2 DEF TaskFits, Fits
      <4>4. PICK j \in DOMAIN base[k] : base[k][j].id = a.id /\ (a.id # said.id => base[k][j] = a)
        <5>1. CASE a \in Range(base[k])
          BY <5>1 DEF Range
        <5>2. CASE a \notin Range(base[k])
          <6>1. a.id = said.id
            <7>1. Spoken(a.id, bpTask[c], bpEvents, bpPipe)
              BY <1>10, <1>17, <4>1, <5>2 DEF LatestFits, ListFits
            <7>2. QED
              BY <1>2, <2>1, <4>2, <7>1 DEF Spoken
          <6>2. a.id \in IdSet(base[k])
            <7>1. a.id \in IdSet(bpActual[k])
              BY <4>1 DEF IdSet
            <7>2. QED
              BY <1>10, <7>1 DEF IdsAgree
          <6>3. QED
            BY <6>1, <6>2 DEF IdSet
        <5>3. QED
          BY <5>1, <5>2
      <4>5. bpCached[k] = base[k]
        BY <1>12, <2>2
      <4>6. a.id = said.id => k \in Holding(keys, said.id)
        <5>1. ASSUME a.id = said.id PROVE k \in Holding(keys, said.id)
          <6>1. bpTask'[c].at # "by_id_functions"
            <7>1. ~(Handling(bpTask'[c]) /\ bpTask'[c].list[1].id = a.id)
              BY <3>1, <4>1 DEF Spoken
            <7>2. QED
              BY <1>2, <1>5, <2>1, <5>1, <7>1 DEF Handling
          <6>2. said.id \in IdSet(bpCached[k])
            BY <4>4, <4>5, <5>1 DEF IdSet
          <6>3. CASE bpTask[c].at = "by_id"
            <7>1. PICK l \in Files : l \in Holding(Files, said.id)
              BY <1>3, <1>5, <2>1, <6>1, <6>3 DEF Holding
            <7>2. said.id \in IdSet(bpCached[l]) /\ l \in Keys
              BY <7>1 DEF Holding, IdSet, Keys
            <7>3. bpCached[l] = base[l]
              BY <1>12, <2>2, <7>2
            <7>4. l = k
              BY <1>10, <4>5, <6>2, <7>2, <7>3 DEF IdsAgree
            <7>5. QED
              BY <1>3, <2>1, <6>3, <7>1, <7>4
          <6>4. CASE bpTask[c].at # "by_id"
            <7>1. bpTask[c].at = "by_id_functions"
              BY <1>1, <2>1, <6>4 DEF Handling
            <7>2. k \notin Files
              BY <1>2, <1>10, <1>17, <2>1, <6>2, <7>1 DEF LatestFits, SearchFits
            <7>3. k = FunctionList /\ keys = {FunctionList}
              BY <1>3, <2>1, <6>4, <7>2 DEF Keys
            <7>4. QED
              BY <6>2, <7>3 DEF Holding, IdSet
          <6>5. QED
            BY <6>3, <6>4
        <5>2. QED
          BY <5>1
      <4>7. shown[k] = base[k] \/ shown[k] = Replace(base[k], said)
        BY <1>13
      <4>8. /\ DOMAIN Replace(base[k], said) = DOMAIN base[k]
            /\ Replace(base[k], said)[j] = IF base[k][j].id = said.id THEN said ELSE base[k][j]
        <5>1. base[k] \in Seq(Entries)
          BY <1>10
        <5>2. QED
          BY <4>4, <5>1, ReplaceKeepsIds
      <4>9. a.id = said.id => shown[k] = Replace(base[k], said)
        BY <1>12, <2>2, <4>6
      <4>10. j \in DOMAIN shown[k] /\ shown[k][j] = a
        BY <4>3, <4>4, <4>7, <4>8, <4>9
      <4>11. QED
        BY <4>1, <4>10 DEF Range
    <3>2. QED
      BY <3>1 DEF ListFits
  <2>7. QED
    BY <1>4, <1>10, <1>17, <2>4, <2>5, <2>6 DEF LatestFits
<1>18. (IdsAgree(shown, bpActual, bpRemoved, bpIds))'
  BY <1>4, <1>16
<1>19. QED
  BY <1>7, <1>9, <1>11, <1>15, <1>17, <1>18 DEF BpInv

\* A message leaves the adapter behind all those before it.
LEMMA PipeWritten ==
  ASSUME NEW pipe \in Seq(Messages), NEW m \in Messages
  PROVE  \E longer \in Seq(Messages), n \in Nat :
           /\ longer = Append(pipe, m) /\ n = Len(pipe)
           /\ DOMAIN longer = DOMAIN pipe \cup {n + 1} /\ n + 1 \notin DOMAIN pipe
           /\ \A i \in DOMAIN pipe : longer[i] = pipe[i]
           /\ longer[n + 1] = m
           /\ \A X : /\ \A i \in DOMAIN pipe \cup {0} : Beyond(longer, X, i) <=> Beyond(pipe, X, i) \/ m \in X
                     /\ ~Beyond(longer, X, n + 1)
<1>1. /\ Append(pipe, m) \in Seq(Messages)
      /\ DOMAIN Append(pipe, m) = DOMAIN pipe \cup {Len(pipe) + 1} /\ Len(pipe) + 1 \notin DOMAIN pipe
      /\ \A i \in DOMAIN pipe : Append(pipe, m)[i] = pipe[i]
      /\ Append(pipe, m)[Len(pipe) + 1] = m
  BY AppendElements
<1>2. \A X : /\ \A i \in DOMAIN pipe \cup {0} : Beyond(Append(pipe, m), X, i) <=> Beyond(pipe, X, i) \/ m \in X
             /\ ~Beyond(Append(pipe, m), X, Len(pipe) + 1)
  BY Zenon, BeyondAppend
<1>3. Len(pipe) \in Nat
  BY LenProperties
<1>4. QED
  BY Zenon, <1>1, <1>2, <1>3

LEMMA BpAnswers ==
  ASSUME BpConstants, NEW c, Callers = {c}, BpInv(c), Answer
  PROVE  BpInv(c)'
<1>1. PICK r \in Requests : r = Head(bpInput) /\ r.task = c /\ r.key = bpTask[c].key
  <2>1. bpInput \in Seq(Requests) /\ bpInput # <<>>
    BY DEF Answer, BpInv, BpTypes
  <2>2. PICK input \in Seq(Requests) : input = bpInput /\ input # <<>>
    BY <2>1
  <2>3. 1 \in DOMAIN input /\ Head(input) = input[1] /\ Head(input) \in Requests
    BY <2>2, TailElements
  <2>4. QED
    BY <2>2, <2>3 DEF BpInv, BpCalls
<1>2. PICK n \in Nat : n = Len(r.lines) /\ DOMAIN r.lines = 1..n /\ \A i \in 1..n : r.lines[i] \in Lines
  <2>1. PICK lines \in Seq(Lines) : lines = r.lines
    BY DEF BpConstants, Requests
  <2>2. Len(lines) \in Nat /\ DOMAIN lines = 1..Len(lines) /\ \A i \in 1..Len(lines) : lines[i] \in Lines
    BY LenProperties, ElementOfSeq
  <2>3. QED
    BY <2>1, <2>2
<1> DEFINE Answering(list, verified) ==
        /\ list = [i \in 1..n |-> [id |-> bpIds + i, line |-> r.lines[i], verified |-> verified]]
        /\ bpIds + Len(list) <= MaxIds /\ bpIds' = bpIds + Len(list)
        /\ bpActual' = [bpActual EXCEPT ![r.key] = list]
        /\ bpPipe' = Append(bpPipe, [type |-> "response", task |-> c, list |-> list])
        /\ bpInput' = Tail(bpInput) /\ UNCHANGED <<bpCached, bpTask, bpEvents, bpRemoved>>
<1>2a. PICK verified \in BOOLEAN : \E list : Answering(list, verified)
  BY <1>1, <1>2 DEF Answer
<1>3. PICK list : Answering(list, verified)
  BY <1>2a
<1>4. /\ DOMAIN list = 1..n /\ Len(list) = n /\ bpIds \in Nat
      /\ \A i \in 1..n : list[i].id = bpIds + i
  <2>1. DOMAIN list = 1..n /\ \A i \in 1..n : list[i].id = bpIds + i
    BY <1>3
  <2>2. Len(list) = n
    BY <1>2, <1>3
  <2>3. bpIds \in Nat
    BY DEF BpInv, BpTypes
  <2>4. QED
    BY <2>1, <2>2, <2>3
<1>5. list \in Seq(Entries)
  <2>1. ASSUME NEW i \in 1..n
        PROVE  [id |-> bpIds + i, line |-> r.lines[i], verified |-> verified] \in Entries
    <3>1. bpIds + i \in 1..MaxIds
      BY <1>3, <1>4 DEF BpConstants
    <3>2. QED
      BY <1>2, <3>1 DEF Entries
  <2>2. list \in [1..n -> Entries]
    BY <1>3, <2>1
  <2>3. QED
    BY <2>2
<1>6. Rising(list) /\ \A x \in IdSet(list) : x \notin 1..bpIds /\ x \in 1..bpIds'
  BY <1>3, <1>4 DEF Rising, IdSet
<1>7. bpTask[c].at = "wait" /\ ~Answered /\ bpInput' = <<>> /\ DOMAIN bpInput' = {} /\ c \in Tasks /\ r.key \in Keys
  <2>1. bpInput # <<>> /\ Len(bpInput) = 1 /\ bpTask[c].at = "wait" /\ ~Answered
    BY DEF Answer, BpInv, BpCalls, Answered
  <2>2. PICK input \in Seq(Requests) : input = bpInput
    BY DEF BpInv, BpTypes
  <2>3. Tail(input) \in Seq(Requests) /\ Len(Tail(input)) = 0
    BY <2>1, <2>2, HeadTailProperties
  <2>4. Tail(input) = <<>>
    BY <2>3, EmptySeq
  <2>5. QED
    BY <1>3, <2>1, <2>2, <2>4, EmptySeq DEF Tasks, Requests
<1>8. PICK m \in Messages : /\ m = [type |-> "response", task |-> c, list |-> list]
                            /\ m.type = "response" /\ m.task = c /\ m.list = list
  <2>1. [type |-> "response", task |-> c, list |-> list] \in Messages
    BY <1>5, <1>7 DEF Messages
  <2>2. QED
    BY <2>1
<1>9. PICK pipe \in Seq(Messages) : pipe = bpPipe
  BY DEF BpInv, BpTypes
<1>10. PICK longer \in Seq(Messages), l \in Nat :
         /\ longer = Append(pipe, m) /\ l = Len(pipe)
         /\ DOMAIN longer = DOMAIN pipe \cup {l + 1} /\ l + 1 \notin DOMAIN pipe
         /\ \A i \in DOMAIN pipe : longer[i] = pipe[i]
         /\ longer[l + 1] = m
         /\ \A X : /\ \A i \in DOMAIN pipe \cup {0} : Beyond(longer, X, i) <=> Beyond(pipe, X, i) \/ m \in X
                   /\ ~Beyond(longer, X, l + 1)
  BY Zenon, PipeWritten
<1>11. bpPipe' = longer
  BY <1>3, <1>8, <1>9, <1>10
<1>12. /\ \A i \in DOMAIN longer : longer[i].type = "event" => i \in DOMAIN pipe /\ longer[i] = pipe[i]
       /\ \A i \in DOMAIN longer : longer[i].type = "response" => i = l + 1
  BY <1>7, <1>8, <1>9, <1>10 DEF Answered
<1>13. BpTypes'
  <2>1. bpActual' \in [Keys -> Seq(Entries)]
    BY <1>3, <1>5 DEF BpInv, BpTypes
  <2>2. bpIds' \in Nat /\ bpRemoved' \subseteq 1..bpIds'
    BY <1>3, <1>4 DEF BpInv, BpTypes
  <2>3. bpInput' \in Seq(Requests)
    BY <1>7, EmptySeq
  <2>4. QED
    BY <1>3, <1>9, <1>11, <1>12, <2>1, <2>2, <2>3 DEF BpInv, BpTypes
<1>14. BpCalls(c)'
  BY <1>3, <1>7, <1>8, <1>10, <1>11, <1>12 DEF BpInv, BpCalls
<1>15. PICK base \in [Keys -> Seq(Entries)] :
         /\ Accounted(c, base) /\ IdsAgree(base, bpActual, bpRemoved, bpIds)
         /\ Loops = {c} => LatestFits(c, base)
  BY DEF BpInv
<1>16. PICK shown \in [Keys -> Seq(Entries)] : shown = [base EXCEPT ![r.key] = list]
  BY <1>5
<1>17. shown[r.key] = list /\ \A k \in Keys : k # r.key => shown[k] = base[k]
  BY <1>7, <1>16
<1>18. Accounted(c, shown)'
  <2>1. ~Updating(bpTask[c])
    BY <1>7 DEF Updating
  <2>2. Answered'
    BY <1>8, <1>10, <1>11 DEF Answered
  <2>3. \A k \in Keys : Pending(c, k)' <=> k = r.key
    BY <1>1, <1>3, <2>2 DEF Pending
  <2>4. \A k \in Keys : bpCached[k] = base[k]
    BY <1>7, <1>15, <2>1 DEF Accounted, Pending
  <2>5. \A i \in DOMAIN longer : longer[i].type = "response" => longer[i].list = list
    BY <1>8, <1>10, <1>12
  <2>6. QED
    BY <1>1, <1>3, <1>11, <1>17, <2>1, <2>3, <2>4, <2>5 DEF Accounted
<1>19. /\ bpActual'[r.key] = list /\ \A k \in Keys : k # r.key => bpActual'[k] = bpActual[k]
  BY <1>3, <1>7 DEF BpInv, BpTypes
<1>20. IdsAgree(shown, bpActual', bpRemoved, bpIds')
  <2>1. 1..bpIds \subseteq 1..bpIds' /\ bpRemoved \subseteq 1..bpIds
    BY <1>3, <1>4 DEF BpInv, BpTypes
  <2>2. ASSUME NEW k \in Keys
        PROVE  /\ Rising(shown[k]) /\ Rising(bpActual'[k])
               /\ IdSet(bpActual'[k]) = IdSet(shown[k]) \ bpRemoved
               /\ IdSet(shown[k]) \subseteq 1..bpIds'
               /\ k # r.key => IdSet(shown[k]) \subseteq 1..bpIds
    <3>1. CASE k = r.key
      <4>1. shown[k] = list /\ bpActual'[k] = list
        BY <1>17, <1>19, <3>1
      <4>2. IdSet(list) \cap bpRemoved = {}
        BY <1>6, <2>1
      <4>3. QED
        BY <1>6, <3>1, <4>1, <4>2
    <3>2. CASE k # r.key
      <4>1. shown[k] = base[k] /\ bpActual'[k] = bpActual[k]
        BY <1>17, <1>19, <3>2
      <4>2. QED
        BY <1>15, <2>1, <3>2, <4>1 DEF IdsAgree
    <3>3. QED
      BY <3>1, <3>2
  <2>3. ASSUME NEW k \in Keys, NEW j \in Keys, k # j
        PROVE  IdSet(shown[k]) \cap IdSet(shown[j]) = {}
    <3>1. CASE k = r.key
      BY <1>6, <1>17, <2>2, <2>3, <3>1
    <3>2. CASE j = r.key
      BY <1>6, <1>17, <2>2, <2>3, <3>2
    <3>3. CASE k # r.key /\ j # r.key
      BY <1>15, <1>17, <2>3, <3>3 DEF IdsAgree
    <3>4. QED
      BY <3>1, <3>2, <3>3
  <2>4. QED
    BY <2>2, <2>3 DEF IdsAgree
<1>21. ASSUME Loops = {c} PROVE LatestFits(c, shown)'
  <2>1. ~Handling(bpTask[c]) /\ bpTask[c].at # "by_id_functions"
    BY <1>7 DEF Handling
  <2>2. \A id : /\ \A i \in DOMAIN pipe \cup {0} : Beyond(longer, Telling(id), i) <=> Beyond(pipe, Telling(id), i)
    BY <1>8, <1>10 DEF Telling
  <2>3. \A e \in Entries : e.id \in 1..bpIds => e.id \in 1..bpIds' /\ (Fits(bpActual, e) => Fits(bpActual', e))
    <3>1. ASSUME NEW e \in Entries, e.id \in 1..bpIds, Fits(bpActual, e), NEW k \in Keys,
                 NEW i \in DOMAIN bpActual'[k], bpActual'[k][i].id = e.id
          PROVE  bpActual'[k][i] = e
      <4>1. k # r.key
        <5>1. k = r.key => e.id \in IdSet(list)
          BY <1>19, <3>1 DEF IdSet
        <5>2. QED
          BY <1>6, <3>1, <5>1
      <4>2. QED
        BY <1>19, <3>1, <4>1 DEF Fits
    <3>2. \A x \in 1..bpIds : x \in 1..bpIds'
      BY <1>3, <1>4
    <3>3. QED
      BY <3>1, <3>2 DEF Fits
  <2>4. PipeFits(longer, bpActual', bpIds')
    <3>1. PipeFits(pipe, bpActual, bpIds)
      BY <1>9, <1>15, <1>21 DEF LatestFits
    <3>2. QED
      BY <1>12, <2>2, <2>3, <3>1 DEF PipeFits
  <2>5. ChannelFits(bpEvents, longer, bpActual', bpIds')
    <3>1. ChannelFits(bpEvents, pipe, bpActual, bpIds)
      BY <1>9, <1>15, <1>21 DEF LatestFits
    <3>2. QED
      BY <2>2, <2>3, <3>1 DEF ChannelFits
  <2>6. \A id : Spoken(id, bpTask[c], bpEvents, pipe) => Spoken(id, bpTask[c], bpEvents, longer)
    BY <2>2 DEF Spoken
  <2>7. ListFits(shown, bpTask[c], bpEvents, longer, bpActual')
    <3>1. ASSUME NEW k \in Keys, NEW i \in DOMAIN bpActual'[k]
          PROVE  \/ Spoken(bpActual'[k][i].id, bpTask[c], bpEvents, longer)
                 \/ bpActual'[k][i] \in Range(shown[k])
      <4>1. CASE k = r.key
        BY <1>17, <1>19, <3>1, <4>1 DEF Range
      <4>2. CASE k # r.key
        <5>1. bpActual'[k] = bpActual[k] /\ shown[k] = base[k]
          BY <1>17, <1>19, <4>2
        <5>2. \/ Spoken(bpActual[k][i].id, bpTask[c], bpEvents, pipe)
              \/ bpActual[k][i] \in Range(base[k])
          BY <1>9, <1>15, <1>21, <3>1, <5>1 DEF LatestFits, ListFits
        <5>3. QED
          BY <2>6, <5>1, <5>2
      <4>3. QED
        BY <4>1, <4>2
    <3>2. QED
      BY <3>1 DEF ListFits
  <2>8. QED
    BY <1>3, <1>11, <2>1, <2>4, <2>5, <2>7 DEF LatestFits, TaskFits, SearchFits
<1>22. (IdsAgree(shown, bpActual, bpRemoved, bpIds))'
  BY <1>3, <1>20
<1>23. QED
  BY <1>13, <1>14, <1>18, <1>21, <1>22 DEF BpInv

\* The adapter's list after it has changed an entry, or removed one.
Altered(list, e, removed, after) ==
  /\ after \in Seq(Entries) /\ Rising(after)
  /\ IdSet(after) = IF removed THEN IdSet(list) \ {e.id} ELSE IdSet(list)
  /\ \A n \in DOMAIN after : \/ after[n] = e
                             \/ after[n].id # e.id /\ \E m \in DOMAIN list : after[n] = list[m]

LEMMA EntryChanged ==
  ASSUME MaxIds \in Nat, NEW list \in Seq(Entries), Rising(list), NEW i \in DOMAIN list,
         NEW e \in Entries, e.id = list[i].id
  PROVE  Altered(list, e, FALSE, [list EXCEPT ![i] = e])
<1>1. PICK n \in Nat : DOMAIN list = 1..n /\ list \in [1..n -> Entries]
  <2>1. Len(list) \in Nat /\ DOMAIN list = 1..Len(list) /\ list \in [1..Len(list) -> Entries]
    BY LenProperties
  <2>2. QED
    BY <2>1
<1>2. PICK after \in [1..n -> Entries] : after = [list EXCEPT ![i] = e]
  BY <1>1
<1>3. DOMAIN after = 1..n /\ after[i] = e /\ \A j \in 1..n : j # i => after[j] = list[j]
  BY <1>1, <1>2
<1>4. after \in Seq(Entries)
  BY <1>2
<1>5. \A j \in 1..n : after[j].id = list[j].id
  BY <1>3
<1>6. Rising(after) /\ IdSet(after) = IdSet(list)
  BY <1>1, <1>3, <1>5 DEF Rising, IdSet
<1>7. \A j \in 1..n : j # i => list[j].id # e.id
  <2>1. \A j \in 1..n : list[j].id \in Nat
    BY <1>1, EntryIds
  <2>2. ASSUME NEW j \in 1..n, j # i PROVE list[j].id # list[i].id
    <3>1. j < i \/ i < j
      BY <1>1, <2>2
    <3>2. list[j].id < list[i].id \/ list[i].id < list[j].id
      BY <1>1, <3>1 DEF Rising
    <3>3. QED
      BY <1>1, <2>1, <3>2
  <2>3. QED
    BY <2>2
<1>8. QED
  BY <1>1, <1>2, <1>3, <1>4, <1>6, <1>7 DEF Altered

LEMMA EntryRemoved ==
  ASSUME MaxIds \in Nat, NEW list \in Seq(Entries), Rising(list), NEW i \in DOMAIN list,
         NEW e \in Entries, e.id = list[i].id
  PROVE  Altered(list, e, TRUE, RemoveAt(list, i))
<1>1. PICK n \in Nat : n = Len(list) /\ DOMAIN list = 1..n /\ \A j \in 1..n : list[j] \in Entries
  BY LenProperties, ElementOfSeq
<1>2. PICK after \in Seq(Entries) :
        /\ after = RemoveAt(list, i) /\ DOMAIN after = 1..(n - 1)
        /\ \A j \in DOMAIN after :
             /\ j \in Nat
             /\ j < i => j \in DOMAIN list /\ after[j] = list[j]
             /\ ~(j < i) => j + 1 \in DOMAIN list /\ j + 1 # i /\ after[j] = list[j + 1]
  <2>1. /\ RemoveAt(list, i) \in Seq(Entries) /\ DOMAIN RemoveAt(list, i) = 1..(Len(list) - 1)
        /\ \A j \in DOMAIN RemoveAt(list, i) :
             /\ j \in Nat
             /\ j < i => j \in DOMAIN list /\ RemoveAt(list, i)[j] = list[j]
             /\ ~(j < i) => j + 1 \in DOMAIN list /\ j + 1 # i /\ RemoveAt(list, i)[j] = list[j + 1]
    BY RemoveAtElements
  <2>2. QED
    BY Zenon, <1>1, <2>1
<1>3. \A j \in 1..n : j # i => list[j].id # e.id
  <2>1. \A j \in 1..n : list[j].id \in Nat
    BY <1>1, EntryIds
  <2>2. ASSUME NEW j \in 1..n, j # i PROVE list[j].id # list[i].id
    <3>1. j < i \/ i < j
      BY <1>1, <2>2
    <3>2. list[j].id < list[i].id \/ list[i].id < list[j].id
      BY <1>1, <3>1 DEF Rising
    <3>3. QED
      BY <1>1, <2>1, <3>2
  <2>3. QED
    BY <2>2
<1>4. \A j \in DOMAIN after : \E k \in 1..n : k # i /\ after[j] = list[k]
  <2>1. ASSUME NEW j \in DOMAIN after PROVE \E k \in 1..n : k # i /\ after[j] = list[k]
    <3>1. CASE j < i
      BY <1>1, <1>2, <3>1
    <3>2. CASE ~(j < i)
      <4>1. PICK k : k = j + 1 /\ k \in 1..n /\ k # i /\ after[j] = list[k]
        BY <1>1, <1>2, <3>2
      <4>2. QED
        BY <4>1
    <3>3. QED
      BY <3>1, <3>2
  <2>2. QED
    BY <2>1
<1>5. \A k \in 1..n : k # i => \E j \in DOMAIN after : after[j] = list[k]
  <2>1. ASSUME NEW k \in 1..n, k # i PROVE \E j \in DOMAIN after : after[j] = list[k]
    <3>1. CASE k < i
      <4>1. k \in DOMAIN after
        BY <1>1, <1>2, <3>1
      <4>2. QED
        BY <1>2, <3>1, <4>1
    <3>2. CASE i < k
      <4>1. PICK j : j = k - 1 /\ j \in DOMAIN after /\ ~(j < i) /\ j + 1 = k
        BY <1>1, <1>2, <3>2
      <4>2. after[j] = list[k]
        BY <1>2, <4>1
      <4>3. QED
        BY <4>1, <4>2
    <3>3. QED
      BY <1>1, <2>1, <3>1, <3>2
  <2>2. QED
    BY <2>1
<1>6. Rising(after)
  <2>1. ASSUME NEW a \in DOMAIN after, NEW b \in DOMAIN after, a < b PROVE after[a].id < after[b].id
    <3>1. PICK p \in 1..n, q \in 1..n : p < q /\ after[a] = list[p] /\ after[b] = list[q]
      <4>1. PICK p, q : /\ p = IF a < i THEN a ELSE a + 1
                        /\ q = IF b < i THEN b ELSE b + 1
        OBVIOUS
      <4>2. p \in 1..n /\ q \in 1..n /\ after[a] = list[p] /\ after[b] = list[q]
        BY <1>1, <1>2, <4>1
      <4>3. a \in Nat /\ b \in Nat /\ i \in Nat
        BY <1>1, <1>2
      <4>4. p < q
        BY <2>1, <4>1, <4>3
      <4>5. QED
        BY <4>2, <4>4
    <3>2. QED
      BY <1>1, <3>1 DEF Rising
  <2>2. QED
    BY <2>1 DEF Rising
<1>7. IdSet(after) = IdSet(list) \ {e.id}
  <2>1. ASSUME NEW x \in IdSet(after) PROVE x \in IdSet(list) /\ x # e.id
    <3>1. PICK j \in DOMAIN after : x = after[j].id
      BY <2>1 DEF IdSet
    <3>2. QED
      BY <1>1, <1>3, <1>4, <3>1 DEF IdSet
  <2>2. ASSUME NEW x \in IdSet(list), x # e.id PROVE x \in IdSet(after)
    <3>1. PICK k \in 1..n : x = list[k].id /\ k # i
      BY <1>1, <2>2 DEF IdSet
    <3>2. QED
      BY <1>5, <3>1 DEF IdSet
  <2>3. QED
    BY <2>1, <2>2
<1>8. \A j \in DOMAIN after : after[j].id # e.id /\ \E m \in DOMAIN list : after[j] = list[m]
  BY <1>1, <1>3, <1>4
<1>9. QED
  BY <1>2, <1>6, <1>7, <1>8 DEF Altered

\* The adapter changes or removes the i-th entry of a list and says so.
Says(key, i, e, removed) ==
  /\ bpActual' = [bpActual EXCEPT ![key] = IF removed THEN RemoveAt(bpActual[key], i)
                                                     ELSE [bpActual[key] EXCEPT ![i] = e]]
  /\ bpRemoved' = (IF removed THEN bpRemoved \cup {e.id} ELSE bpRemoved)
  /\ bpPipe' = Append(bpPipe, [type |-> "event", task |-> CHOOSE t \in Tasks : TRUE, list |-> <<e>>])
  /\ UNCHANGED <<bpCached, bpTask, bpInput, bpEvents, bpIds>>

LEMMA BpSays ==
  ASSUME BpConstants, NEW c, Callers = {c}, BpInv(c), NEW key \in Keys, NEW i \in DOMAIN bpActual[key],
         NEW line \in Lines, NEW removed \in BOOLEAN, NEW e, Says(key, i, e, removed),
         e = [id |-> bpActual[key][i].id, line |-> line, verified |-> ~removed]
  PROVE  BpInv(c)'
<1>1. /\ removed => bpRemoved' = bpRemoved \cup {e.id}
      /\ ~removed => bpRemoved' = bpRemoved
      /\ UNCHANGED <<bpCached, bpTask, bpInput, bpEvents, bpIds>>
  BY DEF Says
<1>2. PICK list \in Seq(Entries) : list = bpActual[key]
  BY DEF BpInv, BpTypes
<1>3. e \in Entries /\ e.id = list[i].id
  <2>1. list[i] \in Entries
    BY <1>2, ElementOfSeq, LenProperties
  <2>2. QED
    BY <1>2, <2>1 DEF Entries
<1>4. PICK base \in [Keys -> Seq(Entries)] :
        /\ Accounted(c, base) /\ IdsAgree(base, bpActual, bpRemoved, bpIds)
        /\ Loops = {c} => LatestFits(c, base)
  BY DEF BpInv
<1>5. PICK after : /\ after = IF removed THEN RemoveAt(list, i) ELSE [list EXCEPT ![i] = e]
                   /\ Altered(list, e, removed, after)
  <2>1. MaxIds \in Nat /\ Rising(list) /\ i \in DOMAIN list
    BY <1>2, <1>4 DEF BpConstants, IdsAgree
  <2>2. Altered(list, e, FALSE, [list EXCEPT ![i] = e])
    BY <1>3, <2>1, EntryChanged
  <2>3. Altered(list, e, TRUE, RemoveAt(list, i))
    BY <1>3, <2>1, EntryRemoved
  <2>4. CASE removed
    BY <2>3, <2>4
  <2>5. CASE ~removed
    <3>1. removed = FALSE
      BY <2>5
    <3>2. QED
      BY <2>2, <3>1
  <2>6. QED
    BY <2>4, <2>5
<1>6. bpActual'[key] = after /\ \A k \in Keys : k # key => bpActual'[k] = bpActual[k]
  <2>1. bpActual' = [bpActual EXCEPT ![key] = after]
    BY <1>2, <1>5 DEF Says
  <2>2. QED
    BY <2>1 DEF BpInv, BpTypes
<1>7. PICK m \in Messages : /\ m = [type |-> "event", task |-> CHOOSE t \in Tasks : TRUE, list |-> <<e>>]
                            /\ m.type = "event" /\ m.list = <<e>> /\ m.list[1] = e
  <2>1. (CHOOSE t \in Tasks : TRUE) \in Tasks
    BY DEF Tasks
  <2>2. PICK told \in Tasks : told = CHOOSE t \in Tasks : TRUE
    BY <2>1
  <2>3. PICK said \in Seq(Entries) : said = <<e>> /\ said[1] = e
    <3>1. <<e>> \in Seq(Entries) /\ <<e>>[1] = e
      BY <1>3
    <3>2. QED
      BY <3>1
  <2>4. [type |-> "event", task |-> told, list |-> said] \in Messages
    BY DEF Messages
  <2>5. QED
    BY <2>2, <2>3, <2>4
<1>8. PICK pipe \in Seq(Messages) : pipe = bpPipe
  BY DEF BpInv, BpTypes
<1>9. PICK longer \in Seq(Messages), l \in Nat :
        /\ longer = Append(pipe, m) /\ l = Len(pipe)
        /\ DOMAIN longer = DOMAIN pipe \cup {l + 1} /\ l + 1 \notin DOMAIN pipe
        /\ \A j \in DOMAIN pipe : longer[j] = pipe[j]
        /\ longer[l + 1] = m
        /\ \A X : /\ \A j \in DOMAIN pipe \cup {0} : Beyond(longer, X, j) <=> Beyond(pipe, X, j) \/ m \in X
                  /\ ~Beyond(longer, X, l + 1)
  BY Zenon, PipeWritten
<1>10. bpPipe' = longer
  BY <1>7, <1>8, <1>9 DEF Says
<1>11. /\ \A j \in DOMAIN longer : longer[j].type = "response" => j \in DOMAIN pipe /\ longer[j] = pipe[j]
       /\ \A j \in DOMAIN longer : longer[j].type = "event" => longer[j].list \in Events
  <2>1. m.list \in Events
    BY <1>3, <1>7 DEF Events
  <2>2. QED
    BY SMTT(30), <1>7, <1>8, <1>9, <2>1 DEF BpInv, BpTypes
<1>12. e.id \in IdSet(base[key]) /\ e.id \in 1..bpIds
  <2>1. e.id \in IdSet(bpActual[key])
    BY DEF IdSet
  <2>2. QED
    BY <1>4, <2>1 DEF IdsAgree
<1>13. BpTypes'
  <2>1. bpActual' \in [Keys -> Seq(Entries)]
    <3>1. bpActual' = [bpActual EXCEPT ![key] = after] /\ after \in Seq(Entries)
      BY <1>2, <1>5 DEF Altered, Says
    <3>2. QED
      BY <3>1 DEF BpInv, BpTypes
  <2>2. bpRemoved' \subseteq 1..bpIds
    BY <1>1, <1>12 DEF BpInv, BpTypes
  <2>3. QED
    BY <1>1, <1>10, <1>11, <2>1, <2>2 DEF BpInv, BpTypes
<1>14. BpCalls(c)'
  BY <1>1, <1>8, <1>10, <1>11 DEF BpInv, BpCalls
<1>15. Accounted(c, base)'
  <2>1. Answered => Answered'
    BY <1>8, <1>9, <1>10 DEF Answered
  <2>2. \A k \in Keys : Pending(c, k) => Pending(c, k)'
    BY <1>1, <2>1 DEF Pending
  <2>3. QED
    BY <1>1, <1>4, <1>8, <1>10, <1>11, <2>2 DEF Accounted
<1>16. \A k \in Keys : k # key => e.id \notin IdSet(base[k]) /\ e.id \notin IdSet(bpActual[k])
  BY <1>4, <1>12 DEF IdsAgree
<1>17. IdsAgree(base, bpActual', bpRemoved', bpIds)
  <2>1. ASSUME NEW k \in Keys
        PROVE  Rising(bpActual'[k]) /\ IdSet(bpActual'[k]) = IdSet(base[k]) \ bpRemoved'
    <3>1. CASE k = key
      BY <1>1, <1>2, <1>4, <1>5, <1>6, <3>1 DEF Altered, IdsAgree
    <3>2. CASE k # key
      BY <1>1, <1>4, <1>6, <1>16, <3>2 DEF IdsAgree
    <3>3. QED
      BY <3>1, <3>2
  <2>2. QED
    BY <1>4, <2>1 DEF IdsAgree
<1>18. Fits(bpActual', e)
  <2>1. ASSUME NEW k \in Keys, NEW n \in DOMAIN bpActual'[k], bpActual'[k][n].id = e.id
        PROVE  bpActual'[k][n] = e
    <3>1. k = key
      <4>1. k # key => e.id \in IdSet(bpActual[k])
        BY <1>6, <2>1 DEF IdSet
      <4>2. QED
        BY <1>16, <4>1
    <3>2. QED
      BY <1>5, <1>6, <2>1, <3>1 DEF Altered
  <2>2. QED
    BY <2>1 DEF Fits
<1>19. \A k \in Keys : \A n \in DOMAIN bpActual'[k] :
         bpActual'[k][n].id # e.id => \E j \in DOMAIN bpActual[k] : bpActual'[k][n] = bpActual[k][j]
  <2>1. ASSUME NEW k \in Keys, NEW n \in DOMAIN bpActual'[k], bpActual'[k][n].id # e.id
        PROVE  \E j \in DOMAIN bpActual[k] : bpActual'[k][n] = bpActual[k][j]
    <3>1. CASE k = key
      <4>1. bpActual'[k] = after /\ n \in DOMAIN after /\ after[n].id # e.id
        BY <1>6, <2>1, <3>1
      <4>2. PICK j \in DOMAIN list : after[n] = list[j]
        BY <1>5, <4>1 DEF Altered
      <4>3. QED
        BY <1>2, <3>1, <4>1, <4>2
    <3>2. CASE k # key
      BY <1>6, <2>1, <3>2
    <3>3. QED
      BY <3>1, <3>2
  <2>2. QED
    BY <2>1
<1>20. \A x \in Entries : x.id # e.id /\ Fits(bpActual, x) => Fits(bpActual', x)
  <2>1. SUFFICES ASSUME NEW x \in Entries, x.id # e.id, Fits(bpActual, x),
                        NEW k \in Keys, NEW n \in DOMAIN bpActual'[k], bpActual'[k][n].id = x.id
                 PROVE  bpActual'[k][n] = x
    BY DEF Fits
  <2>2. PICK j \in DOMAIN bpActual[k] : bpActual'[k][n] = bpActual[k][j]
    BY <1>19, <2>1
  <2>3. QED
    BY <2>1, <2>2 DEF Fits
<1>21. ASSUME Loops = {c} PROVE LatestFits(c, base)'
  <2>1. \A id : m \in Telling(id) <=> id = e.id
    BY <1>7 DEF Telling
  <2>2. PipeFits(longer, bpActual', bpIds)
    <3>1. PipeFits(pipe, bpActual, bpIds)
      BY <1>4, <1>8, <1>21 DEF LatestFits
    <3>2. ASSUME NEW j \in DOMAIN longer, NEW x \in Entries,
                 longer[j].type = "event", longer[j].list = <<x>>
          PROVE  x.id \in 1..bpIds /\ (~Beyond(longer, Telling(x.id), j) => Fits(bpActual', x))
      <4>1. CASE j \in DOMAIN pipe
        <5>1. x.id \in 1..bpIds /\ (~Beyond(pipe, Telling(x.id), j) => Fits(bpActual, x))
          BY <1>9, <3>1, <3>2, <4>1 DEF PipeFits
        <5>2. ~Beyond(longer, Telling(x.id), j) => x.id # e.id /\ ~Beyond(pipe, Telling(x.id), j)
          BY <1>9, <2>1, <4>1
        <5>3. QED
          BY <1>20, <5>1, <5>2
      <4>2. CASE j = l + 1
        <5>1. x = e
          BY <1>7, <1>9, <3>2, <4>2
        <5>2. QED
          BY <1>12, <1>18, <5>1
      <4>3. QED
        BY <1>9, <4>1, <4>2
    <3>3. QED
      BY <3>2 DEF PipeFits
  <2>3. \A id : ~Beyond(longer, Telling(id), 0) => id # e.id /\ ~Beyond(pipe, Telling(id), 0)
    BY <1>9, <2>1
  <2>4. ChannelFits(bpEvents, longer, bpActual', bpIds)
    BY <1>4, <1>8, <1>20, <1>21, <2>3 DEF LatestFits, ChannelFits
  <2>5. TaskFits(bpTask[c], bpEvents, longer, bpActual', bpIds)
    BY <1>4, <1>8, <1>20, <1>21, <2>3 DEF LatestFits, TaskFits
  <2>6. ListFits(base, bpTask[c], bpEvents, longer, bpActual')
    <3>1. ASSUME NEW k \in Keys, NEW n \in DOMAIN bpActual'[k]
          PROVE  \/ Spoken(bpActual'[k][n].id, bpTask[c], bpEvents, longer)
                 \/ bpActual'[k][n] \in Range(base[k])
      <4>1. CASE bpActual'[k][n].id = e.id
        BY <2>3, <4>1 DEF Spoken
      <4>2. CASE bpActual'[k][n].id # e.id
        <5>1. PICK j \in DOMAIN bpActual[k] : bpActual'[k][n] = bpActual[k][j]
          BY <1>19, <4>2
        <5>2. \/ Spoken(bpActual[k][j].id, bpTask[c], bpEvents, pipe)
              \/ bpActual[k][j] \in Range(base[k])
          BY <1>4, <1>8, <1>21 DEF LatestFits, ListFits
        <5>3. \A id : Spoken(id, bpTask[c], bpEvents, pipe) => Spoken(id, bpTask[c], bpEvents, longer)
          BY <2>3 DEF Spoken
        <5>4. QED
          BY <5>1, <5>2, <5>3
      <4>3. QED
        BY <4>1, <4>2
    <3>2. QED
      BY <3>1 DEF ListFits
  <2>7. QED
    BY <1>1, <1>4, <1>10, <1>21, <2>2, <2>4, <2>5, <2>6 DEF LatestFits
<1>22. (IdsAgree(base, bpActual, bpRemoved, bpIds))'
  BY <1>1, <1>17
<1>23. QED
  BY <1>13, <1>14, <1>15, <1>21, <1>22 DEF BpInv

LEMMA BpChanges ==
  ASSUME BpConstants, NEW c, Callers = {c}, BpInv(c), Change
  PROVE  BpInv(c)'
<1>1. PICK key \in Keys : \E i \in DOMAIN bpActual[key], line \in Lines, removed \in BOOLEAN :
        LET e == [id |-> bpActual[key][i].id, line |-> line, verified |-> ~removed] IN
        /\ bpActual' = [bpActual EXCEPT ![key] = IF removed THEN SubSeq(@, 1, i - 1) \o SubSeq(@, i + 1, Len(@))
                                                 ELSE [@ EXCEPT ![i] = e]]
        /\ bpRemoved' = IF removed THEN bpRemoved \cup {e.id} ELSE bpRemoved
        /\ bpPipe' = Append(bpPipe, [type |-> "event", task |-> CHOOSE t \in Tasks : TRUE, list |-> <<e>>])
  BY DEF Change
<1>2. UNCHANGED <<bpCached, bpTask, bpInput, bpEvents, bpIds>>
  BY DEF Change
<1> DEFINE Changing(e, i, line, removed) ==
        /\ e = [id |-> bpActual[key][i].id, line |-> line, verified |-> ~removed]
        /\ bpActual' = [bpActual EXCEPT ![key] = IF removed THEN RemoveAt(bpActual[key], i)
                                                           ELSE [bpActual[key] EXCEPT ![i] = e]]
        /\ bpRemoved' = (IF removed THEN bpRemoved \cup {e.id} ELSE bpRemoved)
        /\ bpPipe' = Append(bpPipe, [type |-> "event", task |-> CHOOSE t \in Tasks : TRUE, list |-> <<e>>])
<1>2a. PICK i \in DOMAIN bpActual[key], line \in Lines, removed \in BOOLEAN : \E e : Changing(e, i, line, removed)
  BY <1>1 DEF RemoveAt
<1>3. PICK e : Changing(e, i, line, removed)
  BY <1>2a
<1>4. Says(key, i, e, removed)
  BY <1>2, <1>3 DEF Says
<1>5. QED
  BY <1>3, <1>4, BpSays

LEMMA BpSteps ==
  ASSUME BpConstants, NEW c, Callers = {c}, BpInv(c), [Next]_bpVars
  PROVE  BpInv(c)'
<1>1. CASE \E t \in Tasks : SetBreakpoints(t)
  BY <1>1, BpSets
<1>2. CASE \E t \in Tasks : update_breakpoints(t)
  BY <1>2, BpUpdates
<1>3. CASE \E t \in Tasks : TakeEvent(t)
  BY <1>3, BpTakes
<1>4. CASE \E t \in Tasks : update_by_id(t)
  BY <1>4, BpUpdatesById
<1>5. CASE ReadResponse
  BY <1>5, BpReadsResponse
<1>6. CASE ReadEvent
  BY <1>6, BpReadsEvent
<1>7. CASE Answer
  BY <1>7, BpAnswers
<1>8. CASE Change
  BY <1>8, BpChanges
<1>9. CASE UNCHANGED bpVars
  <2>1. UNCHANGED <<bpCached, bpTask, bpInput, bpPipe, bpEvents, bpActual, bpIds, bpRemoved>>
    BY <1>9 DEF bpVars
  <2>2. BpTypes' /\ BpCalls(c)'
    BY <2>1 DEF BpInv, BpTypes, BpCalls
  <2>3. PICK base \in [Keys -> Seq(Entries)] :
          /\ Accounted(c, base) /\ IdsAgree(base, bpActual, bpRemoved, bpIds)
          /\ Loops = {c} => LatestFits(c, base)
    BY DEF BpInv
  <2>4. Accounted(c, base)'
    BY <2>1, <2>3 DEF Accounted, Pending, Answered
  <2>5. (IdsAgree(base, bpActual, bpRemoved, bpIds))'
    BY <2>1, <2>3
  <2>6. Loops = {c} => LatestFits(c, base)'
    BY <2>1, <2>3 DEF LatestFits
  <2>7. QED
    BY <2>2, <2>4, <2>5, <2>6 DEF BpInv
<1>10. QED
  BY Zenon, <1>1, <1>2, <1>3, <1>4, <1>5, <1>6, <1>7, <1>8, <1>9 DEF Next

LEMMA SameIds ==
  ASSUME MaxIds \in Nat, NEW s \in Seq(Entries), NEW t \in Seq(Entries), Rising(s), Rising(t), IdSet(s) = IdSet(t)
  PROVE  Ids(s) = Ids(t)
<1>1. Len(s) = Len(t) /\ \A i \in DOMAIN s : i \in DOMAIN t /\ s[i].id = t[i].id
  BY RisingSame
<1>2. DOMAIN s = 1..Len(s) /\ DOMAIN t = 1..Len(t)
  BY LenProperties
<1>3. QED
  BY <1>1, <1>2 DEF Ids

\* Two lists with the same ids, one of which has every entry of the other.
LEMMA SameEntries ==
  ASSUME MaxIds \in Nat, NEW s \in Seq(Entries), NEW t \in Seq(Entries), Rising(s), Rising(t),
         IdSet(s) = IdSet(t), \A n \in DOMAIN t : t[n] \in Range(s)
  PROVE  s = t
<1>1. Len(s) = Len(t) /\ \A i \in DOMAIN s : i \in DOMAIN t /\ s[i].id = t[i].id
  BY RisingSame
<1>2. PICK n \in Nat : n = Len(s) /\ n = Len(t) /\ DOMAIN s = 1..n /\ DOMAIN t = 1..n
  BY <1>1, LenProperties
<1>3. \A i \in 1..n : s[i].id \in Nat
  BY <1>2, ElementOfSeq, EntryIds
<1>4. ASSUME NEW i \in 1..n PROVE s[i] = t[i]
  <2>1. PICK j \in 1..n : s[j] = t[i]
    BY <1>2 DEF Range
  <2>2. s[j].id = s[i].id
    BY <1>1, <1>2, <2>1
  <2>3. i = j
    BY SMTT(30), <1>2, <1>3, <2>2 DEF Rising
  <2>4. QED
    BY <2>1, <2>3
<1>5. QED
  BY <1>1, <1>2, <1>4, SeqEqual

LEMMA BpShows ==
  ASSUME BpConstants, NEW c, Callers = {c}, BpInv(c)
  PROVE  TypeOK /\ ListShowsIds /\ (Loops = {c} => ListShowsAdapter)
<1>1. PICK base \in [Keys -> Seq(Entries)] :
        /\ Accounted(c, base) /\ IdsAgree(base, bpActual, bpRemoved, bpIds)
        /\ Loops = {c} => LatestFits(c, base)
  BY DEF BpInv
<1>2. TypeOK
  BY DEF BpInv, BpTypes, TypeOK, Steps
<1>3. MaxIds \in Nat /\ c \in Tasks
  BY DEF BpConstants, Tasks
<1>4. ASSUME Quiescent, NEW k \in Keys
      PROVE  /\ bpCached[k] = base[k]
             /\ \A id : ~Spoken(id, bpTask[c], bpEvents, bpPipe)
             /\ Kept(k) \in Seq(Entries) /\ bpActual[k] \in Seq(Entries)
             /\ Rising(Kept(k)) /\ Rising(bpActual[k]) /\ IdSet(Kept(k)) = IdSet(bpActual[k])
             /\ Range(Kept(k)) = {e \in Range(base[k]) : e.id \notin bpRemoved}
  <2>1. DOMAIN bpPipe = {} /\ DOMAIN bpEvents = {} /\ bpTask[c].at = "idle"
    BY <1>3, <1>4, EmptySeq DEF Quiescent
  <2>2. ~Updating(bpTask[c]) /\ ~Handling(bpTask[c]) /\ ~Answered
    BY <2>1 DEF Updating, Handling, Answered
  <2>3. bpCached[k] = base[k]
    BY <1>1, <2>2 DEF Accounted, Pending
  <2>4. \A id : ~Spoken(id, bpTask[c], bpEvents, bpPipe)
    BY <2>1, <2>2 DEF Spoken, Beyond
  <2>5. PICK list \in Seq(Entries) : list = base[k]
    OBVIOUS
  <2>6. Rising(list) /\ Rising(bpActual[k]) /\ IdSet(bpActual[k]) = IdSet(list) \ bpRemoved
    BY <1>1, <2>5 DEF IdsAgree
  <2>7. PICK kept : kept = Without(list, bpRemoved)
    OBVIOUS
  <2>8. /\ kept \in Seq(Entries) /\ Rising(kept)
        /\ Range(kept) = {e \in Range(list) : e.id \notin bpRemoved}
    BY <1>3, <2>6, <2>7, WithoutRises
  <2>9. IdSet(kept) = IdSet(list) \ bpRemoved
    <3>1. \A s \in Seq(Entries) : IdSet(s) = {e.id : e \in Range(s)}
      BY DEF IdSet, Range
    <3>2. IdSet(kept) = {e.id : e \in Range(kept)} /\ IdSet(list) = {e.id : e \in Range(list)}
      BY <2>8, <3>1
    <3>3. QED
      BY <2>8, <3>2
  <2>10. Kept(k) = kept
    BY <2>3, <2>5, <2>7 DEF Kept
  <2>11. bpActual[k] \in Seq(Entries)
    BY DEF BpInv, BpTypes
  <2>12. QED
    BY <2>3, <2>4, <2>5, <2>6, <2>8, <2>9, <2>10, <2>11
<1>5. ListShowsIds
  <2>1. ASSUME Quiescent, NEW k \in Keys PROVE Ids(Kept(k)) = Ids(bpActual[k])
    BY <1>3, <1>4, <2>1, SameIds
  <2>2. QED
    BY <2>1 DEF ListShowsIds
<1>6. ASSUME Loops = {c} PROVE ListShowsAdapter
  <2>1. ASSUME Quiescent, NEW k \in Keys PROVE Kept(k) = bpActual[k]
    <3>1. ASSUME NEW n \in DOMAIN bpActual[k] PROVE bpActual[k][n] \in Range(Kept(k))
      <4>1. bpActual[k][n] \in Range(base[k])
        BY <1>1, <1>4, <1>6, <2>1 DEF LatestFits, ListFits
      <4>2. bpActual[k][n].id \in IdSet(bpActual[k])
        BY DEF IdSet
      <4>3. bpActual[k][n].id \notin bpRemoved
        BY <1>1, <4>2 DEF IdsAgree
      <4>4. QED
        BY <1>4, <2>1, <4>1, <4>3
    <3>2. /\ Kept(k) \in Seq(Entries) /\ bpActual[k] \in Seq(Entries)
          /\ Rising(Kept(k)) /\ Rising(bpActual[k]) /\ IdSet(Kept(k)) = IdSet(bpActual[k])
      BY <1>4, <2>1
    <3>3. QED
      BY <1>3, <3>1, <3>2, SameEntries
  <2>2. QED
    BY <2>1 DEF ListShowsAdapter
<1>7. QED
  BY <1>2, <1>5, <1>6

=============================================================================
