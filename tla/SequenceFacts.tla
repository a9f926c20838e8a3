---------------------------- MODULE SequenceFacts ----------------------------
(***************************************************************************)
(* What the operators on sequences that the models use do to the elements  *)
(* of a sequence: the lemmas that the proofs about queues, pipes and       *)
(* channels cite.  None of them speaks of the program.                     *)
(***************************************************************************)
EXTENDS Integers, Sequences, SequencesExt, SequenceTheorems, WellFoundedInduction, TLAPS

\* Append adds one place at the end.
LEMMA AppendElements ==
  ASSUME NEW S, NEW s \in Seq(S), NEW e \in S
  PROVE  /\ Append(s, e) \in Seq(S)
         /\ DOMAIN Append(s, e) = DOMAIN s \cup {Len(s) + 1}
         /\ \A i \in DOMAIN s : Append(s, e)[i] = s[i]
         /\ Append(s, e)[Len(s) + 1] = e /\ Len(s) + 1 \notin DOMAIN s
<1>1. Append(s, e) \in Seq(S) /\ Len(Append(s, e)) = Len(s) + 1
  BY AppendProperties
<1>2. DOMAIN s = 1..Len(s) /\ Len(s) \in Nat /\ DOMAIN Append(s, e) = 1..(Len(s) + 1)
  BY <1>1, LenProperties
<1>3. QED
  BY <1>1, <1>2, AppendProperties

\* Tail moves every element one place to the front.
LEMMA TailElements ==
  ASSUME NEW S, NEW s \in Seq(S), s # <<>>
  PROVE  /\ Tail(s) \in Seq(S)
         /\ \A i \in DOMAIN Tail(s) : i \in Nat /\ i + 1 \in DOMAIN s /\ Tail(s)[i] = s[i + 1]
         /\ \A j \in DOMAIN s : j # 1 => j - 1 \in DOMAIN Tail(s) /\ Tail(s)[j - 1] = s[j]
         /\ 1 \in DOMAIN s /\ Head(s) = s[1] /\ Head(s) \in S
<1>1. Tail(s) \in Seq(S) /\ Len(Tail(s)) = Len(s) - 1 /\ Head(s) \in S
  BY HeadTailProperties
<1>2. DOMAIN s = 1..Len(s) /\ Len(s) \in Nat \ {0} /\ DOMAIN Tail(s) = 1..(Len(s) - 1)
  BY <1>1, LenProperties, EmptySeq
<1>3. ASSUME NEW i \in DOMAIN Tail(s)
      PROVE  i \in Nat /\ i + 1 \in DOMAIN s /\ Tail(s)[i] = s[i + 1]
  BY <1>1, <1>2, HeadTailProperties
<1>4. ASSUME NEW j \in DOMAIN s, j # 1
      PROVE  j - 1 \in DOMAIN Tail(s) /\ Tail(s)[j - 1] = s[j]
  <2>1. j - 1 \in DOMAIN Tail(s) /\ j - 1 + 1 = j
    BY <1>2, <1>4
  <2>2. QED
    BY <1>3, <2>1
<1>5. 1 \in DOMAIN s /\ Head(s) = s[1]
  BY <1>2
<1>6. QED
  BY <1>1, <1>3, <1>4, <1>5

\* Concatenation leaves the first sequence where it is and puts the second one after it.
LEMMA ConcatElements ==
  ASSUME NEW S, NEW s \in Seq(S), NEW t \in Seq(S)
  PROVE  /\ s \o t \in Seq(S) /\ Len(s \o t) = Len(s) + Len(t)
         /\ \A i \in DOMAIN s : i \in DOMAIN (s \o t) /\ (s \o t)[i] = s[i]
         /\ \A i \in DOMAIN (s \o t) :
              \/ i \in DOMAIN s
              \/ i - Len(s) \in DOMAIN t /\ (s \o t)[i] = t[i - Len(s)]
<1>1. /\ Len(s) \in Nat /\ DOMAIN s = 1..Len(s) /\ Len(t) \in Nat /\ DOMAIN t = 1..Len(t)
  BY LenProperties
<1>2. /\ s \o t \in Seq(S) /\ Len(s \o t) = Len(s) + Len(t)
      /\ \A i \in 1..(Len(s) + Len(t)) :
           (s \o t)[i] = IF i <= Len(s) THEN s[i] ELSE t[i - Len(s)]
  BY ConcatProperties
<1>3. DOMAIN (s \o t) = 1..(Len(s) + Len(t))
  BY <1>2, LenProperties
<1>4. \A i \in 1..(Len(s) + Len(t)) : i \in 1..Len(s) \/ (~(i <= Len(s)) /\ i - Len(s) \in 1..Len(t))
  BY <1>1
<1>5. \A i \in 1..Len(s) : i \in 1..(Len(s) + Len(t)) /\ i <= Len(s)
  BY <1>1
<1>6. QED
  BY <1>1, <1>2, <1>3, <1>4, <1>5

\* RemoveAt leaves all elements but one.
LEMMA RemoveAtElements ==
  ASSUME NEW S, NEW s \in Seq(S), NEW k \in DOMAIN s
  PROVE  /\ RemoveAt(s, k) \in Seq(S)
         /\ Len(RemoveAt(s, k)) = Len(s) - 1 /\ DOMAIN RemoveAt(s, k) = 1..(Len(s) - 1)
         /\ \A i \in DOMAIN RemoveAt(s, k) :
              /\ i \in Nat
              /\ i < k => i \in DOMAIN s /\ RemoveAt(s, k)[i] = s[i]
              /\ ~(i < k) => i + 1 \in DOMAIN s /\ i + 1 # k /\ RemoveAt(s, k)[i] = s[i + 1]
<1> DEFINE a == SubSeq(s, 1, k - 1)
           b == SubSeq(s, k + 1, Len(s))
<1>1. Len(s) \in Nat /\ DOMAIN s = 1..Len(s) /\ \A i \in 1..Len(s) : s[i] \in S
  BY LenProperties, ElementOfSeq
<1>2. /\ a \in Seq(S) /\ Len(a) = k - 1
      /\ \A i \in 1..(k - 1) : a[i] = s[i]
  <2>1. \A i \in 1..(k - 1) : s[i] \in S
    BY <1>1
  <2>2. 1 \in Int /\ k - 1 \in Int /\ k \in Nat /\ k >= 1
    BY <1>1
  <2>3. /\ a \in Seq(S) /\ Len(a) = (IF 1 <= k - 1 THEN k - 1 - 1 + 1 ELSE 0)
        /\ \A i \in 1..(k - 1 - 1 + 1) : a[i] = s[1 + i - 1]
    BY <2>1, <2>2, SubSeqProperties
  <2>4. QED
    BY <2>2, <2>3
<1>3. /\ b \in Seq(S) /\ Len(b) = Len(s) - k
      /\ \A i \in 1..(Len(s) - k) : b[i] = s[k + i]
  <2>1. \A i \in (k + 1)..Len(s) : s[i] \in S
    BY <1>1
  <2>2. k + 1 \in Int /\ Len(s) \in Int /\ k \in Nat /\ k <= Len(s)
    BY <1>1
  <2>3. /\ b \in Seq(S) /\ Len(b) = (IF k + 1 <= Len(s) THEN Len(s) - (k + 1) + 1 ELSE 0)
        /\ \A i \in 1..(Len(s) - (k + 1) + 1) : b[i] = s[k + 1 + i - 1]
    BY <2>1, <2>2, SubSeqProperties
  <2>4. QED
    BY <2>2, <2>3
<1>4. /\ a \o b \in Seq(S) /\ Len(a \o b) = Len(a) + Len(b)
      /\ \A i \in 1..(Len(a) + Len(b)) : (a \o b)[i] = IF i <= Len(a) THEN a[i] ELSE b[i - Len(a)]
  BY <1>2, <1>3, ConcatProperties
<1>5. DOMAIN (a \o b) = 1..(Len(s) - 1) /\ Len(a \o b) = Len(s) - 1
  <2>1. Len(a) + Len(b) = Len(s) - 1
    BY <1>1, <1>2, <1>3
  <2>2. QED
    BY <1>4, <2>1, LenProperties
<1>6. RemoveAt(s, k) = a \o b
  BY DEF RemoveAt
<1>7. ASSUME NEW i \in 1..(Len(s) - 1)
      PROVE  /\ i \in Nat
             /\ i < k => i \in DOMAIN s /\ (a \o b)[i] = s[i]
             /\ ~(i < k) => i + 1 \in DOMAIN s /\ i + 1 # k /\ (a \o b)[i] = s[i + 1]
  <2>1. CASE i < k
    BY <1>1, <1>2, <1>3, <1>4, <2>1
  <2>2. CASE ~(i < k)
    <3>1. i - (k - 1) \in 1..(Len(s) - k) /\ k + (i - (k - 1)) = i + 1
      BY <1>1, <2>2
    <3>2. b[i - (k - 1)] = s[i + 1]
      BY <1>3, <3>1
    <3>3. (a \o b)[i] = b[i - (k - 1)]
      <4>1. i \in 1..(Len(a) + Len(b)) /\ ~(i <= Len(a))
        <5>1. Len(a) = k - 1 /\ Len(b) = Len(s) - k /\ Len(s) \in Nat /\ k \in 1..Len(s)
          BY <1>1, <1>2, <1>3
        <5> HIDE DEF a, b
        <5>2. QED
          BY <2>2, <5>1
      <4>2. QED
        BY <1>2, <1>4, <4>1
    <3>4. i + 1 \in DOMAIN s /\ i + 1 # k /\ i \in Nat
      BY <1>1, <2>2
    <3>5. QED
      BY <2>2, <3>2, <3>3, <3>4
  <2>3. QED
    BY <2>1, <2>2
<1>8. QED
  BY <1>4, <1>5, <1>6, <1>7

\* A nonempty set of numbers has a smallest.
LEMMA SmallestElement ==
  ASSUME NEW T \in SUBSET Nat, T # {}
  PROVE  \E x \in T : \A y \in T : x <= y
<1> DEFINE R == OpToRel(<, Nat)
<1>1. IsWellFoundedOn(R, Nat)
  BY NatLessThanWellFounded
<1>2. \A x, y \in Nat : y < x => <<y, x>> \in R
  BY DEF OpToRel
<1> HIDE DEF R
<1>3. \E x \in T : \A y \in T : ~(<<y, x>> \in R)
  BY <1>1, WFMin
<1>4. \A x, y \in T : x \in Nat /\ y \in Nat
  OBVIOUS
<1>5. \A x, y \in Nat : ~(y < x) => x <= y
  OBVIOUS
<1>6. QED
  BY <1>2, <1>3, <1>4, <1>5

\* RemoveFirst takes out an element that is there, at one place.
LEMMA RemoveFirstElement ==
  ASSUME NEW S, NEW s \in Seq(S), NEW e, \E i \in DOMAIN s : s[i] = e
  PROVE  \E k \in DOMAIN s : s[k] = e /\ RemoveFirst(s, e) = RemoveAt(s, k)
<1> DEFINE I == {i \in 1..Len(s) : s[i] = e}
<1>1. I \in SUBSET Nat /\ I # {} /\ DOMAIN s = 1..Len(s)
  BY LenProperties
<1>2. \E x \in I : \A y \in I : x <= y
  BY <1>1, SmallestElement
<1>3. Min(I) \in I
  BY <1>2 DEF Min
<1>4. SelectInSeq(s, LAMBDA v : v = e) = Min(I)
  BY <1>1 DEF SelectInSeq
<1>5. QED
  BY <1>1, <1>3, <1>4 DEF RemoveFirst

-----------------------------------------------------------------------------
(* Sequences in which nothing occurs twice, as the queues of a lock are.   *)

\* A new element comes last and leaves the head where it is.
LEMMA AppendOnce ==
  ASSUME NEW S, NEW s \in Seq(S), NEW e \in S, IsInjective(s), e \notin Range(s)
  PROVE  /\ Append(s, e) \in Seq(S) /\ IsInjective(Append(s, e))
         /\ Range(Append(s, e)) = Range(s) \cup {e}
         /\ s # <<>> => Head(Append(s, e)) = Head(s)
<1>1. /\ Append(s, e) \in Seq(S)
      /\ DOMAIN Append(s, e) = DOMAIN s \cup {Len(s) + 1}
      /\ \A i \in DOMAIN s : Append(s, e)[i] = s[i]
      /\ Append(s, e)[Len(s) + 1] = e /\ Len(s) + 1 \notin DOMAIN s
  BY AppendElements
<1>2. \A i \in DOMAIN s : s[i] # e
  BY DEF Range
<1>3. IsInjective(Append(s, e))
  BY <1>1, <1>2 DEF IsInjective
<1>4. Range(Append(s, e)) = Range(s) \cup {e}
  BY <1>1 DEF Range
<1>5. s # <<>> => Head(Append(s, e)) = Head(s)
  BY HeadTailAppend
<1>6. QED
  BY <1>1, <1>3, <1>4, <1>5

\* Two sequences without repetitions and without a common element, one after the other.
LEMMA ConcatOnce ==
  ASSUME NEW S, NEW s \in Seq(S), NEW t \in Seq(S), IsInjective(s), IsInjective(t),
         Range(s) \cap Range(t) = {}
  PROVE  s \o t \in Seq(S) /\ IsInjective(s \o t) /\ Range(s \o t) = Range(s) \cup Range(t)
<1>1. PICK m \in Nat, n \in Nat : /\ m = Len(s) /\ n = Len(t)
                                  /\ DOMAIN s = 1..m /\ DOMAIN t = 1..n /\ DOMAIN (s \o t) = 1..(m + n)
                                  /\ s \o t \in Seq(S)
  <2>1. s \o t \in Seq(S) /\ Len(s \o t) = Len(s) + Len(t)
    BY ConcatProperties
  <2>2. /\ Len(s) \in Nat /\ DOMAIN s = 1..Len(s) /\ Len(t) \in Nat /\ DOMAIN t = 1..Len(t)
        /\ DOMAIN (s \o t) = 1..Len(s \o t)
    BY <2>1, LenProperties
  <2>3. QED
    BY <2>1, <2>2
<1> DEFINE u == s \o t
<1>2. \A i \in 1..(m + n) : /\ i <= m => i \in 1..m /\ u[i] = s[i]
                            /\ i > m => i - m \in 1..n /\ u[i] = t[i - m]
  <2>1. \A i \in 1..(m + n) : u[i] = IF i <= m THEN s[i] ELSE t[i - m]
    BY <1>1, ConcatProperties
  <2> HIDE DEF u
  <2>2. QED
    BY <2>1
<1> HIDE DEF u
<1>3. \A i \in 1..m, j \in 1..n : s[i] # t[j]
  BY <1>1 DEF Range
<1>4. ASSUME NEW i \in 1..(m + n), NEW j \in 1..(m + n), u[i] = u[j] PROVE i = j
  <2>1. CASE i <= m /\ j <= m
    BY <1>1, <1>2, <1>4, <2>1 DEF IsInjective
  <2>2. CASE i > m /\ j > m
    <3>1. i - m = j - m
      <4>1. i - m \in 1..n /\ j - m \in 1..n /\ t[i - m] = t[j - m]
        BY <1>2, <1>4, <2>2
      <4>2. \A a, b \in 1..n : t[a] = t[b] => a = b
        BY <1>1 DEF IsInjective
      <4>3. QED
        BY <4>1, <4>2
    <3>2. QED
      BY <3>1
  <2>3. CASE i <= m /\ j > m
    BY <1>2, <1>3, <1>4, <2>3
  <2>4. CASE i > m /\ j <= m
    BY <1>2, <1>3, <1>4, <2>4
  <2>5. QED
    BY <2>1, <2>2, <2>3, <2>4
<1>5. \A i \in 1..m : i \in 1..(m + n) /\ u[i] = s[i]
  <2>1. \A i \in 1..m : i \in 1..(m + n) /\ i <= m
    OBVIOUS
  <2>2. QED
    BY <1>2, <2>1
<1>6. \A j \in 1..n : j + m \in 1..(m + n) /\ u[j + m] = t[j]
  <2>1. \A j \in 1..n : j + m \in 1..(m + n) /\ j + m > m /\ (j + m) - m = j
    OBVIOUS
  <2>2. QED
    BY <1>2, <2>1
<1>7. DOMAIN u = 1..(m + n) /\ u \in Seq(S)
  BY <1>1 DEF u
<1>8. IsInjective(u)
  BY <1>4, <1>7 DEF IsInjective
<1>9. Range(u) = Range(s) \cup Range(t)
  <2>1. Range(u) \subseteq Range(s) \cup Range(t)
    <3>1. ASSUME NEW i \in 1..(m + n) PROVE u[i] \in Range(s) \cup Range(t)
      <4>1. CASE i <= m
        BY <1>1, <1>2, <4>1 DEF Range
      <4>2. CASE i > m
        BY <1>1, <1>2, <4>2 DEF Range
      <4>3. QED
        BY <4>1, <4>2
    <3>2. QED
      BY <1>7, <3>1 DEF Range
  <2>2. Range(s) \cup Range(t) \subseteq Range(u)
    <3>1. ASSUME NEW x \in Range(s) PROVE x \in Range(u)
      <4>1. PICK i \in 1..m : x = s[i]
        BY <1>1 DEF Range
      <4>2. QED
        BY <1>5, <1>7, <4>1 DEF Range
    <3>2. ASSUME NEW x \in Range(t) PROVE x \in Range(u)
      <4>1. PICK j \in 1..n : x = t[j]
        BY <1>1 DEF Range
      <4>2. QED
        BY <1>6, <1>7, <4>1 DEF Range
    <3>3. QED
      BY <3>1, <3>2
  <2>3. QED
    BY <2>1, <2>2
<1>10. QED
  BY <1>7, <1>8, <1>9 DEF u

\* Taking the head takes exactly that element away.
LEMMA TailOnce ==
  ASSUME NEW S, NEW s \in Seq(S), s # <<>>, IsInjective(s)
  PROVE  /\ Tail(s) \in Seq(S) /\ IsInjective(Tail(s))
         /\ Range(Tail(s)) = Range(s) \ {Head(s)} /\ Head(s) \in Range(s)
<1>1. /\ Tail(s) \in Seq(S)
      /\ \A i \in DOMAIN Tail(s) : i \in Nat /\ i + 1 \in DOMAIN s /\ Tail(s)[i] = s[i + 1]
      /\ \A j \in DOMAIN s : j # 1 => j - 1 \in DOMAIN Tail(s) /\ Tail(s)[j - 1] = s[j]
      /\ 1 \in DOMAIN s /\ Head(s) = s[1]
  BY TailElements
<1>2. \A i \in DOMAIN Tail(s) : i + 1 # 1
  BY <1>1
<1>3. ASSUME NEW i \in DOMAIN Tail(s), NEW j \in DOMAIN Tail(s), Tail(s)[i] = Tail(s)[j]
      PROVE  i = j
  <2>1. i + 1 = j + 1
    BY <1>1, <1>3 DEF IsInjective
  <2>2. QED
    BY <1>1, <2>1
<1>4. Range(Tail(s)) \subseteq Range(s) \ {Head(s)}
  BY <1>1, <1>2 DEF Range, IsInjective
<1>5. Range(s) \ {Head(s)} \subseteq Range(Tail(s))
  BY <1>1 DEF Range
<1>6. QED
  BY <1>1, <1>3, <1>4, <1>5 DEF IsInjective, Range

\* Giving up a place takes exactly that element away, and leaves the head to another.
LEMMA RemoveOnce ==
  ASSUME NEW S, NEW s \in Seq(S), NEW e, IsInjective(s)
  PROVE  /\ RemoveFirst(s, e) \in Seq(S) /\ IsInjective(RemoveFirst(s, e))
         /\ Range(RemoveFirst(s, e)) = Range(s) \ {e}
         /\ s # <<>> /\ Head(s) # e => RemoveFirst(s, e) # <<>> /\ Head(RemoveFirst(s, e)) = Head(s)
<1>1. Len(s) \in Nat /\ DOMAIN s = 1..Len(s) /\ (s # <<>> => 1 \in DOMAIN s /\ Head(s) = s[1])
  BY LenProperties, TailElements
<1>2. CASE e \notin Range(s)
  <2>1. RemoveFirst(s, e) = s
    BY <1>1, <1>2 DEF RemoveFirst, Range
  <2>2. QED
    BY <1>2, <2>1
<1>3. CASE e \in Range(s)
  <2>1. PICK k \in DOMAIN s : s[k] = e /\ RemoveFirst(s, e) = RemoveAt(s, k)
    BY <1>3, RemoveFirstElement DEF Range
  <2> DEFINE r == RemoveAt(s, k)
             from(i) == IF i < k THEN i ELSE i + 1
  <2>2. k \in Nat
    BY <1>1
  <2>3. /\ r \in Seq(S) /\ DOMAIN r = 1..(Len(s) - 1) /\ Len(r) = Len(s) - 1
        /\ \A i \in DOMAIN r : i \in Nat /\ from(i) \in DOMAIN s /\ from(i) # k /\ r[i] = s[from(i)]
    <3>1. /\ r \in Seq(S) /\ DOMAIN r = 1..(Len(s) - 1) /\ Len(r) = Len(s) - 1
          /\ \A i \in DOMAIN r :
              /\ i \in Nat
              /\ i < k => i \in DOMAIN s /\ r[i] = s[i]
              /\ ~(i < k) => i + 1 \in DOMAIN s /\ i + 1 # k /\ r[i] = s[i + 1]
      BY RemoveAtElements
    <3> HIDE DEF r
    <3>2. QED
      BY <2>2, <3>1
  <2> HIDE DEF r
  <2>4. IsInjective(r)
    <3>1. ASSUME NEW i \in DOMAIN r, NEW j \in DOMAIN r, r[i] = r[j]
          PROVE  i = j
      <4>1. from(i) = from(j)
        BY <2>3, <3>1 DEF IsInjective
      <4>2. QED
        BY <2>2, <2>3, <4>1
    <3>2. QED
      BY <3>1 DEF IsInjective
  <2>5. Range(r) \subseteq Range(s) \ {e}
    BY <2>1, <2>3 DEF Range, IsInjective
  <2>6. ASSUME NEW x \in Range(s) \ {e}
        PROVE  x \in Range(r)
    <3>1. PICK j \in DOMAIN s : s[j] = x
      BY <2>6 DEF Range
    <3>2. j # k
      BY <2>1, <2>6, <3>1
    <3>3. CASE j < k
      <4>1. j \in DOMAIN r /\ from(j) = j
        BY <1>1, <2>3, <3>3
      <4>2. QED
        BY <2>3, <3>1, <4>1 DEF Range
    <3>4. CASE ~(j < k)
      <4>1. j - 1 \in DOMAIN r /\ from(j - 1) = j
        BY <1>1, <2>3, <3>2, <3>4
      <4>2. QED
        BY <2>3, <3>1, <4>1 DEF Range
    <3>5. QED
      BY <3>3, <3>4
  <2>7. ASSUME s # <<>>, Head(s) # e
        PROVE  r # <<>> /\ Head(r) = Head(s)
    <3>1. k # 1 /\ 1 \in DOMAIN s /\ Head(s) = s[1]
      BY <1>1, <2>1, <2>7
    <3>2. 1 \in DOMAIN r /\ from(1) = 1
      BY <1>1, <2>3, <3>1
    <3>3. r # <<>> /\ r[1] = s[1]
      BY <2>3, <3>2
    <3>4. Head(r) = r[1]
      BY <2>3, <3>3, TailElements
    <3>5. QED
      BY <3>1, <3>3, <3>4
  <2>8. QED
    BY <2>1, <2>3, <2>4, <2>5, <2>6, <2>7 DEF r
<1>4. QED
  BY <1>2, <1>3

\* Taking the head of one sequence to the end of another leaves the two together as
\* they were.
LEMMA HeadMoves ==
  ASSUME NEW S, NEW s \in Seq(S), NEW t \in Seq(S), t # <<>>
  PROVE  Append(s, Head(t)) \o Tail(t) = s \o t
<1>1. Head(t) \in S /\ Tail(t) \in Seq(S) /\ <<Head(t)>> \in Seq(S)
  BY HeadTailProperties
<1>2. <<Head(t)>> \o Tail(t) = t
  <2>1. Len(Tail(t)) = Len(t) - 1 /\ Len(t) \in Nat \ {0}
    BY HeadTailProperties, EmptySeq
  <2>2. /\ <<Head(t)>> \o Tail(t) \in Seq(S) /\ Len(<<Head(t)>>) = 1
        /\ Len(<<Head(t)>> \o Tail(t)) = 1 + Len(Tail(t))
        /\ \A i \in 1..(1 + Len(Tail(t))) : (<<Head(t)>> \o Tail(t))[i] =
             IF i <= 1 THEN <<Head(t)>>[i] ELSE Tail(t)[i - 1]
    BY <1>1, ConcatProperties
  <2>3. \A i \in 1..Len(t) : (<<Head(t)>> \o Tail(t))[i] = t[i]
    <3>1. ASSUME NEW i \in 1..Len(t)
          PROVE  (<<Head(t)>> \o Tail(t))[i] = t[i]
      <4>1. CASE i = 1
        BY <2>1, <2>2, <4>1, TailElements
      <4>2. CASE i # 1
        <5>1. i \in DOMAIN t /\ i \in 1..(1 + Len(Tail(t))) /\ ~(i <= 1)
          BY <2>1, <4>2, LenProperties
        <5>2. Tail(t)[i - 1] = t[i]
          BY <4>2, <5>1, TailElements
        <5>3. QED
          BY <2>2, <5>1, <5>2
      <4>3. QED
        BY <4>1, <4>2
    <3>2. QED
      BY <3>1
  <2>4. QED
    BY <2>1, <2>2, <2>3, SeqEqual
<1>3. Append(s, Head(t)) = s \o <<Head(t)>>
  BY <1>1, AppendIsConcat
<1>4. (s \o <<Head(t)>>) \o Tail(t) = s \o (<<Head(t)>> \o Tail(t))
  BY <1>1, ConcatAssociative
<1>5. QED
  BY <1>2, <1>3, <1>4

-----------------------------------------------------------------------------
(* Who is ahead of whom in a queue.                                        *)

Ahead(s, a, b) == \E i, j \in DOMAIN s : i < j /\ s[i] = a /\ s[j] = b

\* Whoever joins comes after all that are there.
LEMMA AheadAppend ==
  ASSUME NEW S, NEW s \in Seq(S), NEW e \in S
  PROVE  /\ \A a, b : Ahead(s, a, b) => Ahead(Append(s, e), a, b)
         /\ \A a \in Range(s) : Ahead(Append(s, e), a, e)
<1>1. /\ DOMAIN Append(s, e) = DOMAIN s \cup {Len(s) + 1}
      /\ \A i \in DOMAIN s : Append(s, e)[i] = s[i]
      /\ Append(s, e)[Len(s) + 1] = e
  BY AppendElements
<1>2. \A i \in DOMAIN s : i < Len(s) + 1
  BY LenProperties
<1>3. \A a, b : Ahead(s, a, b) => Ahead(Append(s, e), a, b)
  BY <1>1 DEF Ahead
<1>4. \A a \in Range(s) : Ahead(Append(s, e), a, e)
  BY <1>1, <1>2 DEF Ahead, Range
<1>5. QED
  BY <1>3, <1>4

\* Nobody is ahead of the head, and when it leaves the others stay in order.
LEMMA AheadTail ==
  ASSUME NEW S, NEW s \in Seq(S), s # <<>>, IsInjective(s)
  PROVE  /\ \A a : ~Ahead(s, a, Head(s))
         /\ \A a, b : Ahead(s, a, b) /\ a # Head(s) => Ahead(Tail(s), a, b)
<1>1. /\ \A j \in DOMAIN s : j # 1 => j - 1 \in DOMAIN Tail(s) /\ Tail(s)[j - 1] = s[j]
      /\ 1 \in DOMAIN s /\ Head(s) = s[1]
  BY TailElements
<1>2. \A i \in DOMAIN s : i \in Nat /\ 1 <= i
  BY LenProperties
<1>3. \A a : ~Ahead(s, a, Head(s))
  <2>1. \A i, j \in DOMAIN s : i < j => j # 1
    BY <1>2
  <2>2. QED
    BY <1>1, <2>1 DEF Ahead, IsInjective
<1>4. ASSUME NEW a, NEW b, Ahead(s, a, b), a # Head(s)
      PROVE  Ahead(Tail(s), a, b)
  <2>1. PICK i, j \in DOMAIN s : i < j /\ s[i] = a /\ s[j] = b
    BY <1>4 DEF Ahead
  <2>2. i # 1 /\ j # 1 /\ i - 1 < j - 1
    BY <1>1, <1>2, <1>4, <2>1
  <2>3. QED
    BY <1>1, <2>1, <2>2 DEF Ahead
<1>5. QED
  BY <1>3, <1>4

\* Whoever gives up its place leaves the others in order.
LEMMA AheadRemove ==
  ASSUME NEW S, NEW s \in Seq(S), NEW e
  PROVE  \A a, b : Ahead(s, a, b) /\ a # e /\ b # e => Ahead(RemoveFirst(s, e), a, b)
<1>1. Len(s) \in Nat /\ DOMAIN s = 1..Len(s)
  BY LenProperties
<1>2. CASE e \notin Range(s)
  <2>1. RemoveFirst(s, e) = s
    BY <1>1, <1>2 DEF RemoveFirst, Range
  <2>2. QED
    BY <2>1
<1>3. CASE e \in Range(s)
  <2>1. PICK k \in DOMAIN s : s[k] = e /\ RemoveFirst(s, e) = RemoveAt(s, k)
    BY <1>3, RemoveFirstElement DEF Range
  <2> DEFINE r == RemoveAt(s, k)
             to(j) == IF j < k THEN j ELSE j - 1
  <2>2. k \in Nat
    BY <1>1
  <2>3. \A j \in DOMAIN s : j # k => to(j) \in DOMAIN r /\ r[to(j)] = s[j]
    <3>1. /\ DOMAIN r = 1..(Len(s) - 1)
          /\ \A i \in DOMAIN r :
               /\ i < k => r[i] = s[i]
               /\ ~(i < k) => r[i] = s[i + 1]
      BY RemoveAtElements
    <3> HIDE DEF r
    <3>2. ASSUME NEW j \in DOMAIN s, j # k
          PROVE  to(j) \in DOMAIN r /\ r[to(j)] = s[j]
      <4>1. CASE j < k
        <5>1. j \in 1..(Len(s) - 1) /\ to(j) = j
          BY <1>1, <4>1
        <5>2. QED
          BY <3>1, <4>1, <5>1
      <4>2. CASE ~(j < k)
        <5>1. j - 1 \in 1..(Len(s) - 1) /\ to(j) = j - 1 /\ j - 1 + 1 = j /\ ~(j - 1 < k)
          BY <1>1, <3>2, <4>2
        <5>2. QED
          BY <3>1, <5>1
      <4>3. QED
        BY <4>1, <4>2
    <3>3. QED
      BY <3>2
  <2> HIDE DEF r
  <2>4. \A i, j \in DOMAIN s : i < j /\ i # k /\ j # k => to(i) < to(j)
    BY <1>1, <2>2
  <2> HIDE DEF to
  <2>5. ASSUME NEW a, NEW b, Ahead(s, a, b), a # e, b # e
        PROVE  Ahead(r, a, b)
    <3>1. PICK i, j \in DOMAIN s : i < j /\ s[i] = a /\ s[j] = b
      BY <2>5 DEF Ahead
    <3>2. i # k /\ j # k
      BY <2>1, <2>5, <3>1
    <3>3. /\ to(i) \in DOMAIN r /\ to(j) \in DOMAIN r /\ to(i) < to(j)
          /\ r[to(i)] = a /\ r[to(j)] = b
      BY <2>3, <2>4, <3>1, <3>2
    <3>4. QED
      BY <3>3 DEF Ahead
  <2>6. QED
    BY <2>1, <2>5 DEF r
<1>4. QED
  BY <1>2, <1>3

-----------------------------------------------------------------------------
(* FlattenSeq, which is defined by recursion.                              *)

\* g strings the first n of the sequences s together, one at a time.
Strings(g, s, n) ==
  /\ DOMAIN g = 1..n
  /\ \A i \in 1..n : g[i] = IF i = 1 THEN s[i] ELSE g[i - 1] \o s[i]

\* Two sequences agree on their first n places.
Agree(s, t, n) == \A i \in 1..n : s[i] = t[i]

\* There is such a function, and it has sequences for values.
LEMMA StringsExists ==
  ASSUME NEW S, NEW s \in Seq(Seq(S)), NEW n \in 1..Len(s)
  PROVE  \E g : Strings(g, s, n) /\ g \in [1..n -> Seq(S)]
<1> DEFINE P(m) == \E g : Strings(g, s, m) /\ g \in [1..m -> Seq(S)]
           T == {m \in 1..Len(s) : ~P(m)}
<1>1. Len(s) \in Nat /\ \A i \in 1..Len(s) : s[i] \in Seq(S)
  BY LenProperties, ElementOfSeq
<1>2. SUFFICES ASSUME T # {} PROVE FALSE
  OBVIOUS
<1>3. \E m \in 1..Len(s) : ~P(m) /\ \A y \in 1..Len(s) : ~P(y) => m <= y
  <2>1. T \in SUBSET Nat
    BY <1>1
  <2>2. \E m \in T : \A y \in T : m <= y
    <3> HIDE DEF T
    <3>1. QED
      BY <1>2, <2>1, SmallestElement
  <2> HIDE DEF P
  <2>3. QED
    BY <2>2
<1>4. PICK m \in 1..Len(s) : ~P(m) /\ \A y \in 1..Len(s) : ~P(y) => m <= y
  BY <1>3
<1>5. CASE m = 1
  <2> DEFINE g == [i \in 1..1 |-> s[1]]
  <2>1. Strings(g, s, 1)
    BY DEF Strings
  <2>2. g \in [1..1 -> Seq(S)]
    BY <1>1, <1>4
  <2>3. QED
    BY <1>4, <1>5, <2>1, <2>2
<1>6. CASE m # 1
  <2>1. m - 1 \in 1..Len(s) /\ m \in Int
    BY <1>1, <1>4, <1>6
  <2>2. ~(m <= m - 1)
    BY <2>1
  <2>3. P(m - 1)
    <3> HIDE DEF P
    <3>1. QED
      BY <1>4, <2>1, <2>2
  <2>4. PICK g : Strings(g, s, m - 1) /\ g \in [1..(m - 1) -> Seq(S)]
    BY <2>3
  <2> DEFINE h == [i \in 1..m |-> IF i = m THEN g[m - 1] \o s[m] ELSE g[i]]
  <2>5. g[m - 1] \in Seq(S) /\ s[m] \in Seq(S)
    BY <1>1, <1>4, <2>1, <2>4
  <2>6. h \in [1..m -> Seq(S)]
    <3>1. g[m - 1] \o s[m] \in Seq(S)
      BY <2>5, ConcatProperties
    <3>2. \A i \in 1..m : i # m => g[i] \in Seq(S)
      BY <2>1, <2>4
    <3>3. QED
      BY <3>1, <3>2
  <2>7. Strings(h, s, m)
    <3>1. ASSUME NEW i \in 1..m
          PROVE  h[i] = IF i = 1 THEN s[i] ELSE h[i - 1] \o s[i]
      <4>1. CASE i = m
        <5>1. h[i] = g[m - 1] \o s[m]
          BY <4>1
        <5>2. h[m - 1] = g[m - 1]
          <6>1. m - 1 \in 1..m /\ m - 1 # m
            BY <2>1
          <6>2. QED
            BY <6>1
        <5> HIDE DEF h
        <5>3. QED
          BY <1>6, <4>1, <5>1, <5>2
      <4>2. CASE i # m
        <5>1. i \in 1..(m - 1) /\ h[i] = g[i] /\ (i # 1 => i - 1 \in 1..m /\ i - 1 # m /\ h[i - 1] = g[i - 1])
          BY <2>1, <4>2
        <5> HIDE DEF h
        <5>2. g[i] = IF i = 1 THEN s[i] ELSE g[i - 1] \o s[i]
          BY <2>4, <5>1 DEF Strings
        <5>3. QED
          BY <5>1, <5>2
      <4>3. QED
        BY <4>1, <4>2
    <3>2. DOMAIN h = 1..m
      OBVIOUS
    <3> HIDE DEF h
    <3>3. QED
      BY <3>1, <3>2 DEF Strings
  <2>8. QED
    BY <1>4, <2>6, <2>7
<1>7. QED
  BY <1>5, <1>6

\* There is no other.
LEMMA StringsUnique ==
  ASSUME NEW s, NEW t, NEW n \in Nat, NEW k \in Nat, n <= k, Agree(s, t, n),
         NEW g, NEW h, Strings(g, s, n), Strings(h, t, k)
  PROVE  Agree(g, h, n)
<1> DEFINE T == {m \in 1..n : g[m] # h[m]}
<1>1. T \in SUBSET Nat /\ \A m \in 1..n : m \in T <=> g[m] # h[m]
  OBVIOUS
<1> HIDE DEF T
<1>2. SUFFICES ASSUME T # {} PROVE FALSE
  BY <1>1 DEF Agree
<1>3. PICK m \in T : \A y \in T : m <= y
  BY <1>1, <1>2, SmallestElement
<1>4. m \in 1..n /\ g[m] # h[m] /\ m \in 1..k
  <2>1. T \subseteq 1..n
    BY DEF T
  <2>2. QED
    BY <1>1, <2>1
<1>5. /\ g[m] = IF m = 1 THEN s[m] ELSE g[m - 1] \o s[m]
      /\ h[m] = IF m = 1 THEN t[m] ELSE h[m - 1] \o t[m]
  BY <1>4 DEF Strings
<1>6. s[m] = t[m]
  BY <1>4 DEF Agree
<1>7. CASE m # 1
  <2>1. m - 1 \in 1..n /\ ~(m <= m - 1)
    BY <1>4, <1>7
  <2>2. m - 1 \notin T
    BY <1>3, <2>1
  <2>3. g[m - 1] = h[m - 1]
    BY <1>1, <2>1, <2>2
  <2>4. QED
    BY <1>4, <1>5, <1>6, <1>7, <2>3
<1>8. QED
  BY <1>4, <1>5, <1>6, <1>7

\* What FlattenSeq gives is the last value of such a function.
LEMMA FlattenIsStrings ==
  ASSUME NEW S, NEW s \in Seq(Seq(S)), s # <<>>
  PROVE  \E g : Strings(g, s, Len(s)) /\ FlattenSeq(s) = g[Len(s)] /\ g \in [1..Len(s) -> Seq(S)]
<1>1. Len(s) \in Nat /\ Len(s) # 0 /\ Len(s) \in 1..Len(s)
  BY LenProperties, EmptySeq
<1>2. PICK g : Strings(g, s, Len(s)) /\ g \in [1..Len(s) -> Seq(S)]
  BY <1>1, StringsExists
<1> DEFINE E(f) == f = [i \in 1..Len(s) |-> IF i = 1 THEN s[i] ELSE f[i - 1] \o s[i]]
           F == CHOOSE f : E(f)
<1>3. E(g)
  <2>1. g = [i \in 1..Len(s) |-> g[i]]
    BY <1>2
  <2>2. QED
    BY <1>2, <2>1 DEF Strings
<1>4. E(F)
  BY <1>3
<1>5. FlattenSeq(s) = F[Len(s)]
  BY <1>1 DEF FlattenSeq
<1>6. DOMAIN F = 1..Len(s) /\ \A i \in 1..Len(s) : F[i] = IF i = 1 THEN s[i] ELSE F[i - 1] \o s[i]
  <2> HIDE DEF F
  <2>1. QED
    BY <1>4
<1> HIDE DEF F
<1>7. Strings(F, s, Len(s))
  BY <1>6 DEF Strings
<1>8. F[Len(s)] = g[Len(s)]
  <2>1. Agree(s, s, Len(s))
    BY DEF Agree
  <2>2. Agree(F, g, Len(s))
    BY <1>1, <1>2, <1>7, <2>1, StringsUnique
  <2>3. QED
    BY <1>1, <2>2 DEF Agree
<1>9. QED
  BY <1>2, <1>5, <1>8

\* FlattenSeq takes the sequences in their order: one more comes last.
LEMMA FlattenAppend ==
  ASSUME NEW S, NEW s \in Seq(Seq(S)), NEW t \in Seq(Seq(S)), NEW x \in Seq(S), t = Append(s, x)
  PROVE  FlattenSeq(t) = FlattenSeq(s) \o x
<1>1. /\ Len(s) \in Nat /\ Len(t) = Len(s) + 1 /\ t[Len(s) + 1] = x
      /\ \A i \in 1..Len(s) : t[i] = s[i]
  BY LenProperties, AppendProperties
<1>2. t # <<>> /\ Len(t) \in 1..Len(t)
  BY <1>1, EmptySeq
<1>3. PICK h : Strings(h, t, Len(t)) /\ FlattenSeq(t) = h[Len(t)]
  BY <1>2, FlattenIsStrings
<1>4. h[Len(t)] = IF Len(t) = 1 THEN t[Len(t)] ELSE h[Len(t) - 1] \o t[Len(t)]
  BY <1>2, <1>3 DEF Strings
<1>5. CASE s = <<>>
  <2>1. Len(s) = 0
    BY <1>5, EmptySeq
  <2>2. FlattenSeq(s) = <<>>
    BY <1>5, <2>1 DEF FlattenSeq
  <2>3. <<>> \o x = x
    BY ConcatEmptySeq
  <2>4. QED
    BY <1>1, <1>3, <1>4, <2>1, <2>2, <2>3
<1>6. CASE s # <<>>
  <2>1. PICK g : Strings(g, s, Len(s)) /\ FlattenSeq(s) = g[Len(s)]
    BY <1>6, FlattenIsStrings
  <2>2. Len(s) \in 1..Len(s)
    BY <1>1, <1>6, EmptySeq
  <2>3. g[Len(s)] = h[Len(s)]
    <3>1. Len(s) \in Nat /\ Len(t) \in Nat /\ Len(s) <= Len(t)
      BY <1>1
    <3>2. Agree(s, t, Len(s))
      BY <1>1 DEF Agree
    <3>3. Agree(g, h, Len(s))
      BY <1>3, <2>1, <3>1, <3>2, StringsUnique
    <3>4. QED
      BY <2>2, <3>3 DEF Agree
  <2>4. Len(t) # 1 /\ Len(t) - 1 = Len(s)
    BY <1>1, <2>2
  <2>5. QED
    BY <1>1, <1>3, <1>4, <2>1, <2>3, <2>4
<1>7. QED
  BY <1>5, <1>6

LEMMA FlattenType ==
  ASSUME NEW S, NEW s \in Seq(Seq(S))
  PROVE  FlattenSeq(s) \in Seq(S)
<1>1. CASE s = <<>>
  BY <1>1, EmptySeq DEF FlattenSeq
<1>2. CASE s # <<>>
  <2>1. Len(s) \in 1..Len(s)
    BY <1>2, EmptySeq, LenProperties
  <2>2. PICK g : FlattenSeq(s) = g[Len(s)] /\ g \in [1..Len(s) -> Seq(S)]
    BY <1>2, FlattenIsStrings
  <2>3. QED
    BY <2>1, <2>2
<1>3. QED
  BY <1>1, <1>2

-----------------------------------------------------------------------------
(* Recursion over the numbers up to n.                                     *)

\* f starts at base and goes on by the i-th step at i.
Recurs(f, base, step, D, n) ==
  /\ f \in [0..n -> D] /\ f[0] = base
  /\ \A i \in 1..n : f[i] = step[i][f[i - 1]]

\* Such a function exists, whatever the steps are.
LEMMA RecursionExists ==
  ASSUME NEW n \in Nat, NEW D, NEW base \in D, NEW step \in [1..n -> [D -> D]]
  PROVE  \E f : Recurs(f, base, step, D, n)
<1> DEFINE P(m) == \E f : Recurs(f, base, step, D, m)
           T == {m \in 0..n : ~P(m)}
<1>1. SUFFICES ASSUME T # {} PROVE FALSE
  <2>1. n \in 0..n
    OBVIOUS
  <2>2. ASSUME T = {} PROVE P(n)
    <3> HIDE DEF P
    <3>1. QED
      BY <2>1, <2>2
  <2>3. QED
    BY <2>2
<1>2. \E m \in 0..n : ~P(m) /\ \A y \in 0..n : ~P(y) => m <= y
  <2>1. T \in SUBSET Nat
    OBVIOUS
  <2>2. \E m \in T : \A y \in T : m <= y
    <3> HIDE DEF T
    <3>1. QED
      BY <1>1, <2>1, SmallestElement
  <2> HIDE DEF P
  <2>3. QED
    BY <2>2
<1>3. PICK m \in 0..n : ~P(m) /\ \A y \in 0..n : ~P(y) => m <= y
  BY <1>2
<1>4. CASE m = 0
  <2> DEFINE f == [i \in 0..0 |-> base]
  <2>1. Recurs(f, base, step, D, 0)
    BY DEF Recurs
  <2>2. QED
    BY <1>3, <1>4, <2>1
<1>5. CASE m # 0
  <2>1. m - 1 \in 0..n /\ ~(m <= m - 1) /\ m \in 1..n
    BY <1>5
  <2>2. P(m - 1)
    <3> HIDE DEF P
    <3>1. QED
      BY <1>3, <2>1
  <2>3. PICK g : Recurs(g, base, step, D, m - 1)
    BY <2>2
  <2>4. g[m - 1] \in D /\ step[m] \in [D -> D]
    <3>1. m - 1 \in 0..(m - 1)
      BY <2>1
    <3>2. QED
      BY <2>1, <2>3, <3>1 DEF Recurs
  <2>5. PICK next \in D : next = step[m][g[m - 1]]
    BY <2>4
  <2> DEFINE h == [i \in 0..m |-> IF i = m THEN next ELSE g[i]]
  <2>6. ASSUME NEW i \in 0..m, i # m PROVE i \in 0..(m - 1) /\ h[i] = g[i]
    BY <2>1, <2>6
  <2>7. h \in [0..m -> D]
    <3>1. \A i \in 0..m : i # m => g[i] \in D
      BY <2>3, <2>6 DEF Recurs
    <3>2. QED
      BY <3>1
  <2>8. h[m] = next
    BY <2>1
  <2> HIDE DEF h
  <2>9. h[0] = base
    BY <1>5, <2>3, <2>6 DEF Recurs
  <2>10. ASSUME NEW i \in 1..m PROVE h[i] = step[i][h[i - 1]]
    <3>1. i - 1 \in 0..m /\ i - 1 # m /\ i \in 0..m
      BY <2>1
    <3>2. h[i - 1] = g[i - 1]
      BY <2>6, <3>1
    <3>3. CASE i = m
      BY <2>5, <2>8, <3>2, <3>3
    <3>4. CASE i # m
      <4>1. h[i] = g[i] /\ i \in 1..(m - 1)
        BY <2>6, <3>1, <3>4
      <4>2. g[i] = step[i][g[i - 1]]
        BY <2>3, <4>1 DEF Recurs
      <4>3. QED
        BY <3>2, <4>1, <4>2
    <3>5. QED
      BY <3>3, <3>4
  <2>11. Recurs(h, base, step, D, m)
    BY <2>7, <2>9, <2>10 DEF Recurs
  <2>12. QED
    BY <1>3, <2>11
<1>6. QED
  BY <1>4, <1>5

\* Induction with a set in the place of the formula.
LEMMA NaturalInduction ==
  ASSUME NEW n \in Nat, NEW Holds \in SUBSET (0..n), 0 \in Holds,
         \A i \in 1..n : i - 1 \in Holds => i \in Holds
  PROVE  \A i \in 0..n : i \in Holds
<1> DEFINE T == {i \in 0..n : i \notin Holds}
<1>1. SUFFICES ASSUME T # {} PROVE FALSE
  OBVIOUS
<1>2. T \in SUBSET Nat
  OBVIOUS
<1>3. \E m \in T : \A y \in T : m <= y
  <2> HIDE DEF T
  <2>1. QED
    BY <1>1, <1>2, SmallestElement
<1>4. PICK m \in T : \A y \in T : m <= y
  BY <1>3
<1>5. m \in 1..n /\ m - 1 \in 0..n /\ ~(m <= m - 1)
  OBVIOUS
<1>6. m - 1 \in Holds
  BY <1>4, <1>5
<1>7. QED
  BY <1>5, <1>6

\* The first k elements.
FirstOf(s, k) == [i \in 1..k |-> s[i]]

LEMMA FlattenFirst ==
  ASSUME NEW S, NEW s \in Seq(Seq(S))
  PROVE  /\ FlattenSeq(FirstOf(s, 0)) = <<>> /\ FirstOf(s, Len(s)) = s
         /\ \A k \in 0..Len(s) : FlattenSeq(FirstOf(s, k)) \in Seq(S)
         /\ \A k \in 1..Len(s) : FlattenSeq(FirstOf(s, k)) = FlattenSeq(FirstOf(s, k - 1)) \o s[k]
<1>1. PICK n \in Nat : n = Len(s) /\ DOMAIN s = 1..n /\ \A i \in 1..n : s[i] \in Seq(S)
  BY LenProperties, ElementOfSeq
<1>2. FirstOf(s, 0) = <<>>
  <2>1. \A i \in 1..0 : FALSE
    OBVIOUS
  <2>2. Len(FirstOf(s, 0)) = 0 /\ FirstOf(s, 0) \in Seq(S)
    BY <2>1 DEF FirstOf
  <2>3. QED
    BY <2>2, EmptySeq
<1>3. FlattenSeq(FirstOf(s, 0)) = <<>>
  BY <1>2, EmptySeq DEF FlattenSeq
<1>4. FirstOf(s, n) = s
  BY <1>1 DEF FirstOf
<1>5. ASSUME NEW k \in 0..n PROVE FirstOf(s, k) \in Seq(Seq(S)) /\ Len(FirstOf(s, k)) = k
  BY <1>1 DEF FirstOf
<1>6. \A k \in 0..n : FlattenSeq(FirstOf(s, k)) \in Seq(S)
  BY <1>5, FlattenType
<1>7. ASSUME NEW k \in 1..n
      PROVE  FlattenSeq(FirstOf(s, k)) = FlattenSeq(FirstOf(s, k - 1)) \o s[k]
  <2>1. PICK a \in Seq(Seq(S)), b \in Seq(Seq(S)), x \in Seq(S) :
          a = FirstOf(s, k - 1) /\ b = FirstOf(s, k) /\ x = s[k] /\ Len(a) = k - 1 /\ Len(b) = k
    BY SMTT(30), <1>1, <1>5
  <2>2. b = Append(a, x)
    <3>1. /\ Append(a, x) \in Seq(Seq(S)) /\ Len(Append(a, x)) = k
          /\ \A i \in 1..(k - 1) : Append(a, x)[i] = a[i]
          /\ Append(a, x)[k] = x
      BY <2>1, AppendProperties
    <3>2. ASSUME NEW i \in 1..k PROVE b[i] = Append(a, x)[i]
      <4>1. b[i] = s[i] /\ (i # k => i \in 1..(k - 1) /\ a[i] = s[i])
        BY <2>1 DEF FirstOf
      <4>2. QED
        BY <2>1, <3>1, <4>1
    <3>3. QED
      BY SMTT(30), <2>1, <3>1, <3>2, SeqEqual
  <2>3. FlattenSeq(b) = FlattenSeq(a) \o x
    BY <2>2, FlattenAppend
  <2>4. QED
    BY <2>1, <2>3
<1>8. QED
  BY <1>1, <1>3, <1>4, <1>6, <1>7

\* Each sequence stands behind those before it.
LEMMA FlattenPlaces ==
  ASSUME NEW S, NEW s \in Seq(Seq(S)), NEW k \in 1..Len(s)
  PROVE  /\ Len(FlattenSeq(FirstOf(s, k))) = Len(FlattenSeq(FirstOf(s, k - 1))) + Len(s[k])
         /\ Len(FlattenSeq(FirstOf(s, k))) <= Len(FlattenSeq(s))
         /\ \A j \in 1..Len(s[k]) : FlattenSeq(s)[Len(FlattenSeq(FirstOf(s, k - 1))) + j] = s[k][j]
<1> DEFINE F(m) == FlattenSeq(FirstOf(s, m))
<1>1. PICK n \in Nat : n = Len(s) /\ k \in 1..n
  BY LenProperties
<1>2. \A m \in 0..n : F(m) \in Seq(S)
  BY <1>1, FlattenFirst
<1>3. \A m \in 1..n : F(m) = F(m - 1) \o s[m] /\ s[m] \in Seq(S)
  BY <1>1, FlattenFirst, ElementOfSeq
<1>4. F(n) = FlattenSeq(s)
  BY <1>1, FlattenFirst
<1> HIDE DEF F
<1>5. PICK p \in Nat, l \in Nat : p = Len(F(k - 1)) /\ l = Len(s[k])
  <2>1. F(k - 1) \in Seq(S) /\ s[k] \in Seq(S)
    BY <1>1, <1>2, <1>3
  <2>2. Len(F(k - 1)) \in Nat /\ Len(s[k]) \in Nat
    BY <2>1, LenProperties
  <2>3. QED
    BY <2>2
<1> DEFINE P(m) == Len(F(m)) >= p + l /\ \A j \in 1..l : F(m)[p + j] = s[k][j]
           Holds == {m \in 0..n : m < k \/ P(m)}
<1>6. ASSUME NEW m \in 1..n
      PROVE  /\ Len(F(m)) \in Nat /\ Len(F(m)) = Len(F(m - 1)) + Len(s[m]) /\ Len(s[m]) \in Nat
             /\ Len(F(m - 1)) \in Nat
             /\ \A i \in 1..Len(F(m)) :
                  F(m)[i] = IF i <= Len(F(m - 1)) THEN F(m - 1)[i] ELSE s[m][i - Len(F(m - 1))]
  <2>1. m - 1 \in 0..n
    OBVIOUS
  <2>2. PICK a \in Seq(S), b \in Seq(S) : a = F(m - 1) /\ b = s[m]
    BY <1>2, <1>3, <2>1
  <2>3. PICK c : c = F(m)
    OBVIOUS
  <2>4. c = a \o b
    BY <1>3, <2>2, <2>3
  <2>5. /\ c \in Seq(S) /\ Len(c) = Len(a) + Len(b)
        /\ \A i \in 1..(Len(a) + Len(b)) : c[i] = IF i <= Len(a) THEN a[i] ELSE b[i - Len(a)]
    BY <2>4, ConcatProperties
  <2>6. Len(a) \in Nat /\ Len(b) \in Nat /\ Len(c) \in Nat
    BY <2>5, LenProperties
  <2>7. QED
    BY <2>2, <2>3, <2>5, <2>6
<1>7. P(k)
  <2>1. /\ Len(F(k)) = p + l
        /\ \A i \in 1..Len(F(k)) : F(k)[i] = IF i <= p THEN F(k - 1)[i] ELSE s[k][i - p]
    BY Zenon, <1>1, <1>5, <1>6
  <2>2. Len(F(k)) = p + l
    BY <2>1
  <2>3. \A j \in 1..l : p + j \in 1..Len(F(k)) /\ ~(p + j <= p) /\ p + j - p = j
    BY <2>2
  <2>4. ASSUME NEW j \in 1..l PROVE F(k)[p + j] = s[k][j]
    <3>1. F(k)[p + j] = IF p + j <= p THEN F(k - 1)[p + j] ELSE s[k][p + j - p]
      BY <2>1, <2>3
    <3>2. QED
      BY <2>3, <3>1
  <2>5. QED
    BY <2>2, <2>4
<1>8. 0 \in Holds
  BY <1>1
<1>9. ASSUME NEW m \in 1..n, m - 1 \in Holds PROVE m \in Holds
  <2>1. CASE m < k
    BY <2>1
  <2>2. CASE m = k
    BY <1>7, <2>2
  <2>3. CASE m > k
    <3>1. P(m - 1)
      <4> HIDE DEF P
      <4>1. m - 1 < k \/ P(m - 1)
        BY Zenon, <1>9
      <4>2. ~(m - 1 < k)
        BY <1>1, <2>3
      <4>3. QED
        BY Zenon, <4>1, <4>2
    <3>2. PICK new, old, last, now, before, more :
            /\ new = F(m) /\ old = F(m - 1) /\ last = s[m]
            /\ now = Len(new) /\ before = Len(old) /\ more = Len(last)
      OBVIOUS
    <3>3. /\ now \in Nat /\ before \in Nat /\ more \in Nat /\ now = before + more
          /\ \A i \in 1..now : new[i] = IF i <= before THEN old[i] ELSE last[i - before]
      BY Zenon, <1>6, <3>2
    <3>4. before >= p + l /\ \A j \in 1..l : old[p + j] = s[k][j]
      BY <3>1, <3>2
    <3>5. now >= p + l /\ \A j \in 1..l : p + j \in 1..now /\ p + j <= before
      BY <3>3, <3>4
    <3>6. \A j \in 1..l : new[p + j] = s[k][j]
      BY <3>3, <3>4, <3>5
    <3>7. P(m)
      BY <3>2, <3>5, <3>6
    <3> HIDE DEF P
    <3>8. QED
      BY <3>7
  <2>4. QED
    BY <1>1, <2>1, <2>2, <2>3
<1>10. n \in Holds
  <2>1. Holds \in SUBSET (0..n) /\ n \in 0..n
    OBVIOUS
  <2> HIDE DEF Holds
  <2>2. QED
    BY <1>8, <1>9, <2>1, NaturalInduction
<1>11. P(n)
  BY <1>1, <1>10
<1>12. Len(F(k)) = p + l
  BY <1>1, <1>5, <1>6
<1>13. QED
  BY <1>1, <1>4, <1>5, <1>11, <1>12 DEF F

=============================================================================
