---------------------------- MODULE Library_proofs ----------------------------
(***************************************************************************)
(* Theorems about the components of Library: the decoder, the trace, the   *)
(* path mapper, the stdio server, the cache of variable handles,           *)
(* assemble_context and the cache of breakpoints.  Each is first taken by  *)
(* itself; what its proof needs of the constants is then a hypothesis,     *)
(* which an assumption of Library discharges in the theorem.               *)
(***************************************************************************)
EXTENDS Library, SequenceFacts, FiniteSetTheorems, TLAPS

-----------------------------------------------------------------------------
(* The decoder.                                                            *)

CodecSpec == Codec!Init /\ [][Codec!Next]_(Codec!codecVars)

Bodies == {Codec!Byte(TRUE), Codec!Byte(FALSE)}
Symbols == HeaderLines \cup {Codec!Eol} \cup Bodies

\* What decode needs of a frame.
CodecConstants ==
  /\ HeaderLimit \in Nat /\ MaxFrameSize \in Nat
  /\ \A f \in Frames :
       /\ f.header \in Seq(HeaderLines) \ {<<>>} /\ f.body \in Seq(Bodies)
       /\ Codec!LengthLines(f.header) # {} => Codec!DeclaredLength(f.header) = Len(f.body)

LEMMA SameFlattenOfCodec == \A s : Codec!FlattenSeq(s) = FlattenSeq(s)
BY Zenon DEF Codec!FlattenSeq, FlattenSeq

\* A header line is no end of line.
LEMMA HeaderLineIsNoEol ==
  ASSUME NEW x \in HeaderLines
  PROVE  x # Codec!Eol /\ x \in Symbols
<1>1. x # Codec!Eol
  BY DEF HeaderLines, Codec!Eol, Codec!Other
<1>2. QED
  BY <1>1 DEF Symbols

\* The least of a set of numbers.
LEMMA CodecMin ==
  ASSUME NEW T \in SUBSET Nat, NEW m \in T, \A y \in T : m <= y
  PROVE  Codec!Min(T) = m
<1>1. \A x \in T : (\A y \in T : x <= y) => x = m
  OBVIOUS
<1>2. QED
  BY <1>1 DEF Codec!Min

\* Each line of a header takes two places.
LEMMA LinesElements ==
  ASSUME NEW header \in Seq(HeaderLines)
  PROVE  /\ Codec!Lines(header) \in Seq(Symbols) /\ Len(Codec!Lines(header)) = 2 * Len(header)
         /\ \A i \in 1..Len(header) : /\ Codec!Lines(header)[2 * i - 1] = header[i]
                                      /\ Codec!Lines(header)[2 * i] = Codec!Eol
<1>1. PICK h \in Nat : h = Len(header) /\ DOMAIN header = 1..h /\ \A i \in 1..h : header[i] \in HeaderLines
  BY LenProperties, ElementOfSeq
<1>2. PICK s : s = [i \in 1..h |-> <<header[i], Codec!Eol>>]
  OBVIOUS
<1>3. \A i \in 1..h : <<header[i], Codec!Eol>> \in Seq(Symbols)
  <2>1. \A i \in 1..h : header[i] \in Symbols
    BY <1>1, HeaderLineIsNoEol
  <2>2. Codec!Eol \in Symbols
    BY DEF Symbols
  <2>3. QED
    BY <2>1, <2>2
<1>4. /\ s \in Seq(Seq(Symbols)) /\ Len(s) = h
      /\ \A i \in 1..h : /\ s[i] = <<header[i], Codec!Eol>> /\ s[i] \in Seq(Symbols)
  BY <1>2, <1>3
<1>5. \A i \in 1..h : Len(s[i]) = 2 /\ s[i][1] = header[i] /\ s[i][2] = Codec!Eol
  <2>1. \A x, y : Len(<<x, y>>) = 2 /\ <<x, y>>[1] = x /\ <<x, y>>[2] = y
    OBVIOUS
  <2>2. ASSUME NEW i \in 1..h PROVE Len(s[i]) = 2 /\ s[i][1] = header[i] /\ s[i][2] = Codec!Eol
    <3>1. s[i] = <<header[i], Codec!Eol>>
      BY <1>4
    <3>2. PICK x, y : x = header[i] /\ y = Codec!Eol
      OBVIOUS
    <3>3. s[i] = <<x, y>>
      BY <3>1, <3>2
    <3>4. QED
      BY <2>1, <3>2, <3>3
  <2>3. QED
    BY <2>2
<1> DEFINE F(m) == FlattenSeq(FirstOf(s, m))
<1>6. Codec!Lines(header) = FlattenSeq(s) /\ FlattenSeq(s) \in Seq(Symbols)
  BY <1>1, <1>2, <1>4, FlattenType, SameFlattenOfCodec DEF Codec!Lines
<1>7. /\ F(0) = <<>> /\ F(h) = FlattenSeq(s)
      /\ \A k \in 1..h : /\ Len(F(k)) = Len(F(k - 1)) + Len(s[k])
                         /\ \A j \in 1..Len(s[k]) : FlattenSeq(s)[Len(F(k - 1)) + j] = s[k][j]
  <2>1. FlattenSeq(FirstOf(s, 0)) = <<>> /\ FirstOf(s, Len(s)) = s
    BY <1>4, FlattenFirst
  <2>2. \A k \in 1..Len(s) :
          /\ Len(FlattenSeq(FirstOf(s, k))) = Len(FlattenSeq(FirstOf(s, k - 1))) + Len(s[k])
          /\ \A j \in 1..Len(s[k]) : FlattenSeq(s)[Len(FlattenSeq(FirstOf(s, k - 1))) + j] = s[k][j]
    BY <1>4, FlattenPlaces
  <2>3. QED
    BY Zenon, <1>4, <2>1, <2>2
<1> HIDE DEF F
<1> DEFINE Holds == {k \in 0..h : Len(F(k)) = 2 * k}
<1>8. \A k \in 0..h : k \in Holds
  <2>1. 0 \in Holds
    BY <1>7, EmptySeq
  <2>2. ASSUME NEW k \in 1..h, k - 1 \in Holds PROVE k \in Holds
    <3>1. Len(F(k)) = Len(F(k - 1)) + 2
      BY Zenon, <1>5, <1>7
    <3>2. Len(F(k - 1)) = 2 * (k - 1)
      BY <2>2
    <3>3. QED
      BY <3>1, <3>2
  <2>3. Holds \in SUBSET (0..h)
    OBVIOUS
  <2> HIDE DEF Holds
  <2>4. QED
    BY <2>1, <2>2, <2>3, NaturalInduction
<1>9. ASSUME NEW i \in 1..h
      PROVE  FlattenSeq(s)[2 * i - 1] = header[i] /\ FlattenSeq(s)[2 * i] = Codec!Eol
  <2>1. Len(F(i - 1)) = 2 * (i - 1)
    BY <1>8
  <2>2. \A j \in 1..2 : FlattenSeq(s)[2 * (i - 1) + j] = s[i][j]
    <3>1. /\ Len(s[i]) = 2
          /\ \A j \in 1..Len(s[i]) : FlattenSeq(s)[Len(F(i - 1)) + j] = s[i][j]
      BY <1>5, <1>7
    <3>2. QED
      BY Zenon, <2>1, <3>1
  <2>3. 2 * (i - 1) + 1 = 2 * i - 1 /\ 2 * (i - 1) + 2 = 2 * i /\ 1 \in 1..2 /\ 2 \in 1..2
    OBVIOUS
  <2>4. QED
    BY <1>5, <2>2, <2>3
<1>10. Len(FlattenSeq(s)) = 2 * h
  BY <1>7, <1>8
<1>11. QED
  BY <1>1, <1>6, <1>9, <1>10

\* A frame on the wire.
LEMMA WireElements ==
  ASSUME CodecConstants, NEW f \in Frames
  PROVE  \E w \in Seq(Symbols), h \in Nat \ {0}, b \in Nat :
           /\ w = Codec!Wire(f) /\ h = Len(f.header) /\ b = Len(f.body)
           /\ Len(w) = 2 * h + 1 + b /\ Len(Codec!Lines(f.header)) = 2 * h
           /\ \A i \in 1..h : w[2 * i - 1] = f.header[i] /\ w[2 * i] = Codec!Eol
           /\ w[2 * h + 1] = Codec!Eol
           /\ \A j \in 1..b : w[2 * h + 1 + j] = f.body[j]
<1>1. f.header \in Seq(HeaderLines) /\ f.header # <<>> /\ f.body \in Seq(Bodies)
  BY DEF CodecConstants
<1>2. PICK h \in Nat \ {0}, b \in Nat : h = Len(f.header) /\ b = Len(f.body)
  <2>1. Len(f.header) \in Nat \ {0} /\ Len(f.body) \in Nat
    BY <1>1, LenProperties, EmptySeq
  <2>2. QED
    BY <2>1
<1>3. PICK lines \in Seq(Symbols) :
        /\ lines = Codec!Lines(f.header) /\ Len(lines) = 2 * h
        /\ \A i \in 1..h : lines[2 * i - 1] = f.header[i] /\ lines[2 * i] = Codec!Eol
  BY <1>1, <1>2, LinesElements
<1>4. PICK body \in Seq(Symbols) : body = f.body /\ Len(body) = b
  <2>1. f.body \in Seq(Symbols)
    BY <1>1 DEF Symbols
  <2>2. QED
    BY <1>2, <2>1
<1>5. PICK blank \in Seq(Symbols) : blank = <<Codec!Eol>> /\ Len(blank) = 1 /\ blank[1] = Codec!Eol
  <2>1. Codec!Eol \in Symbols
    BY DEF Symbols
  <2>2. <<Codec!Eol>> \in Seq(Symbols) /\ Len(<<Codec!Eol>>) = 1 /\ <<Codec!Eol>>[1] = Codec!Eol
    BY <2>1
  <2>3. QED
    BY <2>2
<1>6. PICK head \in Seq(Symbols) : head = lines \o blank
  BY ConcatProperties
<1>7. /\ Len(head) = 2 * h + 1
      /\ \A i \in 1..(2 * h + 1) : head[i] = IF i <= 2 * h THEN lines[i] ELSE blank[i - 2 * h]
  <2>1. /\ Len(lines \o blank) = Len(lines) + Len(blank)
        /\ \A i \in 1..(Len(lines) + Len(blank)) :
             (lines \o blank)[i] = IF i <= Len(lines) THEN lines[i] ELSE blank[i - Len(lines)]
    BY ConcatProperties
  <2>2. QED
    BY Zenon, <1>3, <1>5, <1>6, <2>1
<1>8. PICK w \in Seq(Symbols) : w = head \o body
  BY ConcatProperties
<1>9. /\ Len(w) = 2 * h + 1 + b
      /\ \A i \in 1..(2 * h + 1 + b) :
           w[i] = IF i <= 2 * h + 1 THEN head[i] ELSE body[i - (2 * h + 1)]
  <2>1. /\ Len(head \o body) = Len(head) + Len(body)
        /\ \A i \in 1..(Len(head) + Len(body)) :
             (head \o body)[i] = IF i <= Len(head) THEN head[i] ELSE body[i - Len(head)]
    BY ConcatProperties
  <2>2. QED
    BY Zenon, <1>4, <1>7, <1>8, <2>1
<1>10. w = Codec!Wire(f)
  BY <1>3, <1>4, <1>5, <1>6, <1>8, ConcatAssociative DEF Codec!Wire
<1>11. ASSUME NEW i \in 1..h PROVE w[2 * i - 1] = f.header[i] /\ w[2 * i] = Codec!Eol
  <2>1. w[2 * i - 1] = lines[2 * i - 1] /\ w[2 * i] = lines[2 * i]
    <3>1. \A k \in 1..(2 * h) : k \in 1..(2 * h + 1) /\ k \in 1..(2 * h + 1 + b) /\ k <= 2 * h + 1 /\ k <= 2 * h
      OBVIOUS
    <3>2. \A k \in 1..(2 * h) : w[k] = lines[k]
      BY Zenon, <1>7, <1>9, <3>1
    <3>3. 2 * i - 1 \in 1..(2 * h) /\ 2 * i \in 1..(2 * h)
      OBVIOUS
    <3>4. QED
      BY <3>2, <3>3
  <2>2. QED
    BY <1>3, <2>1
<1>12. w[2 * h + 1] = Codec!Eol
  <2>1. PICK k \in Nat : k = 2 * h + 1
    OBVIOUS
  <2>2. k \in 1..(k + b) /\ k \in 1..k /\ ~(k <= 2 * h) /\ k - 2 * h = 1 /\ k <= k
    BY <2>1
  <2>3. w[k] = head[k] /\ head[k] = blank[1]
    BY Zenon, <1>7, <1>9, <2>1, <2>2
  <2>4. QED
    BY <1>5, <2>1, <2>3
<1>13. \A j \in 1..b : w[2 * h + 1 + j] = f.body[j]
  <2>1. ASSUME NEW j \in 1..b PROVE w[2 * h + 1 + j] = f.body[j]
    <3>1. /\ 2 * h + 1 + j \in 1..(2 * h + 1 + b) /\ ~(2 * h + 1 + j <= 2 * h + 1)
          /\ 2 * h + 1 + j - (2 * h + 1) = j
      OBVIOUS
    <3>2. QED
      BY <1>4, <1>9, <3>1
  <2>2. QED
    BY <2>1
<1>14. QED
  BY <1>2, <1>3, <1>9, <1>10, <1>11, <1>12, <1>13

\* What decode makes of a buffer that begins as a frame does: the message when it is all
\* there, an error only when the frame cannot be accepted, and otherwise it waits.
LEMMA DecodeReads ==
  ASSUME CodecConstants, NEW f \in Frames, NEW buf \in Seq(Symbols),
         \A i \in 1..Len(buf) : i <= Len(Codec!Wire(f)) => buf[i] = Codec!Wire(f)[i]
  PROVE  \/ /\ Codec!decode(buf).result = "message" /\ Len(Codec!Wire(f)) <= Len(buf)
            /\ Codec!decode(buf).used = Len(Codec!Wire(f)) /\ Codec!decode(buf).body = f.body
         \/ /\ Codec!decode(buf).result = "none" /\ Codec!decode(buf).used = 0
            /\ Len(buf) < Len(Codec!Wire(f))
         \/ /\ Codec!decode(buf).result = "error" /\ Codec!decode(buf).used = 0
            /\ ~Codec!WellFormed(f) \/ Codec!TooLong(f)
<1>1. PICK w \in Seq(Symbols), h \in Nat \ {0}, b \in Nat :
        /\ w = Codec!Wire(f) /\ h = Len(f.header) /\ b = Len(f.body)
        /\ Len(w) = 2 * h + 1 + b /\ Len(Codec!Lines(f.header)) = 2 * h
        /\ \A i \in 1..h : w[2 * i - 1] = f.header[i] /\ w[2 * i] = Codec!Eol
        /\ w[2 * h + 1] = Codec!Eol
        /\ \A j \in 1..b : w[2 * h + 1 + j] = f.body[j]
  BY WireElements
<1>2. PICK n \in Nat : /\ n = Len(buf) /\ DOMAIN buf = 1..n
                       /\ \A i \in 1..n : i <= 2 * h + 1 + b => buf[i] = w[i]
  BY <1>1, LenProperties
<1>3. /\ HeaderLimit \in Nat /\ MaxFrameSize \in Nat
      /\ f.header \in Seq(HeaderLines) /\ DOMAIN f.header = 1..h /\ f.body \in Seq(Bodies)
      /\ Codec!LengthLines(f.header) # {} => Codec!DeclaredLength(f.header) = b
      /\ \A i \in 1..h : f.header[i] \in HeaderLines /\ f.header[i] # Codec!Eol
  <2>1. f.header \in Seq(HeaderLines)
    BY DEF CodecConstants
  <2>2. DOMAIN f.header = 1..h /\ \A i \in 1..h : f.header[i] \in HeaderLines
    BY <1>1, <2>1, LenProperties, ElementOfSeq
  <2>3. QED
    BY <1>1, <2>2, HeaderLineIsNoEol DEF CodecConstants
<1>4. \A i \in 1..n : i <= 2 * h => \/ \E j \in 1..h : i = 2 * j - 1 /\ buf[i] = f.header[j]
                                    \/ \E j \in 1..h : i = 2 * j /\ buf[i] = Codec!Eol
  <2>1. ASSUME NEW i \in 1..n, i <= 2 * h
        PROVE  \/ \E j \in 1..h : i = 2 * j - 1 /\ buf[i] = f.header[j]
               \/ \E j \in 1..h : i = 2 * j /\ buf[i] = Codec!Eol
    <3>1. PICK j \in 1..h : i = 2 * j - 1 \/ i = 2 * j
      <4>1. PICK j \in Int : j = (i + 1) \div 2
        OBVIOUS
      <4>2. i = 2 * j - 1 \/ i = 2 * j
        BY <4>1
      <4>3. j \in 1..h
        BY <2>1, <4>2
      <4>4. QED
        BY <4>2, <4>3
    <3>2. buf[i] = w[i]
      BY <1>2, <2>1
    <3>3. w[2 * j - 1] = f.header[j] /\ w[2 * j] = Codec!Eol
      BY <1>1
    <3>4. CASE i = 2 * j - 1
      <4>1. buf[i] = f.header[j]
        BY <3>2, <3>3, <3>4
      <4>2. QED
        BY <3>4, <4>1
    <3>5. CASE i = 2 * j
      <4>1. buf[i] = Codec!Eol
        BY <3>2, <3>3, <3>5
      <4>2. QED
        BY <3>5, <4>1
    <3>6. QED
      BY <3>1, <3>4, <3>5
  <2>2. QED
    BY <2>1
<1> DEFINE T == Codec!Terminators(buf)
<1>5. T = {i \in 1..(n - 1) : buf[i] = Codec!Eol /\ buf[i + 1] = Codec!Eol}
  BY <1>2 DEF Codec!Terminators
<1>6. ASSUME NEW i \in T PROVE i >= 2 * h
  <2>1. ASSUME i < 2 * h PROVE FALSE
    <3>1. i \in 1..n /\ i + 1 \in 1..n /\ i <= 2 * h /\ i + 1 <= 2 * h
      BY <1>5, <1>6, <2>1
    <3>2. buf[i] = Codec!Eol /\ buf[i + 1] = Codec!Eol
      BY <1>5, <1>6
    <3>3. \A k \in 1..h : buf[i] # f.header[k] /\ buf[i + 1] # f.header[k]
      BY <1>3, <3>2
    <3>4. PICK j \in 1..h : i = 2 * j
      BY Zenon, <1>4, <3>1, <3>3
    <3>5. PICK k \in 1..h : i + 1 = 2 * k
      BY Zenon, <1>4, <3>1, <3>3
    <3>6. QED
      BY <3>4, <3>5
  <2>2. QED
    BY <1>5, <2>1
<1> HIDE DEF T
<1> DEFINE Reads(d) ==
      \/ d.result = "message" /\ 2 * h + 1 + b <= n /\ d.used = 2 * h + 1 + b /\ d.body = f.body
      \/ d.result = "none" /\ d.used = 0 /\ n < 2 * h + 1 + b
      \/ d.result = "error" /\ d.used = 0 /\ (~Codec!WellFormed(f) \/ Codec!TooLong(f))
<1>7. /\ ~Codec!WellFormed(f) \/ Codec!TooLong(f) => Reads(Codec!Failure)
      /\ n < 2 * h + 1 + b => Reads(Codec!Nothing)
  BY DEF Codec!Failure, Codec!Nothing
<1>8. ASSUME n <= 2 * h PROVE Reads(Codec!decode(buf))
  <2>1. T = {}
    <3>1. ASSUME NEW i \in T PROVE FALSE
      <4>1. i \in 1..(n - 1) /\ i >= 2 * h
        BY <1>5, <1>6
      <4>2. QED
        BY <1>8, <4>1
    <3>2. QED
      BY <3>1
  <2>2. CASE n > HeaderLimit
    <3>1. Codec!decode(buf) = Codec!Failure
      BY <1>2, <1>3, <2>1, <2>2 DEF Codec!decode, T
    <3>2. Codec!TooLong(f)
      BY <1>1, <1>3, <1>8, <2>2 DEF Codec!TooLong
    <3>3. QED
      BY <1>7, <3>1, <3>2
  <2>3. CASE n <= HeaderLimit
    <3>1. Codec!decode(buf) = Codec!Nothing
      BY <1>2, <1>3, <2>1, <2>3 DEF Codec!decode, T
    <3>2. n < 2 * h + 1 + b
      BY <1>8
    <3>3. QED
      BY <1>7, <3>1, <3>2
  <2>4. QED
    BY <1>3, <2>2, <2>3
<1>9. ASSUME n > 2 * h PROVE Reads(Codec!decode(buf))
  <2>1. 2 * h \in T
    <3>1. buf[2 * h] = w[2 * h] /\ buf[2 * h + 1] = w[2 * h + 1] /\ 2 * h \in 1..(n - 1)
      BY <1>2, <1>9
    <3>2. w[2 * h] = Codec!Eol /\ w[2 * h + 1] = Codec!Eol
      <4>1. h \in 1..h
        OBVIOUS
      <4>2. QED
        BY <1>1, <4>1
    <3>3. QED
      BY <1>5, <3>1, <3>2
  <2>2. Codec!Min(T) = 2 * h
    <3>1. T \in SUBSET Nat /\ \A y \in T : 2 * h <= y
      BY <1>5, <1>6
    <3>2. QED
      BY <2>1, <3>1, CodecMin
  <2>3. PICK top \in Seq(Symbols) :
          /\ top = Codec!HeaderOf(buf) /\ Len(top) = 2 * h - 1
          /\ \A i \in 1..(2 * h - 1) : top[i] = buf[i]
    <3>1. 1 \in 1..(n + 1) /\ 2 * h - 1 \in 0..n
      BY <1>9
    <3>2. /\ SubSeq(buf, 1, 2 * h - 1) \in Seq(Symbols)
          /\ Len(SubSeq(buf, 1, 2 * h - 1)) = 2 * h - 1
          /\ \A i \in 1..(2 * h - 1) : SubSeq(buf, 1, 2 * h - 1)[i] = buf[i]
      BY <1>2, <1>9, SubSeqProperties
    <3>3. Codec!HeaderOf(buf) = SubSeq(buf, 1, 2 * h - 1)
      BY <2>2 DEF Codec!HeaderOf, T
    <3>4. QED
      BY <3>2, <3>3
  <2>4. DOMAIN top = 1..(2 * h - 1)
    BY <2>3, LenProperties
  <2>5. /\ \A j \in 1..h : 2 * j - 1 \in 1..(2 * h - 1) /\ top[2 * j - 1] = f.header[j]
        /\ \A i \in 1..(2 * h - 1) : \/ \E j \in 1..h : i = 2 * j - 1
                                     \/ top[i] = Codec!Eol
    <3>1. ASSUME NEW j \in 1..h PROVE 2 * j - 1 \in 1..(2 * h - 1) /\ top[2 * j - 1] = f.header[j]
      <4>1. 2 * j - 1 \in 1..(2 * h - 1) /\ 2 * j - 1 \in 1..n /\ 2 * j - 1 <= 2 * h + 1 + b
        BY <1>9
      <4>2. QED
        BY <1>1, <1>2, <2>3, <4>1
    <3>2. \A i \in 1..(2 * h - 1) : i \in 1..n /\ i <= 2 * h
      BY <1>9
    <3>3. QED
      BY <1>4, <2>3, <3>1, <3>2
  <2>6. Codec!Eol[1] # "length"
    BY DEF Codec!Eol
  <2>7. \A i : i \in Codec!LengthLines(top) <=> \E j \in Codec!LengthLines(f.header) : i = 2 * j - 1
    <3>1. ASSUME NEW i \in Codec!LengthLines(top)
          PROVE  \E j \in Codec!LengthLines(f.header) : i = 2 * j - 1
      <4>1. i \in 1..(2 * h - 1) /\ top[i][1] = "length"
        BY <2>4, <3>1 DEF Codec!LengthLines
      <4>2. PICK j \in 1..h : i = 2 * j - 1
        BY <2>5, <2>6, <4>1
      <4>3. f.header[j][1] = "length"
        BY <2>5, <4>1, <4>2
      <4>4. QED
        BY <1>3, <4>2, <4>3 DEF Codec!LengthLines
    <3>2. ASSUME NEW j \in Codec!LengthLines(f.header) PROVE 2 * j - 1 \in Codec!LengthLines(top)
      <4>1. j \in 1..h /\ f.header[j][1] = "length"
        BY <1>3 DEF Codec!LengthLines
      <4>2. QED
        BY <2>4, <2>5, <4>1 DEF Codec!LengthLines
    <3>3. QED
      BY <3>1, <3>2
  <2>8. Codec!LengthLines(f.header) \in SUBSET (1..h)
    BY <1>3 DEF Codec!LengthLines
  <2>9. CASE Codec!LengthLines(f.header) = {}
    <3>1. Codec!LengthLines(top) = {}
      BY <2>7, <2>9
    <3>2. Codec!decode(buf) = Codec!Failure
      BY <2>1, <2>3, <3>1 DEF Codec!decode, Codec!DecodeHeader, T
    <3>3. ~Codec!WellFormed(f)
      BY <2>9 DEF Codec!WellFormed
    <3>4. QED
      BY <1>7, <3>2, <3>3
  <2>10. CASE Codec!LengthLines(f.header) # {}
    <3>1. PICK m \in Codec!LengthLines(f.header) : \A y \in Codec!LengthLines(f.header) : m <= y
      <4>1. Codec!LengthLines(f.header) \in SUBSET Nat
        BY <2>8
      <4>2. QED
        BY <2>10, <4>1, SmallestElement
    <3>2. m \in 1..h
      BY <2>8
    <3>3. Codec!Min(Codec!LengthLines(f.header)) = m
      <4>1. Codec!LengthLines(f.header) \in SUBSET Nat
        BY <2>8
      <4>2. QED
        BY <3>1, <4>1, CodecMin
    <3>4. Codec!Min(Codec!LengthLines(top)) = 2 * m - 1 /\ Codec!LengthLines(top) # {}
      <4>1. Codec!LengthLines(top) \in SUBSET Nat
        BY <2>4 DEF Codec!LengthLines
      <4>2. 2 * m - 1 \in Codec!LengthLines(top)
        BY <2>7
      <4>3. \A y \in Codec!LengthLines(top) : 2 * m - 1 <= y
        <5>1. ASSUME NEW y \in Codec!LengthLines(top) PROVE 2 * m - 1 <= y
          <6>1. PICK j \in Codec!LengthLines(f.header) : y = 2 * j - 1
            BY <2>7
          <6>2. m <= j /\ j \in 1..h
            BY <2>8, <3>1
          <6>3. QED
            BY <3>2, <6>1, <6>2
        <5>2. QED
          BY <5>1
      <4>4. QED
        BY <4>1, <4>2, <4>3, CodecMin
    <3>5. Codec!DeclaredLength(top) = b /\ Codec!DeclaredLength(f.header) = b
      <4>1. top[2 * m - 1] = f.header[m]
        BY <2>5, <3>2
      <4>2. QED
        BY <1>3, <2>10, <3>3, <3>4, <4>1 DEF Codec!DeclaredLength
    <3>6. Codec!decode(buf) = Codec!DecodeBody(buf, 2 * h + 1, b)
      <4>1. Len(top) + 2 = 2 * h + 1
        BY <2>3
      <4>2. QED
        BY <2>1, <2>3, <3>4, <3>5, <4>1 DEF Codec!decode, Codec!DecodeHeader, T
    <3>7. CASE b > MaxFrameSize
      <4>1. Codec!decode(buf) = Codec!Failure
        BY <1>3, <3>6, <3>7 DEF Codec!DecodeBody
      <4>2. ~Codec!WellFormed(f)
        BY <1>3, <3>5, <3>7 DEF Codec!WellFormed
      <4>3. QED
        BY <1>7, <4>1, <4>2
    <3>8. CASE b <= MaxFrameSize /\ n < 2 * h + 1 + b
      <4>1. Codec!decode(buf) = Codec!Nothing
        BY <1>2, <1>3, <3>6, <3>8 DEF Codec!DecodeBody
      <4>2. QED
        BY <1>7, <3>8, <4>1
    <3>9. CASE b <= MaxFrameSize /\ n >= 2 * h + 1 + b
      <4>1. SubSeq(buf, 2 * h + 1 + 1, 2 * h + 1 + b) = f.body
        <5>1. PICK cut \in Seq(Symbols) :
                /\ cut = SubSeq(buf, 2 * h + 1 + 1, 2 * h + 1 + b) /\ Len(cut) = b
                /\ \A j \in 1..b : cut[j] = buf[2 * h + 1 + j]
          <6>1. PICK k \in Nat : k = 2 * h + 1
            OBVIOUS
          <6>2. k + 1 \in 1..(n + 1) /\ k + b \in k..n /\ k + 1 - 1 = k
            BY <3>9, <6>1
          <6>3. /\ SubSeq(buf, k + 1, k + b) \in Seq(Symbols)
                /\ Len(SubSeq(buf, k + 1, k + b)) = b
                /\ \A j \in 1..b : SubSeq(buf, k + 1, k + b)[j] = buf[k + j]
            BY <1>2, <6>2, SubSeqProperties
          <6>4. QED
            BY <6>1, <6>3
        <5>2. \A j \in 1..b : 2 * h + 1 + j \in 1..n /\ 2 * h + 1 + j <= 2 * h + 1 + b
          BY <3>9
        <5>3. \A j \in 1..b : cut[j] = f.body[j]
          <6>1. \A j \in 1..b : buf[2 * h + 1 + j] = w[2 * h + 1 + j]
            BY Zenon, <1>2, <5>2
          <6>2. QED
            BY Zenon, <1>1, <5>1, <6>1
        <5>4. cut \in Seq(Symbols) /\ f.body \in Seq(Symbols)
          BY <1>3 DEF Symbols
        <5>5. cut = f.body
          BY <1>1, <5>1, <5>3, <5>4, SeqEqual
        <5>6. QED
          BY <5>1, <5>5
      <4>2. CASE Codec!IsMessage(f.body)
        <5>1. Codec!decode(buf) = [result |-> "message", used |-> 2 * h + 1 + b, body |-> f.body]
          <6>1. ~(b > MaxFrameSize) /\ ~(n < 2 * h + 1 + b)
            BY <1>3, <3>9
          <6>2. QED
            BY Zenon, <1>2, <3>6, <3>9, <4>1, <4>2, <6>1 DEF Codec!DecodeBody
        <5>2. QED
          BY <3>9, <5>1
      <4>3. CASE ~Codec!IsMessage(f.body)
        <5>1. Codec!decode(buf) = Codec!Failure
          <6>1. ~(b > MaxFrameSize) /\ ~(n < 2 * h + 1 + b)
            BY <1>3, <3>9
          <6>2. QED
            BY Zenon, <1>2, <3>6, <3>9, <4>1, <4>3, <6>1 DEF Codec!DecodeBody
        <5>2. ~Codec!WellFormed(f)
          BY <4>3 DEF Codec!WellFormed
        <5>3. QED
          BY <1>7, <5>1, <5>2
      <4>4. QED
        BY <4>2, <4>3
    <3>10. QED
      BY <1>3, <3>7, <3>8, <3>9
  <2>11. QED
    BY <2>9, <2>10
<1>10. Reads(Codec!decode(buf))
  BY <1>2, <1>8, <1>9
<1>11. QED
  BY <1>1, <1>2, <1>10

\* The stream that some frames make, and how much of it the first k of them take.
Wires(frames) == [i \in 1..Len(frames) |-> Codec!Wire(frames[i])]
Stream(frames) == FlattenSeq(Wires(frames))
Taken(frames, k) == Len(FlattenSeq(FirstOf(Wires(frames), k)))

LEMMA StreamIsSequence ==
  ASSUME CodecConstants, NEW frames \in Seq(Frames)
  PROVE  /\ Wires(frames) \in Seq(Seq(Symbols)) /\ Len(Wires(frames)) = Len(frames)
         /\ Stream(frames) \in Seq(Symbols)
<1>1. PICK n \in Nat : n = Len(frames) /\ \A i \in 1..n : frames[i] \in Frames
  BY LenProperties, ElementOfSeq
<1>2. \A f \in Frames : Codec!Wire(f) \in Seq(Symbols)
  BY WireElements
<1>3. Wires(frames) \in Seq(Seq(Symbols)) /\ Len(Wires(frames)) = n
  <2>1. \A i \in 1..n : Codec!Wire(frames[i]) \in Seq(Symbols)
    BY <1>1, <1>2
  <2>2. PICK s : s = Wires(frames) /\ s = [i \in 1..n |-> Codec!Wire(frames[i])]
    BY <1>1 DEF Wires
  <2>3. s \in [1..n -> Seq(Symbols)]
    BY <2>1, <2>2
  <2>4. QED
    BY <2>2, <2>3
<1>4. QED
  BY <1>1, <1>3, FlattenType DEF Stream

\* Where a frame stands in the stream.
LEMMA FrameInStream ==
  ASSUME CodecConstants, NEW frames \in Seq(Frames)
  PROVE  /\ Taken(frames, 0) = 0 /\ Taken(frames, Len(frames)) = Len(Stream(frames))
         /\ \A k \in 0..Len(frames) : Taken(frames, k) \in Nat
         /\ \A k \in 1..Len(frames) :
              /\ frames[k] \in Frames
              /\ Taken(frames, k) = Taken(frames, k - 1) + Len(Codec!Wire(frames[k]))
              /\ Taken(frames, k) <= Len(Stream(frames))
              /\ \A j \in 1..Len(Codec!Wire(frames[k])) :
                   Stream(frames)[Taken(frames, k - 1) + j] = Codec!Wire(frames[k])[j]
<1>1. PICK s \in Seq(Seq(Symbols)), n \in Nat :
        s = Wires(frames) /\ n = Len(frames) /\ n = Len(s)
  BY StreamIsSequence, LenProperties
<1>2. /\ FlattenSeq(FirstOf(s, 0)) = <<>> /\ FirstOf(s, n) = s
      /\ \A k \in 0..n : FlattenSeq(FirstOf(s, k)) \in Seq(Symbols)
  BY <1>1, FlattenFirst
<1>3. \A k \in 1..n :
        /\ Len(FlattenSeq(FirstOf(s, k))) = Len(FlattenSeq(FirstOf(s, k - 1))) + Len(s[k])
        /\ Len(FlattenSeq(FirstOf(s, k))) <= Len(FlattenSeq(s))
        /\ \A j \in 1..Len(s[k]) : FlattenSeq(s)[Len(FlattenSeq(FirstOf(s, k - 1))) + j] = s[k][j]
  <2>1. \A k \in 1..Len(s) :
          /\ Len(FlattenSeq(FirstOf(s, k))) = Len(FlattenSeq(FirstOf(s, k - 1))) + Len(s[k])
          /\ Len(FlattenSeq(FirstOf(s, k))) <= Len(FlattenSeq(s))
          /\ \A j \in 1..Len(s[k]) : FlattenSeq(s)[Len(FlattenSeq(FirstOf(s, k - 1))) + j] = s[k][j]
    BY FlattenPlaces
  <2>2. QED
    BY Zenon, <1>1, <2>1
<1>4. \A k \in 1..n : s[k] = Codec!Wire(frames[k]) /\ frames[k] \in Frames
  BY <1>1, ElementOfSeq DEF Wires
<1>5. \A k \in 0..n : Taken(frames, k) = Len(FlattenSeq(FirstOf(s, k))) /\ Taken(frames, k) \in Nat
  BY <1>1, <1>2, LenProperties DEF Taken
<1>6. Taken(frames, 0) = 0 /\ Taken(frames, n) = Len(Stream(frames))
  BY <1>1, <1>2, <1>5, EmptySeq DEF Stream
<1>7. ASSUME NEW k \in 1..n
      PROVE  /\ frames[k] \in Frames
             /\ Taken(frames, k) = Taken(frames, k - 1) + Len(Codec!Wire(frames[k]))
             /\ Taken(frames, k) <= Len(Stream(frames))
             /\ \A j \in 1..Len(Codec!Wire(frames[k])) :
                  Stream(frames)[Taken(frames, k - 1) + j] = Codec!Wire(frames[k])[j]
  <2>1. k \in 0..n /\ k - 1 \in 0..n
    OBVIOUS
  <2>2. /\ Taken(frames, k) = Len(FlattenSeq(FirstOf(s, k)))
        /\ Taken(frames, k - 1) = Len(FlattenSeq(FirstOf(s, k - 1)))
    BY <1>5, <2>1
  <2>3. QED
    BY Zenon, <1>1, <1>3, <1>4, <2>2 DEF Stream
<1>8. QED
  BY Zenon, <1>1, <1>5, <1>6, <1>7

\* Buffer and input continue the stream where the messages decoded so far end.
Continues(frames, k, buffer, input) ==
  LET off == Taken(frames, k) IN
  /\ off + Len(buffer) + Len(input) <= Len(Stream(frames))
  /\ \A i \in 1..Len(buffer) : buffer[i] = Stream(frames)[off + i]
  /\ \A i \in 1..Len(input) : input[i] = Stream(frames)[off + Len(buffer) + i]

CodecTypes ==
  /\ codecFrames \in Seq(Frames) /\ codecBuffer \in Seq(Symbols) /\ codecInput \in Seq(Symbols)
  /\ codecStatus \in {"read", "decode", "failed", "ended"}
  /\ codecOutput \in Seq({f.body : f \in Frames}) /\ Len(codecOutput) <= Len(codecFrames)

\* The frame that is to be decoded next, if there is one.
AtFrame(f) ==
  /\ codecStatus = "read" => Len(codecBuffer) < Len(Codec!Wire(f))
  /\ codecStatus \in {"failed", "ended"} =>
       \/ ~Codec!WellFormed(f) \/ Codec!TooLong(f)
       \/ Len(codecBuffer) + Len(codecInput) < Len(Codec!Wire(f))

CodecInv ==
  /\ CodecTypes
  /\ \A i \in 1..Len(codecOutput) : codecOutput[i] = codecFrames[i].body
  /\ Continues(codecFrames, Len(codecOutput), codecBuffer, codecInput)
  /\ Len(codecOutput) < Len(codecFrames) => AtFrame(codecFrames[Len(codecOutput) + 1])

LEMMA CodecStarts ==
  ASSUME CodecConstants, Codec!Init
  PROVE  CodecInv
<1>1. codecFrames \in Seq(Frames)
  <2>1. PICK m \in 0..MaxFrames : codecFrames \in [1..m -> Frames]
    BY Zenon DEF Codec!Init, Codec!SeqOf
  <2>2. QED
    BY <2>1
<1>2. PICK stream \in Seq(Symbols) : stream = Stream(codecFrames)
  BY <1>1, StreamIsSequence
<1>3. PICK n \in 0..Len(stream) : codecInput = SubSeq(stream, 1, n)
  <2>1. DOMAIN codecFrames = 1..Len(codecFrames)
    BY <1>1, LenProperties
  <2>2. Codec!FlattenSeq([i \in DOMAIN codecFrames |-> Codec!Wire(codecFrames[i])]) = stream
    BY <1>2, <2>1, SameFlattenOfCodec DEF Stream, Wires
  <2>3. QED
    BY <2>2 DEF Codec!Init
<1>4. codecInput \in Seq(Symbols) /\ Len(codecInput) = n /\ \A i \in 1..n : codecInput[i] = stream[i]
  <2>1. Len(stream) \in Nat /\ n \in Nat /\ \A i \in 1..n : stream[i] \in Symbols
    BY <1>2, LenProperties, ElementOfSeq
  <2>2. /\ SubSeq(stream, 1, n) \in Seq(Symbols)
        /\ Len(SubSeq(stream, 1, n)) = IF 1 <= n THEN n - 1 + 1 ELSE 0
        /\ \A i \in 1..(n - 1 + 1) : SubSeq(stream, 1, n)[i] = stream[1 + i - 1]
    BY <2>1, SubSeqProperties
  <2>3. n - 1 + 1 = n /\ (~(1 <= n) => n = 0) /\ \A i \in 1..n : 1 + i - 1 = i
    BY <2>1
  <2>4. QED
    BY <1>3, <2>2, <2>3
<1>5. /\ codecBuffer \in Seq(Symbols) /\ Len(codecBuffer) = 0
      /\ codecOutput \in Seq({f.body : f \in Frames}) /\ Len(codecOutput) = 0
      /\ codecStatus = "read" /\ Len(codecFrames) \in Nat
  BY <1>1, EmptySeq, LenProperties DEF Codec!Init
<1>6. CodecTypes
  BY <1>1, <1>4, <1>5 DEF CodecTypes
<1>7. Continues(codecFrames, 0, codecBuffer, codecInput)
  <2>1. Taken(codecFrames, 0) = 0 /\ Len(stream) \in Nat
    BY <1>1, <1>2, FrameInStream, LenProperties
  <2>2. \A i \in 1..n : 0 + 0 + i = i
    OBVIOUS
  <2>3. QED
    BY <1>2, <1>4, <1>5, <2>1, <2>2 DEF Continues
<1>8. ASSUME 0 < Len(codecFrames) PROVE AtFrame(codecFrames[1])
  <2>1. codecFrames[1] \in Frames
    BY <1>1, <1>5, <1>8, ElementOfSeq
  <2>2. Len(Codec!Wire(codecFrames[1])) > 0
    <3>1. PICK f \in Frames : f = codecFrames[1]
      BY <2>1
    <3>2. \E w \in Seq(Symbols), h \in Nat \ {0}, b \in Nat :
            /\ w = Codec!Wire(f) /\ h = Len(f.header) /\ b = Len(f.body)
            /\ Len(w) = 2 * h + 1 + b /\ Len(Codec!Lines(f.header)) = 2 * h
            /\ \A i \in 1..h : w[2 * i - 1] = f.header[i] /\ w[2 * i] = Codec!Eol
            /\ w[2 * h + 1] = Codec!Eol
            /\ \A j \in 1..b : w[2 * h + 1 + j] = f.body[j]
      BY Zenon, WireElements
    <3>3. PICK h \in Nat \ {0}, b \in Nat : Len(Codec!Wire(f)) = 2 * h + 1 + b
      BY Zenon, <3>2
    <3>4. QED
      BY <3>1, <3>3
  <2>3. QED
    BY <1>5, <2>2 DEF AtFrame
<1>9. QED
  BY <1>5, <1>6, <1>7, <1>8 DEF CodecInv

\* More of the stream arrives.
LEMMA CodecArrives ==
  ASSUME CodecConstants, CodecInv, Codec!Arrive
  PROVE  CodecInv'
<1>1. PICK buf \in Seq(Symbols), input \in Seq(Symbols), b \in Nat, l \in Nat :
        buf = codecBuffer /\ input = codecInput /\ b = Len(buf) /\ l = Len(input)
  BY LenProperties DEF CodecInv, CodecTypes
<1>2. PICK n \in 1..l : /\ codecBuffer' = buf \o SubSeq(input, 1, n)
                        /\ codecInput' = SubSeq(input, n + 1, l)
  BY <1>1 DEF Codec!Arrive
<1>3. codecStatus' = "decode" /\ codecFrames' = codecFrames /\ codecOutput' = codecOutput
  BY DEF Codec!Arrive
<1>4. \A i \in 1..l : input[i] \in Symbols
  BY <1>1, ElementOfSeq
<1>5. PICK some \in Seq(Symbols) :
        some = SubSeq(input, 1, n) /\ Len(some) = n /\ \A i \in 1..n : some[i] = input[i]
  <2>1. /\ SubSeq(input, 1, n) \in Seq(Symbols)
        /\ Len(SubSeq(input, 1, n)) = IF 1 <= n THEN n - 1 + 1 ELSE 0
        /\ \A i \in 1..(n - 1 + 1) : SubSeq(input, 1, n)[i] = input[1 + i - 1]
    BY <1>4, SubSeqProperties
  <2>2. n - 1 + 1 = n /\ 1 <= n /\ \A i \in 1..n : 1 + i - 1 = i
    OBVIOUS
  <2>3. QED
    BY <2>1, <2>2
<1>6. PICK rest \in Seq(Symbols) :
        rest = SubSeq(input, n + 1, l) /\ Len(rest) = l - n /\ \A i \in 1..(l - n) : rest[i] = input[n + i]
  <2>1. /\ SubSeq(input, n + 1, l) \in Seq(Symbols)
        /\ Len(SubSeq(input, n + 1, l)) = IF n + 1 <= l THEN l - (n + 1) + 1 ELSE 0
        /\ \A i \in 1..(l - (n + 1) + 1) : SubSeq(input, n + 1, l)[i] = input[n + 1 + i - 1]
    <3>1. n + 1 \in Int /\ l \in Int /\ \A i \in (n + 1)..l : input[i] \in Symbols
      BY <1>4
    <3>2. QED
      BY <3>1, SubSeqProperties
  <2>2. /\ l - (n + 1) + 1 = l - n /\ (~(n + 1 <= l) => l - n = 0)
        /\ \A i \in 1..(l - n) : n + 1 + i - 1 = n + i
    OBVIOUS
  <2>3. PICK r : r = SubSeq(input, n + 1, l)
    OBVIOUS
  <2>4. r \in Seq(Symbols) /\ Len(r) = l - n /\ \A i \in 1..(l - n) : r[i] = input[n + i]
    BY <2>1, <2>2, <2>3
  <2>5. QED
    BY <2>3, <2>4
<1>7. PICK new \in Seq(Symbols) :
        /\ new = codecBuffer' /\ Len(new) = b + n
        /\ \A i \in 1..(b + n) : new[i] = IF i <= b THEN buf[i] ELSE some[i - b]
  <2>1. PICK both : both = buf \o some
    OBVIOUS
  <2>2. /\ both \in Seq(Symbols) /\ Len(both) = Len(buf) + Len(some)
        /\ \A i \in 1..(Len(buf) + Len(some)) :
             both[i] = IF i <= Len(buf) THEN buf[i] ELSE some[i - Len(buf)]
    BY <2>1, ConcatProperties
  <2>3. codecBuffer' = both
    BY <1>2, <1>5, <2>1
  <2>4. QED
    BY <1>1, <1>5, <2>2, <2>3
<1>8. PICK stream \in Seq(Symbols), off \in Nat, k \in Nat :
        stream = Stream(codecFrames) /\ off = Taken(codecFrames, k) /\ k = Len(codecOutput)
  <2>1. codecFrames \in Seq(Frames) /\ Len(codecOutput) \in 0..Len(codecFrames)
    BY LenProperties DEF CodecInv, CodecTypes
  <2>2. Taken(codecFrames, Len(codecOutput)) \in Nat /\ Stream(codecFrames) \in Seq(Symbols)
    BY <2>1, FrameInStream, StreamIsSequence
  <2>3. QED
    BY <2>1, <2>2
<1>9. /\ off + b + l <= Len(stream)
      /\ \A i \in 1..b : buf[i] = stream[off + i]
      /\ \A i \in 1..l : input[i] = stream[off + b + i]
  BY <1>1, <1>8 DEF CodecInv, Continues
<1>10. \A i \in 1..(b + n) : new[i] = stream[off + i]
  <2>1. ASSUME NEW i \in 1..(b + n) PROVE new[i] = stream[off + i]
    <3>1. CASE i <= b
      <4>1. i \in 1..b
        BY <3>1
      <4>2. QED
        BY <1>7, <1>9, <3>1, <4>1
    <3>2. CASE ~(i <= b)
      <4>1. i - b \in 1..n /\ i - b \in 1..l /\ off + b + (i - b) = off + i
        BY <3>2
      <4>2. new[i] = some[i - b] /\ some[i - b] = input[i - b]
        BY Zenon, <1>5, <1>7, <3>2, <4>1
      <4>3. input[i - b] = stream[off + b + (i - b)]
        BY <1>9, <4>1
      <4>4. QED
        BY <4>1, <4>2, <4>3
    <3>3. QED
      BY <3>1, <3>2
  <2>2. QED
    BY <2>1
<1>11. \A i \in 1..(l - n) : rest[i] = stream[off + (b + n) + i]
  <2>1. ASSUME NEW i \in 1..(l - n) PROVE rest[i] = stream[off + (b + n) + i]
    <3>1. n + i \in 1..l /\ off + b + (n + i) = off + (b + n) + i
      OBVIOUS
    <3>2. QED
      BY <1>6, <1>9, <3>1
  <2>2. QED
    BY <2>1
<1>12. Continues(codecFrames, k, new, rest)
  <2>1. off + (b + n) + (l - n) <= Len(stream)
    <3>1. off + (b + n) + (l - n) = off + b + l
      OBVIOUS
    <3>2. QED
      BY <1>9, <3>1
  <2>2. QED
    BY <1>6, <1>7, <1>8, <1>10, <1>11, <2>1 DEF Continues
<1>13. CodecTypes'
  BY <1>2, <1>3, <1>6, <1>7 DEF CodecInv, CodecTypes
<1>14. \A f : AtFrame(f)'
  BY <1>3 DEF AtFrame
<1>15. QED
  BY <1>2, <1>3, <1>6, <1>7, <1>8, <1>12, <1>13, <1>14 DEF CodecInv

\* One try at the buffer.
LEMMA CodecDecodes ==
  ASSUME CodecConstants, CodecInv, Codec!Decode
  PROVE  CodecInv'
<1>1. PICK buf \in Seq(Symbols), input \in Seq(Symbols), b \in Nat, l \in Nat :
        buf = codecBuffer /\ input = codecInput /\ b = Len(buf) /\ l = Len(input)
  BY LenProperties DEF CodecInv, CodecTypes
<1>2. PICK d : d = Codec!decode(buf)
  OBVIOUS
<1>3. /\ codecStatus' = CASE d.result = "error"   -> "failed"
                          [] d.result = "none"    -> "read"
                          [] d.result = "message" -> "decode"
      /\ codecBuffer' = SubSeq(buf, d.used + 1, b)
      /\ codecOutput' = IF d.result = "message" THEN Append(codecOutput, d.body) ELSE codecOutput
      /\ codecFrames' = codecFrames /\ codecInput' = input /\ codecStatus = "decode"
  BY <1>1, <1>2 DEF Codec!Decode
<1>4. PICK frames \in Seq(Frames), N \in Nat, k \in Nat, output \in Seq({f.body : f \in Frames}) :
        /\ frames = codecFrames /\ N = Len(frames) /\ k <= N
        /\ output = codecOutput /\ k = Len(output)
        /\ \A i \in 1..k : output[i] = frames[i].body
  <2>1. codecFrames \in Seq(Frames) /\ codecOutput \in Seq({f.body : f \in Frames})
    BY DEF CodecInv, CodecTypes
  <2>2. Len(codecFrames) \in Nat /\ Len(codecOutput) \in Nat /\ Len(codecOutput) <= Len(codecFrames)
    BY <2>1, LenProperties DEF CodecInv, CodecTypes
  <2>3. QED
    BY <2>1, <2>2 DEF CodecInv
<1>5. PICK stream \in Seq(Symbols), off \in Nat :
        /\ stream = Stream(frames) /\ off = Taken(frames, k)
        /\ off + b + l <= Len(stream) /\ Len(stream) \in Nat
        /\ \A i \in 1..b : buf[i] = stream[off + i]
        /\ \A i \in 1..l : input[i] = stream[off + b + i]
  <2>1. /\ Taken(frames, k) \in Nat /\ Stream(frames) \in Seq(Symbols)
        /\ Len(Stream(frames)) \in Nat
    BY <1>4, FrameInStream, StreamIsSequence, LenProperties
  <2>2. Continues(frames, k, buf, input)
    BY <1>1, <1>4 DEF CodecInv
  <2>3. PICK stream \in Seq(Symbols), off \in Nat :
          stream = Stream(frames) /\ off = Taken(frames, k) /\ Len(stream) \in Nat
    BY <2>1
  <2>4. /\ off + b + l <= Len(stream)
        /\ \A i \in 1..b : buf[i] = stream[off + i]
        /\ \A i \in 1..l : input[i] = stream[off + b + i]
    BY Zenon, <1>1, <2>2, <2>3 DEF Continues
  <2>5. QED
    BY <2>3, <2>4
<1>6. \A u \in 0..b : /\ SubSeq(buf, u + 1, b) \in Seq(Symbols) /\ Len(SubSeq(buf, u + 1, b)) = b - u
                      /\ \A i \in 1..(b - u) : SubSeq(buf, u + 1, b)[i] = buf[u + i]
  <2>1. ASSUME NEW u \in 0..b
        PROVE  /\ SubSeq(buf, u + 1, b) \in Seq(Symbols) /\ Len(SubSeq(buf, u + 1, b)) = b - u
               /\ \A i \in 1..(b - u) : SubSeq(buf, u + 1, b)[i] = buf[u + i]
    <3>1. u + 1 \in Int /\ b \in Int /\ \A i \in (u + 1)..b : buf[i] \in Symbols
      <4>1. \A i \in 1..b : buf[i] \in Symbols
        BY <1>1, ElementOfSeq
      <4>2. QED
        BY <4>1
    <3>2. /\ SubSeq(buf, u + 1, b) \in Seq(Symbols)
          /\ Len(SubSeq(buf, u + 1, b)) = IF u + 1 <= b THEN b - (u + 1) + 1 ELSE 0
          /\ \A i \in 1..(b - (u + 1) + 1) : SubSeq(buf, u + 1, b)[i] = buf[u + 1 + i - 1]
      BY <3>1, SubSeqProperties
    <3>3. /\ b - (u + 1) + 1 = b - u /\ (~(u + 1 <= b) => b - u = 0)
          /\ \A i \in 1..(b - u) : u + 1 + i - 1 = u + i
      OBVIOUS
    <3>4. QED
      BY <3>2, <3>3
  <2>2. QED
    BY <2>1
<1>7. SubSeq(buf, 0 + 1, b) = buf
  <2>1. PICK same \in Seq(Symbols) :
          same = SubSeq(buf, 0 + 1, b) /\ Len(same) = b /\ \A i \in 1..b : same[i] = buf[i]
    <3>1. 0 \in 0..b
      OBVIOUS
    <3>2. /\ SubSeq(buf, 0 + 1, b) \in Seq(Symbols) /\ Len(SubSeq(buf, 0 + 1, b)) = b - 0
          /\ \A i \in 1..(b - 0) : SubSeq(buf, 0 + 1, b)[i] = buf[0 + i]
      BY Zenon, <1>6, <3>1
    <3>3. b - 0 = b /\ \A i \in 1..b : 0 + i = i
      OBVIOUS
    <3>4. QED
      BY <3>2, <3>3
  <2>2. QED
    BY <1>1, <2>1, SeqEqual
<1>8. ASSUME d.result = "none" \/ d.result = "error", d.used = 0,
             k < N => /\ d.result = "none" => b < Len(Codec!Wire(frames[k + 1]))
                      /\ d.result = "error" => \/ ~Codec!WellFormed(frames[k + 1])
                                               \/ Codec!TooLong(frames[k + 1])
      PROVE  CodecInv'
  <2>1. /\ codecBuffer' = buf /\ codecOutput' = output /\ codecInput' = input /\ codecFrames' = frames
        /\ d.result = "none" => codecStatus' = "read"
        /\ d.result = "error" => codecStatus' = "failed"
    BY <1>3, <1>4, <1>7, <1>8
  <2>2. CodecTypes'
    BY <1>1, <1>4, <1>8, <2>1 DEF CodecInv, CodecTypes
  <2>3. Continues(frames, k, buf, input)
    BY <1>1, <1>4 DEF CodecInv
  <2>4. k < N => AtFrame(frames[k + 1])'
    BY <1>1, <1>8, <2>1 DEF AtFrame
  <2>5. QED
    BY <1>4, <2>1, <2>2, <2>3, <2>4 DEF CodecInv
<1>9. CASE k = N
  <2>1. off = Len(stream)
    BY <1>4, <1>5, <1>9, FrameInStream
  <2>2. b = 0
    BY <1>5, <2>1
  <2>3. d = Codec!Nothing
    <3>1. Codec!Terminators(buf) = {}
      BY <1>1, <2>2 DEF Codec!Terminators
    <3>2. Len(buf) <= HeaderLimit /\ ~(Len(buf) > HeaderLimit)
      BY <1>1, <2>2 DEF CodecConstants
    <3>3. QED
      BY Zenon, <1>2, <3>1, <3>2 DEF Codec!decode
  <2>4. d.result = "none" /\ d.used = 0
    BY <2>3 DEF Codec!Nothing
  <2>5. QED
    BY <1>8, <1>9, <2>4
<1>10. CASE k < N
  <2>1. PICK f \in Frames, w \in Seq(Symbols), c \in Nat :
          /\ f = frames[k + 1] /\ w = Codec!Wire(f) /\ c = Len(w)
          /\ Taken(frames, k + 1) = off + c /\ off + c <= Len(stream)
          /\ \A j \in 1..c : stream[off + j] = w[j]
    <3>1. PICK next \in 1..Len(frames) : next = k + 1 /\ next - 1 = k
      BY <1>4, <1>10
    <3>2. /\ frames[next] \in Frames
          /\ Taken(frames, next) = Taken(frames, next - 1) + Len(Codec!Wire(frames[next]))
          /\ Taken(frames, next) <= Len(Stream(frames))
          /\ \A j \in 1..Len(Codec!Wire(frames[next])) :
               Stream(frames)[Taken(frames, next - 1) + j] = Codec!Wire(frames[next])[j]
      BY FrameInStream
    <3>3. PICK f \in Frames, w \in Seq(Symbols), c \in Nat :
            f = frames[next] /\ w = Codec!Wire(f) /\ c = Len(w)
      <4>1. PICK f \in Frames : f = frames[next]
        BY <3>2
      <4>2. Codec!Wire(f) \in Seq(Symbols)
        BY WireElements
      <4>3. Len(Codec!Wire(f)) \in Nat
        BY <4>2, LenProperties
      <4>4. QED
        BY <4>1, <4>2, <4>3
    <3>4. /\ Taken(frames, next) = off + c /\ off + c <= Len(stream)
          /\ \A j \in 1..c : stream[off + j] = w[j]
      BY Zenon, <1>5, <3>1, <3>2, <3>3
    <3>5. QED
      BY <3>1, <3>3, <3>4
  <2>2. \A i \in 1..b : i <= c => buf[i] = w[i]
    <3>1. \A i \in 1..b : i <= c => i \in 1..c
      OBVIOUS
    <3>2. QED
      BY <1>5, <2>1, <3>1
  <2>3. \/ d.result = "message" /\ c <= b /\ d.used = c /\ d.body = f.body
        \/ d.result = "none" /\ d.used = 0 /\ b < c
        \/ d.result = "error" /\ d.used = 0 /\ (~Codec!WellFormed(f) \/ Codec!TooLong(f))
    <3>1. \A i \in 1..Len(buf) : i <= Len(Codec!Wire(f)) => buf[i] = Codec!Wire(f)[i]
      BY <1>1, <2>1, <2>2
    <3>2. QED
      BY ZenonT(30), <1>1, <1>2, <2>1, <3>1, DecodeReads
  <2>4. CASE d.result = "none" \/ d.result = "error"
    BY <1>8, <2>1, <2>3, <2>4
  <2>5. CASE d.result = "message"
    <3>1. c \in 0..b /\ d.used = c /\ d.body = f.body
      BY <2>3, <2>5
    <3>2. PICK rest \in Seq(Symbols) : /\ rest = codecBuffer' /\ Len(rest) = b - c
                                       /\ \A i \in 1..(b - c) : rest[i] = buf[c + i]
      BY <1>3, <1>6, <3>1
    <3>3. PICK more \in Seq({g.body : g \in Frames}) :
            /\ more = codecOutput' /\ Len(more) = k + 1
            /\ \A i \in 1..(k + 1) : more[i] = frames[i].body
      <4>1. PICK body \in {g.body : g \in Frames} : body = f.body
        OBVIOUS
      <4>2. /\ Append(output, body) \in Seq({g.body : g \in Frames}) /\ Len(Append(output, body)) = k + 1
            /\ \A i \in 1..k : Append(output, body)[i] = output[i]
            /\ Append(output, body)[k + 1] = body
        BY <1>4, AppendProperties
      <4>3. codecOutput' = Append(output, body)
        BY <1>3, <1>4, <2>5, <3>1, <4>1
      <4>4. \A i \in 1..(k + 1) : i \in 1..k \/ i = k + 1
        OBVIOUS
      <4>5. \A i \in 1..(k + 1) : Append(output, body)[i] = frames[i].body
        BY SMTT(30), <1>4, <2>1, <4>1, <4>2, <4>4
      <4>6. QED
        BY <4>2, <4>3, <4>5
    <3>4. codecStatus' = "decode"
      BY <1>3, <2>5
    <3>5. Continues(frames, k + 1, rest, input)
      <4>1. off + c + (b - c) + l <= Len(stream)
        BY <1>5, <3>1
      <4>2. ASSUME NEW i \in 1..(b - c) PROVE rest[i] = stream[off + c + i]
        <5>1. c + i \in 1..b /\ off + (c + i) = off + c + i
          BY SMTT(30), <3>1
        <5>2. QED
          BY <1>5, <3>2, <5>1
      <4>3. \A i \in 1..l : input[i] = stream[off + c + (b - c) + i]
        <5>1. \A i \in 1..l : off + c + (b - c) + i = off + b + i
          BY <3>1
        <5>2. QED
          BY <1>5, <5>1
      <4>4. /\ Taken(frames, k + 1) = off + c /\ stream = Stream(frames)
            /\ Len(rest) = b - c /\ Len(input) = l
        BY <1>1, <1>5, <2>1, <3>2
      <4>5. QED
        BY Zenon, <4>1, <4>2, <4>3, <4>4 DEF Continues
    <3>6. CodecTypes'
      BY SMTT(30), <1>3, <1>4, <1>10, <3>2, <3>3, <3>4, <1>1 DEF CodecTypes
    <3>7. \A g : AtFrame(g)'
      BY <3>4 DEF AtFrame
    <3>8. QED
      BY <1>3, <1>4, <3>2, <3>3, <3>5, <3>6, <3>7 DEF CodecInv
  <2>6. QED
    BY <2>3, <2>4, <2>5
<1>11. QED
  BY <1>4, <1>9, <1>10

LEMMA CodecEnds ==
  ASSUME CodecConstants, CodecInv, Codec!EndOfStream
  PROVE  CodecInv'
<1>1. /\ codecStatus = "read" /\ codecInput = <<>> /\ codecStatus' \in {"ended", "failed"}
      /\ UNCHANGED <<codecFrames, codecInput, codecBuffer, codecOutput>>
  BY DEF Codec!EndOfStream
<1>2. CodecTypes'
  BY <1>1 DEF CodecInv, CodecTypes
<1>3. Len(codecBuffer) \in Nat /\ Len(codecInput) = 0
  BY <1>1, LenProperties, EmptySeq DEF CodecInv, CodecTypes
<1>4. \A f : AtFrame(f) => AtFrame(f)'
  BY <1>1, <1>3 DEF AtFrame
<1>5. QED
  BY <1>1, <1>2, <1>4 DEF CodecInv

LEMMA CodecInvariant ==
  ASSUME CodecConstants
  PROVE  CodecSpec => []CodecInv
<1>1. Codec!Init => CodecInv
  BY CodecStarts
<1>2. CodecInv /\ [Codec!Next]_(Codec!codecVars) => CodecInv'
  <2>1. CASE Codec!Arrive
    BY <2>1, CodecArrives
  <2>2. CASE Codec!Decode
    BY <2>2, CodecDecodes
  <2>3. CASE Codec!EndOfStream
    BY <2>3, CodecEnds
  <2>4. CASE UNCHANGED Codec!codecVars
    BY <2>4 DEF CodecInv, CodecTypes, AtFrame, Codec!codecVars
  <2>5. QED
    BY <2>1, <2>2, <2>3, <2>4 DEF Codec!Next
<1>3. QED
  BY <1>1, <1>2, PTL DEF CodecSpec

LEMMA CodecShows ==
  ASSUME CodecConstants, CodecInv
  PROVE  Codec!TypeOK /\ Codec!DecodesTheStream
<1>1. Codec!TypeOK
  BY DEF CodecInv, CodecTypes, Codec!TypeOK
<1>2. PICK frames \in Seq(Frames), N \in Nat, k \in Nat, output \in Seq({f.body : f \in Frames}) :
        /\ frames = codecFrames /\ N = Len(frames) /\ k <= N
        /\ output = codecOutput /\ k = Len(output)
        /\ \A i \in 1..k : output[i] = frames[i].body
  <2>1. codecFrames \in Seq(Frames) /\ codecOutput \in Seq({f.body : f \in Frames})
    BY DEF CodecInv, CodecTypes
  <2>2. Len(codecFrames) \in Nat /\ Len(codecOutput) \in Nat /\ Len(codecOutput) <= Len(codecFrames)
    BY <2>1, LenProperties DEF CodecInv, CodecTypes
  <2>3. QED
    BY <2>1, <2>2 DEF CodecInv
<1>3. output = [i \in 1..k |-> SubSeq(frames, 1, k)[i].body]
  <2>1. \A i \in 1..k : SubSeq(frames, 1, k)[i] = frames[i]
    <3>1. \A i \in 1..k : frames[i] \in Frames
      BY <1>2, ElementOfSeq
    <3>2. \A i \in 1..(k - 1 + 1) : SubSeq(frames, 1, k)[i] = frames[1 + i - 1]
      BY <3>1, SubSeqProperties
    <3>3. k - 1 + 1 = k /\ \A i \in 1..k : 1 + i - 1 = i
      OBVIOUS
    <3>4. QED
      BY <3>2, <3>3
  <2>2. DOMAIN output = 1..k /\ output = [i \in DOMAIN output |-> output[i]]
    BY <1>2, LenProperties
  <2>3. [i \in 1..k |-> output[i]] = [i \in 1..k |-> SubSeq(frames, 1, k)[i].body]
    BY <1>2, <2>1
  <2>4. QED
    BY <2>2, <2>3
<1>4. PICK b \in Nat, l \in Nat : b = Len(codecBuffer) /\ l = Len(codecInput)
  BY LenProperties DEF CodecInv, CodecTypes
<1>5. \A j \in 0..N : Len(Codec!FlattenSeq([i \in 1..j |-> Codec!Wire(frames[i])])) = Taken(frames, j)
  <2>1. ASSUME NEW j \in 0..N PROVE FirstOf(Wires(frames), j) = [i \in 1..j |-> Codec!Wire(frames[i])]
    <3>1. \A i \in 1..j : i \in 1..Len(frames)
      BY <1>2
    <3>2. QED
      BY <3>1 DEF FirstOf, Wires
  <2>2. QED
    BY <2>1, SameFlattenOfCodec DEF Taken
<1>6. ASSUME codecStatus \in {"failed", "ended"}, k < N
      PROVE  \/ ~Codec!WellFormed(frames[k + 1]) \/ Codec!TooLong(frames[k + 1])
             \/ b + l + Taken(frames, k) < Taken(frames, k + 1)
  <2>1. k + 1 \in 1..N /\ k + 1 - 1 = k /\ k \in 0..N
    BY <1>6
  <2>2. PICK c \in Nat, off \in Nat : /\ c = Len(Codec!Wire(frames[k + 1])) /\ off = Taken(frames, k)
                                      /\ Taken(frames, k + 1) = off + c
    <3>1. /\ frames[k + 1] \in Frames /\ Taken(frames, k) \in Nat
          /\ Taken(frames, k + 1) = Taken(frames, k + 1 - 1) + Len(Codec!Wire(frames[k + 1]))
      BY <1>2, <2>1, FrameInStream
    <3>2. Codec!Wire(frames[k + 1]) \in Seq(Symbols)
      BY <3>1, WireElements
    <3>3. Len(Codec!Wire(frames[k + 1])) \in Nat
      BY <3>2, LenProperties
    <3>4. QED
      BY <2>1, <3>1, <3>3
  <2>3. AtFrame(frames[k + 1])
    BY <1>2, <1>6 DEF CodecInv
  <2>4. \/ ~Codec!WellFormed(frames[k + 1]) \/ Codec!TooLong(frames[k + 1]) \/ b + l < c
    BY <1>4, <1>6, <2>2, <2>3 DEF AtFrame
  <2>5. b + l < c => b + l + off < off + c
    OBVIOUS
  <2>6. QED
    BY <2>2, <2>4, <2>5
<1>7. Codec!DecodesTheStream
  <2>1. k < N => k \in 0..N /\ k + 1 \in 0..N
    OBVIOUS
  <2>2. QED
    BY <1>2, <1>3, <1>4, <1>5, <1>6, <2>1 DEF Codec!DecodesTheStream
<1>8. QED
  BY <1>1, <1>7

-----------------------------------------------------------------------------
(* The trace.                                                              *)

\* max_ring_size is a usize.
LogConstants == RingSizes \subseteq Nat /\ MaxEntries \in Nat

LogSpec == Log!Init /\ [][Log!Next]_(Log!traceVars)

LogTypes ==
  /\ traceSize \in Nat /\ traceSent \in 0..MaxEntries /\ traceClosed \in BOOLEAN
  /\ traceFile \in {"opening", "open", "none", "flushed"}
  /\ traceChannel \in Seq(1..MaxEntries) /\ traceRing \in Seq(1..MaxEntries)
  /\ traceLines \in Seq(1..MaxEntries)

\* Entries are numbered as they are sent; `count` of them have been taken out.
Queue(channel, count, sent) ==
  /\ count \in Nat /\ sent = count + Len(channel)
  /\ \A i \in 1..Len(channel) : channel[i] = count + i

\* The ring holds the newest of the `count` entries, as many as there is room for.
Newest(ring, count, size) ==
  /\ Len(ring) = IF count < (IF size = 0 THEN 1 ELSE size) THEN count
                 ELSE IF size = 0 THEN 1 ELSE size
  /\ \A i \in 1..Len(ring) : ring[i] = count - Len(ring) + i

\* The lines are in order, among the first `count` entries, and the entries up to each
\* line are on earlier lines or have been skipped.
InOrder(lines, skipped, count) ==
  /\ \A i \in DOMAIN lines : lines[i] \in 1..count
  /\ \A i, j \in DOMAIN lines : i < j => lines[i] < lines[j]
  /\ skipped \subseteq 1..count /\ IsFiniteSet(skipped)
  /\ \A i \in 1..Len(lines) : \A e \in 1..lines[i] :
       e \in skipped \/ \E j \in 1..i : lines[j] = e

\* Every one of the first `count` entries is on one line or has been skipped.
AllThere(lines, skipped, count) ==
  /\ \A e \in 1..count : e \in skipped \/ \E j \in 1..Len(lines) : lines[j] = e
  /\ Len(lines) + Cardinality(skipped) = count

\* The entries whose line is done with.
Done == IF traceEntry = 0 THEN Log!Consumed ELSE Log!Consumed - 1

LogFile ==
  /\ traceEntry # 0 => traceEntry = Log!Consumed /\ traceFile = "open"
  /\ traceFile = "opening" => Log!Consumed = 0
  /\ traceFile = "flushed" => traceClosed /\ traceChannel = <<>>
  /\ InOrder(traceLines, traceSkipped, Done)
  /\ traceFile # "none" => AllThere(traceLines, traceSkipped, Done)

LogInv ==
  /\ LogTypes
  /\ Queue(traceChannel, Log!Consumed, traceSent)
  /\ Newest(traceRing, Log!Consumed, traceSize)
  /\ LogFile

LEMMA LogInit ==
  ASSUME LogConstants, Log!Init
  PROVE  LogInv
<1>1. traceChannel = <<>> /\ traceRing = <<>> /\ traceLines = <<>> /\ traceSkipped = {}
      /\ traceSent = 0 /\ traceEntry = 0 /\ traceFile = "opening" /\ traceClosed = FALSE
      /\ traceSize \in Nat
  BY DEF LogConstants, Log!Init
<1>2. <<>> \in Seq(1..MaxEntries) /\ Len(<<>>) = 0 /\ Len(traceChannel) = 0
  BY <1>1, EmptySeq
<1>3. Log!Consumed = 0 /\ Done = 0
  <2>1. Log!Consumed = traceSent - Len(traceChannel)
    BY DEF Log!Consumed
  <2>2. Log!Consumed = 0
    BY <1>1, <1>2, <2>1
  <2>3. QED
    BY <1>1, <2>2 DEF Done
<1>4. LogTypes
  <2>1. traceSent \in 0..MaxEntries
    BY <1>1 DEF LogConstants
  <2>2. traceChannel \in Seq(1..MaxEntries) /\ traceRing \in Seq(1..MaxEntries)
        /\ traceLines \in Seq(1..MaxEntries)
    BY <1>1, <1>2
  <2>3. QED
    BY <1>1, <2>1, <2>2 DEF LogTypes
<1>5. Queue(traceChannel, Log!Consumed, traceSent)
  BY <1>1, <1>2, <1>3 DEF Queue
<1>6. Newest(traceRing, Log!Consumed, traceSize)
  BY <1>1, <1>2, <1>3 DEF Newest
<1>7. InOrder(<<>>, {}, 0) /\ AllThere(<<>>, {}, 0)
  <2>1. IsFiniteSet({}) /\ Cardinality({}) = 0
    BY FS_EmptySet
  <2>2. DOMAIN <<>> = {}
    OBVIOUS
  <2>3. QED
    BY <1>2, <2>1, <2>2 DEF InOrder, AllThere
<1>8. LogFile
  BY <1>1, <1>3, <1>7 DEF LogFile
<1>9. QED
  BY <1>4, <1>5, <1>6, <1>8 DEF LogInv

\* A push keeps the newest entries.
LEMMA PushKeepsNewest ==
  ASSUME NEW ring \in Seq(1..MaxEntries), NEW count \in Nat, count + 1 \in 1..MaxEntries,
         MaxEntries \in Nat, traceSize \in Nat, Newest(ring, count, traceSize)
  PROVE  /\ Newest(Log!push(ring, count + 1), count + 1, traceSize)
         /\ Log!push(ring, count + 1) \in Seq(1..MaxEntries)
<1> DEFINE full == Len(ring) >= traceSize /\ ring # <<>>
           base == IF full THEN Tail(ring) ELSE ring
<1>1. Len(ring) \in Nat /\ (ring # <<>> <=> Len(ring) # 0)
  BY EmptySeq, LenProperties
<1>2. base \in Seq(1..MaxEntries)
  BY HeadTailProperties
<1>3. Len(base) = IF full THEN Len(ring) - 1 ELSE Len(ring)
  BY HeadTailProperties
<1>4. \A i \in 1..Len(base) : base[i] = count - Len(base) + i
  <2>1. CASE full
    <3>1. \A i \in 1..Len(base) : base[i] = ring[i + 1] /\ i + 1 \in 1..Len(ring)
      BY <1>1, <1>3, <2>1, HeadTailProperties
    <3>2. \A i \in 1..Len(ring) : ring[i] = count - Len(ring) + i
      BY DEF Newest
    <3>3. Len(base) = Len(ring) - 1
      BY <1>3, <2>1
    <3> HIDE DEF base
    <3>4. ASSUME NEW i \in 1..Len(base) PROVE base[i] = count - Len(base) + i
      <4>1. base[i] = count - Len(ring) + (i + 1)
        BY <3>1, <3>2
      <4>2. QED
        BY <1>1, <3>3, <4>1
    <3>5. QED
      BY <3>4
  <2>2. CASE ~full
    BY <1>1, <2>2 DEF Newest
  <2>3. QED
    BY <2>1, <2>2
<1> HIDE DEF base
<1>5. PICK r \in Seq(1..MaxEntries) : r = Log!push(ring, count + 1) /\ r = Append(base, count + 1)
  BY <1>2, AppendProperties DEF Log!push, base
<1>6. /\ Len(r) = Len(base) + 1
      /\ r[Len(base) + 1] = count + 1
      /\ \A i \in 1..Len(base) : r[i] = base[i]
  <2> DEFINE e == count + 1
  <2>1. e \in 1..MaxEntries /\ r = Append(base, e)
    BY <1>5
  <2> HIDE DEF e
  <2>2. Len(r) = Len(base) + 1 /\ r[Len(base) + 1] = e /\ \A i \in 1..Len(base) : r[i] = base[i]
    BY <1>2, <2>1, AppendProperties
  <2>3. QED
    BY <2>2 DEF e
<1>7. Len(base) \in Nat
  BY <1>2, LenProperties
<1>8. ASSUME NEW i \in 1..Len(r) PROVE r[i] = (count + 1) - Len(r) + i
  <2>1. CASE i = Len(base) + 1
    BY <1>6, <1>7, <2>1
  <2>2. CASE i \in 1..Len(base)
    <3>1. r[i] = count - Len(base) + i
      BY <1>4, <1>6, <2>2
    <3>2. QED
      BY <1>6, <1>7, <2>2, <3>1
  <2>3. QED
    BY <1>6, <1>7, <2>1, <2>2
<1>9. Len(r) = IF count + 1 < (IF traceSize = 0 THEN 1 ELSE traceSize) THEN count + 1
               ELSE IF traceSize = 0 THEN 1 ELSE traceSize
  BY <1>1, <1>3, <1>6 DEF Newest
<1>10. QED
  BY <1>5, <1>8, <1>9 DEF Newest

\* A line for the next entry.
LEMMA WriteKeepsOrder ==
  ASSUME NEW lines \in Seq(1..MaxEntries), NEW skipped, NEW n \in Nat, n + 1 \in 1..MaxEntries,
         MaxEntries \in Nat, InOrder(lines, skipped, n), AllThere(lines, skipped, n)
  PROVE  /\ Append(lines, n + 1) \in Seq(1..MaxEntries)
         /\ InOrder(Append(lines, n + 1), skipped, n + 1)
         /\ AllThere(Append(lines, n + 1), skipped, n + 1)
<1>1. PICK L \in Seq(1..MaxEntries) : L = Append(lines, n + 1)
  BY AppendProperties
<1>2. Len(L) = Len(lines) + 1 /\ L[Len(lines) + 1] = n + 1 /\ \A i \in 1..Len(lines) : L[i] = lines[i]
  BY <1>1, AppendProperties
<1>3. Len(lines) \in Nat /\ DOMAIN lines = 1..Len(lines) /\ DOMAIN L = 1..(Len(lines) + 1)
  BY <1>2, LenProperties
<1>4. \A i \in DOMAIN L : L[i] \in 1..(n + 1)
  BY SMTT(30), <1>2, <1>3 DEF InOrder
<1>5. ASSUME NEW i \in DOMAIN L, NEW j \in DOMAIN L, i < j
      PROVE  L[i] < L[j]
  <2>1. i \in DOMAIN lines /\ L[i] = lines[i] /\ lines[i] \in 1..n
    BY <1>2, <1>3, <1>5 DEF InOrder
  <2>2. CASE j = Len(lines) + 1
    BY <1>2, <2>1, <2>2
  <2>3. CASE j \in DOMAIN lines
    BY <1>2, <1>3, <1>5, <2>1, <2>3 DEF InOrder
  <2>4. QED
    BY <1>3, <2>2, <2>3
<1>6. skipped \subseteq 1..(n + 1) /\ IsFiniteSet(skipped)
  BY DEF InOrder
<1>7. \A e \in 1..(n + 1) : e \in skipped \/ \E j \in 1..Len(L) : L[j] = e
  <2> TAKE e \in 1..(n + 1)
  <2>1. CASE e = n + 1
    BY <1>2, <1>3, <2>1
  <2>2. CASE e \in 1..n
    <3>1. e \in skipped \/ \E j \in 1..Len(lines) : lines[j] = e
      BY <2>2 DEF AllThere
    <3>2. QED
      BY <1>2, <1>3, <3>1
  <2>3. QED
    BY <2>1, <2>2
<1>8. ASSUME NEW i \in 1..Len(L), NEW e \in 1..L[i]
      PROVE  e \in skipped \/ \E j \in 1..i : L[j] = e
  <2>1. CASE i = Len(lines) + 1
    BY <1>2, <1>3, <1>7, <2>1
  <2>2. CASE i \in 1..Len(lines)
    <3>1. e \in skipped \/ \E j \in 1..i : lines[j] = e
      BY <1>2, <1>8, <2>2 DEF InOrder
    <3>2. QED
      BY SMTT(30), <1>2, <1>3, <2>2, <3>1
  <2>3. QED
    BY <1>2, <1>3, <2>1, <2>2
<1>9. Len(L) + Cardinality(skipped) = n + 1
  <2>1. Cardinality(skipped) \in Nat
    BY <1>6, FS_CardinalityType
  <2>2. QED
    BY <1>2, <1>3, <2>1 DEF AllThere
<1>10. InOrder(L, skipped, n + 1)
  BY <1>4, <1>5, <1>6, <1>8 DEF InOrder
<1>11. AllThere(L, skipped, n + 1)
  BY <1>7, <1>9 DEF AllThere
<1>12. QED
  BY <1>1, <1>10, <1>11

\* No line for the next entry.
LEMMA SkipKeepsOrder ==
  ASSUME NEW lines \in Seq(1..MaxEntries), NEW skipped, NEW n \in Nat,
         InOrder(lines, skipped, n), AllThere(lines, skipped, n)
  PROVE  /\ InOrder(lines, skipped \cup {n + 1}, n + 1)
         /\ AllThere(lines, skipped \cup {n + 1}, n + 1)
<1>1. n + 1 \notin skipped /\ IsFiniteSet(skipped) /\ skipped \subseteq 1..n
  BY DEF InOrder
<1>2. /\ IsFiniteSet(skipped \cup {n + 1})
      /\ Cardinality(skipped \cup {n + 1}) = Cardinality(skipped) + 1
  BY <1>1, FS_AddElement
<1>3. Cardinality(skipped) \in Nat /\ Len(lines) \in Nat
  BY <1>1, FS_CardinalityType, LenProperties
<1>4. InOrder(lines, skipped \cup {n + 1}, n + 1)
  BY <1>1, <1>2 DEF InOrder
<1>5. AllThere(lines, skipped \cup {n + 1}, n + 1)
  BY <1>2, <1>3 DEF AllThere
<1>6. QED
  BY <1>4, <1>5

\* What the invariant says of the counters.
LEMMA LogCounts ==
  ASSUME LogConstants, LogInv
  PROVE  /\ Log!Consumed \in Nat /\ Done \in Nat /\ Done <= MaxEntries
         /\ Log!Consumed + Len(traceChannel) = traceSent
         /\ Len(traceChannel) \in Nat
         /\ traceEntry # 0 => Done + 1 = traceEntry
         /\ traceEntry = 0 => Done = Log!Consumed
<1>1. /\ Len(traceChannel) \in Nat /\ Log!Consumed \in Nat
      /\ traceSent = Log!Consumed + Len(traceChannel) /\ traceSent \in 0..MaxEntries
      /\ MaxEntries \in Nat
  BY LenProperties DEF LogConstants, LogInv, LogTypes, Queue
<1>2. traceEntry # 0 => traceEntry = Log!Consumed
  BY DEF LogInv, LogFile
<1>3. QED
  BY <1>1, <1>2 DEF Done

LEMMA LogStep ==
  ASSUME LogConstants, LogInv, Log!Next
  PROVE  LogInv'
<1> USE DEF LogInv
<1>0. /\ Log!Consumed \in Nat /\ Done \in Nat /\ Done <= MaxEntries /\ MaxEntries \in Nat
      /\ Log!Consumed + Len(traceChannel) = traceSent /\ Len(traceChannel) \in Nat
      /\ traceEntry # 0 => Done + 1 = traceEntry
      /\ traceEntry = 0 => Done = Log!Consumed
  BY LogCounts DEF LogConstants
<1>1. CASE Log!trace
  <2>1. /\ traceSent' = traceSent + 1 /\ traceSent + 1 \in 1..MaxEntries
        /\ traceChannel' = Append(traceChannel, traceSent + 1) /\ traceChannel \in Seq(1..MaxEntries)
        /\ UNCHANGED <<traceSize, traceRing, traceEntry, traceFile, traceLines, traceSkipped, traceClosed>>
        /\ ~traceClosed
    BY <1>0, <1>1 DEF Log!trace, LogTypes
  <2>2. /\ traceChannel' \in Seq(1..MaxEntries) /\ Len(traceChannel') = Len(traceChannel) + 1
        /\ traceChannel'[Len(traceChannel) + 1] = traceSent + 1
        /\ \A i \in 1..Len(traceChannel) : traceChannel'[i] = traceChannel[i]
    <3> DEFINE e == traceSent + 1
    <3>1. e \in 1..MaxEntries /\ traceChannel' = Append(traceChannel, e)
      BY <2>1
    <3> HIDE DEF e
    <3>2. /\ traceChannel' \in Seq(1..MaxEntries) /\ Len(traceChannel') = Len(traceChannel) + 1
          /\ traceChannel'[Len(traceChannel) + 1] = e
          /\ \A i \in 1..Len(traceChannel) : traceChannel'[i] = traceChannel[i]
      BY <2>1, <3>1, AppendProperties
    <3>3. QED
      BY <3>2 DEF e
  <2>3. Log!Consumed' = Log!Consumed
    <3>1. Log!Consumed = traceSent - Len(traceChannel)
          /\ Log!Consumed' = traceSent' - Len(traceChannel')
      BY DEF Log!Consumed
    <3>2. QED
      BY <1>0, <2>1, <2>2, <3>1 DEF LogTypes
  <2>4. LogTypes'
    BY <1>0, <2>1, <2>2 DEF LogTypes
  <2>5. Queue(traceChannel, Log!Consumed, traceSent)'
    <3>1. ASSUME NEW i \in 1..Len(traceChannel')
          PROVE  traceChannel'[i] = Log!Consumed + i
      <4>1. CASE i = Len(traceChannel) + 1
        BY <1>0, <2>2, <4>1
      <4>2. CASE i \in 1..Len(traceChannel)
        BY <2>2, <4>2 DEF Queue
      <4>3. QED
        BY <1>0, <2>2, <4>1, <4>2
    <3>2. QED
      BY <1>0, <2>1, <2>2, <2>3, <3>1 DEF Queue
  <2>6. Newest(traceRing, Log!Consumed, traceSize)'
    BY <2>1, <2>3 DEF Newest
  <2>7. LogFile'
    <3>1. Done' = Done
      BY <2>1, <2>3 DEF Done
    <3>2. QED
      BY <2>1, <2>3, <3>1 DEF LogFile
  <2>8. QED
    BY <2>4, <2>5, <2>6, <2>7
<1>2. CASE Log!Open
  <2>1. /\ traceFile = "opening" /\ traceFile' \in {"open", "none"}
        /\ UNCHANGED <<traceSize, traceSent, traceChannel, traceRing, traceEntry, traceLines,
                       traceSkipped, traceClosed>>
    BY <1>2 DEF Log!Open
  <2>2. Log!Consumed' = Log!Consumed /\ Done' = Done
    BY <2>1 DEF Log!Consumed, Done
  <2>3. LogFile'
    BY <2>1, <2>2 DEF LogFile
  <2>4. LogTypes'
    BY <2>1 DEF LogTypes
  <2>5. QED
    BY <2>1, <2>2, <2>3, <2>4 DEF Queue, Newest
<1>3. CASE Log!Consume
  <2>1. /\ traceFile # "opening" /\ traceEntry = 0 /\ traceChannel # <<>>
        /\ traceRing' = Log!push(traceRing, Head(traceChannel))
        /\ traceEntry' = IF traceFile = "open" THEN Head(traceChannel) ELSE 0
        /\ traceChannel' = Tail(traceChannel)
        /\ UNCHANGED <<traceSize, traceSent, traceFile, traceLines, traceSkipped, traceClosed>>
    BY <1>3 DEF Log!Consume
  <2>2. /\ traceChannel' \in Seq(1..MaxEntries) /\ Len(traceChannel') = Len(traceChannel) - 1
        /\ Len(traceChannel) # 0 /\ Head(traceChannel) = traceChannel[1]
        /\ \A i \in 1..Len(traceChannel') : traceChannel'[i] = traceChannel[i + 1]
    BY <2>1, HeadTailProperties, EmptySeq DEF LogTypes
  <2>3. Head(traceChannel) = Log!Consumed + 1 /\ Log!Consumed + 1 \in 1..MaxEntries
    BY <1>0, <2>2 DEF Queue, LogTypes
  <2>4. Log!Consumed' = Log!Consumed + 1
    <3>1. Log!Consumed = traceSent - Len(traceChannel)
          /\ Log!Consumed' = traceSent' - Len(traceChannel')
      BY DEF Log!Consumed
    <3>2. QED
      BY <1>0, <2>1, <2>2, <3>1 DEF LogTypes
  <2>5. Newest(traceRing', Log!Consumed + 1, traceSize) /\ traceRing' \in Seq(1..MaxEntries)
    BY <1>0, <2>1, <2>3, PushKeepsNewest DEF LogTypes
  <2>6. Newest(traceRing, Log!Consumed, traceSize)'
    BY <2>1, <2>4, <2>5 DEF Newest
  <2>7. LogTypes'
    BY <2>1, <2>2, <2>5 DEF LogTypes
  <2>8. Queue(traceChannel, Log!Consumed, traceSent)'
    <3>1. ASSUME NEW i \in 1..Len(traceChannel')
          PROVE  traceChannel'[i] = Log!Consumed' + i
      <4>1. i + 1 \in 1..Len(traceChannel) /\ traceChannel'[i] = traceChannel[i + 1]
        BY <1>0, <2>2
      <4>2. traceChannel[i + 1] = Log!Consumed + (i + 1)
        BY <4>1 DEF Queue
      <4>3. QED
        BY <1>0, <2>4, <4>1, <4>2
    <3>2. traceSent' = Log!Consumed' + Len(traceChannel') /\ Log!Consumed' \in Nat
      BY <1>0, <2>1, <2>2, <2>4
    <3>3. QED
      BY <3>1, <3>2 DEF Queue
  <2>9. LogFile'
    <3>1. CASE traceFile = "open"
      <4>1. traceEntry' = Log!Consumed' /\ traceEntry' # 0 /\ traceFile' = "open"
        BY <1>0, <2>1, <2>3, <2>4, <3>1
      <4>2. Done' = Log!Consumed' - 1
        BY <4>1 DEF Done
      <4>3. Done' = Done
        BY <1>0, <2>1, <2>4, <4>2
      <4>4. QED
        BY <2>1, <4>1, <4>3 DEF LogFile
    <3>2. CASE traceFile = "none"
      <4>1. traceEntry' = 0 /\ traceFile' = "none"
        BY <2>1, <3>2
      <4>2. Done' = Done + 1
        BY <1>0, <2>1, <2>4, <4>1 DEF Done
      <4>3. InOrder(traceLines, traceSkipped, Done + 1)
        <5>1. InOrder(traceLines, traceSkipped, Done)
          BY DEF LogFile
        <5>2. 1..Done \subseteq 1..(Done + 1)
          BY <1>0
        <5>3. QED
          BY <5>1, <5>2 DEF InOrder
      <4>4. QED
        BY <2>1, <4>1, <4>2, <4>3 DEF LogFile
    <3>3. traceFile \in {"open", "none"}
      BY <2>1 DEF LogTypes, LogFile
    <3>4. QED
      BY <3>1, <3>2, <3>3
  <2>10. QED
    BY <2>6, <2>7, <2>8, <2>9
<1>4. CASE Log!Skip
  <2>1. /\ traceEntry # 0 /\ traceSkipped' = traceSkipped \cup {traceEntry} /\ traceEntry' = 0
        /\ UNCHANGED <<traceSize, traceSent, traceChannel, traceRing, traceFile, traceLines, traceClosed>>
    BY <1>4 DEF Log!Skip
  <2>2. Log!Consumed' = Log!Consumed
    BY <2>1 DEF Log!Consumed
  <2>3. traceEntry = Done + 1 /\ Done' = Done + 1 /\ traceFile = "open"
    BY <1>0, <2>1, <2>2 DEF Done, LogFile
  <2>4. InOrder(traceLines, traceSkipped, Done) /\ AllThere(traceLines, traceSkipped, Done)
    BY <2>3 DEF LogFile
  <2>5. /\ InOrder(traceLines, traceSkipped \cup {Done + 1}, Done + 1)
        /\ AllThere(traceLines, traceSkipped \cup {Done + 1}, Done + 1)
    BY <1>0, <2>4, SkipKeepsOrder DEF LogTypes
  <2>6. LogFile'
    BY <2>1, <2>2, <2>3, <2>5 DEF LogFile
  <2>7. LogTypes'
    BY <2>1 DEF LogTypes
  <2>8. QED
    BY <2>1, <2>2, <2>6, <2>7 DEF Queue, Newest
<1>5. CASE Log!Write
  <2>1. /\ traceEntry # 0 /\ traceEntry' = 0
        /\ UNCHANGED <<traceSize, traceSent, traceChannel, traceRing, traceSkipped, traceClosed>>
        /\ \/ traceLines' = Append(traceLines, traceEntry) /\ UNCHANGED traceFile
           \/ traceFile' = "none" /\ UNCHANGED traceLines
    BY <1>5 DEF Log!Write
  <2>2. Log!Consumed' = Log!Consumed
    BY <2>1 DEF Log!Consumed
  <2>3. traceEntry = Done + 1 /\ Done' = Done + 1 /\ traceFile = "open"
    BY <1>0, <2>1, <2>2 DEF Done, LogFile
  <2>4. InOrder(traceLines, traceSkipped, Done) /\ AllThere(traceLines, traceSkipped, Done)
    BY <2>3 DEF LogFile
  <2>5. LogTypes' /\ LogFile'
    <3>1. CASE traceLines' = Append(traceLines, traceEntry) /\ UNCHANGED traceFile
      <4>1. Done + 1 \in 1..MaxEntries
        <5>1. traceEntry = Log!Consumed
          BY <2>1 DEF LogFile
        <5>2. QED
          BY <1>0, <2>3, <5>1 DEF LogTypes
      <4>2. /\ traceLines' \in Seq(1..MaxEntries)
            /\ InOrder(traceLines', traceSkipped, Done + 1)
            /\ AllThere(traceLines', traceSkipped, Done + 1)
        BY <1>0, <2>3, <2>4, <3>1, <4>1, WriteKeepsOrder DEF LogTypes
      <4>3. QED
        BY <2>1, <2>2, <2>3, <3>1, <4>2 DEF LogFile, LogTypes
    <3>2. CASE traceFile' = "none" /\ UNCHANGED traceLines
      <4>1. InOrder(traceLines, traceSkipped, Done + 1)
        <5>1. 1..Done \subseteq 1..(Done + 1)
          BY <1>0
        <5>2. QED
          BY <2>4, <5>1 DEF InOrder
      <4>2. QED
        BY <2>1, <2>2, <2>3, <3>2, <4>1 DEF LogFile, LogTypes
    <3>3. QED
      BY <2>1, <3>1, <3>2
  <2>6. QED
    BY <2>1, <2>2, <2>5 DEF Queue, Newest
<1>6. CASE Log!Close \/ Log!Flush
  <2>1. /\ UNCHANGED <<traceSize, traceSent, traceChannel, traceRing, traceEntry, traceLines, traceSkipped>>
        /\ traceClosed' = TRUE
        /\ \/ UNCHANGED traceFile
           \/ traceFile = "open" /\ traceFile' = "flushed" /\ traceEntry = 0 /\ traceChannel = <<>>
    BY <1>6 DEF Log!Close, Log!Flush, LogTypes
  <2>2. Log!Consumed' = Log!Consumed /\ Done' = Done
    BY <2>1 DEF Log!Consumed, Done
  <2>3. LogFile'
    BY <2>1, <2>2 DEF LogFile
  <2>4. LogTypes'
    BY <2>1 DEF LogTypes
  <2>5. QED
    BY <2>1, <2>2, <2>3, <2>4 DEF Queue, Newest
<1>7. QED
  BY <1>1, <1>2, <1>3, <1>4, <1>5, <1>6 DEF Log!Next

LEMMA LogInvariant ==
  ASSUME LogConstants
  PROVE  LogSpec => []LogInv
<1>1. Log!Init => LogInv
  BY LogInit
<1>2. LogInv /\ [Log!Next]_(Log!traceVars) => LogInv'
  <2>1. ASSUME LogInv, Log!Next PROVE LogInv'
    BY <2>1, LogStep
  <2>2. ASSUME LogInv, UNCHANGED Log!traceVars PROVE LogInv'
    <3>1. UNCHANGED <<traceSize, traceSent, traceChannel, traceRing, traceEntry, traceFile,
                      traceLines, traceSkipped, traceClosed>>
      BY <2>2 DEF Log!traceVars
    <3>2. Log!Consumed' = Log!Consumed /\ Done' = Done
      BY <3>1 DEF Log!Consumed, Done
    <3>3. QED
      BY <2>2, <3>1, <3>2 DEF LogInv, LogTypes, LogFile, Queue, Newest
  <2>3. QED
    BY <2>1, <2>2
<1>3. QED
  BY <1>1, <1>2, PTL DEF LogSpec

LEMMA TraceRecent ==
  ASSUME LogConstants
  PROVE  LogSpec => []Log!RecentIsNewest
<1>1. LogInv => Log!RecentIsNewest
  <2> SUFFICES ASSUME LogInv, NEW count \in 0..(MaxEntries + 1)
               PROVE  LET kept == Log!Min({count, Log!Consumed, IF traceSize = 0 THEN 1 ELSE traceSize})
                      IN  Log!recent(count) = [i \in 1..kept |-> Log!Consumed + 1 - i]
    BY DEF Log!RecentIsNewest
  <2> DEFINE size == IF traceSize = 0 THEN 1 ELSE traceSize
             kept == Log!Min({count, Log!Consumed, size})
  <2>1. Log!Consumed \in Nat /\ size \in Nat /\ count \in Nat /\ Len(traceRing) \in Nat
    BY LogCounts, LenProperties DEF LogInv, LogTypes, LogConstants
  <2>2. Len(traceRing) = IF Log!Consumed < size THEN Log!Consumed ELSE size
    BY DEF LogInv, Newest
  <2>3. \A i \in 1..Len(traceRing) : traceRing[i] = Log!Consumed - Len(traceRing) + i
    BY DEF LogInv, Newest
  <2> HIDE DEF size
  <2>4. kept = Log!Min({count, Len(traceRing)}) /\ kept \in 0..Len(traceRing)
    <3>1. \A a, b \in Nat : Log!Min({a, b}) = IF a <= b THEN a ELSE b
      BY DEF Log!Min
    <3>2. \A a, b, c \in Nat : Log!Min({a, b, c}) = IF a <= b THEN IF a <= c THEN a ELSE c
                                                   ELSE IF b <= c THEN b ELSE c
      BY DEF Log!Min
    <3>3. QED
      BY <2>1, <2>2, <3>1, <3>2
  <2> HIDE DEF kept
  <2>5. Log!recent(count) = [i \in 1..kept |-> traceRing[Len(traceRing) + 1 - i]]
    BY <2>4 DEF Log!recent
  <2>6. ASSUME NEW i \in 1..kept PROVE traceRing[Len(traceRing) + 1 - i] = Log!Consumed + 1 - i
    <3>1. Len(traceRing) + 1 - i \in 1..Len(traceRing)
      BY <2>1, <2>4
    <3>2. QED
      BY <2>1, <2>3, <3>1
  <2>7. QED
    BY <2>5, <2>6 DEF kept, size
<1>2. QED
  BY <1>1, LogInvariant, PTL

LEMMA TraceFileComplete ==
  ASSUME LogConstants
  PROVE  LogSpec => []Log!FileHoldsPrefix
<1>1. LogInv => Log!FileHoldsPrefix
  <2> SUFFICES ASSUME LogInv PROVE Log!FileHoldsPrefix
    OBVIOUS
  <2>1. InOrder(traceLines, traceSkipped, Done)
    BY DEF LogInv, LogFile
  <2>2. traceFile = "flushed" => Len(traceLines) + Cardinality(traceSkipped) = traceSent
    <3>1. CASE traceFile = "flushed"
      <4>1. traceEntry = 0 /\ Len(traceChannel) = 0 /\ AllThere(traceLines, traceSkipped, Done)
        BY <3>1, EmptySeq DEF LogInv, LogFile
      <4>2. Done = traceSent
        BY <4>1, LogCounts
      <4>3. QED
        BY <4>1, <4>2 DEF AllThere
    <3>2. QED
      BY <3>1
  <2>3. Log!Cardinality(traceSkipped) = Cardinality(traceSkipped)
    BY Zenon DEF Log!Cardinality, Cardinality
  <2>4. QED
    BY <2>1, <2>2, <2>3 DEF Log!FileHoldsPrefix, InOrder
<1>2. QED
  BY <1>1, LogInvariant, PTL

-----------------------------------------------------------------------------
(* The path mapper.                                                        *)

PathSpec == Paths!Init /\ [][Paths!Next]_(Paths!pathVars)

\* A prefix, place by place.
LEMMA PrefixElements ==
  ASSUME NEW s \in Seq(Components), NEW t \in Seq(Components)
  PROVE  Paths!IsPrefix(s, t) <=> Len(s) <= Len(t) /\ \A i \in 1..Len(s) : s[i] = t[i]
<1>1. Len(s) \in Nat /\ Len(t) \in Nat
  BY LenProperties
<1>2. SubSeq(s, 1, Len(s)) = [i \in 1..Len(s) |-> s[i]]
  BY <1>1
<1>3. CASE Len(s) <= Len(t)
  <2>1. SubSeq(t, 1, Len(s)) = [i \in 1..Len(s) |-> t[i]]
    BY <1>1, <1>3
  <2>2. QED
    BY <1>2, <1>3, <2>1 DEF Paths!IsPrefix
<1>4. QED
  BY <1>3 DEF Paths!IsPrefix

\* Of two prefixes of one sequence one is a prefix of the other.
LEMMA PrefixesOfOne ==
  ASSUME NEW s \in Seq(Components), NEW t \in Seq(Components), NEW whole \in Seq(Components),
         Paths!IsPrefix(s, whole), Paths!IsPrefix(t, whole)
  PROVE  Paths!IsPrefix(s, t) \/ Paths!IsPrefix(t, s)
<1>1. Len(s) \in Nat /\ Len(t) \in Nat
  BY LenProperties
<1>2. /\ \A i \in 1..Len(s) : s[i] = whole[i]
      /\ \A i \in 1..Len(t) : t[i] = whole[i]
  BY PrefixElements
<1>3. CASE Len(s) <= Len(t)
  BY <1>1, <1>2, <1>3, PrefixElements
<1>4. CASE Len(t) <= Len(s)
  BY <1>1, <1>2, <1>4, PrefixElements
<1>5. QED
  BY <1>1, <1>3, <1>4

\* A prefix and what follows it make up the whole.
LEMMA PrefixAndRest ==
  ASSUME NEW s \in Seq(Components), NEW whole \in Seq(Components), Paths!IsPrefix(s, whole)
  PROVE  /\ Paths!Rest(whole, s) \in Seq(Components)
         /\ s \o Paths!Rest(whole, s) = whole
<1>1. Len(s) \in Nat /\ Len(whole) \in Nat /\ Len(s) <= Len(whole)
      /\ \A i \in 1..Len(s) : s[i] = whole[i]
  BY LenProperties, PrefixElements
<1>2. PICK r : r = Paths!Rest(whole, s) /\ r = SubSeq(whole, Len(s) + 1, Len(whole))
  BY DEF Paths!Rest
<1>3. r = [i \in 1..(Len(whole) - Len(s)) |-> whole[i + Len(s)]]
  BY <1>1, <1>2
<1>4. /\ r \in Seq(Components) /\ Len(r) = Len(whole) - Len(s)
      /\ \A i \in 1..Len(r) : r[i] = whole[i + Len(s)]
  <2>1. \A i \in 1..(Len(whole) - Len(s)) : whole[i + Len(s)] \in Components
    BY <1>1, ElementOfSeq
  <2>2. Len(whole) - Len(s) \in Nat
    BY <1>1
  <2>3. QED
    BY <1>3, <2>1, <2>2
<1>5. PICK c \in Seq(Components) : c = s \o r
  BY <1>4, ConcatProperties
<1>6. /\ Len(c) = Len(s) + Len(r)
      /\ \A i \in 1..(Len(s) + Len(r)) : c[i] = IF i <= Len(s) THEN s[i] ELSE r[i - Len(s)]
  BY <1>4, <1>5, ConcatProperties
<1>7. Len(c) = Len(whole)
  BY <1>1, <1>4, <1>6
<1>8. ASSUME NEW i \in 1..Len(c) PROVE c[i] = whole[i]
  <2>1. CASE i <= Len(s)
    BY <1>1, <1>4, <1>6, <2>1
  <2>2. CASE ~(i <= Len(s))
    <3>1. i - Len(s) \in 1..Len(r) /\ c[i] = r[i - Len(s)]
      BY <1>1, <1>4, <1>6, <2>2
    <3>2. (i - Len(s)) + Len(s) = i
      BY <1>1
    <3>3. QED
      BY <1>4, <3>1, <3>2
  <2>3. QED
    BY <2>1, <2>2
<1>9. c = whole
  BY <1>7, <1>8, SeqEqual
<1>10. QED
  BY <1>2, <1>4, <1>5, <1>9

\* What follows a sequence once something has been appended to it.
LEMMA RestOfConcat ==
  ASSUME NEW s \in Seq(Components), NEW r \in Seq(Components)
  PROVE  /\ s \o r \in Seq(Components) /\ Paths!IsPrefix(s, s \o r)
         /\ Paths!Rest(s \o r, s) = r
<1>1. PICK c \in Seq(Components) : c = s \o r
  BY ConcatProperties
<1>2. /\ Len(c) = Len(s) + Len(r)
      /\ \A i \in 1..(Len(s) + Len(r)) : c[i] = IF i <= Len(s) THEN s[i] ELSE r[i - Len(s)]
  BY <1>1, ConcatProperties
<1>3. Len(s) \in Nat /\ Len(r) \in Nat
  BY LenProperties
<1>4. Paths!IsPrefix(s, c)
  <2>1. Len(s) <= Len(c)
    BY <1>2, <1>3
  <2>2. \A i \in 1..Len(s) : i \in 1..(Len(s) + Len(r)) /\ i <= Len(s)
    BY <1>3
  <2>3. \A i \in 1..Len(s) : s[i] = c[i]
    BY <1>2, <2>2
  <2>4. QED
    BY <2>1, <2>3, PrefixElements
<1>5. Paths!Rest(c, s) \in Seq(Components) /\ Len(Paths!Rest(c, s)) = Len(r)
      /\ \A i \in 1..Len(r) : Paths!Rest(c, s)[i] = c[i + Len(s)]
  <2>1. Paths!Rest(c, s) = SubSeq(c, Len(s) + 1, Len(c))
    BY DEF Paths!Rest
  <2>2. SubSeq(c, Len(s) + 1, Len(c)) = [i \in 1..(Len(c) - Len(s)) |-> c[i + Len(s)]]
    BY <1>2, <1>3
  <2>3. Paths!Rest(c, s) \in Seq(Components)
    BY <1>4, PrefixAndRest
  <2>4. Len(c) - Len(s) = Len(r)
    BY <1>2, <1>3
  <2>5. QED
    BY <1>3, <2>1, <2>2, <2>3, <2>4
<1>6. \A i \in 1..Len(r) : c[i + Len(s)] = r[i]
  BY <1>2, <1>3
<1>7. Paths!Rest(c, s) = r
  BY <1>5, <1>6, SeqEqual
<1>8. QED
  BY <1>1, <1>4, <1>7

LEMMA PartsAreSequences ==
  ASSUME NEW p \in Paths!Parts
  PROVE  p \in Seq(Components)
<1>1. PICK n \in 0..MaxLength : p \in [1..n -> Components]
  BY DEF Paths!Parts, Paths!SeqOf
<1>2. CASE n \in Nat
  BY <1>1, <1>2, IsASeq
<1>3. CASE n \notin Nat
  BY <1>1, <1>3
<1>4. QED
  BY <1>2, <1>3

LEMMA RelativePath ==
  ASSUME NEW p
  PROVE  Paths!Relative(p).absolute = FALSE /\ Paths!Relative(p).parts = p
BY DEF Paths!Relative

\* What is resolved through an alias, when no alias starts with another: reverse's own.
LEMMA AliasResolvesBack ==
  ASSUME Paths!TypeOK, Paths!PrefixFree, NEW parts \in Paths!Parts,
         NEW a \in DOMAIN pathAliases, Paths!IsPrefix(pathAliases[a], parts)
  PROVE  Paths!resolve(Paths!Relative(a \o Paths!Rest(parts, pathAliases[a])))
           = Paths!Absolute(parts)
<1>1. /\ a \in Seq(Components) /\ pathAliases[a] \in Seq(Components) /\ parts \in Seq(Components)
      /\ \A b \in DOMAIN pathAliases : b \in Seq(Components)
  BY PartsAreSequences DEF Paths!TypeOK
<1>2. PICK r \in Seq(Components) : r = Paths!Rest(parts, pathAliases[a]) /\ pathAliases[a] \o r = parts
  BY <1>1, PrefixAndRest
<1>3. PICK shown \in Seq(Components) :
        shown = a \o r /\ Paths!IsPrefix(a, shown) /\ Paths!Rest(shown, a) = r
  BY <1>1, <1>2, RestOfConcat
<1>4. Paths!Matching(shown) = {a}
  <2>1. a \in Paths!Matching(shown)
    BY <1>3 DEF Paths!Matching
  <2>2. ASSUME NEW b \in Paths!Matching(shown) PROVE b = a
    <3>1. b \in DOMAIN pathAliases /\ b \in Seq(Components) /\ Paths!IsPrefix(b, shown)
      BY <1>1 DEF Paths!Matching
    <3>2. Paths!IsPrefix(a, b) \/ Paths!IsPrefix(b, a)
      BY <1>1, <1>3, <3>1, PrefixesOfOne
    <3>3. QED
      BY <3>1, <3>2 DEF Paths!PrefixFree
  <2>3. QED
    BY <2>1, <2>2
<1>5. (CHOOSE c \in Paths!Matching(shown) : \A b \in Paths!Matching(shown) : Len(b) <= Len(c)) = a
  BY <1>1, <1>4, LenProperties
<1>6. Paths!ViaAlias(shown) = Paths!Absolute(parts)
  BY <1>2, <1>3, <1>5 DEF Paths!ViaAlias
<1>7. QED
  <2>1. PICK path : path = Paths!Relative(shown) /\ path.absolute = FALSE /\ path.parts = shown
    BY RelativePath
  <2>2. Paths!resolve(path) = Paths!ViaAlias(path.parts)
    BY <1>4, <2>1 DEF Paths!resolve
  <2>3. QED
    BY <1>2, <1>3, <1>6, <2>1, <2>2

\* The same through the one base directory there is.
LEMMA BaseResolvesBack ==
  ASSUME Paths!TypeOK, NEW parts \in Paths!Parts, DOMAIN pathAliases = {}, Len(pathBases) = 1,
         Paths!IsPrefix(pathBases[1], parts)
  PROVE  /\ Paths!reverse(parts) = {Paths!Relative(Paths!Rest(parts, pathBases[1]))}
         /\ Paths!resolve(Paths!Relative(Paths!Rest(parts, pathBases[1]))) = Paths!Absolute(parts)
<1>1. pathBases[1] \in Seq(Components) /\ parts \in Seq(Components) /\ pathBases # <<>>
  BY PartsAreSequences, EmptySeq, ElementOfSeq DEF Paths!TypeOK
<1>2. PICK r : r = Paths!Rest(parts, pathBases[1]) /\ pathBases[1] \o r = parts
  BY <1>1, PrefixAndRest
<1>3. Paths!Containing(parts) = {} /\ Paths!Matching(r) = {}
  BY DEF Paths!Containing, Paths!Matching
<1>4. Paths!reverse(parts) = {Paths!Relative(r)}
  <2>1. {i \in 1..Len(pathBases) : Paths!IsPrefix(pathBases[i], parts)} = {1}
    OBVIOUS
  <2>2. Paths!Min({1}) = 1
    BY DEF Paths!Min
  <2>3. Paths!BaseOf(parts) = 1
    BY <2>1, <2>2 DEF Paths!BaseOf, Paths!SelectInSeq
  <2>4. QED
    BY <1>2, <1>3, <2>3 DEF Paths!reverse
<1>5. Paths!ViaBase(r) = Paths!Absolute(parts)
  <2>1. PICK found : found = Paths!SelectInSeq(pathBases, LAMBDA b : b \o r \in pathExisting)
    OBVIOUS
  <2>2. found \in {0, 1}
    <3>1. PICK I : I = {i \in 1..Len(pathBases) : pathBases[i] \o r \in pathExisting}
      OBVIOUS
    <3>2. I \in {{}, {1}}
      BY <3>1
    <3>3. Paths!Min({1}) = 1
      BY DEF Paths!Min
    <3>4. found = IF I # {} THEN Paths!Min(I) ELSE 0
      BY <2>1, <3>1 DEF Paths!SelectInSeq
    <3>5. QED
      BY <3>2, <3>3, <3>4
  <2>3. QED
    BY <1>1, <1>2, <2>1, <2>2 DEF Paths!ViaBase
<1>6. PICK path : path = Paths!Relative(r) /\ path.absolute = FALSE /\ path.parts = r
  BY RelativePath
<1>7. Paths!resolve(path) = Paths!ViaBase(path.parts)
  BY <1>3, <1>6 DEF Paths!resolve
<1>8. QED
  BY <1>2, <1>4, <1>5, <1>6, <1>7

LEMMA PathTypes ==
  ASSUME MaxLength \in Nat
  PROVE  PathSpec => []Paths!TypeOK
<1>1. Paths!Init => Paths!TypeOK
  <2> SUFFICES ASSUME Paths!Init PROVE Paths!TypeOK
    OBVIOUS
  <2>1. DOMAIN pathAliases = {} /\ pathBases = <<>>
    BY DEF Paths!Init
  <2>2. QED
    BY <2>1, EmptySeq DEF Paths!TypeOK
<1>2. Paths!TypeOK /\ [Paths!Next]_(Paths!pathVars) => Paths!TypeOK'
  <2>1. ASSUME Paths!TypeOK, Paths!register_alias PROVE Paths!TypeOK'
    <3>1. PICK alias \in Paths!Parts, dir \in Paths!Parts :
            /\ pathAliases' = [a \in DOMAIN pathAliases \cup {alias} |->
                                 IF a = alias THEN dir ELSE pathAliases[a]]
            /\ pathBases' = pathBases
      BY <2>1 DEF Paths!register_alias
    <3>2. QED
      BY <2>1, <3>1 DEF Paths!TypeOK
  <2>2. ASSUME Paths!TypeOK, Paths!register_base_dir PROVE Paths!TypeOK'
    BY <2>2, AppendProperties DEF Paths!TypeOK, Paths!register_base_dir
  <2>3. ASSUME Paths!TypeOK, UNCHANGED Paths!pathVars PROVE Paths!TypeOK'
    BY <2>3 DEF Paths!TypeOK, Paths!pathVars
  <2>4. QED
    BY <2>1, <2>2, <2>3 DEF Paths!Next
<1>3. QED
  BY <1>1, <1>2, PTL DEF PathSpec

LEMMA MapperReverses ==
  ASSUME MaxLength \in Nat
  PROVE  PathSpec => []Paths!ListedPathResolvesBack
<1>1. Paths!TypeOK => Paths!ListedPathResolvesBack
  <2> SUFFICES ASSUME Paths!TypeOK, NEW parts \in Paths!Parts, Paths!PrefixFree,
                      \/ Paths!Containing(parts) # {}
                      \/ DOMAIN pathAliases = {} /\ Len(pathBases) = 1
                         /\ Paths!IsPrefix(pathBases[1], parts),
                      NEW shown \in Paths!reverse(parts)
               PROVE  Paths!resolve(shown) = Paths!Absolute(parts)
    BY DEF Paths!ListedPathResolvesBack
  <2>1. CASE Paths!Containing(parts) # {}
    <3>1. PICK a \in Paths!Closest(parts) :
            shown = Paths!Relative(a \o Paths!Rest(parts, pathAliases[a]))
      BY <2>1 DEF Paths!reverse, Paths!ShownByAlias
    <3>2. a \in DOMAIN pathAliases /\ Paths!IsPrefix(pathAliases[a], parts)
      BY DEF Paths!Closest, Paths!Containing
    <3>3. QED
      BY <3>1, <3>2, AliasResolvesBack
  <2>2. CASE Paths!Containing(parts) = {}
    BY <2>2, BaseResolvesBack
  <2>3. QED
    BY <2>1, <2>2
<1>2. QED
  BY <1>1, PathTypes, PTL

-----------------------------------------------------------------------------
(* The MCP server over stdio.                                              *)

StdioSpec == Stdio!Init /\ [][Stdio!Next]_(Stdio!stdioVars)

\* A line's id is a number or something else, or not there.
StdioConstants ==
  \A line \in InputLines : line.id \in {"absent", "null", "number", "string"} /\ line.number \in Nat

Written == InputLines \cup {Stdio!Blank}

LEMMA WrittenLine ==
  ASSUME StdioConstants, NEW line \in Written
  PROVE  line.id \in {"absent", "null", "number", "string"} /\ line.number \in Nat
BY DEF StdioConstants, Written, Stdio!Blank

Answers == [kind : {"result", "error"}, id : Nat, tools : SUBSET Stdio!AllTools]

\* A result without tools: what the handshake is answered with.
Handshaken(answers) == \E i \in DOMAIN answers : answers[i].kind = "result" /\ answers[i].tools = {}

\* A list of tools has the handshake's answer before it.
ListsAfterHandshake(answers) ==
  \A i \in DOMAIN answers :
    answers[i].tools # {} =>
      \E j \in 1..(i - 1) : answers[j].kind = "result" /\ answers[j].tools = {}

\* The ids owed for the first n lines.
Owed(input, n) == Stdio!FlattenSeq([i \in 1..n |-> Stdio!Owed(input[i])])

StdioTypes ==
  /\ stdioStep \in {"read", "call", "write", "cleanup", "end"}
  /\ stdioInput \in Seq(Written) /\ stdioRead \in 0..Len(stdioInput)
  /\ stdioAnswer \in Seq(Answers) /\ Len(stdioAnswer) <= 1 /\ stdioOutput \in Seq(Answers)
  /\ stdioState \in Stdio!SessionStates /\ stdioInitialized \in BOOLEAN

\* The line that has been read and not answered yet is accounted for by the answer in
\* hand, or by the message a tool runs for.
Account ==
  /\ stdioStep \in {"read", "cleanup", "end"} =>
       Stdio!Ids(stdioOutput) = Owed(stdioInput, stdioRead)
  /\ stdioStep = "write" =>
       Stdio!Ids(stdioOutput) \o Stdio!Ids(stdioAnswer) = Owed(stdioInput, stdioRead)
  /\ stdioStep = "call" =>
       /\ Stdio!Ids(stdioOutput) \o <<stdioMessage.number>> = Owed(stdioInput, stdioRead)
       /\ stdioMessage.kind = "request" /\ stdioMessage.method = "tools/call"
       /\ stdioMessage.tool \notin {"no params", "no name"} /\ stdioMessage.number \in Nat
       /\ stdioInitialized

Handshake ==
  /\ ListsAfterHandshake(stdioOutput)
  /\ stdioInitialized => \/ Handshaken(stdioOutput)
                         \/ stdioStep = "write" /\ Handshaken(stdioAnswer)
  /\ stdioStep = "write" =>
       \A i \in DOMAIN stdioAnswer : stdioAnswer[i].tools # {} => Handshaken(stdioOutput)

Ending ==
  /\ stdioStep \in {"cleanup", "end"} => stdioClosed /\ stdioRead = Len(stdioInput)
  /\ stdioStep = "end" => stdioState = "Disconnected"

StdioInv == StdioTypes /\ Account /\ Handshake /\ Ending

LEMMA SameFlattenSeq ==
  ASSUME NEW s
  PROVE  Stdio!FlattenSeq(s) = FlattenSeq(s)
BY Zenon DEF Stdio!FlattenSeq, FlattenSeq

\* Nothing is owed for no line.
LEMMA OwedNothing ==
  ASSUME NEW input
  PROVE  Owed(input, 0) = <<>>
<1>1. [i \in 1..0 |-> Stdio!Owed(input[i])] = <<>>
  OBVIOUS
<1>2. Len(<<>>) = 0
  OBVIOUS
<1>3. QED
  BY <1>1, <1>2 DEF Owed, Stdio!FlattenSeq

\* For one line more is owed what that line is owed.
LEMMA OwedForOneMore ==
  ASSUME StdioConstants, NEW input \in Seq(Written), NEW n \in Nat, n + 1 <= Len(input)
  PROVE  /\ Owed(input, n) \in Seq(Nat)
         /\ Owed(input, n + 1) = Owed(input, n) \o Stdio!Owed(input[n + 1])
         /\ Stdio!Owed(input[n + 1]) \in Seq(Nat)
<1> DEFINE s == [i \in 1..n |-> Stdio!Owed(input[i])]
           t == [i \in 1..(n + 1) |-> Stdio!Owed(input[i])]
           x == Stdio!Owed(input[n + 1])
<1>1. \A line \in Written : Stdio!Owed(line) \in Seq(Nat)
  <2> TAKE line \in Written
  <2>1. Stdio!Owed(line) \in {<<>>, <<line.number>>, <<0>>}
    BY DEF Stdio!Owed
  <2>2. line.number \in Nat
    BY WrittenLine
  <2>3. <<>> \in Seq(Nat) /\ <<line.number>> \in Seq(Nat) /\ <<0>> \in Seq(Nat)
    BY <2>2
  <2>4. QED
    BY <2>1, <2>3
<1>2. Len(input) \in Nat /\ \A i \in 1..Len(input) : input[i] \in Written
  BY LenProperties, ElementOfSeq
<1>3. \A i \in 1..(n + 1) : i \in 1..Len(input)
  BY <1>2
<1>4. x \in Seq(Nat) /\ \A i \in 1..(n + 1) : Stdio!Owed(input[i]) \in Seq(Nat)
  <2>1. \A i \in 1..(n + 1) : Stdio!Owed(input[i]) \in Seq(Nat)
    BY <1>1, <1>2, <1>3
  <2>2. n + 1 \in 1..(n + 1)
    OBVIOUS
  <2>3. QED
    BY <2>1, <2>2
<1>5. s \in Seq(Seq(Nat)) /\ t \in Seq(Seq(Nat)) /\ Len(s) = n /\ Len(t) = n + 1
  <2>1. s \in [1..n -> Seq(Nat)] /\ t \in [1..(n + 1) -> Seq(Nat)]
    BY <1>4
  <2>2. QED
    BY <2>1, IsASeq, LenProperties
<1>6. t = Append(s, x)
  <2>1. PICK a \in Seq(Seq(Nat)) : a = Append(s, x)
    BY <1>4, <1>5, AppendProperties
  <2>2. Len(a) = n + 1 /\ a[n + 1] = x /\ \A i \in 1..n : a[i] = s[i]
    <3> HIDE DEF s, x
    <3>1. QED
      BY <1>4, <1>5, <2>1, AppendProperties
  <2>3. \A i \in 1..(n + 1) : a[i] = t[i]
    <3> TAKE i \in 1..(n + 1)
    <3>1. CASE i = n + 1
      BY <2>2, <3>1
    <3>2. CASE i \in 1..n
      BY <2>2, <3>2
    <3>3. QED
      BY <3>1, <3>2
  <2>4. QED
    <3> HIDE DEF s, t, x
    <3>1. QED
      BY <1>5, <2>1, <2>2, <2>3, SeqEqual
<1>7. Owed(input, n) = FlattenSeq(s) /\ Owed(input, n + 1) = FlattenSeq(t)
  BY SameFlattenSeq DEF Owed
<1> HIDE DEF s, t, x
<1>8. FlattenSeq(s) \in Seq(Nat) /\ FlattenSeq(t) = FlattenSeq(s) \o x
  <2>1. x \in Seq(Nat) /\ s \in Seq(Seq(Nat)) /\ t \in Seq(Seq(Nat)) /\ t = Append(s, x)
    BY <1>4, <1>5, <1>6
  <2>2. FlattenSeq(s) \in Seq(Nat)
    BY <2>1, FlattenType
  <2>3. FlattenSeq(t) = FlattenSeq(s) \o x
    BY <2>1, FlattenAppend
  <2>4. QED
    BY <2>2, <2>3
<1>9. QED
  BY <1>4, <1>7, <1>8 DEF x

\* The lines read so far are owed the same when more are written.
LEMMA OwedForPrefix ==
  ASSUME NEW input, NEW more, NEW n, \A i \in 1..n : more[i] = input[i]
  PROVE  Owed(more, n) = Owed(input, n)
<1>1. [i \in 1..n |-> Stdio!Owed(more[i])] = [i \in 1..n |-> Stdio!Owed(input[i])]
  OBVIOUS
<1>2. QED
  BY <1>1 DEF Owed

\* One answer, and none.
LEMMA OneAnswer ==
  ASSUME NEW a \in Answers, NEW reply, reply = <<a>>
  PROVE  /\ reply \in Seq(Answers) /\ Len(reply) <= 1 /\ Stdio!Ids(reply) = <<a.id>>
         /\ DOMAIN reply = {1} /\ reply[1] = a
<1>1. reply \in Seq(Answers) /\ Len(reply) = 1 /\ DOMAIN reply = 1..1 /\ reply[1] = a
  OBVIOUS
<1>2. Stdio!Ids(reply) = [i \in 1..1 |-> a.id]
  BY <1>1 DEF Stdio!Ids
<1>3. QED
  BY <1>1, <1>2

LEMMA NoAnswer ==
  /\ <<>> \in Seq(Answers) /\ Len(<<>>) <= 1 /\ Stdio!Ids(<<>>) = <<>> /\ DOMAIN <<>> = {}
<1>1. Stdio!Ids(<<>>) = <<>>
  BY DEF Stdio!Ids
<1>2. QED
  BY <1>1, EmptySeq

\* What the parser makes of a line, and what the line is owed.
LEMMA ParsedLine ==
  ASSUME StdioConstants, NEW line \in Written, line.json # "blank"
  PROVE  LET m == Stdio!parse_incoming(line) IN
         /\ m.number = line.number /\ line.number \in Nat /\ m.method = line.method
         /\ \/ m.kind = "malformed" /\ Stdio!Owed(line) = <<0>>
            \/ m.kind = "notification" /\ Stdio!Owed(line) = <<>>
            \/ m.kind = "request" /\ Stdio!Owed(line) = <<m.number>>
<1>1. line.id \in {"absent", "null", "number", "string"} /\ line.number \in Nat
  BY WrittenLine
<1>2. \A kind : /\ Stdio!Message(kind, line).kind = kind
                /\ Stdio!Message(kind, line).number = line.number
                /\ Stdio!Message(kind, line).method = line.method
  BY DEF Stdio!Message
<1>3. CASE line.json # "object" \/ line.method = "none" \/ line.id = "string"
  <2>1. Stdio!parse_incoming(line) = Stdio!Message("malformed", line)
    BY <1>3 DEF Stdio!parse_incoming
  <2>2. Stdio!Owed(line) = <<0>>
    BY <1>3 DEF Stdio!Owed
  <2>3. QED
    BY <1>1, <1>2, <2>1, <2>2
<1>4. CASE line.json = "object" /\ line.method # "none" /\ line.id \in {"absent", "null"}
  <2>1. Stdio!parse_incoming(line) = Stdio!Message("notification", line)
    BY <1>4 DEF Stdio!parse_incoming
  <2>2. Stdio!Owed(line) = <<>>
    BY <1>4 DEF Stdio!Owed
  <2>3. QED
    BY <1>1, <1>2, <2>1, <2>2
<1>5. CASE line.json = "object" /\ line.method # "none" /\ line.id = "number"
  <2>1. Stdio!parse_incoming(line) = Stdio!Message("request", line)
    BY <1>5 DEF Stdio!parse_incoming
  <2>2. Stdio!Owed(line) = <<line.number>>
    BY <1>5 DEF Stdio!Owed
  <2>3. QED
    BY <1>1, <1>2, <2>1, <2>2
<1>6. QED
  BY <1>1, <1>3, <1>4, <1>5

\* A request is answered once, with a list of tools only after the handshake.
LEMMA AnsweredRequest ==
  ASSUME NEW m, m.kind = "request", m.number \in Nat, NEW known \in BOOLEAN, NEW s \in Stdio!SessionStates
  PROVE  \E a \in Answers :
           /\ Stdio!handle_message(m, known, s) = <<a>> /\ a.id = m.number
           /\ a.tools # {} => known
           /\ m.method = "initialize" => a.kind = "result" /\ a.tools = {}
<1> DEFINE reply == Stdio!handle_message(m, known, s)
<1>1. PICK kind \in {"result", "error"}, tools \in SUBSET Stdio!AllTools :
        /\ reply = <<Stdio!Answer(kind, m.number, tools)>>
        /\ tools # {} => known
        /\ m.method = "initialize" => kind = "result" /\ tools = {}
  <2>1. Stdio!list_tools_for_state(s) \in SUBSET Stdio!AllTools
    BY DEF Stdio!list_tools_for_state
  <2>2. CASE Stdio!Refused(m, known)
    <3>1. reply = <<Stdio!Answer("error", m.number, {})>> /\ m.method # "initialize"
      BY <2>2 DEF Stdio!handle_message, Stdio!Refused
    <3>2. QED
      BY <3>1
  <2>3. CASE m.method = "initialize"
    <3>1. reply = <<Stdio!Answer("result", m.number, {})>>
      BY <2>3 DEF Stdio!handle_message, Stdio!Refused
    <3>2. QED
      BY <3>1
  <2>4. CASE ~Stdio!Refused(m, known) /\ m.method = "tools/list"
    <3>1. reply = <<Stdio!Answer("result", m.number, Stdio!list_tools_for_state(s))>> /\ known
      BY <2>4 DEF Stdio!handle_message, Stdio!Refused
    <3>2. m.method # "initialize"
      BY <2>4
    <3>3. QED
      BY <2>1, <3>1, <3>2
  <2>5. CASE ~Stdio!Refused(m, known) /\ m.method = "tools/call"
    <3>1. PICK kind \in {"result", "error"} : reply = <<Stdio!Answer(kind, m.number, {})>>
      <4>1. reply = <<Stdio!Answer(IF m.tool \in {"no params", "no name"} THEN "error" ELSE "result",
                                   m.number, {})>>
        BY <2>5 DEF Stdio!handle_message
      <4>2. QED
        BY <4>1
    <3>2. m.method # "initialize"
      BY <2>5
    <3>3. QED
      BY <3>1, <3>2
  <2>6. CASE ~Stdio!Refused(m, known) /\ m.method \notin {"initialize", "tools/list", "tools/call"}
    <3>1. reply = <<Stdio!Answer("error", m.number, {})>>
      BY <2>6 DEF Stdio!handle_message
    <3>2. QED
      BY <2>6, <3>1
  <2>7. QED
    BY <2>2, <2>3, <2>4, <2>5, <2>6
<1>2. PICK a : a = Stdio!Answer(kind, m.number, tools)
  OBVIOUS
<1>3. a \in Answers /\ a.id = m.number /\ a.kind = kind /\ a.tools = tools
  BY <1>2 DEF Stdio!Answer, Answers
<1>4. QED
  BY <1>1, <1>2, <1>3

\* What a line that reaches no tool is answered is what it is owed.
LEMMA HandledLine ==
  ASSUME StdioConstants, NEW line \in Written, line.json # "blank", NEW known \in BOOLEAN,
         NEW s \in Stdio!SessionStates, NEW m, m = Stdio!parse_incoming(line), NEW reply,
         reply = IF m.kind = "malformed" THEN <<Stdio!ParseError>>
                 ELSE Stdio!handle_message(m, known, s)
  PROVE  /\ reply \in Seq(Answers) /\ Len(reply) <= 1 /\ Stdio!Ids(reply) = Stdio!Owed(line)
         /\ \A i \in DOMAIN reply : reply[i].tools # {} => known
         /\ Stdio!InitializedAfter(m, known) => known \/ Handshaken(reply)
<1>1. CASE m.kind = "malformed"
  <2>1. PICK a : a = Stdio!ParseError
    OBVIOUS
  <2>2. a \in Answers /\ a.id = 0 /\ a.tools = {}
    BY <2>1 DEF Answers, Stdio!ParseError, Stdio!Answer
  <2>3. reply = <<a>> /\ Stdio!Owed(line) = <<0>>
    BY <1>1, <2>1, ParsedLine
  <2>4. ~(m.kind = "request")
    BY <1>1
  <2>5. QED
    BY <2>2, <2>3, <2>4, OneAnswer DEF Stdio!InitializedAfter
<1>2. CASE m.kind = "notification"
  <2>1. reply = <<>>
    BY <1>2 DEF Stdio!handle_message
  <2>2. Stdio!Owed(line) = <<>>
    BY <1>2, ParsedLine
  <2>3. ~(m.kind = "request")
    BY <1>2
  <2>4. QED
    BY <2>1, <2>2, <2>3, NoAnswer DEF Stdio!InitializedAfter
<1>3. CASE m.kind = "request"
  <2>1. m.number \in Nat /\ Stdio!Owed(line) = <<m.number>>
    BY <1>3, ParsedLine
  <2>2. PICK a \in Answers :
          /\ Stdio!handle_message(m, known, s) = <<a>> /\ a.id = m.number
          /\ a.tools # {} => known
          /\ m.method = "initialize" => a.kind = "result" /\ a.tools = {}
    BY <1>3, <2>1, AnsweredRequest
  <2>3. reply = <<a>>
    BY <1>3, <2>2
  <2>4. QED
    BY <2>1, <2>2, <2>3, OneAnswer DEF Stdio!InitializedAfter, Handshaken
<1>4. QED
  BY <1>1, <1>2, <1>3, ParsedLine

\* The ids of answers written one batch after the other.
LEMMA IdsOfConcat ==
  ASSUME NEW s \in Seq(Answers), NEW t \in Seq(Answers)
  PROVE  /\ s \o t \in Seq(Answers)
         /\ Stdio!Ids(s \o t) = Stdio!Ids(s) \o Stdio!Ids(t)
<1>1. /\ Len(s) \in Nat /\ DOMAIN s = 1..Len(s) /\ Len(t) \in Nat /\ DOMAIN t = 1..Len(t)
      /\ \A i \in 1..Len(s) : s[i] \in Answers
      /\ \A i \in 1..Len(t) : t[i] \in Answers
  BY LenProperties, ElementOfSeq
<1>2. PICK c \in Seq(Answers) : c = s \o t
  BY ConcatProperties
<1>3. /\ Len(c) = Len(s) + Len(t) /\ DOMAIN c = 1..(Len(s) + Len(t))
      /\ \A i \in 1..(Len(s) + Len(t)) : c[i] = IF i <= Len(s) THEN s[i] ELSE t[i - Len(s)]
  BY <1>1, <1>2, ConcatProperties, LenProperties
<1>4. ASSUME NEW u \in Seq(Answers)
      PROVE  /\ Stdio!Ids(u) \in Seq(Nat) /\ Len(Stdio!Ids(u)) = Len(u)
             /\ \A i \in 1..Len(u) : Stdio!Ids(u)[i] = u[i].id
  <2>1. Len(u) \in Nat /\ DOMAIN u = 1..Len(u) /\ \A i \in 1..Len(u) : u[i].id \in Nat
    <3>1. \A a \in Answers : a.id \in Nat
      BY DEF Answers
    <3>2. \A i \in 1..Len(u) : u[i] \in Answers
      BY ElementOfSeq
    <3>3. QED
      BY <3>1, <3>2, LenProperties
  <2>2. Stdio!Ids(u) = [i \in 1..Len(u) |-> u[i].id]
    BY <2>1 DEF Stdio!Ids
  <2>3. Stdio!Ids(u) \in [1..Len(u) -> Nat]
    BY <2>1, <2>2
  <2>4. QED
    BY <2>1, <2>2, <2>3, IsASeq, LenProperties
<1>5. PICK x \in Seq(Nat), y \in Seq(Nat), z \in Seq(Nat) :
        x = Stdio!Ids(s) /\ y = Stdio!Ids(t) /\ z = Stdio!Ids(c)
  BY <1>4
<1>6. /\ Len(x) = Len(s) /\ \A i \in 1..Len(s) : x[i] = s[i].id
      /\ Len(y) = Len(t) /\ \A i \in 1..Len(t) : y[i] = t[i].id
      /\ Len(z) = Len(c) /\ \A i \in 1..Len(c) : z[i] = c[i].id
  BY <1>4, <1>5
<1>7. PICK w \in Seq(Nat) : w = x \o y
  BY ConcatProperties
<1>8. /\ Len(w) = Len(s) + Len(t)
      /\ \A i \in 1..(Len(s) + Len(t)) : w[i] = IF i <= Len(s) THEN x[i] ELSE y[i - Len(s)]
  BY <1>6, <1>7, ConcatProperties
<1>9. ASSUME NEW i \in 1..Len(w) PROVE w[i] = z[i]
  <2>1. i \in 1..(Len(s) + Len(t)) /\ z[i] = c[i].id
    BY <1>3, <1>6, <1>8
  <2>2. CASE i <= Len(s)
    <3>1. i \in 1..Len(s) /\ w[i] = x[i] /\ c[i] = s[i]
      BY <1>1, <1>3, <1>8, <2>1, <2>2
    <3>2. QED
      BY <1>6, <2>1, <3>1
  <2>3. CASE ~(i <= Len(s))
    <3>1. i - Len(s) \in 1..Len(t)
      <4>1. i \in Nat /\ Len(s) \in Nat /\ Len(t) \in Nat /\ i <= Len(s) + Len(t)
        BY <2>1, LenProperties
      <4>2. QED
        BY <2>3, <4>1
    <3>2. w[i] = y[i - Len(s)] /\ c[i] = t[i - Len(s)]
      BY <1>3, <1>8, <2>1, <2>3
    <3>3. QED
      BY <1>6, <2>1, <3>1, <3>2
  <2>4. QED
    BY <2>2, <2>3
<1>10. w = z
  BY <1>3, <1>6, <1>8, <1>9, SeqEqual
<1>11. QED
  BY <1>2, <1>5, <1>7, <1>10

LEMMA StdioInit ==
  ASSUME Stdio!Init
  PROVE  StdioInv
<1>1. /\ stdioInput = <<>> /\ stdioRead = 0 /\ stdioStep = "read" /\ stdioAnswer = <<>>
      /\ stdioOutput = <<>> /\ stdioInitialized = FALSE /\ stdioState = "Disconnected"
  BY DEF Stdio!Init
<1>2. <<>> \in Seq(Written) /\ Len(<<>>) = 0
  BY EmptySeq
<1>3. StdioTypes
  <2>1. stdioRead \in 0..Len(stdioInput) /\ Len(stdioAnswer) <= 1
    BY <1>1, <1>2
  <2>2. stdioAnswer \in Seq(Answers) /\ stdioOutput \in Seq(Answers) /\ stdioInput \in Seq(Written)
    BY <1>1, <1>2, NoAnswer
  <2>3. QED
    BY <1>1, <2>1, <2>2 DEF StdioTypes, Stdio!SessionStates
<1>4. Account
  BY <1>1, NoAnswer, OwedNothing DEF Account
<1>5. Handshake
  BY <1>1, NoAnswer DEF Handshake, ListsAfterHandshake
<1>6. Ending
  BY <1>1 DEF Ending
<1>7. QED
  BY <1>3, <1>4, <1>5, <1>6 DEF StdioInv

\* The client's steps.
LEMMA ClientStep ==
  ASSUME StdioConstants, StdioInv, Stdio!WriteLine \/ Stdio!CloseStdin
  PROVE  StdioInv'
<1> USE DEF StdioInv
<1>1. CASE Stdio!WriteLine
  <2>1. PICK line \in InputLines \cup {Stdio!Blank} : stdioInput' = Append(stdioInput, line)
    BY <1>1 DEF Stdio!WriteLine
  <2>2. /\ ~stdioClosed
        /\ UNCHANGED <<stdioRead, stdioStep, stdioMessage, stdioAnswer, stdioOutput, stdioClosed,
                       stdioInitialized, stdioState>>
    BY <1>1 DEF Stdio!WriteLine
  <2>3. line \in Written
    BY DEF Written
  <2>4. /\ stdioInput' \in Seq(Written) /\ Len(stdioInput') = Len(stdioInput) + 1
        /\ \A i \in 1..Len(stdioInput) : stdioInput'[i] = stdioInput[i]
    BY <2>1, <2>3, AppendProperties DEF StdioTypes
  <2>5. Len(stdioInput) \in Nat
    BY LenProperties DEF StdioTypes
  <2>6. StdioTypes'
    BY <2>2, <2>4, <2>5 DEF StdioTypes
  <2>7. Owed(stdioInput', stdioRead) = Owed(stdioInput, stdioRead)
    <3>1. \A i \in 1..stdioRead : stdioInput'[i] = stdioInput[i]
      BY <2>4, <2>5 DEF StdioTypes
    <3>2. QED
      BY <3>1, OwedForPrefix
  <2>8. Account' /\ Handshake' /\ Ending'
    BY <2>2, <2>7 DEF Account, Handshake, Ending
  <2>9. QED
    BY <2>6, <2>8
<1>2. CASE Stdio!CloseStdin
  <2>1. /\ stdioClosed'
        /\ UNCHANGED <<stdioInput, stdioRead, stdioStep, stdioMessage, stdioAnswer, stdioOutput,
                       stdioInitialized, stdioState>>
    BY <1>2 DEF Stdio!CloseStdin
  <2>2. QED
    BY <2>1 DEF StdioTypes, Account, Handshake, Ending
<1>3. QED
  BY <1>1, <1>2

\* A line is read: passed over, or handled.
LEMMA ReadStep ==
  ASSUME StdioConstants, StdioInv, Stdio!Skip \/ Stdio!Handle
  PROVE  StdioInv'
<1> USE DEF StdioInv
<1> DEFINE line == stdioInput[stdioRead + 1]
           m == Stdio!parse_incoming(line)
<1>1. stdioStep = "read" /\ stdioRead < Len(stdioInput) /\ stdioRead' = stdioRead + 1
      /\ UNCHANGED <<stdioInput, stdioOutput, stdioClosed, stdioState>>
  BY DEF Stdio!Skip, Stdio!Handle
<1>2. line \in Written /\ stdioRead \in Nat /\ stdioRead + 1 \in 0..Len(stdioInput)
      /\ stdioRead + 1 <= Len(stdioInput) /\ stdioInput \in Seq(Written)
  <2>1. Len(stdioInput) \in Nat /\ \A i \in 1..Len(stdioInput) : stdioInput[i] \in Written
    BY LenProperties, ElementOfSeq DEF StdioTypes
  <2>2. stdioRead + 1 \in 1..Len(stdioInput)
    BY <1>1, <2>1 DEF StdioTypes
  <2>3. QED
    BY <1>1, <2>1, <2>2 DEF StdioTypes
<1>3. /\ Stdio!Ids(stdioOutput) = Owed(stdioInput, stdioRead)
      /\ Owed(stdioInput, stdioRead + 1) = Owed(stdioInput, stdioRead) \o Stdio!Owed(line)
      /\ Owed(stdioInput, stdioRead) \in Seq(Nat)
  BY <1>1, <1>2, OwedForOneMore DEF Account
<1>4. ListsAfterHandshake(stdioOutput) /\ (stdioInitialized => Handshaken(stdioOutput))
      /\ stdioInitialized \in BOOLEAN /\ stdioState \in Stdio!SessionStates
  BY <1>1 DEF Handshake, StdioTypes
<1>5. CASE Stdio!Skip
  <2>1. line.json = "blank" /\ UNCHANGED <<stdioStep, stdioMessage, stdioAnswer, stdioInitialized>>
    BY <1>5 DEF Stdio!Skip
  <2>2. Stdio!Owed(line) = <<>>
    BY <2>1 DEF Stdio!Owed
  <2>3. Owed(stdioInput, stdioRead + 1) = Owed(stdioInput, stdioRead)
    BY <1>3, <2>2, ConcatEmptySeq
  <2>4. StdioTypes'
    BY <1>1, <1>2, <2>1 DEF StdioTypes
  <2>5. Account'
    BY <1>1, <1>3, <2>1, <2>3 DEF Account
  <2>6. Handshake' /\ Ending'
    BY <1>1, <1>4, <2>1 DEF Handshake, Ending
  <2>7. QED
    BY <2>4, <2>5, <2>6
<1>6. CASE Stdio!Handle /\ Stdio!Runs(m, stdioInitialized, stdioState)
  <2>1. /\ line.json # "blank" /\ stdioMessage' = m /\ stdioStep' = "call" /\ stdioAnswer' = <<>>
        /\ stdioInitialized' = Stdio!InitializedAfter(m, stdioInitialized)
    BY <1>6 DEF Stdio!Handle
  <2>2. /\ m.kind = "request" /\ m.method = "tools/call" /\ stdioInitialized
        /\ m.tool \notin {"no params", "no name"}
    BY <1>4, <1>6 DEF Stdio!Runs, Stdio!Refused
  <2>3. stdioInitialized' = TRUE
    BY <1>4, <2>1, <2>2 DEF Stdio!InitializedAfter
  <2>4. Stdio!Owed(line) = <<m.number>> /\ m.number \in Nat
    BY <1>2, <2>1, <2>2, ParsedLine
  <2>5. StdioTypes'
    BY <1>1, <1>2, <2>1, <2>3, NoAnswer DEF StdioTypes
  <2>6. Account'
    <3> HIDE DEF m, line
    <3>1. QED
      BY <1>1, <1>3, <2>1, <2>2, <2>3, <2>4 DEF Account
  <2>7. Handshake' /\ Ending'
    BY <1>1, <1>4, <2>1, <2>2 DEF Handshake, Ending
  <2>8. QED
    BY <2>5, <2>6, <2>7
<1>7. CASE Stdio!Handle /\ ~Stdio!Runs(m, stdioInitialized, stdioState)
  <2>1. /\ line.json # "blank" /\ stdioStep' = "write"
        /\ stdioAnswer' = IF m.kind = "malformed" THEN <<Stdio!ParseError>>
                          ELSE Stdio!handle_message(m, stdioInitialized, stdioState)
        /\ stdioInitialized' = Stdio!InitializedAfter(m, stdioInitialized)
    BY <1>7 DEF Stdio!Handle
  <2>2. PICK reply : reply = stdioAnswer'
    OBVIOUS
  <2>3. /\ reply \in Seq(Answers) /\ Len(reply) <= 1 /\ Stdio!Ids(reply) = Stdio!Owed(line)
        /\ \A i \in DOMAIN reply : reply[i].tools # {} => stdioInitialized
        /\ Stdio!InitializedAfter(m, stdioInitialized) => stdioInitialized \/ Handshaken(reply)
    BY <1>2, <1>4, <2>1, <2>2, HandledLine
  <2>4. stdioInitialized' \in BOOLEAN
    BY <1>4, <2>1 DEF Stdio!InitializedAfter
  <2>5. StdioTypes'
    BY <1>1, <1>2, <2>1, <2>2, <2>3, <2>4 DEF StdioTypes
  <2>6. Account'
    <3> HIDE DEF m, line
    <3>1. QED
      BY <1>1, <1>3, <2>1, <2>2, <2>3 DEF Account
  <2>7. Handshake'
    <3> HIDE DEF m, line
    <3>1. QED
      BY <1>1, <1>4, <2>1, <2>2, <2>3 DEF Handshake
  <2>8. Ending'
    BY <2>1 DEF Ending
  <2>9. QED
    BY <2>5, <2>6, <2>7, <2>8
<1>8. QED
  BY <1>5, <1>6, <1>7

\* Answers written after those there are: no list comes before the handshake.
LEMMA ListsOfConcat ==
  ASSUME NEW s \in Seq(Answers), NEW t \in Seq(Answers), Len(t) <= 1, ListsAfterHandshake(s),
         \A i \in DOMAIN t : t[i].tools # {} => Handshaken(s)
  PROVE  /\ ListsAfterHandshake(s \o t)
         /\ Handshaken(s) \/ Handshaken(t) => Handshaken(s \o t)
<1>1. Len(s) \in Nat /\ DOMAIN s = 1..Len(s) /\ Len(t) \in Nat /\ DOMAIN t = 1..Len(t)
  BY LenProperties
<1>2. PICK c \in Seq(Answers) : c = s \o t
  BY ConcatProperties
<1>3. /\ DOMAIN c = 1..(Len(s) + Len(t))
      /\ \A i \in 1..(Len(s) + Len(t)) : c[i] = IF i <= Len(s) THEN s[i] ELSE t[i - Len(s)]
  BY <1>1, <1>2, ConcatProperties, LenProperties
<1>4. /\ \A i \in 1..Len(s) : i \in DOMAIN c /\ c[i] = s[i]
      /\ \A i \in 1..Len(t) : Len(s) + i \in DOMAIN c /\ c[Len(s) + i] = t[i]
  <2>1. ASSUME NEW i \in 1..Len(s) PROVE i \in DOMAIN c /\ c[i] = s[i]
    BY <1>1, <1>3
  <2>2. ASSUME NEW i \in 1..Len(t) PROVE Len(s) + i \in DOMAIN c /\ c[Len(s) + i] = t[i]
    <3>1. Len(s) + i \in 1..(Len(s) + Len(t)) /\ ~(Len(s) + i <= Len(s)) /\ (Len(s) + i) - Len(s) = i
      BY <1>1
    <3>2. QED
      BY <1>3, <3>1
  <2>3. QED
    BY <2>1, <2>2
<1>5. Handshaken(s) \/ Handshaken(t) => Handshaken(c)
  BY <1>1, <1>4 DEF Handshaken
<1>6. ASSUME NEW i \in DOMAIN c, c[i].tools # {}
      PROVE  \E j \in 1..(i - 1) : c[j].kind = "result" /\ c[j].tools = {}
  <2>1. CASE i <= Len(s)
    <3>1. i \in DOMAIN s /\ c[i] = s[i]
      BY <1>1, <1>3, <1>4, <2>1
    <3>2. PICK j \in 1..(i - 1) : s[j].kind = "result" /\ s[j].tools = {}
      BY <1>6, <3>1 DEF ListsAfterHandshake
    <3>3. j \in 1..Len(s)
      BY <1>1, <3>1
    <3>4. QED
      BY <1>4, <3>2, <3>3
  <2>2. CASE ~(i <= Len(s))
    <3>1. i - Len(s) \in DOMAIN t /\ c[i] = t[i - Len(s)]
      BY <1>1, <1>3, <2>2
    <3>2. Handshaken(s)
      BY <1>6, <3>1
    <3>3. PICK j \in 1..Len(s) : s[j].kind = "result" /\ s[j].tools = {}
      BY <1>1, <3>2 DEF Handshaken
    <3>4. j \in 1..(i - 1)
      BY <1>1, <1>3, <2>2
    <3>5. QED
      BY <1>4, <3>3, <3>4
  <2>3. QED
    BY <2>1, <2>2
<1>7. QED
  BY <1>2, <1>5, <1>6 DEF ListsAfterHandshake

\* The tool returns, the answer is written.
LEMMA AnswerStep ==
  ASSUME StdioConstants, StdioInv, Stdio!Return \/ Stdio!Write
  PROVE  StdioInv'
<1> USE DEF StdioInv
<1>1. CASE Stdio!Return
  <2>1. /\ stdioStep = "call" /\ stdioStep' = "write"
        /\ stdioAnswer' = Stdio!handle_message(stdioMessage, stdioInitialized, stdioState)
        /\ UNCHANGED <<stdioInput, stdioRead, stdioMessage, stdioOutput, stdioClosed,
                       stdioInitialized, stdioState>>
    BY <1>1 DEF Stdio!Return
  <2>2. /\ stdioMessage.kind = "request" /\ stdioMessage.number \in Nat /\ stdioInitialized
        /\ Stdio!Ids(stdioOutput) \o <<stdioMessage.number>> = Owed(stdioInput, stdioRead)
    BY <2>1 DEF Account
  <2>3. PICK a \in Answers : stdioAnswer' = <<a>> /\ a.id = stdioMessage.number
    BY <2>1, <2>2, AnsweredRequest DEF StdioTypes
  <2>4. PICK reply : reply = stdioAnswer'
    OBVIOUS
  <2>5. /\ reply \in Seq(Answers) /\ Len(reply) <= 1
        /\ Stdio!Ids(reply) = <<stdioMessage.number>>
    BY <2>3, <2>4, OneAnswer
  <2>6. StdioTypes'
    BY <2>1, <2>4, <2>5 DEF StdioTypes
  <2>7. Account'
    BY <2>1, <2>2, <2>4, <2>5 DEF Account
  <2>8. Handshake' /\ Ending'
    BY <2>1, <2>2 DEF Handshake, Ending
  <2>9. QED
    BY <2>6, <2>7, <2>8
<1>2. CASE Stdio!Write
  <2>1. /\ stdioStep = "write" /\ stdioStep' = "read" /\ stdioOutput' = stdioOutput \o stdioAnswer
        /\ UNCHANGED <<stdioInput, stdioRead, stdioMessage, stdioAnswer, stdioClosed,
                       stdioInitialized, stdioState>>
    BY <1>2 DEF Stdio!Write
  <2>2. stdioOutput \in Seq(Answers) /\ stdioAnswer \in Seq(Answers) /\ Len(stdioAnswer) <= 1
    BY DEF StdioTypes
  <2>3. /\ stdioOutput' \in Seq(Answers)
        /\ Stdio!Ids(stdioOutput') = Stdio!Ids(stdioOutput) \o Stdio!Ids(stdioAnswer)
    BY <2>1, <2>2, IdsOfConcat
  <2>4. /\ ListsAfterHandshake(stdioOutput')
        /\ Handshaken(stdioOutput) \/ Handshaken(stdioAnswer) => Handshaken(stdioOutput')
    BY <2>1, <2>2, ListsOfConcat DEF Handshake
  <2>5. StdioTypes'
    BY <2>1, <2>3 DEF StdioTypes
  <2>6. Account'
    BY <2>1, <2>3 DEF Account
  <2>7. Handshake' /\ Ending'
    BY <2>1, <2>4 DEF Handshake, Ending
  <2>8. QED
    BY <2>5, <2>6, <2>7
<1>3. QED
  BY <1>1, <1>2

\* The end of input and what the session does meanwhile.
LEMMA OtherStep ==
  ASSUME StdioInv, Stdio!EndOfInput \/ Stdio!cleanup_session \/ Stdio!Move
  PROVE  StdioInv'
<1> USE DEF StdioInv
<1>1. CASE Stdio!EndOfInput
  <2>1. /\ stdioStep = "read" /\ stdioClosed /\ stdioRead = Len(stdioInput) /\ stdioStep' = "cleanup"
        /\ UNCHANGED <<stdioInput, stdioRead, stdioMessage, stdioAnswer, stdioOutput, stdioClosed,
                       stdioInitialized, stdioState>>
    BY <1>1 DEF Stdio!EndOfInput
  <2>2. QED
    BY <2>1 DEF StdioTypes, Account, Handshake, Ending
<1>2. CASE Stdio!cleanup_session
  <2>1. /\ stdioStep = "cleanup" /\ stdioStep' = "end" /\ stdioState' = "Disconnected"
        /\ UNCHANGED <<stdioInput, stdioRead, stdioMessage, stdioAnswer, stdioOutput, stdioClosed,
                       stdioInitialized>>
    BY <1>2 DEF Stdio!cleanup_session
  <2>2. QED
    BY <2>1 DEF StdioTypes, Account, Handshake, Ending, Stdio!SessionStates
<1>3. CASE Stdio!Move
  <2>1. /\ stdioStep # "end" /\ stdioState' \in Stdio!SessionStates
        /\ UNCHANGED <<stdioInput, stdioRead, stdioStep, stdioMessage, stdioAnswer, stdioOutput,
                       stdioClosed, stdioInitialized>>
    BY <1>3 DEF Stdio!Move
  <2>2. QED
    BY <2>1 DEF StdioTypes, Account, Handshake, Ending
<1>4. QED
  BY <1>1, <1>2, <1>3

LEMMA StdioInvariant ==
  ASSUME StdioConstants
  PROVE  StdioSpec => []StdioInv
<1>1. Stdio!Init => StdioInv
  BY StdioInit
<1>2. StdioInv /\ [Stdio!Next]_(Stdio!stdioVars) => StdioInv'
  <2>1. ASSUME StdioInv, Stdio!Next PROVE StdioInv'
    BY <2>1, ClientStep, ReadStep, AnswerStep, OtherStep DEF Stdio!Next
  <2>2. ASSUME StdioInv, UNCHANGED Stdio!stdioVars PROVE StdioInv'
    BY <2>2 DEF Stdio!stdioVars, StdioInv, StdioTypes, Account, Handshake, Ending
  <2>3. QED
    BY <2>1, <2>2
<1>3. QED
  BY <1>1, <1>2, PTL DEF StdioSpec

LEMMA StdioAnswers ==
  ASSUME StdioConstants
  PROVE  StdioSpec => []Stdio!AnswersInOrder
<1>1. StdioSpec => []StdioInv
  BY StdioInvariant
<1>2. StdioInv => Stdio!AnswersInOrder
  <2> SUFFICES ASSUME StdioInv PROVE Stdio!AnswersInOrder
    OBVIOUS
  <2>1. stdioStep \in {"read", "cleanup", "end"} =>
          Stdio!Ids(stdioOutput) = Stdio!FlattenSeq([i \in 1..stdioRead |-> Stdio!Owed(stdioInput[i])])
    BY DEF StdioInv, Account, Owed
  <2>2. \A i \in DOMAIN stdioOutput :
          stdioOutput[i].tools # {} =>
            \E j \in 1..(i - 1) : stdioOutput[j].kind = "result" /\ stdioOutput[j].tools = {}
    BY DEF StdioInv, Handshake, ListsAfterHandshake
  <2>3. stdioStep = "end" => stdioRead = Len(stdioInput) /\ stdioState = "Disconnected"
    BY DEF StdioInv, Ending
  <2>4. QED
    BY <2>1, <2>2, <2>3 DEF Stdio!AnswersInOrder
<1>3. QED
  BY <1>1, <1>2, PTL

-----------------------------------------------------------------------------
(* The cache of variable handles.                                          *)

HandleSpec == Handles!Init /\ [][Handles!Next]_(Handles!varVars)

\* The function that Without computes: what is kept of the first n entries.
Keeps(g, list, place, n) ==
  /\ DOMAIN g = 0..n
  /\ \A i \in 0..n :
       g[i] = IF i = 0 THEN <<>>
              ELSE IF list[i].place = place THEN g[i - 1] ELSE Append(g[i - 1], list[i])

LEMMA KeepsExists ==
  ASSUME NEW list, NEW place, NEW n \in Nat
  PROVE  \E g : Keeps(g, list, place, n)
<1> DEFINE P(m) == \E g : Keeps(g, list, place, m)
           T == {m \in Nat : ~P(m)}
<1>1. SUFFICES ASSUME T # {} PROVE FALSE
  OBVIOUS
<1>2. \E m \in Nat : ~P(m) /\ \A y \in Nat : ~P(y) => m <= y
  <2>1. T \in SUBSET Nat
    OBVIOUS
  <2>2. \E m \in T : \A y \in T : m <= y
    <3> HIDE DEF T
    <3>1. QED
      BY <1>1, <2>1, SmallestElement
  <2> HIDE DEF P
  <2>3. QED
    BY <2>2
<1>3. PICK m \in Nat : ~P(m) /\ \A y \in Nat : ~P(y) => m <= y
  BY <1>2
<1>4. CASE m = 0
  <2> DEFINE g == [i \in 0..0 |-> <<>>]
  <2>1. Keeps(g, list, place, 0)
    BY DEF Keeps
  <2>2. QED
    BY <1>3, <1>4, <2>1
<1>5. CASE m # 0
  <2>1. m - 1 \in Nat /\ ~(m <= m - 1)
    BY <1>5
  <2>2. P(m - 1)
    <3> HIDE DEF P
    <3>1. QED
      BY <1>3, <2>1
  <2>3. PICK g : Keeps(g, list, place, m - 1)
    BY <2>2
  <2> DEFINE next == IF list[m].place = place THEN g[m - 1] ELSE Append(g[m - 1], list[m])
             h == [i \in 0..m |-> IF i = m THEN next ELSE g[i]]
  <2>4. ASSUME NEW i \in 0..m
        PROVE  h[i] = IF i = 0 THEN <<>>
                      ELSE IF list[i].place = place THEN h[i - 1] ELSE Append(h[i - 1], list[i])
    <3>1. CASE i = m
      <4>1. h[i] = next /\ h[m - 1] = g[m - 1]
        <5>1. m - 1 \in 0..m /\ m - 1 # m
          BY <2>1
        <5> HIDE DEF next
        <5>2. QED
          BY <3>1, <5>1
      <4> HIDE DEF h
      <4>2. QED
        BY <1>5, <3>1, <4>1
    <3>2. CASE i # m
      <4>1. i \in 0..(m - 1) /\ h[i] = g[i] /\ (i # 0 => i - 1 \in 0..m /\ i - 1 # m /\ h[i - 1] = g[i - 1])
        <5> HIDE DEF next
        <5>1. QED
          BY <2>1, <3>2
      <4> HIDE DEF h
      <4>2. g[i] = IF i = 0 THEN <<>>
                   ELSE IF list[i].place = place THEN g[i - 1] ELSE Append(g[i - 1], list[i])
        BY <2>3, <4>1 DEF Keeps
      <4>3. QED
        BY <4>1, <4>2
    <3>3. QED
      BY <3>1, <3>2
  <2>5. DOMAIN h = 0..m
    OBVIOUS
  <2> HIDE DEF h
  <2>6. Keeps(h, list, place, m)
    BY <2>4, <2>5 DEF Keeps
  <2>7. QED
    BY <1>3, <2>6
<1>6. QED
  BY <1>4, <1>5

LEMMA WithoutKeeps ==
  ASSUME NEW S, NEW list \in Seq(S), NEW place
  PROVE  \E g : Keeps(g, list, place, Len(list)) /\ Handles!Without(list, place) = g[Len(list)]
<1>1. Len(list) \in Nat
  BY LenProperties
<1>2. PICK g : Keeps(g, list, place, Len(list))
  BY <1>1, KeepsExists
<1> DEFINE E(f) == f = [i \in 0..Len(list) |->
                          IF i = 0 THEN <<>>
                          ELSE IF list[i].place = place THEN f[i - 1] ELSE Append(f[i - 1], list[i])]
           F == CHOOSE f : E(f)
           G == [i \in 0..Len(list) |-> g[i]]
<1>3. E(G)
  <2>1. \A i \in 0..Len(list) : i # 0 => i - 1 \in 0..Len(list)
    BY <1>1
  <2>2. \A i \in 0..Len(list) :
          G[i] = IF i = 0 THEN <<>>
                 ELSE IF list[i].place = place THEN G[i - 1] ELSE Append(G[i - 1], list[i])
    BY <1>2, <2>1 DEF Keeps
  <2>3. QED
    BY <2>2
<1>4. E(F)
  BY <1>3
<1>5. Handles!Without(list, place) = F[Len(list)]
  BY DEF Handles!Without
<1> HIDE DEF F
<1>6. Keeps(F, list, place, Len(list))
  BY <1>4 DEF Keeps
<1>7. QED
  BY <1>5, <1>6

\* retain keeps the entries for other places, once each, and no other.
LEMMA WithoutElements ==
  ASSUME NEW S, NEW list \in Seq(S), IsInjective(list), NEW place
  PROVE  /\ Handles!Without(list, place) \in Seq(S)
         /\ IsInjective(Handles!Without(list, place))
         /\ Range(Handles!Without(list, place)) = {x \in Range(list) : x.place # place}
<1>1. PICK g : Keeps(g, list, place, Len(list)) /\ Handles!Without(list, place) = g[Len(list)]
  BY WithoutKeeps
<1>2. Len(list) \in Nat /\ DOMAIN list = 1..Len(list) /\ \A i \in 1..Len(list) : list[i] \in S
  BY LenProperties, ElementOfSeq
<1> DEFINE Kept(i) == {list[j] : j \in {j \in 1..i : list[j].place # place}}
           P(i) == g[i] \in Seq(S) /\ IsInjective(g[i]) /\ Range(g[i]) = Kept(i)
           T == {i \in 0..Len(list) : ~P(i)}
<1>3. T = {}
  <2>1. SUFFICES ASSUME T # {} PROVE FALSE
    OBVIOUS
  <2>2. \E m \in 0..Len(list) : ~P(m) /\ \A y \in 0..Len(list) : ~P(y) => m <= y
    <3>1. T \in SUBSET Nat
      BY <1>2
    <3>2. \E m \in T : \A y \in T : m <= y
      <4> HIDE DEF T
      <4>1. QED
        BY <2>1, <3>1, SmallestElement
    <3> HIDE DEF P
    <3>3. QED
      BY <3>2
  <2>3. PICK m \in 0..Len(list) : ~P(m) /\ \A y \in 0..Len(list) : ~P(y) => m <= y
    BY <2>2
  <2>4. g[m] = IF m = 0 THEN <<>>
               ELSE IF list[m].place = place THEN g[m - 1] ELSE Append(g[m - 1], list[m])
    BY <1>1 DEF Keeps
  <2>5. CASE m = 0
    <3>1. g[m] = <<>> /\ Kept(m) = {}
      BY <2>4, <2>5
    <3>2. <<>> \in Seq(S) /\ IsInjective(<<>>) /\ Range(<<>>) = {}
      BY EmptySeq DEF IsInjective, Range
    <3>3. QED
      BY <2>3, <3>1, <3>2
  <2>6. CASE m # 0
    <3>1. m - 1 \in 0..Len(list) /\ ~(m <= m - 1) /\ m \in 1..Len(list)
          /\ 1..m = 1..(m - 1) \cup {m} /\ m \notin 1..(m - 1)
      BY <1>2, <2>6
    <3>2. P(m - 1)
      <4> HIDE DEF P
      <4>1. QED
        BY <2>3, <3>1
    <3>3. CASE list[m].place = place
      <4>1. Kept(m) = Kept(m - 1)
        BY <3>1, <3>3
      <4>2. g[m] = g[m - 1]
        BY <2>4, <2>6, <3>3
      <4>3. QED
        BY <2>3, <3>2, <4>1, <4>2
    <3>4. CASE list[m].place # place
      <4>1. Kept(m) = Kept(m - 1) \cup {list[m]}
        BY <3>1, <3>4
      <4>2. g[m] = Append(g[m - 1], list[m])
        BY <2>4, <2>6, <3>4
      <4>3. list[m] \notin Kept(m - 1)
        <5>1. \A j \in 1..(m - 1) : j \in DOMAIN list /\ m \in DOMAIN list /\ j # m
          BY <1>2, <3>1
        <5>2. QED
          BY <5>1 DEF IsInjective
      <4>4. list[m] \in S
        BY <1>2, <3>1
      <4>5. PICK s \in Seq(S) : s = g[m - 1] /\ IsInjective(s) /\ Range(s) = Kept(m - 1)
        BY <3>2
      <4> HIDE DEF Kept
      <4>6. /\ Append(s, list[m]) \in Seq(S) /\ IsInjective(Append(s, list[m]))
            /\ Range(Append(s, list[m])) = Range(s) \cup {list[m]}
        BY <4>3, <4>4, <4>5, AppendOnce
      <4>7. QED
        BY <2>3, <4>1, <4>2, <4>5, <4>6
    <3>5. QED
      BY <3>3, <3>4
  <2>7. QED
    BY <2>5, <2>6
<1>4. P(Len(list))
  <2>1. Len(list) \in 0..Len(list)
    BY <1>2
  <2> HIDE DEF P
  <2>2. QED
    BY <1>3, <2>1
<1>5. Kept(Len(list)) = {x \in Range(list) : x.place # place}
  BY <1>2 DEF Range
<1>6. QED
  BY <1>1, <1>4, <1>5

\* The entries a name should have: the newest of each place that has one.
NewestOf(newest, n) ==
  {[name |-> n, place |-> p, at |-> newest[<<n, p>>]] : p \in {q \in Places : newest[<<n, q>>] # 0}}

\* A list holds a set of entries, each once.
Lists(list, entries) == IsInjective(list) /\ Range(list) = entries

HandleTypes ==
  /\ DOMAIN varEntries = Names
  /\ \A n \in Names : varEntries[n] \in Seq({e \in Handles!Entries : e.name = n})
  /\ varValid \in BOOLEAN /\ varClock \in 0..MaxInserts
  /\ varNewest \in [Handles!Keys -> 0..MaxInserts]

HandleInv ==
  /\ HandleTypes
  /\ \A n \in Names : Lists(varEntries[n], NewestOf(varNewest, n))

LEMMA HandlesEmpty ==
  ASSUME MaxInserts \in Nat, NEW newest, newest = [k \in Handles!Keys |-> 0], NEW n \in Names
  PROVE  /\ Handles!Empty[n] \in Seq({e \in Handles!Entries : e.name = n})
         /\ Lists(Handles!Empty[n], NewestOf(newest, n)) /\ DOMAIN Handles!Empty = Names
         /\ newest \in [Handles!Keys -> 0..MaxInserts]
<1>1. Handles!Empty[n] = <<>> /\ DOMAIN Handles!Empty = Names
  BY DEF Handles!Empty
<1>2. \A p \in Places : newest[<<n, p>>] = 0
  BY DEF Handles!Keys
<1>3. NewestOf(newest, n) = {}
  BY <1>2 DEF NewestOf
<1>4. <<>> \in Seq({e \in Handles!Entries : e.name = n}) /\ IsInjective(<<>>) /\ Range(<<>>) = {}
  BY EmptySeq DEF IsInjective, Range
<1>5. newest \in [Handles!Keys -> 0..MaxInserts]
  OBVIOUS
<1>6. Lists(<<>>, {})
  BY <1>4 DEF Lists
<1>7. QED
  BY <1>1, <1>3, <1>4, <1>5, <1>6

\* A batch puts the new entry of each of its names in the place of an older one.
LEMMA InsertStep ==
  ASSUME MaxInserts \in Nat, HandleInv, Handles!insert_batch
  PROVE  HandleInv'
<1>1. PICK names \in SUBSET Names, place \in Places :
        /\ varEntries' = [n \in Names |->
             IF n \in names
               THEN Handles!Put(varEntries[n], [name |-> n, place |-> place, at |-> varClock + 1])
               ELSE varEntries[n]]
        /\ varNewest' = [k \in Handles!Keys |->
             IF k \in names \X {place} THEN varClock + 1 ELSE varNewest[k]]
  BY DEF Handles!insert_batch
<1>2. varClock < MaxInserts /\ varClock' = varClock + 1 /\ varValid' = varValid
  BY DEF Handles!insert_batch
<1>3. varClock + 1 \in 1..MaxInserts /\ varClock \in Nat
  BY <1>2 DEF HandleInv, HandleTypes
<1>4. ASSUME NEW n \in names
      PROVE  /\ varEntries'[n] \in Seq({e \in Handles!Entries : e.name = n})
             /\ Lists(varEntries'[n], NewestOf(varNewest', n))
  <2> DEFINE S == {e \in Handles!Entries : e.name = n}
  <2>1. PICK new : new = [name |-> n, place |-> place, at |-> varClock + 1]
    OBVIOUS
  <2>2. new \in S /\ new.place = place
    BY <1>3, <2>1 DEF Handles!Entries
  <2>3. PICK list \in Seq(S) : list = varEntries[n] /\ Lists(list, NewestOf(varNewest, n))
    BY DEF HandleInv, HandleTypes
  <2> HIDE DEF S
  <2>4. PICK w : w = Handles!Without(list, place)
    OBVIOUS
  <2>5. w \in Seq(S) /\ IsInjective(w) /\ Range(w) = {x \in NewestOf(varNewest, n) : x.place # place}
    BY <2>3, <2>4, WithoutElements DEF Lists
  <2>6. varEntries'[n] = Append(w, new)
    BY <1>1, <2>1, <2>2, <2>3, <2>4 DEF Handles!Put
  <2>7. new \notin Range(w)
    BY <2>2, <2>5
  <2>8. Append(w, new) \in Seq(S) /\ IsInjective(Append(w, new))
        /\ Range(Append(w, new)) = Range(w) \cup {new}
    BY <2>2, <2>5, <2>7, AppendOnce
  <2>9. \A p \in Places : varNewest'[<<n, p>>] = IF p = place THEN varClock + 1 ELSE varNewest[<<n, p>>]
    BY <1>1 DEF Handles!Keys
  <2>10. NewestOf(varNewest', n) = {x \in NewestOf(varNewest, n) : x.place # place} \cup {new}
    <3>1. ASSUME NEW x \in NewestOf(varNewest', n)
          PROVE  x = new \/ (x \in NewestOf(varNewest, n) /\ x.place # place)
      <4>1. PICK p \in Places : /\ varNewest'[<<n, p>>] # 0
                                /\ x = [name |-> n, place |-> p, at |-> varNewest'[<<n, p>>]]
        BY DEF NewestOf
      <4>2. CASE p = place
        BY <2>1, <2>9, <4>1, <4>2
      <4>3. CASE p # place
        BY <2>9, <4>1, <4>3 DEF NewestOf
      <4>4. QED
        BY <4>2, <4>3
    <3>2. new \in NewestOf(varNewest', n)
      <4>1. varNewest'[<<n, place>>] = varClock + 1 /\ varClock + 1 # 0
        BY <1>3, <2>9
      <4>2. QED
        BY <2>1, <4>1 DEF NewestOf
    <3>3. ASSUME NEW x \in NewestOf(varNewest, n), x.place # place
          PROVE  x \in NewestOf(varNewest', n)
      <4>1. PICK p \in Places : /\ varNewest[<<n, p>>] # 0
                                /\ x = [name |-> n, place |-> p, at |-> varNewest[<<n, p>>]]
        BY DEF NewestOf
      <4>2. p # place
        BY <3>3, <4>1
      <4>3. varNewest'[<<n, p>>] = varNewest[<<n, p>>]
        BY <2>9, <4>2
      <4>4. QED
        BY <4>1, <4>3 DEF NewestOf
    <3>4. QED
      BY <3>1, <3>2, <3>3
  <2>11. Lists(varEntries'[n], NewestOf(varNewest', n))
    BY <2>5, <2>6, <2>8, <2>10 DEF Lists
  <2>12. QED
    BY <2>6, <2>8, <2>11 DEF S
<1>5. ASSUME NEW n \in Names, n \notin names
      PROVE  /\ varEntries'[n] \in Seq({e \in Handles!Entries : e.name = n})
             /\ Lists(varEntries'[n], NewestOf(varNewest', n))
  <2>1. varEntries'[n] = varEntries[n]
    BY <1>1, <1>5
  <2>2. \A p \in Places : varNewest'[<<n, p>>] = varNewest[<<n, p>>]
    BY <1>1, <1>5 DEF Handles!Keys
  <2>3. NewestOf(varNewest', n) = NewestOf(varNewest, n)
    BY <2>2 DEF NewestOf
  <2>4. QED
    BY <2>1, <2>3 DEF HandleInv, HandleTypes
<1>6. varNewest' \in [Handles!Keys -> 0..MaxInserts]
  <2>1. \A k \in Handles!Keys : varNewest[k] \in 0..MaxInserts
    BY DEF HandleInv, HandleTypes
  <2>2. varClock + 1 \in 0..MaxInserts
    BY <1>3
  <2>3. QED
    BY <1>1, <2>1, <2>2
<1>7. HandleTypes'
  <2>1. \A n \in Names : varEntries'[n] \in Seq({e \in Handles!Entries : e.name = n})
    BY <1>4, <1>5
  <2>2. varClock' \in 0..MaxInserts /\ varValid' \in BOOLEAN /\ DOMAIN varEntries' = Names
    BY <1>1, <1>2, <1>3 DEF HandleInv, HandleTypes
  <2>3. QED
    BY <1>6, <2>1, <2>2 DEF HandleTypes, Handles!Entries, Handles!Keys
<1>8. \A n \in Names : Lists(varEntries'[n], NewestOf(varNewest', n))
  BY <1>4, <1>5
<1>9. QED
  BY <1>7, <1>8 DEF HandleInv

LEMMA HandleInvariant ==
  ASSUME MaxInserts \in Nat
  PROVE  HandleSpec => []HandleInv
<1>1. Handles!Init => HandleInv
  <2> SUFFICES ASSUME Handles!Init PROVE HandleInv
    OBVIOUS
  <2>1. varEntries = Handles!Empty /\ varValid = TRUE /\ varClock = 0
        /\ varNewest = [k \in Handles!Keys |-> 0]
    BY DEF Handles!Init
  <2>2. \A n \in Names : /\ varEntries[n] \in Seq({e \in Handles!Entries : e.name = n})
                         /\ Lists(varEntries[n], NewestOf(varNewest, n))
    BY <2>1, HandlesEmpty
  <2>3. DOMAIN varEntries = Names
    BY <2>1 DEF Handles!Empty
  <2>4. varNewest \in [Handles!Keys -> 0..MaxInserts] /\ varClock \in 0..MaxInserts
    BY <2>1
  <2>5. QED
    BY <2>1, <2>2, <2>3, <2>4 DEF HandleInv, HandleTypes
<1>2. HandleInv /\ [Handles!Next]_(Handles!varVars) => HandleInv'
  <2>1. ASSUME HandleInv, Handles!insert_batch PROVE HandleInv'
    BY <2>1, InsertStep
  <2>2. ASSUME HandleInv, Handles!invalidate PROVE HandleInv'
    <3>1. varEntries' = Handles!Empty /\ varNewest' = [k \in Handles!Keys |-> 0]
          /\ UNCHANGED <<varValid, varClock>>
      BY <2>2 DEF Handles!invalidate
    <3>2. \A n \in Names : /\ varEntries'[n] \in Seq({e \in Handles!Entries : e.name = n})
                           /\ Lists(varEntries'[n], NewestOf(varNewest', n))
      BY <3>1, HandlesEmpty
    <3>3. DOMAIN varEntries' = Names /\ varNewest' \in [Handles!Keys -> 0..MaxInserts]
      BY <3>1 DEF Handles!Empty
    <3>4. QED
      BY <2>2, <3>1, <3>2, <3>3 DEF HandleInv, HandleTypes, Handles!Entries, Handles!Keys
  <2>3. ASSUME HandleInv, Handles!SetValid \/ Handles!SetInvalid \/ Handles!mark_stale
        PROVE  HandleInv'
    <3>1. varValid' \in BOOLEAN /\ UNCHANGED <<varEntries, varClock, varNewest>>
      BY <2>3 DEF Handles!SetValid, Handles!SetInvalid, Handles!mark_stale
    <3>2. QED
      BY <2>3, <3>1 DEF HandleInv, HandleTypes, Handles!Entries, Handles!Keys
  <2>4. ASSUME HandleInv, UNCHANGED Handles!varVars PROVE HandleInv'
    BY <2>4 DEF Handles!varVars, HandleInv, HandleTypes, Handles!Entries, Handles!Keys
  <2>5. QED
    BY <2>1, <2>2, <2>3, <2>4 DEF Handles!Next
<1>3. QED
  BY <1>1, <1>2, PTL DEF HandleSpec

LEMMA HandlesNewest ==
  ASSUME MaxInserts \in Nat
  PROVE  HandleSpec => []Handles!HoldsNewestHandles
<1>1. HandleInv => Handles!HoldsNewestHandles
  <2> SUFFICES ASSUME HandleInv PROVE Handles!HoldsNewestHandles
    OBVIOUS
  <2>1. \A list : (Handles!IsInjective(list) <=> IsInjective(list)) /\ Handles!Range(list) = Range(list)
    BY DEF Handles!IsInjective, IsInjective, Handles!Range, Range
  <2>2. \A n \in Names : Handles!IsInjective(varEntries[n])
                         /\ Handles!Range(varEntries[n]) = NewestOf(varNewest, n)
    BY <2>1 DEF HandleInv, Lists
  <2>3. UNION {NewestOf(varNewest, n) : n \in Names} =
          {[name |-> k[1], place |-> k[2], at |-> varNewest[k]] :
             k \in {k \in Handles!Keys : varNewest[k] # 0}}
    <3>1. ASSUME NEW n \in Names, NEW x \in NewestOf(varNewest, n)
          PROVE  \E k \in Handles!Keys : varNewest[k] # 0
                    /\ x = [name |-> k[1], place |-> k[2], at |-> varNewest[k]]
      <4>1. PICK p \in Places : /\ varNewest[<<n, p>>] # 0
                                /\ x = [name |-> n, place |-> p, at |-> varNewest[<<n, p>>]]
        BY DEF NewestOf
      <4>2. <<n, p>> \in Handles!Keys /\ <<n, p>>[1] = n /\ <<n, p>>[2] = p
        BY DEF Handles!Keys
      <4>3. QED
        BY <4>1, <4>2
    <3>2. ASSUME NEW k \in Handles!Keys, varNewest[k] # 0
          PROVE  \E n \in Names :
                   [name |-> k[1], place |-> k[2], at |-> varNewest[k]] \in NewestOf(varNewest, n)
      <4>1. k[1] \in Names /\ k[2] \in Places /\ k = <<k[1], k[2]>>
        BY DEF Handles!Keys
      <4>2. [name |-> k[1], place |-> k[2], at |-> varNewest[k]] \in NewestOf(varNewest, k[1])
        BY <3>2, <4>1 DEF NewestOf
      <4>3. QED
        BY <4>1, <4>2
    <3>3. QED
      BY <3>1, <3>2
  <2>4. QED
    BY <2>2, <2>3 DEF Handles!HoldsNewestHandles
<1>2. QED
  BY <1>1, HandleInvariant, PTL

\* First gives an entry with the property asked for, when the list has one.
LEMMA FirstFound ==
  ASSUME NEW list, Len(list) \in Nat, DOMAIN list = 1..Len(list), NEW I \in SUBSET (1..Len(list)), I # {}
  PROVE  Handles!Min(I) \in I /\ Handles!Min(I) # 0
<1>1. I \in SUBSET Nat
  OBVIOUS
<1>2. \E i \in I : \A j \in I : i <= j
  BY <1>1, SmallestElement
<1>3. Handles!Min(I) \in I
  <2>1. PICK least \in I : \A j \in I : least <= j
    BY <1>2
  <2>2. Handles!Min(I) = CHOOSE i \in I : \A j \in I : i <= j
    BY DEF Handles!Min
  <2>3. QED
    BY <2>1, <2>2
<1>4. QED
  BY <1>3

\* What lookup finds in a list, in each of its three cases.
FoundAmong(found, list, place) ==
  /\ (\E i \in DOMAIN list : list[i].place = place) =>
       \E i \in DOMAIN list : found = list[i] /\ list[i].place = place
  /\ (\A i \in DOMAIN list : list[i].place # place)
     /\ (\E i \in DOMAIN list : Handles!SameFrame(list[i], place)) =>
       \E i \in DOMAIN list : found = list[i] /\ Handles!SameFrame(list[i], place)
  /\ (\A i \in DOMAIN list : list[i].place # place /\ ~Handles!SameFrame(list[i], place)) =>
       IF list = <<>> THEN found = Handles!NoEntry ELSE \E i \in DOMAIN list : found = list[i]

LEMMA LookupCases ==
  ASSUME NEW S, NEW name, NEW list \in Seq(S), list = varEntries[name], NEW place,
         NEW found, found = Handles!lookup(name, place)
  PROVE  FoundAmong(found, list, place)
<1>1. Len(list) \in Nat /\ DOMAIN list = 1..Len(list)
  BY LenProperties
<1>2. found = Handles!lookup(name, place)
  OBVIOUS
<1>3. CASE \E i \in DOMAIN list : list[i].place = place
  <2>1. PICK I : I = {i \in DOMAIN list : list[i].place = place}
    OBVIOUS
  <2>2. Handles!Min(I) \in I /\ Handles!Min(I) # 0 /\ I # {}
    <3>1. I # {} /\ I \in SUBSET (1..Len(list))
      BY <1>1, <1>3, <2>1
    <3>2. QED
      BY <1>1, <3>1, FirstFound
  <2>3. found = Handles!First(list, LAMBDA e : e.place = place)
    BY <1>2, <1>3 DEF Handles!lookup
  <2>4. Handles!First(list, LAMBDA e : e.place = place) = list[Handles!Min(I)]
    BY <2>1, <2>2 DEF Handles!First
  <2>5. QED
    BY <1>1, <1>2, <1>3, <2>1, <2>2, <2>3, <2>4 DEF FoundAmong
<1>4. CASE /\ \A i \in DOMAIN list : list[i].place # place
           /\ \E i \in DOMAIN list : Handles!SameFrame(list[i], place)
  <2>1. PICK I : I = {i \in DOMAIN list : Handles!SameFrame(list[i], place)}
    OBVIOUS
  <2>2. Handles!Min(I) \in I /\ Handles!Min(I) # 0 /\ I # {}
    <3>1. I # {} /\ I \in SUBSET (1..Len(list))
      BY <1>1, <1>4, <2>1
    <3>2. QED
      BY <1>1, <3>1, FirstFound
  <2>3. found = Handles!First(list, LAMBDA e : Handles!SameFrame(e, place))
    BY <1>2, <1>4 DEF Handles!lookup
  <2>4. Handles!First(list, LAMBDA e : Handles!SameFrame(e, place)) = list[Handles!Min(I)]
    BY <2>1, <2>2 DEF Handles!First
  <2>5. QED
    BY <1>1, <1>2, <1>4, <2>1, <2>2, <2>3, <2>4 DEF FoundAmong
<1>5. CASE \A i \in DOMAIN list : list[i].place # place /\ ~Handles!SameFrame(list[i], place)
  <2>1. found = Handles!First(list, LAMBDA e : TRUE)
    BY <1>2, <1>5 DEF Handles!lookup
  <2>2. PICK I : I = {i \in DOMAIN list : TRUE} /\ I = 1..Len(list)
    BY <1>1
  <2>3. CASE list = <<>>
    <3>1. I = {}
      BY <2>2, <2>3, EmptySeq
    <3>2. Handles!First(list, LAMBDA e : TRUE) = Handles!NoEntry
      BY <2>2, <3>1 DEF Handles!First
    <3>3. DOMAIN list = {}
      BY <1>1, <2>2, <3>1
    <3>4. QED
      BY <1>2, <2>1, <2>3, <3>2, <3>3 DEF FoundAmong
  <2>4. CASE list # <<>>
    <3>0. Len(list) # 0 /\ Len(list) \in Nat
      BY <1>1, <2>4
    <3>1. 1 \in I /\ I \in SUBSET (1..Len(list))
      BY <3>0, <2>2
    <3>2. Handles!Min(I) \in I /\ Handles!Min(I) # 0
      BY <1>1, <3>1, FirstFound
    <3>3. Handles!First(list, LAMBDA e : TRUE) = list[Handles!Min(I)]
      BY <2>2, <3>1, <3>2 DEF Handles!First
    <3>4. QED
      BY <1>1, <1>2, <1>5, <2>1, <2>2, <2>4, <3>2, <3>3 DEF FoundAmong
  <2>5. QED
    BY <2>3, <2>4
<1>6. QED
  BY <1>3, <1>4, <1>5 DEF FoundAmong

LEMMA HandlesLookup ==
  ASSUME MaxInserts \in Nat
  PROVE  HandleSpec => []Handles!LookupFindsClosest
<1>1. HandleInv => Handles!LookupFindsClosest
  <2> SUFFICES ASSUME HandleInv, NEW name \in Names, NEW place \in Places
               PROVE  LET found == Handles!lookup(name, place) IN
                      IF varEntries[name] = <<>> THEN found = Handles!NoEntry
                      ELSE /\ found \in Handles!Range(varEntries[name])
                           /\ \A e \in Handles!Range(varEntries[name]) :
                                Handles!Rank(found, place) <= Handles!Rank(e, place)
    BY DEF Handles!LookupFindsClosest
  <2>0. PICK found : found = Handles!lookup(name, place)
    OBVIOUS
  <2> DEFINE Own == {e \in Handles!Entries : e.name = name}
  <2>1. PICK list \in Seq(Own) : list = varEntries[name]
    BY DEF HandleInv, HandleTypes
  <2> HIDE DEF Own
  <2>9. FoundAmong(found, list, place)
    BY <2>0, <2>1, LookupCases
  <2>2. Handles!Range(list) = {list[i] : i \in DOMAIN list}
    BY DEF Handles!Range
  <2>3. \A e : /\ Handles!Rank(e, place) \in {0, 1, 2}
               /\ Handles!Rank(e, place) = 0 <=> e.place = place
               /\ Handles!Rank(e, place) = 1 <=> e.place # place /\ Handles!SameFrame(e, place)
    BY DEF Handles!Rank
  <2>4. CASE \E i \in DOMAIN list : list[i].place = place
    <3>1. \E i \in DOMAIN list : found = list[i] /\ list[i].place = place
      BY <2>9, <2>4 DEF FoundAmong
    <3>2. list # <<>>
      BY <2>4
    <3>3. found \in Handles!Range(list) /\ Handles!Rank(found, place) = 0
      BY <2>2, <2>3, <3>1
    <3>4. \A e : 0 <= Handles!Rank(e, place)
      BY <2>3
    <3>5. QED
      BY <2>0, <2>1, <3>2, <3>3, <3>4
  <2>5. CASE /\ \A i \in DOMAIN list : list[i].place # place
             /\ \E i \in DOMAIN list : Handles!SameFrame(list[i], place)
    <3>1. \E i \in DOMAIN list : found = list[i] /\ Handles!SameFrame(list[i], place)
      BY <2>9, <2>5 DEF FoundAmong
    <3>2. list # <<>>
      BY <2>5
    <3>3. found \in Handles!Range(list) /\ Handles!Rank(found, place) = 1
      BY <2>2, <2>3, <2>5, <3>1
    <3>4. \A e \in Handles!Range(list) : 1 <= Handles!Rank(e, place)
      BY <2>2, <2>3, <2>5
    <3>5. QED
      BY <2>0, <2>1, <3>2, <3>3, <3>4
  <2>6. CASE \A i \in DOMAIN list : list[i].place # place /\ ~Handles!SameFrame(list[i], place)
    <3>1. IF list = <<>> THEN found = Handles!NoEntry ELSE \E i \in DOMAIN list : found = list[i]
      BY <2>9, <2>6 DEF FoundAmong
    <3>2. \A e \in Handles!Range(list) : Handles!Rank(e, place) = 2
      BY <2>2, <2>3, <2>6
    <3>3. list # <<>> => found \in Handles!Range(list)
      BY <2>2, <3>1
    <3>4. QED
      BY <2>0, <2>1, <3>1, <3>2, <3>3
  <2>7. QED
    BY <2>4, <2>5, <2>6
<1>2. QED
  BY <1>1, HandleInvariant, PTL

\* What is left of the hits after each choice of the newest.
Leaves(left, hits, n) ==
  /\ DOMAIN left = 0..n /\ left[0] = hits
  /\ \A i \in 1..n : left[i] = left[i - 1] \ {Handles!Newest(left[i - 1])}

LEMMA LeavesExist ==
  ASSUME NEW hits, NEW n \in Nat
  PROVE  \E left : Leaves(left, hits, n)
<1> DEFINE D == SUBSET hits
           step == [i \in 1..n |-> [S \in D |-> S \ {Handles!Newest(S)}]]
<1>1. hits \in D /\ step \in [1..n -> [D -> D]]
  OBVIOUS
<1>2. \A i \in 1..n, S \in D : step[i][S] = S \ {Handles!Newest(S)}
  OBVIOUS
<1> HIDE DEF D, step
<1>3. PICK left : Recurs(left, hits, step, D, n)
  BY <1>1, RecursionExists
<1>4. ASSUME NEW i \in 1..n PROVE left[i] = left[i - 1] \ {Handles!Newest(left[i - 1])}
  <2>1. left[i - 1] \in D
    <3>1. i - 1 \in 0..n
      OBVIOUS
    <3>2. QED
      BY <1>3, <3>1 DEF Recurs
  <2>2. left[i] = step[i][left[i - 1]]
    BY <1>3 DEF Recurs
  <2>3. QED
    BY <1>2, <2>1, <2>2
<1>5. Leaves(left, hits, n)
  BY <1>3, <1>4 DEF Leaves, Recurs
<1>6. QED
  BY <1>5

\* The entries under the names that contain the query.
HitsOf(query) == UNION {Handles!Range(varEntries[m]) : m \in {m \in Names : Hits(m, query)}}

LEMMA SameCardinality ==
  ASSUME NEW S
  PROVE  Handles!Cardinality(S) = Cardinality(S)
BY Zenon DEF Handles!Cardinality, Cardinality

\* search chooses the newest of what is left, up to the limit.
LEMMA SearchChooses ==
  ASSUME NEW query, NEW limit, Handles!Cardinality(HitsOf(query)) \in Nat
  PROVE  \E left : /\ Leaves(left, HitsOf(query), Handles!Cardinality(HitsOf(query)))
                   /\ Handles!search(query, limit) =
                        [i \in 1..Handles!Min({limit, Handles!Cardinality(HitsOf(query))}) |->
                           Handles!Newest(left[i - 1])]
<1> DEFINE n == Handles!Cardinality(HitsOf(query))
           E(f) == f = [i \in 0..n |-> IF i = 0 THEN HitsOf(query)
                                       ELSE f[i - 1] \ {Handles!Newest(f[i - 1])}]
           F == CHOOSE f : E(f)
<1>1. PICK left : Leaves(left, HitsOf(query), n)
  BY LeavesExist
<1>2. \E f : E(f)
  <2> DEFINE G == [i \in 0..n |-> left[i]]
  <2> HIDE DEF n
  <2>1. \A i \in 0..n : i # 0 => i - 1 \in 0..n /\ i \in 1..n
    BY DEF n
  <2>2. \A i \in 0..n : G[i] = IF i = 0 THEN HitsOf(query) ELSE G[i - 1] \ {Handles!Newest(G[i - 1])}
    BY <1>1, <2>1 DEF Leaves
  <2>3. E(G)
    BY <2>2
  <2>4. QED
    BY <2>3
<1>3. E(F)
  BY <1>2
<1>4. Handles!search(query, limit) =
        [i \in 1..Handles!Min({limit, n}) |-> Handles!Newest(F[i - 1])]
  BY DEF Handles!search, HitsOf
<1>5. Leaves(F, HitsOf(query), n)
  <2> HIDE DEF F, n
  <2>1. \A i \in 0..n : F[i] = IF i = 0 THEN HitsOf(query) ELSE F[i - 1] \ {Handles!Newest(F[i - 1])}
    BY <1>3
  <2>2. DOMAIN F = 0..n
    BY <1>3
  <2>3. 0 \in 0..n /\ \A i \in 1..n : i \in 0..n /\ i # 0
    BY DEF n
  <2>4. QED
    BY <2>1, <2>2, <2>3 DEF Leaves
<1> HIDE DEF F
<1>6. QED
  BY <1>4, <1>5

LEMMA OneRemoved ==
  ASSUME NEW S, IsFiniteSet(S), NEW x \in S
  PROVE  Cardinality(S \ {x}) = Cardinality(S) - 1
BY FS_RemoveElement

\* Of entries that bear times there is a newest.
LEMMA NewestChosen ==
  ASSUME MaxInserts \in Nat, NEW entries, entries # {}, \A e \in entries : e.at \in 0..MaxInserts
  PROVE  /\ Handles!Newest(entries) \in entries
         /\ \A d \in entries : d.at <= Handles!Newest(entries).at
<1> DEFINE ages == {MaxInserts - e.at : e \in entries}
<1>1. ages \in SUBSET Nat /\ ages # {}
  OBVIOUS
<1>2. PICK age \in ages : \A other \in ages : age <= other
  <2> HIDE DEF ages
  <2>1. QED
    BY <1>1, SmallestElement
<1>3. PICK e \in entries : age = MaxInserts - e.at
  OBVIOUS
<1>4. \A d \in entries : d.at <= e.at
  <2> SUFFICES ASSUME NEW d \in entries PROVE d.at <= e.at
    OBVIOUS
  <2>1. age <= MaxInserts - d.at
    BY <1>2
  <2>2. e.at \in 0..MaxInserts /\ d.at \in 0..MaxInserts
    OBVIOUS
  <2>3. QED
    BY <1>3, <2>1, <2>2
<1>5. QED
  BY <1>4 DEF Handles!Newest

\* Each choice is the newest of what is left, and leaves one entry fewer.
LEMMA ChoicesFall ==
  ASSUME MaxInserts \in Nat, NEW hits, IsFiniteSet(hits), \A e \in hits : e.at \in 0..MaxInserts,
         NEW n \in Nat, n = Cardinality(hits), NEW left, Leaves(left, hits, n)
  PROVE  \A i \in 1..n :
           /\ Handles!Newest(left[i - 1]) \in hits
           /\ \A j \in 1..(i - 1) : Handles!Newest(left[j - 1]) # Handles!Newest(left[i - 1])
           /\ \A e \in hits : \/ e.at <= Handles!Newest(left[i - 1]).at
                              \/ \E j \in 1..(i - 1) : e = Handles!Newest(left[j - 1])
<1> DEFINE chosen(j) == Handles!Newest(left[j - 1])
           P(i) == /\ left[i] = {e \in hits : \A j \in 1..i : e # chosen(j)}
                   /\ Cardinality(left[i]) = n - i
           Holds == {i \in 0..n : P(i)}
<1>1. \A i \in 0..n : i \in Holds
  <2>1. 0 \in Holds
    BY DEF Leaves
  <2>2. ASSUME NEW i \in 1..n, i - 1 \in Holds PROVE i \in Holds
    <3>1. P(i - 1) /\ left[i] = left[i - 1] \ {chosen(i)}
      BY <2>2 DEF Leaves
    <3>2. left[i - 1] \in SUBSET hits
      BY <3>1
    <3>3. IsFiniteSet(left[i - 1]) /\ Cardinality(left[i - 1]) = n - (i - 1)
      BY <3>1, <3>2, FS_Subset
    <3>4. left[i - 1] # {}
      BY <3>3, FS_EmptySet
    <3>5. chosen(i) \in left[i - 1]
      BY <3>2, <3>4, NewestChosen
    <3>6. Cardinality(left[i]) = n - i
      <4>1. Cardinality(left[i]) = Cardinality(left[i - 1]) - 1
        <5>1. PICK before, c : before = left[i - 1] /\ c = chosen(i) /\ c \in before
          BY <3>5
        <5>2. IsFiniteSet(before) /\ left[i] = before \ {c}
          BY <3>1, <3>3, <5>1
        <5>3. Cardinality(before \ {c}) = Cardinality(before) - 1
          BY <5>1, <5>2, OneRemoved
        <5>4. QED
          BY <5>1, <5>2, <5>3
      <4>2. QED
        BY <3>3, <4>1
    <3>7. 1..i = 1..(i - 1) \cup {i}
      OBVIOUS
    <3>8. left[i] = {e \in hits : \A j \in 1..i : e # chosen(j)}
      BY <3>1, <3>7
    <3>9. P(i)
      BY <3>6, <3>8
    <3>10. i \in 0..n
      OBVIOUS
    <3> HIDE DEF P
    <3>11. QED
      BY <3>9, <3>10
  <2>3. Holds \in SUBSET (0..n)
    OBVIOUS
  <2> HIDE DEF Holds
  <2>4. QED
    BY <2>1, <2>2, <2>3, NaturalInduction
<1>2. SUFFICES ASSUME NEW i \in 1..n
               PROVE  /\ chosen(i) \in hits
                      /\ \A j \in 1..(i - 1) : chosen(j) # chosen(i)
                      /\ \A e \in hits : e.at <= chosen(i).at \/ \E j \in 1..(i - 1) : e = chosen(j)
  OBVIOUS
<1>3. P(i - 1)
  BY <1>1
<1>4. left[i - 1] # {}
  BY <1>3, FS_EmptySet
<1>5. left[i - 1] \in SUBSET hits
  BY <1>3
<1>6. chosen(i) \in left[i - 1] /\ \A e \in left[i - 1] : e.at <= chosen(i).at
  BY <1>4, <1>5, NewestChosen
<1>7. QED
  BY <1>3, <1>5, <1>6

LEMMA EntriesFinite ==
  ASSUME MaxInserts \in Nat, IsFiniteSet(Names), IsFiniteSet(Places)
  PROVE  IsFiniteSet(Handles!Entries)
<1> DEFINE Triples == (Names \X Places) \X (1..MaxInserts)
           f == [t \in Triples |-> [name |-> t[1][1], place |-> t[1][2], at |-> t[2]]]
<1>1. IsFiniteSet(Triples)
  <2>1. IsFiniteSet(Names \X Places)
    BY FS_Product
  <2>2. IsFiniteSet(1..MaxInserts)
    <3>1. 1 \in Int /\ MaxInserts \in Int
      OBVIOUS
    <3>2. QED
      BY <3>1, FS_Interval
  <2>3. QED
    BY <2>1, <2>2, FS_Product
<1>2. f \in [Triples -> Handles!Entries]
  BY DEF Handles!Entries
<1>3. ASSUME NEW e \in Handles!Entries PROVE \E t \in Triples : f[t] = e
  <2>1. <<<<e.name, e.place>>, e.at>> \in Triples
    BY DEF Handles!Entries
  <2>2. f[<<<<e.name, e.place>>, e.at>>] = e
    BY <2>1 DEF Handles!Entries
  <2>3. QED
    BY <2>1, <2>2
<1>4. f \in Surjection(Triples, Handles!Entries)
  BY <1>2, <1>3 DEF Surjection
<1>5. QED
  BY <1>1, <1>4, FS_Surjection

LEMMA SmallerOfTwo ==
  ASSUME NEW m \in Nat, NEW n \in Nat
  PROVE  Handles!Min({m, n}) \in 0..n
BY DEF Handles!Min

LEMMA HandlesSearch ==
  ASSUME MaxInserts \in Nat, IsFiniteSet(Names), IsFiniteSet(Places)
  PROVE  HandleSpec => []Handles!SearchFindsNewest
<1>1. HandleInv => Handles!SearchFindsNewest
  <2> SUFFICES ASSUME HandleInv, NEW query \in Queries, NEW limit \in Nat
               PROVE  LET found == Handles!search(query, limit)
                          hits == {e \in UNION {Handles!Range(varEntries[m]) : m \in Names} :
                                     Hits(e.name, query)}
                      IN /\ Handles!Range(found) \subseteq hits /\ Handles!IsInjective(found)
                         /\ Len(found) = Handles!Min({limit, Handles!Cardinality(hits)})
                         /\ \A i \in DOMAIN found : \A e \in hits \ {found[j] : j \in 1..i} :
                              e.at <= found[i].at
    <3>1. IsFiniteSet(Handles!Keys)
      BY FS_Product DEF Handles!Keys
    <3>2. Handles!Cardinality(Handles!Keys) \in Nat
      BY <3>1, FS_CardinalityType, SameCardinality
    <3>3. \A limit \in 0..(Handles!Cardinality(Handles!Keys) + 1) : limit \in Nat
      BY <3>2
    <3>4. QED
      BY <3>3 DEF Handles!SearchFindsNewest
  <2>1. \A m \in Names : \A e \in Handles!Range(varEntries[m]) : e \in Handles!Entries /\ e.name = m
    <3> SUFFICES ASSUME NEW m \in Names, NEW e \in Handles!Range(varEntries[m])
                 PROVE  e \in Handles!Entries /\ e.name = m
      OBVIOUS
    <3> DEFINE Own == {x \in Handles!Entries : x.name = m}
    <3>1. PICK list \in Seq(Own) : list = varEntries[m]
      BY DEF HandleInv, HandleTypes
    <3> HIDE DEF Own
    <3>2. PICK i \in DOMAIN list : e = list[i]
      BY <3>1 DEF Handles!Range
    <3>3. e \in Own
      BY <3>1, <3>2, LenProperties, ElementOfSeq
    <3>4. QED
      BY <3>3 DEF Own
  <2>2. PICK hits : hits = HitsOf(query)
    OBVIOUS
  <2>3. hits = {e \in UNION {Handles!Range(varEntries[m]) : m \in Names} : Hits(e.name, query)}
    BY <2>1, <2>2 DEF HitsOf
  <2>4. IsFiniteSet(hits) /\ \A e \in hits : e.at \in 0..MaxInserts
    <3>1. hits \in SUBSET Handles!Entries
      BY <2>1, <2>3
    <3>2. \A e \in hits : e.at \in 0..MaxInserts
      BY <3>1 DEF Handles!Entries
    <3>3. QED
      BY <3>1, <3>2, EntriesFinite, FS_Subset
  <2>5. PICK n \in Nat : n = Cardinality(hits) /\ n = Handles!Cardinality(hits)
    BY <2>4, FS_CardinalityType, SameCardinality
  <2>6. PICK left, found :
          /\ found = Handles!search(query, limit)
          /\ Leaves(left, hits, n)
          /\ found = [i \in 1..Handles!Min({limit, n}) |-> Handles!Newest(left[i - 1])]
    <3>1. Handles!Cardinality(HitsOf(query)) = n
      BY <2>2, <2>5
    <3>2. PICK left :
            /\ Leaves(left, HitsOf(query), Handles!Cardinality(HitsOf(query)))
            /\ Handles!search(query, limit) =
                 [i \in 1..Handles!Min({limit, Handles!Cardinality(HitsOf(query))}) |->
                    Handles!Newest(left[i - 1])]
      BY <3>1, SearchChooses
    <3>3. Leaves(left, hits, n)
      BY <2>2, <3>1, <3>2
    <3>4. Handles!search(query, limit) =
            [i \in 1..Handles!Min({limit, n}) |-> Handles!Newest(left[i - 1])]
      BY <3>1, <3>2
    <3>5. QED
      BY <3>3, <3>4
  <2>7. PICK c \in 0..n : c = Handles!Min({limit, n})
    BY <2>5, SmallerOfTwo
  <2>8. \A i \in 1..n :
          /\ Handles!Newest(left[i - 1]) \in hits
          /\ \A j \in 1..(i - 1) : Handles!Newest(left[j - 1]) # Handles!Newest(left[i - 1])
          /\ \A e \in hits : \/ e.at <= Handles!Newest(left[i - 1]).at
                             \/ \E j \in 1..(i - 1) : e = Handles!Newest(left[j - 1])
    <3>1. Leaves(left, hits, n) /\ n = Cardinality(hits)
      BY <2>5, <2>6
    <3>2. QED
      BY <2>4, <3>1, ChoicesFall
  <2>9. DOMAIN found = 1..c /\ \A i \in 1..c : i \in 1..n /\ found[i] = Handles!Newest(left[i - 1])
    BY <2>6, <2>7
  <2>10. Len(found) = c
    BY <2>6, <2>7
  <2>11. \A i \in 1..c : /\ found[i] \in hits
                         /\ \A j \in 1..c : j < i => found[j] # found[i]
                         /\ \A e \in hits \ {found[j] : j \in 1..i} : e.at <= found[i].at
    <3> SUFFICES ASSUME NEW i \in 1..c
                 PROVE  /\ found[i] \in hits
                        /\ \A j \in 1..c : j < i => found[j] # found[i]
                        /\ \A e \in hits \ {found[j] : j \in 1..i} : e.at <= found[i].at
      OBVIOUS
    <3>1. \A j \in 1..c : j < i => j \in 1..(i - 1)
      OBVIOUS
    <3>2. \A j \in 1..(i - 1) : j \in 1..c /\ j \in 1..i
      OBVIOUS
    <3>3. i \in 1..n /\ found[i] = Handles!Newest(left[i - 1])
      BY <2>9
    <3>4. \A j \in 1..(i - 1) : found[j] = Handles!Newest(left[j - 1])
      BY <2>9, <3>2
    <3>5. found[i] \in hits /\ \A j \in 1..(i - 1) : found[j] # found[i]
      BY <2>8, <3>3, <3>4
    <3>6. \A e \in hits : e.at <= found[i].at \/ \E j \in 1..(i - 1) : e = found[j]
      BY <2>8, <3>3, <3>4
    <3>7. QED
      BY <3>1, <3>2, <3>5, <3>6
  <2>12. Handles!Range(found) \subseteq hits
    BY <2>9, <2>11 DEF Handles!Range
  <2>13. Handles!IsInjective(found)
    <3>1. \A i, j \in 1..c : i # j => i < j \/ j < i
      OBVIOUS
    <3>2. QED
      BY <2>9, <2>11, <3>1 DEF Handles!IsInjective
  <2>14. QED
    <3>1. Len(found) = Handles!Min({limit, Handles!Cardinality(hits)})
      BY <2>5, <2>7, <2>10
    <3>2. \A i \in DOMAIN found : \A e \in hits \ {found[j] : j \in 1..i} : e.at <= found[i].at
      BY <2>9, <2>11
    <3>3. found = Handles!search(query, limit)
      BY <2>6
    <3>4. QED
      BY <2>3, <2>12, <2>13, <3>1, <3>2, <3>3
<1>2. QED
  BY <1>1, HandleInvariant, PTL

-----------------------------------------------------------------------------
(* assemble_context.                                                       *)

\* How many of everything there are, and the values of the parameters.
CtxConstants ==
  Width \in [1..4 -> Nat] /\ Expandable \subseteq Nat /\ FrameLimits \subseteq Nat /\ Depths \subseteq Nat

CtxSpec == Context!Init /\ [][Context!Next]_(Context!ctxVars)

Widest == Context!Max({Width[i] : i \in 1..4})

LEMMA WidestBounds ==
  ASSUME CtxConstants
  PROVE  Widest \in Nat /\ \A i \in 1..4 : Width[i] \in 0..Widest
<1> DEFINE widths == {Width[i] : i \in 1..4}
           bound == Width[1] + Width[2] + Width[3] + Width[4]
           gaps == {bound - w : w \in widths}
<1>1. \A i \in 1..4 : Width[i] \in Nat /\ Width[i] <= bound
  <2>1. Width[1] \in Nat /\ Width[2] \in Nat /\ Width[3] \in Nat /\ Width[4] \in Nat
    BY DEF CtxConstants
  <2>2. \A i \in 1..4 : i = 1 \/ i = 2 \/ i = 3 \/ i = 4
    OBVIOUS
  <2>3. QED
    BY <2>1, <2>2
<1>2. bound \in Nat
  BY DEF CtxConstants
<1> HIDE DEF bound
<1>3. gaps \in SUBSET Nat /\ gaps # {}
  BY <1>1, <1>2
<1>4. PICK gap \in gaps : \A other \in gaps : gap <= other
  <2> HIDE DEF gaps
  <2>1. QED
    BY <1>3, SmallestElement
<1>5. PICK w \in widths : gap = bound - w
  OBVIOUS
<1>6. ASSUME NEW v \in widths PROVE w >= v
  <2>1. gap <= bound - v
    BY <1>4
  <2>2. v \in Nat /\ w \in Nat
    BY <1>1
  <2>3. QED
    BY <1>2, <1>5, <2>1, <2>2
<1>7. Widest \in widths /\ \A v \in widths : Widest >= v
  BY <1>6 DEF Widest, Context!Max
<1>8. QED
  BY <1>1, <1>7

\* The requests' paths are sequences of at most four numbers.
LEMMA PathIsSeq ==
  ASSUME CtxConstants, NEW r
  PROVE  r \in Context!Paths <=> r \in Seq(1..Widest) /\ Len(r) <= 4
<1>1. PICK S : S = 1..Widest /\ Context!Paths = UNION {[1..n -> S] : n \in 0..4}
  BY DEF Context!Paths, Widest
<1>2. ASSUME r \in Context!Paths PROVE r \in Seq(S) /\ Len(r) <= 4
  <2>1. PICK n \in 0..4 : r \in [1..n -> S]
    BY <1>1, <1>2
  <2>2. n \in Nat /\ n <= 4
    OBVIOUS
  <2>3. r \in Seq(S) /\ Len(r) = n
    BY <2>1, <2>2
  <2>4. QED
    BY <2>2, <2>3
<1>3. ASSUME r \in Seq(S), Len(r) <= 4 PROVE r \in Context!Paths
  <2>1. Len(r) \in Nat /\ r \in [1..Len(r) -> S]
    BY <1>3, LenProperties
  <2>2. Len(r) \in 0..4
    BY <1>3, <2>1
  <2>3. QED
    BY <1>1, <2>1, <2>2
<1>4. QED
  BY <1>1, <1>2, <1>3

\* A path begins with another when what it asks for hangs below what the other asks for.
Begins(p, r) == Len(p) <= Len(r) /\ \A i \in 1..Len(p) : r[i] = p[i]

LEMMA BeginsIsPrefix ==
  ASSUME NEW S, NEW p \in Seq(S), NEW r \in Seq(S)
  PROVE  Begins(p, r) <=> \E n \in 0..Len(r) : SubSeq(r, 1, n) = p
<1>1. Len(p) \in Nat /\ Len(r) \in Nat
  BY LenProperties
<1>2. ASSUME NEW n \in 0..Len(r)
      PROVE  /\ SubSeq(r, 1, n) \in Seq(S) /\ Len(SubSeq(r, 1, n)) = n
             /\ \A i \in 1..n : SubSeq(r, 1, n)[i] = r[i]
  <2>1. \A i \in 1..n : r[i] \in S
    BY <1>1, ElementOfSeq
  <2>2. 1 \in Int /\ n \in Int
    BY <1>1
  <2>3. /\ SubSeq(r, 1, n) \in Seq(S) /\ Len(SubSeq(r, 1, n)) = (IF 1 <= n THEN n - 1 + 1 ELSE 0)
        /\ \A i \in 1..(n - 1 + 1) : SubSeq(r, 1, n)[i] = r[1 + i - 1]
    BY <2>1, <2>2, SubSeqProperties
  <2>4. n \in Nat
    BY <1>1
  <2> DEFINE sub == SubSeq(r, 1, n)
  <2> HIDE DEF sub
  <2>5. Len(sub) = n /\ \A i \in 1..n : sub[i] = r[i]
    BY <2>3, <2>4 DEF sub
  <2>6. QED
    BY <2>3, <2>5 DEF sub
<1>3. ASSUME Begins(p, r) PROVE SubSeq(r, 1, Len(p)) = p /\ Len(p) \in 0..Len(r)
  <2>1. Len(p) \in 0..Len(r) /\ \A i \in 1..Len(p) : r[i] = p[i]
    BY <1>1, <1>3 DEF Begins
  <2>2. PICK sub \in Seq(S) : sub = SubSeq(r, 1, Len(p))
    BY <1>2, <2>1
  <2>3. Len(sub) = Len(p) /\ \A i \in 1..Len(p) : sub[i] = p[i]
    BY <1>2, <2>1, <2>2
  <2>4. sub = p
    BY <2>3, SeqEqual
  <2>5. QED
    BY <2>1, <2>2, <2>4
<1>4. ASSUME NEW n \in 0..Len(r), SubSeq(r, 1, n) = p PROVE Begins(p, r)
  BY <1>1, <1>2, <1>4 DEF Begins
<1>5. QED
  BY <1>3, <1>4

LEMMA BeginsAppend ==
  ASSUME NEW S, NEW q \in Seq(S)
  PROVE  \A x \in S, r \in Seq(S), longer \in Seq(S) : longer = Append(q, x) =>
           /\ Begins(q, longer) /\ ~Begins(longer, q)
           /\ Begins(longer, r) <=> Begins(q, r) /\ Len(q) < Len(r) /\ r[Len(q) + 1] = x
           /\ Begins(r, longer) <=> Begins(r, q) \/ r = longer
<1> SUFFICES ASSUME NEW x \in S, NEW r \in Seq(S), NEW longer \in Seq(S), longer = Append(q, x),
                    NEW p \in Seq(S), p = r
             PROVE  /\ Begins(q, longer) /\ ~Begins(longer, q)
                    /\ Begins(longer, r) <=> Begins(q, r) /\ Len(q) < Len(r) /\ r[Len(q) + 1] = x
                    /\ Begins(p, longer) <=> Begins(p, q) \/ p = longer
  OBVIOUS
<1>1. /\ Len(longer) = Len(q) + 1 /\ longer[Len(q) + 1] = x /\ \A i \in 1..Len(q) : longer[i] = q[i]
      /\ Len(q) \in Nat /\ Len(p) \in Nat /\ Len(r) \in Nat
  BY AppendProperties, LenProperties
<1>2. \A n \in Nat : 1..(n + 1) = 1..n \cup {n + 1}
  OBVIOUS
<1>3. Begins(q, longer) /\ ~Begins(longer, q)
  BY <1>1 DEF Begins
<1>4. Begins(longer, r) <=> Begins(q, r) /\ Len(q) < Len(r) /\ r[Len(q) + 1] = x
  <2>1. Len(longer) <= Len(r) <=> Len(q) <= Len(r) /\ Len(q) < Len(r)
    BY <1>1
  <2>2. (\A i \in 1..Len(longer) : r[i] = longer[i])
          <=> (\A i \in 1..Len(q) : r[i] = q[i]) /\ r[Len(q) + 1] = x
    BY <1>1, <1>2
  <2>3. QED
    BY <2>1, <2>2 DEF Begins
<1>5. ASSUME Begins(p, longer) PROVE Begins(p, q) \/ p = longer
  <2>1. CASE Len(p) = Len(longer)
    BY <1>5, <2>1, SeqEqual DEF Begins
  <2>2. CASE Len(p) # Len(longer)
    <3>1. Len(p) <= Len(q) /\ \A i \in 1..Len(p) : i \in 1..Len(q)
      BY <1>1, <1>5, <2>2 DEF Begins
    <3>2. QED
      BY <1>1, <1>5, <3>1 DEF Begins
  <2>3. QED
    BY <2>1, <2>2
<1>6. ASSUME Begins(p, q) \/ p = longer PROVE Begins(p, longer)
  <2>1. CASE Begins(p, q)
    <3>1. Len(p) <= Len(longer) /\ \A i \in 1..Len(p) : i \in 1..Len(q)
      BY <1>1, <2>1 DEF Begins
    <3>2. QED
      BY <1>1, <2>1, <3>1 DEF Begins
  <2>2. CASE p = longer
    BY <1>1, <2>2 DEF Begins
  <2>3. QED
    BY <1>6, <2>1, <2>2
<1>7. QED
  BY <1>3, <1>4, <1>5, <1>6

\* How many things an answer holds, and the requests that follow it up.
WidthBelow(q) == IF Len(q) = 4 THEN 0 ELSE Width[Len(q) + 1]
NextUpTo(q, n) == {Append(q, i) : i \in {i \in 1..n : Context!Follows(q, i)}}

LEMMA PathAppend ==
  ASSUME CtxConstants, NEW q \in Context!Paths
  PROVE  /\ WidthBelow(q) \in Nat
         /\ \A i \in 1..WidthBelow(q) : /\ Append(q, i) \in Context!Paths
                                        /\ i \in 1..Widest /\ Len(q) \in 0..3
                                        /\ i <= Width[Len(q) + 1]
<1>0. q \in Seq(1..Widest) /\ Len(q) <= 4
  BY PathIsSeq
<1>1. PICK k \in 0..4 : k = Len(q)
  <2>1. Len(q) \in Nat
    BY <1>0, LenProperties
  <2>2. PICK m \in Nat : m = Len(q) /\ m <= 4
    BY <1>0, <2>1
  <2>3. m \in 0..4
    BY <2>2
  <2>4. QED
    BY <2>2, <2>3
<1>2. Len(q) # 4 => Len(q) + 1 \in 1..4
  <2>1. k # 4 => k + 1 \in 1..4
    OBVIOUS
  <2>2. QED
    BY <1>1, <2>1
<1>3. WidthBelow(q) \in Nat
  BY <1>2 DEF WidthBelow, CtxConstants
<1>4. ASSUME NEW i \in 1..WidthBelow(q)
      PROVE  /\ Append(q, i) \in Context!Paths /\ i \in 1..Widest
             /\ Len(q) \in 0..3 /\ i <= Width[Len(q) + 1]
  <2>1. Len(q) # 4 /\ i <= Width[Len(q) + 1]
    BY <1>1, <1>2, <1>3, <1>4 DEF WidthBelow
  <2>2. i \in 1..Widest
    <3>1. Width[Len(q) + 1] \in 0..Widest /\ Widest \in Nat
      BY <1>2, <2>1, WidestBounds
    <3>2. QED
      BY <2>1, <3>1
  <2>3. Append(q, i) \in Seq(1..Widest) /\ Len(Append(q, i)) = Len(q) + 1
    BY <1>0, <2>2, AppendProperties
  <2>4. Len(Append(q, i)) <= 4
    <3>1. k # 4 => k + 1 <= 4
      OBVIOUS
    <3>2. QED
      BY <1>1, <2>1, <2>3, <3>1
  <2>5. Append(q, i) \in Context!Paths
    BY <2>3, <2>4, PathIsSeq
  <2>6. QED
    BY <1>1, <2>1, <2>2, <2>5
<1>5. QED
  BY <1>3, <1>4

\* The recursion that FollowUps computes.
Following(f, q, n) ==
  /\ DOMAIN f = 0..n /\ f[0] = <<>>
  /\ \A i \in 1..n : f[i] = IF Context!Follows(q, i) THEN Append(f[i - 1], Append(q, i)) ELSE f[i - 1]

LEMMA FollowingExists ==
  ASSUME CtxConstants, NEW q \in Context!Paths
  PROVE  \E f : Following(f, q, WidthBelow(q))
<1>1. PICK n \in Nat : n = WidthBelow(q)
  BY PathAppend
<1> DEFINE D == Seq(Context!Paths)
           step == [i \in 1..n |-> [s \in D |->
                      IF Context!Follows(q, i) THEN Append(s, Append(q, i)) ELSE s]]
<1>2. \A i \in 1..n, s \in D :
        /\ (IF Context!Follows(q, i) THEN Append(s, Append(q, i)) ELSE s) \in D
        /\ step[i][s] = IF Context!Follows(q, i) THEN Append(s, Append(q, i)) ELSE s
  <2>1. \A i \in 1..n : Append(q, i) \in Context!Paths
    BY <1>1, PathAppend
  <2>2. QED
    BY <2>1, AppendProperties
<1>3. <<>> \in D /\ step \in [1..n -> [D -> D]]
  BY <1>2, EmptySeq
<1> HIDE DEF D, step
<1>4. PICK f : Recurs(f, <<>>, step, D, n)
  BY <1>3, RecursionExists
<1>5. ASSUME NEW i \in 1..n
      PROVE  f[i] = IF Context!Follows(q, i) THEN Append(f[i - 1], Append(q, i)) ELSE f[i - 1]
  <2>1. i - 1 \in 0..n
    OBVIOUS
  <2>2. f[i - 1] \in D /\ f[i] = step[i][f[i - 1]]
    BY <1>4, <2>1 DEF Recurs
  <2>3. QED
    BY <1>2, <2>2
<1>6. Following(f, q, n)
  BY <1>4, <1>5 DEF Following, Recurs
<1>7. QED
  BY <1>1, <1>6

LEMMA FollowUpsFollow ==
  ASSUME CtxConstants, NEW q \in Context!Paths
  PROVE  \E f : Following(f, q, WidthBelow(q)) /\ Context!FollowUps(q) = f[WidthBelow(q)]
<1> DEFINE n == WidthBelow(q)
           E(f) == f = [i \in 0..n |-> IF i = 0 THEN <<>>
                                       ELSE IF Context!Follows(q, i) THEN Append(f[i - 1], Append(q, i))
                                       ELSE f[i - 1]]
           F == CHOOSE f : E(f)
<1>1. PICK f : Following(f, q, n)
  BY FollowingExists
<1>2. n \in Nat
  BY PathAppend
<1>3. Context!FollowUps(q) = F[n]
  BY DEF Context!FollowUps, WidthBelow
<1> HIDE DEF n
<1>4. \A i \in 0..n : i # 0 => i \in 1..n /\ i - 1 \in 0..n
  BY <1>2
<1>5. \E g : E(g)
  <2> DEFINE g == [i \in 0..n |-> f[i]]
  <2>1. \A i \in 0..n : g[i] = IF i = 0 THEN <<>>
                               ELSE IF Context!Follows(q, i) THEN Append(g[i - 1], Append(q, i))
                               ELSE g[i - 1]
    BY <1>1, <1>4 DEF Following
  <2>2. E(g)
    BY <2>1
  <2>3. QED
    BY <2>2
<1>6. E(F)
  BY <1>5
<1>7. Following(F, q, n)
  <2> HIDE DEF F
  <2>1. /\ DOMAIN F = 0..n
        /\ \A i \in 0..n : F[i] = IF i = 0 THEN <<>>
                                  ELSE IF Context!Follows(q, i) THEN Append(F[i - 1], Append(q, i))
                                  ELSE F[i - 1]
    BY <1>6
  <2>2. 0 \in 0..n /\ \A i \in 1..n : i \in 0..n /\ i # 0
    BY <1>2
  <2>3. QED
    BY <2>1, <2>2 DEF Following
<1> HIDE DEF F
<1>8. QED
  BY <1>3, <1>7 DEF n

\* FollowUps gives each request that follows up an answer, once.
LEMMA FollowUpsOnce ==
  ASSUME CtxConstants, NEW q \in Context!Paths
  PROVE  /\ Context!FollowUps(q) \in Seq(Context!Paths)
         /\ IsInjective(Context!FollowUps(q))
         /\ Range(Context!FollowUps(q)) = NextUpTo(q, WidthBelow(q))
<1>0. PICK n \in Nat : n = WidthBelow(q)
  BY PathAppend
<1>1. PICK f : Following(f, q, n) /\ n = WidthBelow(q) /\ Context!FollowUps(q) = f[n]
  BY <1>0, FollowUpsFollow
<1> DEFINE P(i) == f[i] \in Seq(Context!Paths) /\ IsInjective(f[i]) /\ Range(f[i]) = NextUpTo(q, i)
           Holds == {i \in 0..n : P(i)}
<1>2. 0 \in Holds
  <2>1. f[0] = <<>> /\ NextUpTo(q, 0) = {}
    BY <1>1 DEF Following, NextUpTo
  <2>2. <<>> \in Seq(Context!Paths) /\ IsInjective(<<>>) /\ Range(<<>>) = {}
    BY EmptySeq DEF IsInjective, Range
  <2>3. P(0)
    BY <2>1, <2>2
  <2>4. 0 \in 0..n
    OBVIOUS
  <2> HIDE DEF P
  <2>5. QED
    BY <2>3, <2>4
<1>3. ASSUME NEW i \in 1..n, i - 1 \in Holds PROVE i \in Holds
  <2>1. 1..i = 1..(i - 1) \cup {i} /\ i \notin 1..(i - 1) /\ i \in 0..n
    OBVIOUS
  <2>2. PICK s \in Seq(Context!Paths) : s = f[i - 1] /\ IsInjective(s) /\ Range(s) = NextUpTo(q, i - 1)
    BY <1>3
  <2>3. f[i] = IF Context!Follows(q, i) THEN Append(s, Append(q, i)) ELSE s
    BY <1>1, <2>2 DEF Following
  <2>4. CASE ~Context!Follows(q, i)
    <3>1. NextUpTo(q, i) = NextUpTo(q, i - 1)
      BY <2>1, <2>4 DEF NextUpTo
    <3>2. QED
      BY <2>1, <2>2, <2>3, <2>4, <3>1
  <2>5. CASE Context!Follows(q, i)
    <3>1. NextUpTo(q, i) = NextUpTo(q, i - 1) \cup {Append(q, i)}
      BY <2>1, <2>5 DEF NextUpTo
    <3>2. Append(q, i) \notin Range(s)
      <4>1. q \in Seq(1..Widest) /\ \A j \in 1..i : j \in 1..Widest
        BY <1>1, PathIsSeq, PathAppend
      <4>2. \A j \in 1..(i - 1) : j \in 1..i /\ j # i
        OBVIOUS
      <4>3. \A j \in 1..(i - 1) : Append(q, j) # Append(q, i)
        BY <4>1, <4>2, AppendInjective
      <4>4. QED
        BY <2>2, <4>3 DEF NextUpTo
    <3>3. PICK longer \in Context!Paths : longer = Append(q, i)
      BY <1>1, PathAppend
    <3>4. /\ Append(s, longer) \in Seq(Context!Paths) /\ IsInjective(Append(s, longer))
          /\ Range(Append(s, longer)) = Range(s) \cup {longer}
      <4>1. IsInjective(s) /\ longer \notin Range(s)
        BY <2>2, <3>2, <3>3
      <4>2. QED
        BY <4>1, AppendOnce
    <3>5. P(i)
      BY <2>2, <2>3, <2>5, <3>1, <3>3, <3>4
    <3>6. QED
      BY <2>1, <3>5
  <2>6. QED
    BY <2>4, <2>5
<1>4. Holds \in SUBSET (0..n)
  OBVIOUS
<1>5. n \in Holds
  <2>1. n \in 0..n
    OBVIOUS
  <2> HIDE DEF Holds
  <2>2. QED
    BY <1>2, <1>3, <1>4, <2>1, NaturalInduction
<1>6. P(n)
  BY <1>5
<1>7. QED
  BY <1>1, <1>6

\* The requests made and to be made account for every request the limits ask for: it has
\* been answered, it hangs below one that failed, or below one still to be made; and no
\* two of these are the case.
Frontier(todo, got, failed) ==
  /\ \A a, b \in todo : Begins(a, b) => a = b
  /\ \A a \in todo : /\ Context!Wanted(a)
                     /\ \A d \in got \cup failed : ~Begins(a, d)
                     /\ \A f \in failed : ~Begins(f, a)
  /\ \A g \in got : Context!Wanted(g) /\ \A f \in failed : ~Begins(f, g)
  /\ \A r \in Context!Paths : Context!Wanted(r) =>
       \/ r \in got
       \/ \E f \in failed : Begins(f, r)
       \/ \E a \in todo : Begins(a, r)

\* A failed request takes what hangs below it out of the account.
LEMMA FailureAccounted ==
  ASSUME NEW todo, NEW got, NEW failed, Frontier(todo, got, failed), NEW q \in todo
  PROVE  Frontier(todo \ {q}, got, failed \cup {q})
<1>1. \A a \in todo \ {q} : /\ a \in todo /\ ~Begins(q, a) /\ ~Begins(a, q)
  BY DEF Frontier
<1>2. \A g \in got : ~Begins(q, g)
  BY DEF Frontier
<1>3. QED
  BY <1>1, <1>2 DEF Frontier

\* What a follow-up is of is wanted, and everything wanted below is below a follow-up.
LEMMA FollowUpsWanted ==
  ASSUME CtxConstants, ctxLimits \in Context!Limits, NEW q \in Context!Paths, Context!Wanted(q)
  PROVE  /\ \A b \in NextUpTo(q, WidthBelow(q)) : Context!Wanted(b)
         /\ \A r \in Context!Paths : Context!Wanted(r) /\ Begins(q, r) /\ r # q =>
              \E b \in NextUpTo(q, WidthBelow(q)) : Begins(b, r)
<1>1. PICK S : S = 1..Widest /\ q \in Seq(S) /\ Len(q) \in 0..4 /\ Len(q) \in Nat
               /\ DOMAIN q = 1..Len(q)
  <2>1. q \in Seq(1..Widest) /\ Len(q) <= 4
    BY PathIsSeq
  <2>2. PICK m \in Nat : m = Len(q) /\ m <= 4
    BY <2>1, LenProperties
  <2>3. m \in 0..4 /\ DOMAIN q = 1..Len(q)
    BY <2>1, <2>2, LenProperties
  <2>4. QED
    BY <2>1, <2>2, <2>3
<1>0. ctxLimits.depth > 1 <=> ctxLimits.depth >= 2
  <2>1. ctxLimits.depth \in Nat
    BY DEF Context!Limits, CtxConstants
  <2>2. QED
    BY <2>1
<1>2. ASSUME NEW b \in NextUpTo(q, WidthBelow(q)) PROVE Context!Wanted(b)
  <2>1. PICK i \in 1..WidthBelow(q) : b = Append(q, i) /\ Context!Follows(q, i)
    BY <1>2 DEF NextUpTo
  <2>2. i \in S /\ i <= Width[Len(q) + 1] /\ Len(q) \in 0..3
    BY <1>1, PathAppend
  <2>3. /\ Len(b) = Len(q) + 1 /\ b[Len(q) + 1] = i /\ \A j \in 1..Len(q) : b[j] = q[j]
        /\ DOMAIN b = 1..(Len(q) + 1)
    <3>1. b \in Seq(S)
      BY <1>1, <2>1, <2>2, AppendProperties
    <3>2. QED
      BY <1>1, <2>1, <2>2, <3>1, AppendProperties, LenProperties
  <2>4. CASE Len(q) = 0
    BY <1>1, <2>1, <2>2, <2>3, <2>4 DEF Context!Wanted, Context!Follows
  <2>5. CASE Len(q) = 1
    BY <1>1, <2>1, <2>2, <2>3, <2>5 DEF Context!Wanted, Context!Follows
  <2>6. CASE Len(q) = 2
    BY <1>1, <2>1, <2>2, <2>3, <2>6 DEF Context!Wanted, Context!Follows
  <2>7. CASE Len(q) = 3
    <3>1. i \in Expandable /\ ctxLimits.depth >= 2
      BY <1>0, <2>1, <2>7 DEF Context!Follows
    <3>2. 3 \in DOMAIN q /\ 3 \in 1..Len(q) /\ q[3] \in Expandable
      BY <1>1, <2>7 DEF Context!Wanted
    <3>3. \A j \in DOMAIN b \cap {3, 4} : b[j] \in Expandable
      BY <2>3, <2>7, <3>1, <3>2
    <3>4. \A j \in DOMAIN b : b[j] <= Width[j]
      BY <1>1, <2>2, <2>3, <2>7 DEF Context!Wanted
    <3>5. /\ ctxLimits.thread \in {0, b[1]} /\ b[2] <= ctxLimits.frames
      BY <1>1, <2>3, <2>7 DEF Context!Wanted
    <3>6. QED
      BY <3>1, <3>3, <3>4, <3>5 DEF Context!Wanted
  <2>8. QED
    BY <2>2, <2>4, <2>5, <2>6, <2>7
<1>3. ASSUME NEW r \in Context!Paths, Context!Wanted(r), Begins(q, r), r # q
      PROVE  \E b \in NextUpTo(q, WidthBelow(q)) : Begins(b, r)
  <2>1. r \in Seq(S) /\ Len(r) \in Nat /\ Len(r) <= 4 /\ DOMAIN r = 1..Len(r)
    BY <1>1, PathIsSeq, LenProperties
  <2>2. Len(q) < Len(r)
    <3>1. Len(q) # Len(r)
      BY <1>1, <1>3, <2>1, SeqEqual DEF Begins
    <3>2. Len(q) <= Len(r)
      BY <1>3 DEF Begins
    <3>3. PICK m \in Nat, n \in Nat : m = Len(q) /\ n = Len(r)
      BY <1>1, <2>1
    <3>4. m < n
      BY <3>1, <3>2, <3>3
    <3>5. QED
      BY <3>3, <3>4
  <2>3. PICK k \in 1..Len(r) : k = Len(q) + 1 /\ k \in 1..4
    BY <1>1, <2>1, <2>2
  <2>4. r[k] \in S /\ r[k] <= Width[k] /\ r[k] \in Nat
    <3>1. r[k] \in S
      BY <2>1, ElementOfSeq
    <3>2. r[k] \in Nat
      BY <1>1, <3>1, WidestBounds
    <3>3. r[k] <= Width[k]
      BY <1>3, <2>1 DEF Context!Wanted
    <3>4. QED
      BY <3>1, <3>2, <3>3
  <2>5. WidthBelow(q) = Width[k] /\ r[k] \in 1..WidthBelow(q)
    <3>1. WidthBelow(q) = Width[k]
      BY <1>1, <2>3 DEF WidthBelow
    <3>2. r[k] >= 1 /\ Width[k] \in Nat
      BY <1>1, <2>3, <2>4, WidestBounds DEF CtxConstants
    <3>3. QED
      BY <2>4, <3>1, <3>2
  <2>6. Context!Follows(q, r[k])
    <3>1. CASE Len(q) = 0
      BY <1>3, <2>1, <2>3, <3>1 DEF Context!Wanted, Context!Follows
    <3>2. CASE Len(q) = 1
      BY <1>3, <2>1, <2>3, <3>2 DEF Context!Wanted, Context!Follows
    <3>3. CASE Len(q) = 2
      BY <1>3, <2>1, <2>3, <3>3 DEF Context!Wanted, Context!Follows
    <3>4. CASE Len(q) = 3
      <4>1. k = 4 /\ Len(r) = 4 /\ 4 \in DOMAIN r
        BY <2>1, <2>3, <3>4
      <4>2. r[k] \in Expandable /\ ctxLimits.depth >= 2
        BY <1>3, <4>1 DEF Context!Wanted
      <4>3. QED
        BY <1>0, <3>4, <4>2 DEF Context!Follows
    <3>5. QED
      BY <1>1, <2>3, <3>1, <3>2, <3>3, <3>4
  <2>7. Append(q, r[k]) \in NextUpTo(q, WidthBelow(q))
    BY <2>5, <2>6 DEF NextUpTo
  <2>8. Begins(Append(q, r[k]), r)
    <3>1. PICK longer \in Seq(S) : longer = Append(q, r[k])
      BY <1>1, <2>4, AppendProperties
    <3>2. Begins(longer, r) <=> Begins(q, r) /\ Len(q) < Len(r) /\ r[Len(q) + 1] = r[k]
      <4>1. \A x \in S, s \in Seq(S), l \in Seq(S) : l = Append(q, x) =>
              /\ Begins(q, l) /\ ~Begins(l, q)
              /\ Begins(l, s) <=> Begins(q, s) /\ Len(q) < Len(s) /\ s[Len(q) + 1] = x
              /\ Begins(s, l) <=> Begins(s, q) \/ s = l
        <5>1. q \in Seq(S)
          BY <1>1
        <5>2. QED
          BY Zenon, <5>1, BeginsAppend
      <4>2. r \in Seq(S) /\ r[k] \in S /\ longer \in Seq(S) /\ longer = Append(q, r[k])
        BY <2>1, <2>4, <3>1
      <4>3. QED
        BY Zenon, <4>1, <4>2
    <3>3. QED
      BY <1>3, <2>2, <2>3, <3>1, <3>2
  <2>9. QED
    BY <2>7, <2>8
<1>4. QED
  BY <1>2, <1>3

\* An answered request is counted, and what it leads to is to be made.
LEMMA AnswerAccounted ==
  ASSUME CtxConstants, ctxLimits \in Context!Limits,
         NEW todo \in SUBSET Context!Paths, NEW got \in SUBSET Context!Paths,
         NEW failed \in SUBSET Context!Paths, Frontier(todo, got, failed), NEW q \in todo
  PROVE  Frontier(NextUpTo(q, WidthBelow(q)) \cup (todo \ {q}), got \cup {q}, failed)
<1>1. PICK next : next = NextUpTo(q, WidthBelow(q))
  OBVIOUS
<1>2. PICK S : S = 1..Widest /\ q \in Seq(S) /\ \A r \in Context!Paths : r \in Seq(S)
  BY PathIsSeq
<1>3. ASSUME NEW b \in next
      PROVE  /\ Context!Wanted(b) /\ b \in Context!Paths
             /\ Begins(q, b) /\ ~Begins(b, q)
             /\ \A r \in Context!Paths : Begins(b, r) => Begins(q, r)
             /\ \A p \in Context!Paths : Begins(p, b) => Begins(p, q) \/ p = b
  <2>1. PICK i \in 1..WidthBelow(q) : b = Append(q, i)
    BY <1>1, <1>3 DEF NextUpTo
  <2>2. b \in Context!Paths /\ i \in S
    BY <1>2, <2>1, PathAppend
  <2>3. Context!Wanted(b)
    BY <1>1, <1>3, FollowUpsWanted DEF Frontier
  <2>4. b \in Seq(S)
    BY <1>2, <2>2
  <2>8. \A r \in Seq(S) : /\ Begins(q, b) /\ ~Begins(b, q)
                          /\ Begins(b, r) <=> Begins(q, r) /\ Len(q) < Len(r) /\ r[Len(q) + 1] = i
                          /\ Begins(r, b) <=> Begins(r, q) \/ r = b
    <3>1. \A x \in S, r \in Seq(S), l \in Seq(S) : l = Append(q, x) =>
            /\ Begins(q, l) /\ ~Begins(l, q)
            /\ Begins(l, r) <=> Begins(q, r) /\ Len(q) < Len(r) /\ r[Len(q) + 1] = x
            /\ Begins(r, l) <=> Begins(r, q) \/ r = l
      <4>1. q \in Seq(S)
        BY <1>2
      <4>2. QED
        BY Zenon, <4>1, BeginsAppend
    <3>2. QED
      BY <2>1, <2>2, <2>4, <3>1
  <2>5. Begins(q, b) /\ ~Begins(b, q)
    BY <1>2, <2>8
  <2>6. \A r \in Seq(S) : (Begins(b, r) => Begins(q, r)) /\ (Begins(r, b) => Begins(r, q) \/ r = b)
    BY <2>8
  <2>7. QED
    BY <1>2, <2>2, <2>3, <2>5, <2>6
<1>4. \A a \in todo : a # q => ~Begins(q, a) /\ ~Begins(a, q)
  BY DEF Frontier
<1>5. ASSUME NEW a \in next \cup (todo \ {q}), NEW b \in next \cup (todo \ {q}), Begins(a, b)
      PROVE  a = b
  <2>1. CASE a \in next /\ b \in next
    BY <1>3, <1>5, <2>1
  <2>2. CASE a \in next /\ b \notin next
    BY <1>3, <1>4, <1>5, <2>2
  <2>3. CASE a \notin next /\ b \in next
    <3>1. a \in todo /\ a # q /\ a \in Context!Paths
      BY <2>3
    <3>2. Begins(a, q) \/ a = b
      BY <1>3, <1>5, <2>3, <3>1
    <3>3. QED
      BY <1>4, <2>3, <3>1, <3>2
  <2>4. CASE a \notin next /\ b \notin next
    BY <1>5, <2>4 DEF Frontier
  <2>5. QED
    BY <2>1, <2>2, <2>3, <2>4
<1>6. ASSUME NEW a \in next \cup (todo \ {q})
      PROVE  /\ Context!Wanted(a)
             /\ \A d \in (got \cup {q}) \cup failed : ~Begins(a, d)
             /\ \A f \in failed : ~Begins(f, a)
  <2>1. CASE a \in next
    <3>1. \A d \in got \cup failed : ~Begins(q, d) /\ d \in Context!Paths
      BY DEF Frontier
    <3>2. \A f \in failed : ~Begins(f, q) /\ f # a
      <4>1. \A f \in failed : ~Begins(f, q) /\ ~Begins(q, f)
        BY DEF Frontier
      <4>2. Begins(q, a)
        BY <1>3, <2>1
      <4>3. QED
        BY <4>1, <4>2
    <3>3. QED
      BY <1>3, <2>1, <3>1, <3>2
  <2>2. CASE a \in todo /\ a # q
    BY <1>4, <2>2 DEF Frontier
  <2>3. QED
    BY <1>6, <2>1, <2>2
<1>7. ASSUME NEW g \in got \cup {q}
      PROVE  Context!Wanted(g) /\ \A f \in failed : ~Begins(f, g)
  BY DEF Frontier
<1>8. ASSUME NEW r \in Context!Paths, Context!Wanted(r)
      PROVE  \/ r \in got \cup {q}
             \/ \E f \in failed : Begins(f, r)
             \/ \E a \in next \cup (todo \ {q}) : Begins(a, r)
  <2>1. CASE Begins(q, r) /\ r # q
    <3>1. q \in Context!Paths /\ Context!Wanted(q)
      BY DEF Frontier
    <3>2. \E b \in next : Begins(b, r)
      BY <1>1, <1>8, <2>1, <3>1, FollowUpsWanted
    <3>3. QED
      BY <3>2
  <2>2. CASE ~Begins(q, r) \/ r = q
    BY <1>8, <2>2 DEF Frontier
  <2>3. QED
    BY <2>1, <2>2
<1>9. Frontier(next \cup (todo \ {q}), got \cup {q}, failed)
  BY <1>5, <1>6, <1>7, <1>8 DEF Frontier
<1>10. QED
  BY <1>1, <1>9

\* The types of the call's state, and how its progress and its outcome go together.
CtxTypes ==
  /\ ctxLimits \in Context!Limits
  /\ ctxState \in {"Halted", "Running"} /\ ctxStep \in {"gate", "wait", "cache"}
  /\ ctxOutcome \in {"running", "done", "error"}
  /\ ctxStops \in Nat \ {0} /\ (ctxStep = "cache" => ctxAsOf \in 1..ctxStops)
  /\ ctxTodo \in Seq(Context!Paths) /\ IsInjective(ctxTodo)
  /\ ctxGot \subseteq Context!Paths /\ ctxFailed \subseteq Context!Paths
  /\ \A e \in ctxCached : e.scope \in ctxGot /\ e.stop \in 1..ctxStops
CtxOutcome ==
  /\ ctxOutcome = "running" <=> ctxTodo # <<>> /\ <<>> \notin ctxFailed
  /\ ctxOutcome = "error" <=> <<>> \in ctxFailed
  /\ ctxStep # "gate" => ctxOutcome = "running"
CtxAccount == Frontier(Range(ctxTodo), ctxGot, ctxFailed)

CtxInv == CtxTypes /\ CtxOutcome /\ CtxAccount

\* The first request is the only one that begins with nothing.
LEMMA NothingIsAPath ==
  ASSUME CtxConstants
  PROVE  /\ <<>> \in Context!Paths /\ Context!Wanted(<<>>)
         /\ \A r \in Context!Paths : Begins(<<>>, r)
<1>1. <<>> \in Seq(1..Widest) /\ Len(<<>>) = 0 /\ DOMAIN <<>> = {}
  BY EmptySeq
<1>2. <<>> \in Context!Paths
  <2>1. \A r : r \in Context!Paths <=> r \in Seq(1..Widest) /\ Len(r) <= 4
    BY PathIsSeq
  <2>2. PICK none : none = <<>> /\ none \in Seq(1..Widest) /\ Len(none) = 0
    BY <1>1
  <2>3. Len(none) <= 4
    BY <2>2
  <2>4. none \in Context!Paths
    BY Zenon, <2>1, <2>2, <2>3
  <2>5. QED
    BY <2>2, <2>4
<1>3. Context!Wanted(<<>>)
  BY <1>1 DEF Context!Wanted
<1>4. ASSUME NEW r \in Context!Paths PROVE Begins(<<>>, r)
  <2>1. Len(r) \in Nat
    BY PathIsSeq, LenProperties
  <2>2. QED
    BY <1>1, <2>1 DEF Begins
<1>5. QED
  BY <1>2, <1>3, <1>4

LEMMA CtxStarts ==
  ASSUME CtxConstants, Context!Init
  PROVE  CtxInv
<1>1. PICK todo \in Seq(Context!Paths) : todo = << <<>> >> /\ todo # <<>> /\ IsInjective(todo)
                                         /\ Range(todo) = {<<>>}
  <2>1. PICK none, todo : none = <<>> /\ todo = <<none>> /\ todo = << <<>> >>
    OBVIOUS
  <2>5. DOMAIN todo = {1} /\ todo[1] = none /\ todo # <<>>
    BY <2>1
  <2>2. << <<>> >> \in Seq(Context!Paths)
    BY NothingIsAPath
  <2>3. IsInjective(todo) /\ Range(todo) = {<<>>}
    BY <2>1, <2>5 DEF IsInjective, Range
  <2>4. QED
    BY <2>1, <2>2, <2>3, <2>5
<1>2. CtxTypes
  BY <1>1 DEF Context!Init, CtxTypes
<1>3. CtxOutcome
  BY <1>1 DEF Context!Init, CtxOutcome
<1>4. CtxAccount
  <2>1. Range(ctxTodo) = {<<>>} /\ ctxGot = {} /\ ctxFailed = {}
    BY <1>1 DEF Context!Init
  <2>2. Frontier({<<>>}, {}, {})
    BY NothingIsAPath DEF Frontier
  <2>3. QED
    BY <2>1, <2>2 DEF CtxAccount
<1>5. QED
  BY <1>2, <1>3, <1>4 DEF CtxInv

\* The limits stay, so what is accounted for after a step is what was wanted before it.
LEMMA AccountKept ==
  ASSUME ctxLimits' = ctxLimits, Frontier(Range(ctxTodo)', ctxGot', ctxFailed')
  PROVE  CtxAccount'
<1>1. \A r : Context!Wanted(r)' <=> Context!Wanted(r)
  BY DEF Context!Wanted
<1>2. QED
  BY <1>1 DEF CtxAccount, Frontier

LEMMA CtxFails ==
  ASSUME CtxConstants, CtxInv, Context!Fail(Head(ctxTodo)), ctxOutcome = "running",
         ctxStep' = "gate", UNCHANGED <<ctxLimits, ctxState, ctxStops, ctxAsOf, ctxCached, ctxGot>>
  PROVE  CtxInv'
<1>1. /\ Tail(ctxTodo) \in Seq(Context!Paths) /\ IsInjective(Tail(ctxTodo))
      /\ Range(Tail(ctxTodo)) = Range(ctxTodo) \ {Head(ctxTodo)} /\ Head(ctxTodo) \in Range(ctxTodo)
      /\ Head(ctxTodo) \in Context!Paths
  <2>1. ctxTodo \in Seq(Context!Paths) /\ ctxTodo # <<>> /\ IsInjective(ctxTodo)
    BY DEF CtxInv, CtxTypes, CtxOutcome
  <2>2. QED
    BY <2>1, TailOnce, HeadTailProperties
<1>2. PICK q \in Context!Paths : q = Head(ctxTodo)
  BY <1>1
<1>3. PICK rest \in Seq(Context!Paths) : rest = Tail(ctxTodo) /\ IsInjective(rest)
                                         /\ Range(rest) = Range(ctxTodo) \ {q} /\ q \in Range(ctxTodo)
  BY <1>1, <1>2
<1>4. /\ ctxFailed' = ctxFailed \cup {q} /\ ctxTodo' = rest
      /\ ctxOutcome' = IF q = <<>> THEN "error" ELSE IF rest = <<>> THEN "done" ELSE "running"
  BY <1>2, <1>3 DEF Context!Fail
<1>5. CtxTypes'
  BY <1>3, <1>4 DEF CtxInv, CtxTypes
<1>6. CtxOutcome'
  BY <1>4 DEF CtxInv, CtxOutcome
<1>7. CtxAccount'
  <2>1. Frontier(Range(ctxTodo) \ {q}, ctxGot, ctxFailed \cup {q})
    BY <1>3, FailureAccounted DEF CtxInv, CtxAccount
  <2>2. Range(ctxTodo)' = Range(ctxTodo) \ {q} /\ ctxGot' = ctxGot
    BY <1>3, <1>4
  <2>3. Frontier(Range(ctxTodo)', ctxGot', ctxFailed')
    BY <1>4, <2>1, <2>2
  <2>4. QED
    BY <2>3, AccountKept
<1>8. QED
  BY <1>5, <1>6, <1>7 DEF CtxInv

\* An answer adds what hangs directly below the request in front of the requests to make.
LEMMA CtxAdvances ==
  ASSUME CtxConstants, CtxInv, Context!Advance, ctxOutcome = "running",
         UNCHANGED <<ctxLimits, ctxState, ctxStops, ctxFailed>>,
         \A e \in ctxCached' : e.scope \in ctxGot' /\ e.stop \in 1..ctxStops
  PROVE  CtxInv'
<1>1. /\ Tail(ctxTodo) \in Seq(Context!Paths) /\ IsInjective(Tail(ctxTodo))
      /\ Range(Tail(ctxTodo)) = Range(ctxTodo) \ {Head(ctxTodo)} /\ Head(ctxTodo) \in Range(ctxTodo)
      /\ Head(ctxTodo) \in Context!Paths /\ Range(ctxTodo) \in SUBSET Context!Paths
  <2>1. ctxTodo \in Seq(Context!Paths) /\ ctxTodo # <<>> /\ IsInjective(ctxTodo)
    BY DEF CtxInv, CtxTypes, CtxOutcome
  <2>2. Range(ctxTodo) \in SUBSET Context!Paths
    BY <2>1, ElementOfSeq, LenProperties DEF Range
  <2>3. QED
    BY <2>1, <2>2, TailOnce, HeadTailProperties
<1>2. PICK q \in Context!Paths : q = Head(ctxTodo)
  BY <1>1
<1>3. PICK rest \in Seq(Context!Paths) : rest = Tail(ctxTodo) /\ IsInjective(rest)
                                         /\ Range(rest) = Range(ctxTodo) \ {q} /\ q \in Range(ctxTodo)
  BY <1>1, <1>2
<1>4. PICK next \in Seq(Context!Paths) : next = Context!FollowUps(q) /\ IsInjective(next)
                                         /\ Range(next) = NextUpTo(q, WidthBelow(q))
  BY FollowUpsOnce
<1>5. Frontier(Range(next) \cup (Range(ctxTodo) \ {q}), ctxGot \cup {q}, ctxFailed)
  <2>1. /\ ctxLimits \in Context!Limits /\ Range(ctxTodo) \in SUBSET Context!Paths
        /\ ctxGot \in SUBSET Context!Paths /\ ctxFailed \in SUBSET Context!Paths
        /\ Frontier(Range(ctxTodo), ctxGot, ctxFailed)
    BY <1>1 DEF CtxInv, CtxTypes, CtxAccount
  <2>2. QED
    BY <1>3, <1>4, <2>1, AnswerAccounted
<1>6. Range(next) \cap Range(rest) = {}
  <2>1. PICK S : S = 1..Widest /\ q \in Seq(S)
    BY PathIsSeq
  <2>2. ASSUME NEW b \in Range(next) PROVE Begins(q, b) /\ ~Begins(b, q)
    <3>1. PICK i \in 1..WidthBelow(q) : b = Append(q, i)
      BY <1>4 DEF NextUpTo
    <3>2. i \in S
      BY <2>1, PathAppend
    <3>3. b \in Seq(S)
      BY <2>1, <3>1, <3>2, AppendProperties
    <3>4. \A x \in S, s \in Seq(S), l \in Seq(S) : l = Append(q, x) =>
            /\ Begins(q, l) /\ ~Begins(l, q)
            /\ Begins(l, s) <=> Begins(q, s) /\ Len(q) < Len(s) /\ s[Len(q) + 1] = x
            /\ Begins(s, l) <=> Begins(s, q) \/ s = l
      <4>1. q \in Seq(S)
        BY <2>1
      <4>2. QED
        BY Zenon, <4>1, BeginsAppend
    <3>5. QED
      BY Zenon, <3>1, <3>2, <3>3, <3>4
  <2>3. \A a \in Range(ctxTodo) : Begins(q, a) => a = q
    BY <1>3 DEF CtxInv, CtxAccount, Frontier
  <2>4. QED
    BY <1>3, <2>2, <2>3
<1>7. PICK todo \in Seq(Context!Paths) : todo = next \o rest /\ IsInjective(todo)
                                         /\ Range(todo) = Range(next) \cup Range(rest)
  <2>1. /\ next \o rest \in Seq(Context!Paths) /\ IsInjective(next \o rest)
        /\ Range(next \o rest) = Range(next) \cup Range(rest)
    BY Zenon, <1>3, <1>4, <1>6, ConcatOnce
  <2>2. QED
    BY <2>1
<1>8. /\ ctxStep' = "gate" /\ ctxGot' = ctxGot \cup {q} /\ ctxTodo' = todo
      /\ ctxOutcome' = IF todo = <<>> THEN "done" ELSE "running"
  BY <1>2, <1>3, <1>4, <1>7 DEF Context!Advance
<1>9. CtxTypes'
  BY <1>7, <1>8 DEF CtxInv, CtxTypes
<1>10. CtxOutcome'
  BY <1>8 DEF CtxInv, CtxOutcome
<1>11. CtxAccount'
  <2>1. Range(ctxTodo)' = Range(next) \cup (Range(ctxTodo) \ {q})
    BY <1>3, <1>7, <1>8
  <2>2. Frontier(Range(ctxTodo)', ctxGot', ctxFailed')
    BY <1>5, <1>8, <2>1
  <2>3. QED
    BY <2>2, AccountKept
<1>12. QED
  BY <1>9, <1>10, <1>11 DEF CtxInv

LEMMA CtxSteps ==
  ASSUME CtxConstants, CtxInv, [Context!Next]_(Context!ctxVars)
  PROVE  CtxInv'
<1>1. CASE Context!Gate
  <2>1. CASE ctxState = "Halted"
    <3>1. /\ ctxStep' = "wait" /\ ctxOutcome = "running"
          /\ UNCHANGED <<ctxLimits, ctxState, ctxStops, ctxTodo, ctxAsOf, ctxCached, ctxGot, ctxFailed,
                         ctxOutcome>>
      BY <1>1, <2>1 DEF Context!Gate
    <3>2. CtxTypes' /\ CtxOutcome'
      BY <3>1 DEF CtxInv, CtxTypes, CtxOutcome
    <3>3. CtxAccount'
      BY <3>1, AccountKept DEF CtxInv, CtxAccount
    <3>4. QED
      BY <3>2, <3>3 DEF CtxInv
  <2>2. CASE ctxState # "Halted"
    BY <1>1, <2>2, CtxFails DEF Context!Gate
  <2>3. QED
    BY <2>1, <2>2
<1>2. CASE Context!Succeed
  <2>1. ctxOutcome = "running"
    BY <1>2 DEF Context!Succeed, CtxInv, CtxOutcome
  <2>2. CASE Len(Head(ctxTodo)) = 3
    <3>1. /\ ctxStep' = "cache" /\ ctxAsOf' = ctxStops
          /\ UNCHANGED <<ctxLimits, ctxState, ctxStops, ctxTodo, ctxCached, ctxGot, ctxFailed,
                         ctxOutcome>>
      BY <1>2, <2>2 DEF Context!Succeed
    <3>2. CtxTypes' /\ CtxOutcome'
      BY <2>1, <3>1 DEF CtxInv, CtxTypes, CtxOutcome
    <3>3. CtxAccount'
      BY <3>1, AccountKept DEF CtxInv, CtxAccount
    <3>4. QED
      BY <3>2, <3>3 DEF CtxInv
  <2>3. CASE Len(Head(ctxTodo)) # 3
    <3>1. /\ Context!Advance /\ UNCHANGED <<ctxLimits, ctxState, ctxStops, ctxFailed>>
          /\ ctxCached' = ctxCached
      BY <1>2, <2>3 DEF Context!Succeed
    <3>2. \A e \in ctxCached' : e.scope \in ctxGot' /\ e.stop \in 1..ctxStops
      BY <3>1 DEF Context!Advance, CtxInv, CtxTypes
    <3>3. QED
      BY <2>1, <3>1, <3>2, CtxAdvances
  <2>4. QED
    BY <2>2, <2>3
<1>3. CASE Context!Cache
  <2>1. ctxOutcome = "running" /\ ctxAsOf \in 1..ctxStops
    BY <1>3 DEF Context!Cache, CtxInv, CtxTypes, CtxOutcome
  <2>2. \A e \in ctxCached' : e.scope \in ctxGot' /\ e.stop \in 1..ctxStops
    BY <1>3, <2>1 DEF Context!Cache, Context!Advance, CtxInv, CtxTypes
  <2>3. QED
    BY <1>3, <2>1, <2>2, CtxAdvances DEF Context!Cache
<1>4. CASE Context!Refuse
  <2>1. ctxOutcome = "running"
    BY <1>4 DEF Context!Refuse, CtxInv, CtxOutcome
  <2>2. QED
    BY <1>4, <2>1, CtxFails DEF Context!Refuse
<1>5. CASE Context!Resume
  <2>1. /\ ctxState' = "Running" /\ ctxCached' = {}
        /\ UNCHANGED <<ctxLimits, ctxStops, ctxTodo, ctxStep, ctxAsOf, ctxGot, ctxFailed, ctxOutcome>>
    BY <1>5 DEF Context!Resume
  <2>2. CtxTypes' /\ CtxOutcome'
    BY <2>1 DEF CtxInv, CtxTypes, CtxOutcome
  <2>3. CtxAccount'
    BY <2>1, AccountKept DEF CtxInv, CtxAccount
  <2>4. QED
    BY <2>2, <2>3 DEF CtxInv
<1>6. CASE Context!Stop
  <2>1. /\ ctxState' = "Halted" /\ ctxStops' = ctxStops + 1
        /\ UNCHANGED <<ctxLimits, ctxTodo, ctxStep, ctxAsOf, ctxCached, ctxGot, ctxFailed, ctxOutcome>>
    BY <1>6 DEF Context!Stop
  <2>2. CtxTypes'
    <3>1. /\ ctxStops' \in Nat \ {0} /\ 1..ctxStops \subseteq 1..ctxStops'
      BY <2>1 DEF CtxInv, CtxTypes
    <3>2. QED
      BY <2>1, <3>1 DEF CtxInv, CtxTypes
  <2>3. CtxOutcome'
    BY <2>1 DEF CtxInv, CtxOutcome
  <2>4. CtxAccount'
    BY <2>1, AccountKept DEF CtxInv, CtxAccount
  <2>5. QED
    BY <2>2, <2>3, <2>4 DEF CtxInv
<1>7. CASE UNCHANGED Context!ctxVars
  <2>1. UNCHANGED <<ctxLimits, ctxState, ctxStops, ctxTodo, ctxStep, ctxAsOf, ctxCached, ctxGot,
                    ctxFailed, ctxOutcome>>
    BY <1>7 DEF Context!ctxVars
  <2>2. CtxTypes' /\ CtxOutcome'
    BY <2>1 DEF CtxInv, CtxTypes, CtxOutcome
  <2>3. CtxAccount'
    BY <2>1, AccountKept DEF CtxInv, CtxAccount
  <2>4. QED
    BY <2>2, <2>3 DEF CtxInv
<1>8. QED
  BY <1>1, <1>2, <1>3, <1>4, <1>5, <1>6, <1>7 DEF Context!Next

LEMMA CtxInvariant ==
  ASSUME CtxConstants
  PROVE  CtxSpec => []CtxInv
<1>1. Context!Init => CtxInv
  BY CtxStarts
<1>2. CtxInv /\ [Context!Next]_(Context!ctxVars) => CtxInv'
  BY CtxSteps
<1>3. QED
  BY <1>1, <1>2, PTL DEF CtxSpec

\* When nothing is left to be made, the account is that of the finished result.
LEMMA CtxLosesOnlyFailed ==
  ASSUME CtxConstants, CtxInv
  PROVE  Context!TypeOK /\ Context!LosesOnlyWhatFailed
<1>1. Context!TypeOK
  BY DEF Context!TypeOK, CtxInv, CtxTypes, CtxOutcome
<1>2. ASSUME ctxOutcome = "done"
      PROVE  ctxGot = {r \in Context!Paths : Context!Wanted(r)
                         /\ \A n \in 0..Len(r) : SubSeq(r, 1, n) \notin ctxFailed}
  <2>1. ctxTodo = <<>> /\ Range(ctxTodo) = {}
    <3>1. ctxTodo = <<>>
      BY <1>2 DEF CtxInv, CtxOutcome
    <3>2. QED
      BY <3>1, EmptySeq DEF Range
  <2>2. ASSUME NEW r \in Context!Paths
        PROVE  (\A n \in 0..Len(r) : SubSeq(r, 1, n) \notin ctxFailed)
                 <=> \A f \in ctxFailed : ~Begins(f, r)
    <3>1. PICK S : \A p : p \in Context!Paths => p \in Seq(S)
      BY PathIsSeq
    <3>2. \A p \in Seq(S) : Begins(p, r) <=> \E n \in 0..Len(r) : SubSeq(r, 1, n) = p
      BY <3>1, BeginsIsPrefix
    <3>3. ctxFailed \subseteq Seq(S)
      BY <3>1 DEF CtxInv, CtxTypes
    <3>4. QED
      BY Zenon, <3>2, <3>3
  <2>3. \A r \in Context!Paths : r \in ctxGot <=> Context!Wanted(r) /\ \A f \in ctxFailed : ~Begins(f, r)
    BY <2>1 DEF CtxInv, CtxAccount, Frontier
  <2>4. ctxGot \subseteq Context!Paths
    BY DEF CtxInv, CtxTypes
  <2>5. QED
    BY <2>2, <2>3, <2>4
<1>3. QED
  BY <1>1, <1>2 DEF Context!LosesOnlyWhatFailed

LEMMA CtxProperties ==
  ASSUME CtxConstants
  PROVE  CtxSpec => [](Context!TypeOK /\ Context!LosesOnlyWhatFailed)
<1>1. CtxInv => Context!TypeOK /\ Context!LosesOnlyWhatFailed
  BY CtxLosesOnlyFailed
<1>2. CtxSpec => []CtxInv
  BY CtxInvariant
<1>3. QED
  BY <1>1, <1>2, PTL

-----------------------------------------------------------------------------
(* Side by side, each component does what it does by itself.               *)

LEMMA LogMoves == Spec => LogSpec
<1>1. Init => Log!Init
  BY DEF Init
<1>2. [Next]_vars => [Log!Next]_(Log!traceVars)
  BY DEF Next, vars, trace, Log!traceVars
<1>3. QED
  BY <1>1, <1>2, PTL DEF Spec, LogSpec

LEMMA PathsMoves == Spec => PathSpec
<1>1. Init => Paths!Init
  BY DEF Init
<1>2. [Next]_vars => [Paths!Next]_(Paths!pathVars)
  BY DEF Next, vars, mapper, Paths!pathVars
<1>3. QED
  BY <1>1, <1>2, PTL DEF Spec, PathSpec

LEMMA StdioMoves == Spec => StdioSpec
<1>1. Init => Stdio!Init
  BY DEF Init
<1>2. [Next]_vars => [Stdio!Next]_(Stdio!stdioVars)
  BY DEF Next, vars, stdio, Stdio!stdioVars
<1>3. QED
  BY <1>1, <1>2, PTL DEF Spec, StdioSpec

LEMMA HandlesMoves == Spec => HandleSpec
<1>1. Init => Handles!Init
  BY DEF Init
<1>2. [Next]_vars => [Handles!Next]_(Handles!varVars)
  BY DEF Next, vars, handles, Handles!varVars
<1>3. QED
  BY <1>1, <1>2, PTL DEF Spec, HandleSpec

LEMMA ContextMoves == Spec => CtxSpec
<1>1. Init => Context!Init
  BY DEF Init
<1>2. [Next]_vars => [Context!Next]_(Context!ctxVars)
  BY DEF Next, vars, context, Context!ctxVars
<1>3. QED
  BY <1>1, <1>2, PTL DEF Spec, CtxSpec

LEMMA CodecMoves == Spec => CodecSpec
<1>1. Init => Codec!Init
  BY DEF Init
<1>2. [Next]_vars => [Codec!Next]_(Codec!codecVars)
  BY DEF Next, vars, codec, Codec!codecVars
<1>3. QED
  BY <1>1, <1>2, PTL DEF Spec, CodecSpec

\* lib.rs of dap-codec: whatever frames are sent, well formed or not, and wherever the
\* stream is cut into reads and the reads into calls of decode, the bodies come out whole
\* and in order, none lost and none beside them; a decoder that waits holds less than a
\* frame, and it fails only at a frame that it has to refuse.
THEOREM DecoderFollowsTheStream == Spec => []DecodesTheStream
<1>1. CodecConstants
  BY CodecAssumption DEF CodecConstants, Bodies
<1>2. CodecInv => Codec!DecodesTheStream
  BY <1>1, CodecShows
<1>3. CodecSpec => []CodecInv
  BY <1>1, CodecInvariant
<1>4. QED
  BY <1>2, <1>3, CodecMoves, PTL DEF DecodesTheStream

\* handle.rs, recent: whatever the size of the ring and however many entries are asked
\* for, they are the newest consumed, in order from the newest, and as many as asked
\* for as far as the ring has room.
THEOREM RecentGivesTheNewest == Spec => []RecentIsNewest
<1>1. LogSpec => []Log!RecentIsNewest
  BY TraceAssumption, TraceRecent DEF LogConstants
<1>2. QED
  BY <1>1, LogMoves, PTL DEF RecentIsNewest

\* logger.rs: through every interleaving of callers and task, a full channel or an empty
\* one, entries that cannot be serialized and a file that fails or never opens, the file
\* has no gap but for what was skipped, and when it has been flushed nothing is missing.
THEOREM FileHasNoGap == Spec => []FileHoldsPrefix
<1>1. LogSpec => []Log!FileHoldsPrefix
  BY TraceAssumption, TraceFileComplete DEF LogConstants
<1>2. QED
  BY <1>1, LogMoves, PTL DEF FileHoldsPrefix

\* mapping.rs: whatever aliases have been registered, one over another, as long as none
\* starts with another, and whatever the base directories and the files there are, the
\* path listed for a file under an alias's directory resolves to that file; so does the
\* path listed through a base directory that is the only one, when there is no alias.
THEOREM ListedPathComesBack == Spec => []ListedPathResolvesBack
<1>1. PathSpec => []Paths!ListedPathResolvesBack
  BY PathAssumption, MapperReverses
<1>2. QED
  BY <1>1, PathsMoves, PTL DEF ListedPathResolvesBack

\* McpServer::run: whatever lines come, blank, malformed or well formed, before or after
\* the handshake, and however the session moves while a tool runs, each line read has had
\* the answers it is owed, once, under its id and in the order of the lines; no list of
\* tools is shown before a handshake; and the server ends with every line answered and
\* the session shut down.
THEOREM LinesAreAnsweredInOrder == Spec => []AnswersInOrder
<1>1. StdioSpec => []Stdio!AnswersInOrder
  BY LineAssumption, StdioAnswers DEF StdioConstants
<1>2. QED
  BY <1>1, StdioMoves, PTL DEF AnswersInOrder

\* cache.rs, insert and insert_batch: through every interleaving of insertions,
\* invalidations, and marks of staleness, under the two locks, the cache has of every
\* place the newest handle since it was emptied, once, and no other.
THEOREM CacheHoldsNewestHandles == Spec => []HoldsNewestHandles
<1>1. HandleSpec => []Handles!HoldsNewestHandles
  BY HandleAssumption, HandlesNewest
<1>2. QED
  BY <1>1, HandlesMoves, PTL DEF HoldsNewestHandles

\* cache.rs, lookup: whatever is cached, what is found for a name and a place is an entry
\* of that name than which none is closer to the place, and something is found whenever
\* the name has an entry.  Nothing is found otherwise: the fuzzy match of lookup's doc
\* comment is not in its code.
THEOREM LookupIsClosest == Spec => []LookupFindsClosest
<1>1. HandleSpec => []Handles!LookupFindsClosest
  BY HandleAssumption, HandlesLookup
<1>2. QED
  BY <1>1, HandlesMoves, PTL DEF LookupFindsClosest

\* cache.rs, search: whatever is cached and asked for, up to limit entries whose names
\* contain the query come back, each once, and none that is left out is newer than one
\* that is given or given before a newer one.
THEOREM SearchIsNewestFirst == Spec => []SearchFindsNewest
<1>1. HandleSpec => []Handles!SearchFindsNewest
  BY HandleAssumption, HandlesSearch
<1>2. QED
  BY <1>1, HandlesMoves, PTL DEF SearchFindsNewest

\* context.rs, assemble_context: whatever fails of the many requests, in whatever order the
\* answers come, and however often the program is stopped meanwhile, what has come in is
\* all that was wanted but what failed and what hangs on it; nothing else is left out.
THEOREM ContextLosesNothingElse == Spec => []LosesOnlyWhatFailed
<1>1. CtxSpec => [](Context!TypeOK /\ Context!LosesOnlyWhatFailed)
  BY ContextAssumption, CtxProperties DEF CtxConstants
<1>2. QED
  BY <1>1, ContextMoves, PTL DEF LosesOnlyWhatFailed

-----------------------------------------------------------------------------
(* The breakpoint cache, with the task of the CLI and with those of the MCP  *)
(* server.                                                                   *)

Bp1 == INSTANCE BreakpointCache_proofs WITH Callers <- {"main"}, Loops <- {"main"}, Lines <- FileLines
Bp2 == INSTANCE BreakpointCache_proofs WITH Callers <- {"caller"}, Loops <- {"loop"}, Lines <- FileLines

\* The operators of OneTask are those of the module that proves about them.
LEMMA OneTaskSame ==
  /\ OneTask!Init => Bp1!Init
  /\ OneTask!Next => Bp1!Next
  /\ Bp1!TypeOK => OneTask!TypeOK
  /\ Bp1!ListShowsAdapter => OneTask!ListShowsAdapter
<1>1. OneTask!Keys = Bp1!Keys /\ OneTask!Tasks = Bp1!Tasks
      /\ OneTask!Idle = Bp1!Idle /\ OneTask!Entries = Bp1!Entries /\ OneTask!FunctionList = Bp1!FunctionList
  BY DEF OneTask!Keys, Bp1!Keys, OneTask!FunctionList, Bp1!FunctionList, OneTask!Tasks, Bp1!Tasks,
         OneTask!Idle, Bp1!Idle, OneTask!Entries, Bp1!Entries
<1>2. OneTask!Init => Bp1!Init
  BY Zenon, <1>1 DEF OneTask!Init, Bp1!Init
<1>3. ASSUME NEW t, OneTask!SetBreakpoints(t) PROVE Bp1!SetBreakpoints(t)
  BY Zenon, <1>1, <1>3 DEF OneTask!SetBreakpoints, Bp1!SetBreakpoints
<1>4. ASSUME NEW t, OneTask!update_breakpoints(t) PROVE Bp1!update_breakpoints(t)
  BY Zenon, <1>1, <1>4 DEF OneTask!update_breakpoints, Bp1!update_breakpoints
<1>5. ASSUME NEW t, OneTask!TakeEvent(t) PROVE Bp1!TakeEvent(t)
  BY Zenon, <1>1, <1>5 DEF OneTask!TakeEvent, Bp1!TakeEvent
<1>6. ASSUME NEW t, OneTask!update_by_id(t) PROVE Bp1!update_by_id(t)
  BY Zenon, <1>1, <1>6 DEF OneTask!update_by_id, Bp1!update_by_id, OneTask!Holding, Bp1!Holding,
         OneTask!Replace, Bp1!Replace
<1>7. OneTask!ReadResponse => Bp1!ReadResponse
  BY Zenon, <1>1 DEF OneTask!ReadResponse, Bp1!ReadResponse
<1>8. OneTask!ReadEvent => Bp1!ReadEvent
  BY Zenon, <1>1 DEF OneTask!ReadEvent, Bp1!ReadEvent
<1>9. OneTask!Answer => Bp1!Answer
  BY Zenon, <1>1 DEF OneTask!Answer, Bp1!Answer
<1>10. OneTask!Change => Bp1!Change
  BY Zenon, <1>1 DEF OneTask!Change, Bp1!Change, OneTask!Keys,
         Bp1!Keys, OneTask!FunctionList, Bp1!FunctionList, OneTask!Tasks, Bp1!Tasks
<1>11. OneTask!Next => Bp1!Next
  BY Zenon, <1>1, <1>3, <1>4, <1>5, <1>6, <1>7, <1>8, <1>9, <1>10 DEF OneTask!Next, Bp1!Next
<1>12. Bp1!TypeOK => OneTask!TypeOK
  BY Zenon, <1>1 DEF OneTask!TypeOK, Bp1!TypeOK
<1>13. Bp1!ListShowsAdapter => OneTask!ListShowsAdapter
  BY Zenon, <1>1 DEF OneTask!ListShowsAdapter, Bp1!ListShowsAdapter, OneTask!Quiescent,
         Bp1!Quiescent, OneTask!Kept, Bp1!Kept, OneTask!Without, Bp1!Without
<1>14. QED
  BY Zenon, <1>2, <1>11, <1>12, <1>13

\* The operators of TwoTasks are those of the module that proves about them.
LEMMA TwoTasksSame ==
  /\ TwoTasks!Init => Bp2!Init
  /\ TwoTasks!Next => Bp2!Next
  /\ Bp2!TypeOK => TwoTasks!TypeOK
  /\ Bp2!ListShowsIds => TwoTasks!ListShowsIds
<1>1. TwoTasks!Keys = Bp2!Keys /\ TwoTasks!Tasks = Bp2!Tasks
      /\ TwoTasks!Idle = Bp2!Idle /\ TwoTasks!Entries = Bp2!Entries /\ TwoTasks!FunctionList = Bp2!FunctionList
  BY DEF TwoTasks!Keys, Bp2!Keys, TwoTasks!FunctionList, Bp2!FunctionList, TwoTasks!Tasks,
         Bp2!Tasks, TwoTasks!Idle, Bp2!Idle, TwoTasks!Entries, Bp2!Entries
<1>2. TwoTasks!Init => Bp2!Init
  BY Zenon, <1>1 DEF TwoTasks!Init, Bp2!Init
<1>3. ASSUME NEW t, TwoTasks!SetBreakpoints(t) PROVE Bp2!SetBreakpoints(t)
  BY Zenon, <1>1, <1>3 DEF TwoTasks!SetBreakpoints, Bp2!SetBreakpoints
<1>4. ASSUME NEW t, TwoTasks!update_breakpoints(t) PROVE Bp2!update_breakpoints(t)
  BY Zenon, <1>1, <1>4 DEF TwoTasks!update_breakpoints, Bp2!update_breakpoints
<1>5. ASSUME NEW t, TwoTasks!TakeEvent(t) PROVE Bp2!TakeEvent(t)
  BY Zenon, <1>1, <1>5 DEF TwoTasks!TakeEvent, Bp2!TakeEvent
<1>6. ASSUME NEW t, TwoTasks!update_by_id(t) PROVE Bp2!update_by_id(t)
  BY Zenon, <1>1, <1>6 DEF TwoTasks!update_by_id, Bp2!update_by_id, TwoTasks!Holding, Bp2!Holding,
         TwoTasks!Replace, Bp2!Replace
<1>7. TwoTasks!ReadResponse => Bp2!ReadResponse
  BY Zenon, <1>1 DEF TwoTasks!ReadResponse, Bp2!ReadResponse
<1>8. TwoTasks!ReadEvent => Bp2!ReadEvent
  BY Zenon, <1>1 DEF TwoTasks!ReadEvent, Bp2!ReadEvent
<1>9. TwoTasks!Answer => Bp2!Answer
  BY Zenon, <1>1 DEF TwoTasks!Answer, Bp2!Answer
<1>10. TwoTasks!Change => Bp2!Change
  BY Zenon, <1>1 DEF TwoTasks!Change, Bp2!Change, TwoTasks!Keys,
         Bp2!Keys, TwoTasks!FunctionList, Bp2!FunctionList, TwoTasks!Tasks, Bp2!Tasks
<1>11. TwoTasks!Next => Bp2!Next
  BY Zenon, <1>1, <1>3, <1>4, <1>5, <1>6, <1>7, <1>8, <1>9, <1>10 DEF TwoTasks!Next, Bp2!Next
<1>12. Bp2!TypeOK => TwoTasks!TypeOK
  BY Zenon, <1>1 DEF TwoTasks!TypeOK, Bp2!TypeOK
<1>13. Bp2!ListShowsIds => TwoTasks!ListShowsIds
  BY Zenon, <1>1 DEF TwoTasks!ListShowsIds, Bp2!ListShowsIds, TwoTasks!Quiescent, Bp2!Quiescent,
         TwoTasks!Kept, Bp2!Kept, TwoTasks!Without, Bp2!Without, TwoTasks!Ids, Bp2!Ids
<1>14. QED
  BY Zenon, <1>2, <1>11, <1>12, <1>13

\* The cache of whichever tasks it is.
CacheInv ==
  /\ focus = "one task" => Bp1!BpInv("main")
  /\ focus # "one task" => Bp2!BpInv("caller")

LEMMA CacheStarts == Init => CacheInv
<1>1. Bp1!BpConstants /\ Bp2!BpConstants
  BY BreakpointAssumption DEF Bp1!BpConstants, Bp2!BpConstants
<1>2. ASSUME Bp1!Init PROVE Bp1!BpInv("main")
  BY Zenon, <1>1, <1>2, Bp1!BpStarts
<1>3. ASSUME Bp2!Init PROVE Bp2!BpInv("caller")
  BY Zenon, <1>1, <1>3, Bp2!BpStarts
<1>4. QED
  BY Zenon, <1>2, <1>3, OneTaskSame, TwoTasksSame DEF Init, CacheInv

LEMMA CacheSteps == CacheInv /\ [Next]_vars => CacheInv'
<1>1. Bp1!BpConstants /\ Bp2!BpConstants
  BY BreakpointAssumption DEF Bp1!BpConstants, Bp2!BpConstants
<1>2. ASSUME Bp1!BpInv("main"), [Bp1!Next]_(Bp1!bpVars) PROVE Bp1!BpInv("main")'
  BY Zenon, <1>1, <1>2, Bp1!BpSteps
<1>3. ASSUME Bp2!BpInv("caller"), [Bp2!Next]_(Bp2!bpVars) PROVE Bp2!BpInv("caller")'
  BY Zenon, <1>1, <1>3, Bp2!BpSteps
<1>4. ASSUME [Next]_vars
      PROVE  /\ focus' = focus
             /\ focus = "one task" => [OneTask!Next]_breakpts
             /\ focus # "one task" => [TwoTasks!Next]_breakpts
  BY <1>4 DEF Next, vars
<1>5. breakpts = Bp1!bpVars /\ breakpts = Bp2!bpVars /\ breakpts' = (Bp1!bpVars)' /\ breakpts' = (Bp2!bpVars)'
  BY DEF breakpts, Bp1!bpVars, Bp2!bpVars
<1>6. ASSUME [Next]_vars
      PROVE  /\ focus = "one task" => [Bp1!Next]_(Bp1!bpVars)
             /\ focus # "one task" => [Bp2!Next]_(Bp2!bpVars)
  BY Zenon, <1>4, <1>5, <1>6, OneTaskSame, TwoTasksSame
<1>7. ASSUME CacheInv, [Next]_vars PROVE CacheInv'
  BY Zenon, <1>2, <1>3, <1>4, <1>6, <1>7 DEF CacheInv
<1>8. QED
  BY <1>7

LEMMA CacheShows ==
  ASSUME CacheInv
  PROVE  /\ IF focus = "one task" THEN OneTask!TypeOK ELSE TwoTasks!TypeOK
         /\ ListShowsAdapter /\ ListShowsIds
<1>1. Bp1!BpConstants /\ Bp2!BpConstants
  BY BreakpointAssumption DEF Bp1!BpConstants, Bp2!BpConstants
<1>2. ASSUME Bp1!BpInv("main") PROVE Bp1!TypeOK /\ Bp1!ListShowsAdapter
  BY Zenon, <1>1, <1>2, Bp1!BpShows
<1>3. ASSUME Bp2!BpInv("caller") PROVE Bp2!TypeOK /\ Bp2!ListShowsIds
  BY Zenon, <1>1, <1>3, Bp2!BpShows
<1>4. focus = "two tasks" => focus # "one task"
  OBVIOUS
<1>5. QED
  BY Zenon, <1>2, <1>3, <1>4, OneTaskSame, TwoTasksSame DEF CacheInv, ListShowsAdapter, ListShowsIds

LEMMA CacheInvariant == Spec => []CacheInv
BY CacheStarts, CacheSteps, PTL DEF Spec

\* breakpoints.rs, in the CLI, where one task sets breakpoints and then handles the events:
\* whatever lists of lines are asked for, and however the adapter verifies, moves and
\* removes its breakpoints meanwhile, once all is handled list_breakpoints shows each
\* breakpoint the adapter has, in its place, at its line, verified or not.
THEOREM ListAgreesWithAdapter == Spec => []ListShowsAdapter
<1>1. CacheInv => ListShowsAdapter
  BY CacheShows
<1>2. QED
  BY <1>1, CacheInvariant, PTL

\* breakpoints.rs, in the MCP server over stdio, where one task makes the calls and the
\* event loop is a task of its own: through every interleaving with the two updates and
\* with the two halves of update_by_id, once all is handled list_breakpoints shows the
\* breakpoints the adapter has and, beside those it removed by itself, no other.
THEOREM ListHasTheBreakpoints == Spec => []ListShowsIds
<1>1. CacheInv => ListShowsIds
  BY CacheShows
<1>2. QED
  BY <1>1, CacheInvariant, PTL

\* The state of every component keeps to its type.
THEOREM TypeCorrect == Spec => []TypeOK
<1>1. Spec => []Codec!TypeOK
  <2>1. CodecConstants
    BY CodecAssumption DEF CodecConstants, Bodies
  <2>2. CodecInv => Codec!TypeOK
    BY <2>1, CodecShows
  <2>3. CodecSpec => []CodecInv
    BY <2>1, CodecInvariant
  <2>4. QED
    BY <2>2, <2>3, CodecMoves, PTL
<1>2. Spec => []Log!TypeOK
  <2>1. LogInv => Log!TypeOK
    <3> SUFFICES ASSUME LogInv PROVE Log!TypeOK
      OBVIOUS
    <3>1. Len(traceChannel) \in Nat
      BY LenProperties DEF LogInv, LogTypes
    <3>2. PICK l \in Nat, n \in Nat, c \in Nat :
            l = Len(traceChannel) /\ n = traceSent /\ c = Log!Consumed /\ n = c + l
      BY <3>1 DEF LogInv, LogTypes, Queue
    <3>3. c \in 0..n
      BY <3>2
    <3>4. traceEntry \in 0..traceSent
      BY <3>2, <3>3 DEF LogInv, LogFile
    <3>5. QED
      BY <3>4 DEF LogInv, LogTypes, Log!TypeOK
  <2>2. LogSpec => []LogInv
    BY TraceAssumption, LogInvariant DEF LogConstants
  <2>3. QED
    BY <2>1, <2>2, LogMoves, PTL
<1>3. Spec => []Paths!TypeOK
  <2>1. PathSpec => []Paths!TypeOK
    BY PathAssumption, PathTypes
  <2>2. QED
    BY <2>1, PathsMoves, PTL
<1>4. Spec => []Handles!TypeOK
  <2>1. HandleInv => Handles!TypeOK
    BY DEF HandleInv, HandleTypes, Handles!TypeOK
  <2>2. HandleSpec => []HandleInv
    BY HandleAssumption, HandleInvariant
  <2>3. QED
    BY <2>1, <2>2, HandlesMoves, PTL
<1>5. Spec => []Context!TypeOK
  <2>1. CtxSpec => [](Context!TypeOK /\ Context!LosesOnlyWhatFailed)
    BY ContextAssumption, CtxProperties DEF CtxConstants
  <2>2. QED
    BY <2>1, ContextMoves, PTL
<1>6. Spec => []Stdio!TypeOK
  <2>1. StdioInv => Stdio!TypeOK
    BY DEF StdioInv, StdioTypes, Stdio!TypeOK
  <2>2. StdioSpec => []StdioInv
    BY LineAssumption, StdioInvariant DEF StdioConstants
  <2>3. QED
    BY <2>1, <2>2, StdioMoves, PTL
<1>7. Spec => [](IF focus = "one task" THEN OneTask!TypeOK ELSE TwoTasks!TypeOK)
  <2>1. CacheInv => IF focus = "one task" THEN OneTask!TypeOK ELSE TwoTasks!TypeOK
    BY CacheShows
  <2>2. QED
    BY <2>1, CacheInvariant, PTL
<1>8. QED
  BY <1>1, <1>2, <1>3, <1>4, <1>5, <1>6, <1>7, PTL DEF TypeOK

=============================================================================
