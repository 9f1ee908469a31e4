-------------------------- MODULE SeedCorpus_proofs --------------------------
(***************************************************************************)
(* What holds of the seeds.  First of the packets: what the functions of   *)
(* the script build, a reader reads back, for every argument; then of what *)
(* the script writes, each write of it; then of the files, wherever the    *)
(* script was stopped and run again, for every number of stops.            *)
(***************************************************************************)
EXTENDS SeedCorpus, FiniteSetTheorems, SequenceTheorems, WellFoundedInduction, TLAPS

-----------------------------------------------------------------------------
(* The length field. *)

\* Any set of numbers has a least one: what is proved below of a recursive function is
\* proved of the least number for which it fails.
LEMMA Least ==
  ASSUME NEW S \in SUBSET Nat, S # {}
  PROVE  \E j \in S : \A l \in S : j <= l
<1>1. PICK j \in S : \A l \in S : <<l, j>> \notin OpToRel(<, Nat)
  BY WFMin, NatLessThanWellFounded, Zenon
<1>2. \A l \in S : ~(l < j)
  BY <1>1, Zenon DEF OpToRel
<1> QED BY <1>2

\* One more digit, of a function that has the smaller numbers.
Digits(f, n) == IF n < 128 THEN <<n>> ELSE <<128 + (n % 128)>> \o f[n \div 128]

EncodesTo(f, m) == f = [n \in 0 .. m |-> Digits(f, n)]

\* There is such a function up to any number,
LEMMA EncodesToEach ==
    ASSUME NEW m \in Nat
    PROVE  \E f : EncodesTo(f, m)
<1> DEFINE Bad == {l \in Nat : ~ \E f : EncodesTo(f, l)}
<1> SUFFICES ASSUME Bad # {} PROVE FALSE
  OBVIOUS
<1>1. PICK l \in Bad : \A j \in Bad : l <= j
  BY Least, Zenon
<1>2. l \in Nat /\ ~ \E f : EncodesTo(f, l)
  OBVIOUS
<1> HIDE DEF Bad
<1>3. ASSUME NEW g, l > 0 => EncodesTo(g, l - 1) PROVE FALSE
  <2> DEFINE f == [n \in 0 .. l |-> Digits(g, n)]
  <2>1. ASSUME NEW n \in 0 .. l PROVE Digits(f, n) = Digits(g, n)
    <3>1. CASE n < 128
      BY <3>1 DEF Digits
    <3>2. CASE ~(n < 128)
      <4>1. n \div 128 \in 0 .. l - 1 /\ l > 0
        BY <3>2, <1>2
      <4>2. g[n \div 128] = Digits(g, n \div 128)
        BY <4>1, <1>3 DEF EncodesTo
      <4>3. n \div 128 \in 0 .. l
        BY <4>1, <1>2
      <4>4. f[n \div 128] = g[n \div 128]
        BY <4>2, <4>3
      <4> HIDE DEF f
      <4> QED BY <4>4, <3>2 DEF Digits
    <3> QED BY <3>1, <3>2
  <2>2. f = [n \in 0 .. l |-> Digits(f, n)]
    BY <2>1, Zenon
  <2> QED BY <2>2, <1>2 DEF EncodesTo
<1>4. CASE l = 0
  BY <1>4, <1>3
<1>5. CASE l > 0
  <2>1. l - 1 \in Nat /\ l - 1 \notin Bad
    BY <1>5, <1>2, <1>1
  <2>2. PICK g : EncodesTo(g, l - 1)
    BY <2>1 DEF Bad
  <2> QED BY <2>2, <1>3
<1> QED BY <1>2, <1>4, <1>5

\* and any two agree where both are defined.
LEMMA EncodesToSame ==
    ASSUME NEW f, NEW g, NEW m \in Nat, NEW l \in Nat, EncodesTo(f, m), EncodesTo(g, l),
           NEW n \in Nat, n <= m, n <= l
    PROVE  f[n] = g[n]
<1> DEFINE Bad == {j \in Nat : j <= m /\ j <= l /\ f[j] # g[j]}
<1> SUFFICES ASSUME Bad # {} PROVE FALSE
  OBVIOUS
<1>1. PICK j \in Bad : \A i \in Bad : j <= i
  BY Least, Zenon
<1>2. j \in 0 .. m /\ j \in 0 .. l /\ f[j] # g[j]
  OBVIOUS
<1>3. f[j] = Digits(f, j) /\ g[j] = Digits(g, j)
  BY <1>2 DEF EncodesTo
<1>4. CASE j < 128
  BY <1>2, <1>3, <1>4 DEF Digits
<1>5. CASE ~(j < 128)
  <2>1. j \div 128 \in Nat /\ j \div 128 < j
    BY <1>2, <1>5
  <2>2. j \div 128 \notin Bad
    BY <1>1, <2>1, <1>2
  <2>3. f[j \div 128] = g[j \div 128]
    BY <2>1, <2>2, <1>2
  <2> QED BY <1>2, <1>3, <1>5, <2>3 DEF Digits
<1> QED BY <1>4, <1>5

\* The loop ends for every number: enc_remaining_length is defined by its digits.
LEMMA EncodedIsDefined ==
    \A n \in Nat : encoded[n] = Digits(encoded, n)
<1> DEFINE upto(n) == CHOOSE f : EncodesTo(f, n)
           F == [n \in Nat |-> upto(n)[n]]
<1>1. ASSUME NEW n \in Nat PROVE EncodesTo(upto(n), n)
  BY EncodesToEach, Zenon
<1> HIDE DEF upto
<1>2. ASSUME NEW n \in Nat PROVE F[n] = Digits(F, n)
  <2>1. F[n] = Digits(upto(n), n)
    BY <1>1 DEF EncodesTo
  <2>2. CASE n < 128
    BY <2>1, <2>2 DEF Digits
  <2>3. CASE ~(n < 128)
    <3>1. n \div 128 \in Nat /\ n \div 128 <= n
      BY <2>3
    <3>2. upto(n)[n \div 128] = upto(n \div 128)[n \div 128]
      BY <3>1, <1>1, EncodesToSame
    <3> QED BY <2>1, <2>3, <3>1, <3>2 DEF Digits
  <2> QED BY <2>2, <2>3
<1>3. F = [n \in Nat |-> Digits(F, n)]
  BY <1>2
<1> HIDE DEF F
<1>4. encoded = CHOOSE f : f = [n \in Nat |-> Digits(f, n)]
  BY Zenon DEF encoded, Digits
<1>5. encoded = [n \in Nat |-> Digits(encoded, n)]
  BY <1>3, <1>4, Zenon
<1> QED BY <1>5, Zenon

-----------------------------------------------------------------------------
Byte == 0 .. 255
\* What fits into a length field of two bytes.
TwoBytes == 0 .. 128 * 128 - 1

\* What is at which place of two sequences joined.
LEMMA Joined ==
    ASSUME NEW s \in Seq(Byte), NEW u \in Seq(Byte)
    PROVE  /\ Len(s) \in Nat /\ Len(u) \in Nat
           /\ s \o u \in Seq(Byte) /\ Len(s \o u) = Len(s) + Len(u)
           /\ \A j \in 1 .. Len(s) : (s \o u)[j] = s[j]
           /\ \A j \in 1 .. Len(u) : (s \o u)[Len(s) + j] = u[j]
<1>1. Len(s) \in Nat /\ Len(u) \in Nat
  BY LenProperties
<1>2. /\ s \o u \in Seq(Byte) /\ Len(s \o u) = Len(s) + Len(u)
      /\ \A j \in 1 .. Len(s) + Len(u) :
             (s \o u)[j] = IF j <= Len(s) THEN s[j] ELSE u[j - Len(s)]
  BY ConcatProperties
<1> QED BY <1>1, <1>2

\* The parts of what is joined, without their elements.
LEMMA JoinedLen ==
    ASSUME NEW s \in Seq(Byte), NEW u \in Seq(Byte)
    PROVE  /\ s \o u \in Seq(Byte) /\ Len(s \o u) = Len(s) + Len(u)
           /\ Len(s) \in Nat /\ Len(u) \in Nat
  BY Joined

\* The second of them is the end of the whole.
LEMMA Behind ==
    ASSUME NEW s \in Seq(Byte), NEW u \in Seq(Byte)
    PROVE  SubSeq(s \o u, Len(s) + 1, Len(s) + Len(u)) = u
<1> DEFINE c == s \o u
           m == Len(s) + 1
           e == Len(s) + Len(u)
           q == SubSeq(c, m, e)
<1>1. /\ Len(s) \in Nat /\ Len(u) \in Nat /\ c \in Seq(Byte) /\ Len(c) = e
      /\ \A j \in 1 .. Len(u) : c[Len(s) + j] = u[j]
  BY Joined
<1> HIDE DEF c
<1>2. \A j \in m .. e : c[j] \in Byte
  BY <1>1, ElementOfSeq
<1>3. /\ q \in Seq(Byte) /\ Len(q) = IF m <= e THEN e - m + 1 ELSE 0
      /\ \A j \in 1 .. e - m + 1 : q[j] = c[m + j - 1]
  <2>1. m \in Int /\ e \in Int
    BY <1>1
  <2> HIDE DEF m, e
  <2> QED BY <1>2, <2>1, SubSeqProperties
<1> HIDE DEF q
<1>4. Len(q) = Len(u) /\ e - m + 1 = Len(u)
  BY <1>1, <1>3
<1>5. ASSUME NEW j \in 1 .. Len(u) PROVE q[j] = u[j]
  <2>1. m + j - 1 = Len(s) + j
    BY <1>1
  <2>2. q[j] = c[m + j - 1]
    BY <1>3, <1>4
  <2> QED BY <2>1, <2>2, <1>1
<1>6. q = u
  BY <1>3, <1>4, <1>5, SeqEqual
<1> QED BY <1>6 DEF q, c

\* Joining is associative.
LEMMA Regrouped ==
    ASSUME NEW s \in Seq(Byte), NEW u \in Seq(Byte), NEW v \in Seq(Byte)
    PROVE  (s \o u) \o v = s \o (u \o v)
<1> DEFINE su == s \o u
           uv == u \o v
           x == su \o v
           y == s \o uv
<1>1. /\ Len(s) \in Nat /\ Len(u) \in Nat /\ su \in Seq(Byte) /\ Len(su) = Len(s) + Len(u)
      /\ \A j \in 1 .. Len(s) : su[j] = s[j]
      /\ \A j \in 1 .. Len(u) : su[Len(s) + j] = u[j]
  BY Joined
<1>2. /\ Len(v) \in Nat /\ uv \in Seq(Byte) /\ Len(uv) = Len(u) + Len(v)
      /\ \A j \in 1 .. Len(u) : uv[j] = u[j]
      /\ \A j \in 1 .. Len(v) : uv[Len(u) + j] = v[j]
  BY Joined
<1> HIDE DEF su, uv
<1>3. /\ x \in Seq(Byte) /\ Len(x) = Len(su) + Len(v)
      /\ \A j \in 1 .. Len(su) : x[j] = su[j]
      /\ \A j \in 1 .. Len(v) : x[Len(su) + j] = v[j]
  BY <1>1, Joined
<1>4. /\ y \in Seq(Byte) /\ Len(y) = Len(s) + Len(uv)
      /\ \A j \in 1 .. Len(s) : y[j] = s[j]
      /\ \A j \in 1 .. Len(uv) : y[Len(s) + j] = uv[j]
  BY <1>2, Joined
<1> HIDE DEF x, y
<1>5. ASSUME NEW j \in 1 .. Len(x) PROVE x[j] = y[j]
  <2>1. CASE j <= Len(s)
    BY <2>1, <1>1, <1>2, <1>3, <1>4
  <2>2. CASE j > Len(s) /\ j <= Len(su)
    <3> DEFINE i == j - Len(s)
    <3>1. i \in 1 .. Len(u) /\ i \in 1 .. Len(uv) /\ Len(s) + i = j /\ j \in 1 .. Len(su)
      BY <2>2, <1>1, <1>2, <1>3
    <3> HIDE DEF i
    <3>2. x[j] = u[i] /\ y[j] = u[i]
      BY <3>1, <1>1, <1>2, <1>3, <1>4
    <3> QED BY <3>2
  <2>3. CASE j > Len(su)
    <3> DEFINE i == j - Len(su)
    <3>1. /\ i \in 1 .. Len(v) /\ Len(u) + i \in 1 .. Len(uv)
          /\ Len(su) + i = j /\ Len(s) + (Len(u) + i) = j
      BY <2>3, <1>1, <1>2, <1>3
    <3> HIDE DEF i
    <3>2. x[j] = v[i]
      BY <3>1, <1>3
    <3>3. y[j] = uv[Len(u) + i] /\ uv[Len(u) + i] = v[i]
      BY <3>1, <1>2, <1>4
    <3> QED BY <3>2, <3>3
  <2> QED BY <2>1, <2>2, <2>3, <1>1, <1>2, <1>3
<1>6. Len(x) = Len(y)
  BY <1>1, <1>2, <1>3, <1>4
<1>7. x = y
  BY <1>3, <1>4, <1>5, <1>6, SeqEqual
<1> QED BY <1>7 DEF x, y, su, uv

\* bytes([b])
LEMMA OneByte ==
    ASSUME NEW b \in Byte
    PROVE  <<b>> \in Seq(Byte) /\ Len(<<b>>) = 1 /\ <<b>>[1] = b
  OBVIOUS

\* The bytes of the length field, and those of a length field with a byte before it.
FieldLen(n) == IF n < 128 THEN 1 ELSE 2
FieldAt(d, at, n) ==
    IF n < 128 THEN d[at] = n ELSE d[at] = 128 + (n % 128) /\ d[at + 1] = n \div 128

\* The length field is one byte up to 127, and two up to 16383.
LEMMA EncodedIs ==
    ASSUME NEW n \in TwoBytes
    PROVE  /\ encoded[n] \in Seq(Byte) /\ Len(encoded[n]) = FieldLen(n)
           /\ FieldAt(encoded[n], 1, n)
<1>0. n \in Nat /\ n < 128 * 128
  BY DEF TwoBytes
<1>1. CASE n < 128
  <2>1. n \in Byte
    BY <1>0, <1>1 DEF Byte
  <2>2. encoded[n] = <<n>>
    BY <1>0, <1>1, EncodedIsDefined DEF Digits
  <2> QED BY <2>1, <2>2, <1>1, OneByte DEF FieldLen, FieldAt
<1>2. CASE ~(n < 128)
  <2> DEFINE h == n \div 128
             l == 128 + (n % 128)
             e == encoded[n]
  <2>1. h \in Nat /\ h < 128 /\ h \in Byte /\ l \in Byte
    BY <1>0, <1>2 DEF Byte
  <2>2. encoded[h] = <<h>>
    BY <2>1, EncodedIsDefined DEF Digits
  <2>3. e = <<l>> \o encoded[h]
    BY <1>0, <1>2, EncodedIsDefined DEF Digits
  <2>4. e = <<l>> \o <<h>>
    BY <2>2, <2>3, Zenon
  <2> HIDE DEF h, l, e
  <2>5. /\ <<l>> \in Seq(Byte) /\ Len(<<l>>) = 1 /\ <<l>>[1] = l
        /\ <<h>> \in Seq(Byte) /\ Len(<<h>>) = 1 /\ <<h>>[1] = h
    BY <2>1, OneByte
  <2>6. e \in Seq(Byte) /\ Len(e) = 2 /\ e[1] = l /\ e[2] = h
    <3> DEFINE s == <<l>>
               u == <<h>>
    <3> HIDE DEF s, u
    <3>1. /\ s \in Seq(Byte) /\ Len(s) = 1 /\ s[1] = l
          /\ u \in Seq(Byte) /\ Len(u) = 1 /\ u[1] = h /\ e = s \o u
      BY <2>4, <2>5, Zenon DEF s, u
    <3>2. /\ s \o u \in Seq(Byte) /\ Len(s \o u) = 2
          /\ (s \o u)[1] = s[1] /\ (s \o u)[2] = u[1]
      BY <3>1, ConcatProperties
    <3> QED BY <3>1, <3>2, Zenon
  <2> QED BY <2>6, <1>2 DEF FieldLen, FieldAt, h, l, e
<1> QED BY <1>1, <1>2

\* fh: the type, and a length field that is read as the length.
LEMMA HeaderIs ==
    ASSUME NEW ctrl \in Byte, NEW n \in TwoBytes
    PROVE  /\ fh(ctrl, n) \in Seq(Byte) /\ Len(fh(ctrl, n)) = 1 + FieldLen(n)
           /\ fh(ctrl, n)[1] = ctrl /\ FieldAt(fh(ctrl, n), 2, n)
<1> DEFINE s == <<ctrl>>
           u == encoded[n]
<1>1. /\ s \in Seq(Byte) /\ Len(s) = 1 /\ s[1] = ctrl
      /\ u \in Seq(Byte) /\ Len(u) = FieldLen(n) /\ FieldAt(u, 1, n)
  BY OneByte, EncodedIs
<1>2. fh(ctrl, n) = s \o u
  BY DEF fh, enc_remaining_length
<1> HIDE DEF s, u
<1>3. /\ s \o u \in Seq(Byte) /\ Len(s \o u) = 1 + FieldLen(n) /\ (s \o u)[1] = ctrl
      /\ FieldAt(s \o u, 2, n)
  <2>1. FieldLen(n) \in {1, 2} /\ (n < 128 <=> FieldLen(n) = 1)
    BY DEF FieldLen
  <2>2. /\ s \o u \in Seq(Byte) /\ Len(s \o u) = 1 + FieldLen(n) /\ (s \o u)[1] = ctrl
        /\ (s \o u)[2] = u[1]
        /\ FieldLen(n) = 2 => (s \o u)[3] = u[2]
    BY <1>1, <2>1, ConcatProperties
  <2> QED BY <1>1, <2>1, <2>2 DEF FieldAt
<1> QED BY <1>2, <1>3, Zenon

\* What the reader takes the length field for is what the writer meant by it, on
\* either side of where the field grows.
THEOREM LengthIsReadBack ==
    ASSUME NEW ctrl \in Byte, NEW n \in TwoBytes, NEW rest \in Seq(Byte)
    PROVE  LengthOf(fh(ctrl, n) \o rest) = <<n, FieldLen(n)>>
<1> DEFINE h == fh(ctrl, n)
           d == h \o rest
<1>1. h \in Seq(Byte) /\ Len(h) = 1 + FieldLen(n) /\ FieldAt(h, 2, n)
  BY HeaderIs
<1> HIDE DEF h
<1>2. FieldLen(n) \in {1, 2} /\ (n < 128 <=> FieldLen(n) = 1)
  BY DEF FieldLen
<1>3. /\ d[2] = h[2]
      /\ FieldLen(n) = 2 => d[3] = h[3]
  BY <1>1, <1>2, Joined
<1> HIDE DEF d
<1>4. FieldAt(d, 2, n)
  BY <1>1, <1>2, <1>3 DEF FieldAt
<1>5. LengthOf(d) = <<n, FieldLen(n)>>
  <2>1. n \in Nat /\ n < 128 * 128
    BY DEF TwoBytes
  <2>2. CASE n < 128
    BY <1>4, <2>1, <2>2 DEF LengthOf, FieldLen, FieldAt
  <2>3. CASE ~(n < 128)
    <3>1. ~(d[2] < 128) /\ d[2] - 128 + 128 * d[3] = n
      BY <1>4, <2>1, <2>3 DEF FieldAt
    <3> QED BY <3>1, <2>3, Zenon DEF LengthOf, FieldLen
  <2> QED BY <2>2, <2>3
<1> QED BY <1>5 DEF d, h

-----------------------------------------------------------------------------
(* The reader. *)

Cut(f, v5, d, at) ==
    \/ at = Len(d) + 1
    \/ LET r == SubSeq(d, at, Len(d))
       IN  /\ Len(r) > 1 /\ PacketLen(r) \in 2 .. Len(r)
           /\ PacketOk(v5, SubSeq(r, 1, PacketLen(r)))
           /\ f[at + PacketLen(r)]

\* A function that is right from a byte on.
CutsFrom(f, v5, d, from) == f = [at \in from .. Len(d) + 1 |-> Cut(f, v5, d, at)]

\* What a byte is does not depend on the bytes before it,
LEMMA CutLooksAhead ==
    ASSUME NEW v5, NEW d \in Seq(Byte), NEW f, NEW g, NEW at \in 1 .. Len(d) + 1,
           \A j \in at + 1 .. Len(d) + 1 : f[j] = g[j]
    PROVE  Cut(f, v5, d, at) = Cut(g, v5, d, at)
<1> DEFINE r == SubSeq(d, at, Len(d))
           n == PacketLen(r)
<1>0. Len(d) \in Nat
  BY LenProperties
<1>1. at # Len(d) + 1 => Len(r) = Len(d) + 1 - at
  <2>1. \A i \in at .. Len(d) : d[i] \in Byte
    BY ElementOfSeq
  <2> QED BY <2>1, <1>0, SubSeqProperties
<1>2. ASSUME at # Len(d) + 1, n \in 2 .. Len(r)
      PROVE  f[at + n] = g[at + n]
  <2> HIDE DEF n, r
  <2>1. at + n \in at + 1 .. Len(d) + 1
    BY <1>0, <1>1, <1>2
  <2> QED BY <2>1
<1> QED BY <1>2 DEF Cut

\* so that there is such a function from any byte on:
LEMMA CutsFromEach ==
    ASSUME NEW v5, NEW d \in Seq(Byte), NEW m \in Nat, m <= Len(d)
    PROVE  \E f : CutsFrom(f, v5, d, Len(d) + 1 - m)
<1> DEFINE L == Len(d) + 1
           Bad == {j \in Nat : j <= Len(d) /\ ~ \E f : CutsFrom(f, v5, d, L - j)}
<1>0. Len(d) \in Nat
  BY LenProperties
<1> SUFFICES ASSUME Bad # {} PROVE FALSE
  OBVIOUS
<1>1. PICK j \in Bad : \A i \in Bad : j <= i
  BY Least, Zenon
<1>2. j \in Nat /\ j <= Len(d) /\ ~ \E f : CutsFrom(f, v5, d, L - j)
  OBVIOUS
<1> HIDE DEF Bad
<1>3. ASSUME NEW g, j > 0 => CutsFrom(g, v5, d, L - j + 1) PROVE FALSE
  <2> DEFINE f == [at \in L - j .. Len(d) + 1 |-> Cut(g, v5, d, at)]
  <2>1. ASSUME NEW at \in L - j .. Len(d) + 1 PROVE Cut(f, v5, d, at) = Cut(g, v5, d, at)
    <3>1. ASSUME NEW l \in at + 1 .. Len(d) + 1 PROVE f[l] = g[l]
      <4>1. l \in L - j + 1 .. Len(d) + 1 /\ l \in L - j .. Len(d) + 1 /\ j > 0
        BY <1>0, <1>2
      <4>2. g[l] = Cut(g, v5, d, l)
        BY <4>1, <1>3 DEF CutsFrom
      <4> QED BY <4>1, <4>2
    <3>2. at \in 1 .. Len(d) + 1
      BY <1>0, <1>2
    <3> HIDE DEF f
    <3> QED BY <3>1, <3>2, CutLooksAhead
  <2>2. f = [at \in L - j .. Len(d) + 1 |-> Cut(f, v5, d, at)]
    BY <2>1, Zenon
  <2> QED BY <2>2, <1>2 DEF CutsFrom
<1>4. CASE j = 0
  BY <1>4, <1>3
<1>5. CASE j > 0
  <2>1. j - 1 \in Nat /\ j - 1 <= Len(d) /\ j - 1 \notin Bad
    BY <1>5, <1>2, <1>1, <1>0
  <2>2. PICK g : CutsFrom(g, v5, d, L - (j - 1))
    BY <2>1 DEF Bad
  <2>3. L - (j - 1) = L - j + 1
    BY <1>0, <1>2
  <2> QED BY <2>2, <2>3, <1>3
<1> QED BY <1>2, <1>4, <1>5

\* the reader is defined by its cuts.
LEMMA FramesDefined ==
    ASSUME NEW v5, NEW d \in Seq(Byte)
    PROVE  \A at \in 1 .. Len(d) + 1 : FramesFrom(v5, d)[at] = Cut(FramesFrom(v5, d), v5, d, at)
<1>0. Len(d) \in Nat
  BY LenProperties
<1>1. \E f : f = [at \in 1 .. Len(d) + 1 |-> Cut(f, v5, d, at)]
  <2>1. Len(d) + 1 - Len(d) = 1
    BY <1>0
  <2>2. Len(d) <= Len(d)
    BY <1>0
  <2>3. \E f : CutsFrom(f, v5, d, Len(d) + 1 - Len(d))
    BY <1>0, <2>2, CutsFromEach, Zenon
  <2>4. \E f : CutsFrom(f, v5, d, 1)
    BY <2>1, <2>3, Zenon
  <2> QED BY <2>4 DEF CutsFrom
<1>2. FramesFrom(v5, d) = CHOOSE f : f = [at \in 1 .. Len(d) + 1 |-> Cut(f, v5, d, at)]
  BY Zenon DEF FramesFrom, Cut
<1>3. FramesFrom(v5, d) = [at \in 1 .. Len(d) + 1 |-> Cut(FramesFrom(v5, d), v5, d, at)]
  BY <1>1, <1>2, Zenon
<1> QED BY <1>3, Zenon

\* Bytes in front change nothing about those behind them.
LEMMA FramesBehind ==
    ASSUME NEW v5, NEW a \in Seq(Byte), NEW d \in Seq(Byte)
    PROVE  \A at \in 1 .. Len(d) + 1 :
               FramesFrom(v5, a \o d)[Len(a) + at] <=> FramesFrom(v5, d)[at]
<1> DEFINE c == a \o d
           f == FramesFrom(v5, c)
           g == FramesFrom(v5, d)
           same(at) == f[Len(a) + at] <=> g[at]
           Bad == {j \in Nat : j <= Len(d) /\ ~same(Len(d) + 1 - j)}
<1>0. /\ Len(a) \in Nat /\ Len(d) \in Nat /\ c \in Seq(Byte) /\ Len(c) = Len(a) + Len(d)
      /\ \A j \in 1 .. Len(d) : c[Len(a) + j] = d[j]
  BY Joined
<1>1. ASSUME NEW at \in 1 .. Len(d) + 1, \A j \in at + 1 .. Len(d) + 1 : same(j)
      PROVE  same(at)
  <2> DEFINE r == SubSeq(d, at, Len(d))
             n == PacketLen(r)
  <2>1. f[Len(a) + at] <=> Cut(f, v5, c, Len(a) + at)
    <3>1. Len(a) + at \in 1 .. Len(c) + 1
      BY <1>0
    <3> QED BY <1>0, <3>1, FramesDefined, Zenon
  <2>2. g[at] <=> Cut(g, v5, d, at)
    BY FramesDefined, Zenon
  <2>3. SubSeq(c, Len(a) + at, Len(c)) = r /\ Len(r) = Len(d) + 1 - at
    <3> DEFINE q == SubSeq(c, Len(a) + at, Len(c))
    <3>1. \A i \in at .. Len(d) : d[i] \in Byte
      BY ElementOfSeq
    <3>2. \A i \in Len(a) + at .. Len(c) : c[i] \in Byte
      BY <1>0, ElementOfSeq
    <3>3. /\ r \in Seq(Byte) /\ Len(r) = Len(d) + 1 - at
          /\ \A i \in 1 .. Len(d) + 1 - at : r[i] = d[at + i - 1]
      BY <3>1, <1>0, SubSeqProperties
    <3>4. /\ q \in Seq(Byte) /\ Len(q) = Len(d) + 1 - at
          /\ \A i \in 1 .. Len(d) + 1 - at : q[i] = c[Len(a) + at + i - 1]
      BY <3>2, <1>0, SubSeqProperties
    <3> HIDE DEF q, r, c
    <3>5. ASSUME NEW i \in 1 .. Len(q) PROVE q[i] = r[i]
      <4>1. /\ i \in 1 .. Len(d) + 1 - at /\ at + i - 1 \in 1 .. Len(d)
            /\ Len(a) + (at + i - 1) = Len(a) + at + i - 1
        BY <3>4, <1>0
      <4>2. q[i] = c[Len(a) + (at + i - 1)] /\ r[i] = d[at + i - 1]
        BY <4>1, <3>3, <3>4
      <4> QED BY <4>1, <4>2, <1>0
    <3>6. q = r
      BY <3>3, <3>4, <3>5, SeqEqual
    <3> QED BY <3>3, <3>6 DEF q
  <2>4. ASSUME n \in 2 .. Len(r) PROVE f[Len(a) + at + n] <=> g[at + n]
    <3> HIDE DEF n, r, f, g
    <3>1. at + n \in at + 1 .. Len(d) + 1 /\ Len(a) + (at + n) = Len(a) + at + n
      BY <1>0, <2>3, <2>4
    <3>2. same(at + n)
      BY <3>1, <1>1, Zenon
    <3> QED BY <3>1, <3>2
  <2>5. Len(a) + at = Len(c) + 1 <=> at = Len(d) + 1
    BY <1>0
  <2> HIDE DEF c, f, g
  <2>6. Cut(f, v5, c, Len(a) + at) <=> Cut(g, v5, d, at)
    BY <2>3, <2>4, <2>5 DEF Cut
  <2> QED BY <2>1, <2>2, <2>6
<1> SUFFICES ASSUME Bad # {} PROVE FALSE
  <2>1. ASSUME NEW at \in 1 .. Len(d) + 1 PROVE Len(d) + 1 - at \in Nat /\ Len(d) + 1 - at <= Len(d)
                                               /\ Len(d) + 1 - (Len(d) + 1 - at) = at
    BY <1>0
  <2> HIDE DEF same
  <2>2. ASSUME Bad = {}, NEW at \in 1 .. Len(d) + 1 PROVE same(at)
    <3>1. same(Len(d) + 1 - (Len(d) + 1 - at))
      BY <2>1, <2>2
    <3> QED BY <3>1, <2>1, Zenon
  <2> QED BY <2>2 DEF same
<1>2. PICK j \in Bad : \A i \in Bad : j <= i
  BY Least, Zenon
<1> DEFINE at == Len(d) + 1 - j
<1>3. j \in Nat /\ j <= Len(d) /\ ~same(at) /\ at \in 1 .. Len(d) + 1
  BY <1>0
<1>4. ASSUME NEW l \in at + 1 .. Len(d) + 1 PROVE same(l)
  <2>1. Len(d) + 1 - l \in Nat /\ Len(d) + 1 - l < j /\ Len(d) + 1 - (Len(d) + 1 - l) = l
    BY <1>0, <1>3
  <2>2. Len(d) + 1 - l \notin Bad
    BY <2>1, <1>2, <1>3
  <2> HIDE DEF same
  <2>3. same(Len(d) + 1 - (Len(d) + 1 - l))
    BY <2>1, <2>2, <1>3
  <2> QED BY <2>1, <2>3, Zenon
<1> HIDE DEF at, Bad, same
<1> QED BY <1>1, <1>3, <1>4

\* What begins with a packet, and is packets behind it, is packets.
LEMMA FramesInFront ==
    ASSUME NEW v5, NEW p \in Seq(Byte), NEW rest \in Seq(Byte),
           Len(p) > 1, PacketLen(p \o rest) = Len(p), PacketOk(v5, p),
           rest = <<>> \/ IsFrames(v5, rest)
    PROVE  IsFrames(v5, p \o rest)
<1> DEFINE d == p \o rest
<1>0. /\ Len(p) \in Nat /\ Len(rest) \in Nat /\ d \in Seq(Byte) /\ Len(d) = Len(p) + Len(rest)
      /\ \A j \in 1 .. Len(p) : d[j] = p[j]
  BY Joined
<1>1. SubSeq(d, 1, Len(d)) = d
  BY <1>0, SubSeqFull
<1>2. SubSeq(d, 1, Len(p)) = p
  <2>1. SubSeq(d, 1, Len(p)) = SubSeq(p, 1, Len(p))
    BY <1>0, SubSeqOfConcat1
  <2>2. SubSeq(p, 1, Len(p)) = p
    BY SubSeqFull
  <2> QED BY <2>1, <2>2
<1>3. FramesFrom(v5, rest)[1]
  <2>1. CASE rest = <<>>
    <3>1. Len(rest) = 0 /\ 1 \in 1 .. Len(rest) + 1
      BY <2>1
    <3>2. Cut(FramesFrom(v5, rest), v5, rest, 1)
      BY <3>1 DEF Cut
    <3> QED BY <3>1, <3>2, FramesDefined, Zenon
  <2>2. CASE IsFrames(v5, rest)
    BY <2>2 DEF IsFrames
  <2> QED BY <2>1, <2>2
<1>4. FramesFrom(v5, d)[1 + Len(p)]
  <2>1. 1 \in 1 .. Len(rest) + 1 /\ Len(p) + 1 = 1 + Len(p)
    BY <1>0
  <2>2. FramesFrom(v5, d)[Len(p) + 1] <=> FramesFrom(v5, rest)[1]
    BY <2>1, FramesBehind, Zenon
  <2> QED BY <2>1, <2>2, <1>3
<1>5. Cut(FramesFrom(v5, d), v5, d, 1)
  <2>1. Len(d) > 1 /\ PacketLen(d) = Len(p) /\ Len(p) \in 2 .. Len(d)
    BY <1>0
  <2> HIDE DEF d
  <2> QED BY <2>1, <1>1, <1>2, <1>4 DEF Cut
<1>6. d # <<>> /\ 1 \in 1 .. Len(d) + 1
  BY <1>0
<1>7. FramesFrom(v5, d)[1]
  BY <1>0, <1>5, <1>6, FramesDefined, Zenon
<1> HIDE DEF d
<1>8. IsFrames(v5, d)
  BY <1>6, <1>7 DEF IsFrames
<1> QED BY <1>8 DEF d

\* A header that says how long its body is makes a packet of it, whatever follows.
LEMMA FramedIsRead ==
    ASSUME NEW v5, NEW ctrl \in Byte, NEW body \in Seq(Byte), Len(body) \in TwoBytes,
           BodyOk(v5, ctrl, body)
    PROVE  LET p == fh(ctrl, Len(body)) \o body
           IN  /\ p \in Seq(Byte) /\ Len(p) > 1 /\ PacketOk(v5, p)
               /\ \A rest \in Seq(Byte) : PacketLen(p \o rest) = Len(p)
<1> DEFINE n == Len(body)
           h == fh(ctrl, n)
           p == h \o body
<1>1. /\ h \in Seq(Byte) /\ Len(h) = 1 + FieldLen(n) /\ h[1] = ctrl
      /\ FieldLen(n) \in {1, 2} /\ n \in Nat /\ (n < 128 <=> FieldLen(n) = 1)
  BY HeaderIs, LenProperties DEF FieldLen
<1>2. LengthOf(p) = <<n, FieldLen(n)>>
  BY LengthIsReadBack
<1>3. ASSUME NEW rest \in Seq(Byte) PROVE LengthOf(p \o rest) = <<n, FieldLen(n)>>
  <2>1. p \o rest = h \o (body \o rest)
    BY <1>1, Regrouped, Zenon
  <2>2. body \o rest \in Seq(Byte)
    BY Joined
  <2> QED BY <2>1, <2>2, LengthIsReadBack
<1> HIDE DEF h
<1>4. /\ p \in Seq(Byte) /\ Len(p) = 1 + FieldLen(n) + n /\ p[1] = ctrl
      /\ \A j \in 1 .. n : p[1 + FieldLen(n) + j] = body[j]
  <2>1. 1 \in 1 .. Len(h)
    BY <1>1
  <2> QED BY <1>1, <2>1, Joined
<1> HIDE DEF p, n
<1>5. SubSeq(p, 2 + FieldLen(n), Len(p)) = body
  <2>1. SubSeq(h \o body, Len(h) + 1, Len(h) + Len(body)) = body
    BY <1>1, Behind
  <2>2. Len(h) + 1 = 2 + FieldLen(n) /\ Len(h) + Len(body) = Len(p)
    BY <1>1, <1>4 DEF n
  <2> QED BY <2>1, <2>2 DEF p
<1>6. PacketOk(v5, p)
  <2>1. LengthOf(p)[1] = n /\ LengthOf(p)[2] = FieldLen(n) /\ (FieldLen(n) = 2 => n > 127)
    BY <1>1, <1>2
  <2>2. SubSeq(p, 2 + LengthOf(p)[2], Len(p)) = body /\ p[1] = ctrl
    BY <2>1, <1>4, <1>5
  <2>3. BodyOk(v5, p[1], SubSeq(p, 2 + LengthOf(p)[2], Len(p)))
    BY <2>2
  <2> QED BY <2>1, <2>3 DEF PacketOk
<1>7. ASSUME NEW rest \in Seq(Byte) PROVE PacketLen(p \o rest) = Len(p)
  BY <1>1, <1>3, <1>4 DEF PacketLen
<1> QED BY <1>1, <1>4, <1>6, <1>7 DEF p, h, n

\* One packet, and packets behind it.
LEMMA FramedParses ==
    ASSUME NEW v5, NEW ctrl \in Byte, NEW body \in Seq(Byte), Len(body) \in TwoBytes,
           BodyOk(v5, ctrl, body)
    PROVE  LET p == fh(ctrl, Len(body)) \o body
           IN  /\ p \in Seq(Byte) /\ IsFrames(v5, p)
               /\ LengthOf(p) = <<Len(body), FieldLen(Len(body))>>
               /\ \A rest \in Seq(Byte) : IsFrames(v5, rest) => IsFrames(v5, p \o rest)
<1> DEFINE p == fh(ctrl, Len(body)) \o body
<1>1. /\ p \in Seq(Byte) /\ Len(p) > 1 /\ PacketOk(v5, p)
      /\ \A rest \in Seq(Byte) : PacketLen(p \o rest) = Len(p)
  BY FramedIsRead
<1>2. LengthOf(p) = <<Len(body), FieldLen(Len(body))>>
  BY LengthIsReadBack
<1> HIDE DEF p
<1>3. \A rest \in Seq(Byte) : IsFrames(v5, rest) => IsFrames(v5, p \o rest)
  BY <1>1, FramesInFront
<1>4. IsFrames(v5, p)
  <2> DEFINE none == <<>>
  <2>1. none \in Seq(Byte) /\ p \o none = p
    BY <1>1, ConcatEmptySeq
  <2>2. IsFrames(v5, p \o none)
    BY <1>1, <2>1, FramesInFront
  <2> QED BY <2>1, <2>2
<1> QED BY <1>1, <1>2, <1>3, <1>4 DEF p

-----------------------------------------------------------------------------
(* The packets. *)

Word == 0 .. 256 * 256 - 1

\* What fits in two bytes is a number.
LEMMA WordIsNat == \A n \in Word : n \in Nat
  BY DEF Word

ReadBack(v5, p) ==
    /\ p \in Seq(Byte) /\ IsFrames(v5, p)
    /\ \A rest \in Seq(Byte) : IsFrames(v5, rest) => IsFrames(v5, p \o rest)

\* Every packet is framed by fh, so it is left to look into its body.
LEMMA FramedReadsBack ==
    ASSUME NEW v5, NEW ctrl \in Byte, NEW body \in Seq(Byte), Len(body) \in TwoBytes,
           BodyOk(v5, ctrl, body)
    PROVE  /\ ReadBack(v5, Framed(ctrl, body)) /\ ReadBack(v5, fh(ctrl, Len(body)) \o body)
           /\ LengthOf(fh(ctrl, Len(body)) \o body) = <<Len(body), FieldLen(Len(body))>>
  BY FramedParses, Zenon DEF ReadBack, Framed

\* to_bytes(2, "big") gives two bytes from which Pair takes the number.
LEMMA BigIs ==
    ASSUME NEW n \in Word
    PROVE  /\ Big(n) \in Seq(Byte) /\ Len(Big(n)) = 2
           /\ Big(n)[1] = n \div 256 /\ Big(n)[2] = n % 256
           /\ 256 * (n \div 256) + (n % 256) = n
<1> DEFINE h == n \div 256
           l == n % 256
<1>1. n \in Nat /\ n < 256 * 256
  BY DEF Word
<1>2. h \in Byte /\ l \in Byte /\ 256 * h + l = n
  BY <1>1 DEF Byte
<1> HIDE DEF h, l
<1>3. <<h, l>> \in Seq(Byte) /\ Len(<<h, l>>) = 2 /\ <<h, l>>[1] = h /\ <<h, l>>[2] = l
  BY <1>2
<1>4. Big(n) = <<h, l>>
  BY Zenon DEF Big, h, l
<1>5. /\ Big(n) \in Seq(Byte) /\ Len(Big(n)) = 2
      /\ Big(n)[1] = h /\ Big(n)[2] = l
  BY <1>3, <1>4
<1> QED BY <1>2, <1>5 DEF h, l

\* MQTT 5: the length of no properties is the byte 0.
LEMMA NoPropertiesIs ==
    NoProperties \in Seq(Byte) /\ Len(NoProperties) = 1 /\ NoProperties[1] = 0
<1>1. 0 \in TwoBytes
  BY DEF TwoBytes
<1>2. /\ encoded[0] \in Seq(Byte) /\ Len(encoded[0]) = FieldLen(0)
      /\ FieldAt(encoded[0], 1, 0)
  BY <1>1, EncodedIs
<1>3. FieldLen(0) = 1 /\ encoded[0][1] = 0
  BY <1>2 DEF FieldLen, FieldAt
<1> QED BY <1>2, <1>3 DEF NoProperties, enc_remaining_length

\* A topic or a payload of n bytes.
LEMMA BytesAre ==
    ASSUME NEW b \in Byte, NEW n \in Nat
    PROVE  /\ Bytes(b, n) \in Seq(Byte) /\ Len(Bytes(b, n)) = n
           /\ \A j \in 1 .. n : Bytes(b, n)[j] = b
  BY DEF Bytes

\* CONNACK: two bytes behind the header.
LEMMA ConnackParses ==
    ASSUME NEW sp \in BOOLEAN, NEW rc \in Byte
    PROVE  ReadBack(FALSE, pkt_connack(sp, rc))
<1> DEFINE x == IF sp THEN 1 ELSE 0
           body == <<x, rc>>
<1>1. x \in {0, 1} /\ x \in Byte
  BY DEF Byte
<1> HIDE DEF x
<1>2. body \in Seq(Byte) /\ Len(body) = 2 /\ body[1] = x
  BY <1>1
<1> HIDE DEF body
<1>3. BodyOk(FALSE, 32, body) /\ 32 \in Byte /\ Len(body) \in TwoBytes
  BY <1>1, <1>2 DEF BodyOk, Byte, TwoBytes
<1>4. ReadBack(FALSE, Framed(32, body))
  BY <1>2, <1>3, FramedReadsBack
<1> QED BY <1>4, Zenon DEF pkt_connack, body, x

\* The same with the length of its properties.
LEMMA Connack5Parses ==
    ASSUME NEW sp \in BOOLEAN, NEW rc \in Byte
    PROVE  ReadBack(TRUE, pkt5_connack(sp, rc))
<1> DEFINE x == IF sp THEN 1 ELSE 0
           two == <<x, rc>>
           body == two \o NoProperties
<1>1. x \in {0, 1} /\ x \in Byte
  BY DEF Byte
<1> HIDE DEF x
<1>2. two \in Seq(Byte) /\ Len(two) = 2 /\ two[1] = x
  BY <1>1
<1> HIDE DEF two
<1>3. body \in Seq(Byte) /\ Len(body) = 3 /\ body[1] = x /\ body[3] = 0
  <2>1. /\ body \in Seq(Byte) /\ Len(body) = Len(two) + Len(NoProperties)
        /\ \A j \in 1 .. Len(two) : body[j] = two[j]
        /\ \A j \in 1 .. Len(NoProperties) : body[Len(two) + j] = NoProperties[j]
    <3>1. two \in Seq(Byte) /\ NoProperties \in Seq(Byte)
      BY <1>2, NoPropertiesIs, Zenon
    <3> QED BY <3>1, Joined, Zenon
  <2> HIDE DEF body
  <2>2. Len(two) + 1 = 3 /\ 1 \in 1 .. Len(two) /\ 1 \in 1 .. Len(NoProperties)
    BY <1>2, NoPropertiesIs
  <2>3. body[3] = NoProperties[1] /\ body[1] = two[1]
    BY <2>1, <2>2
  <2>4. Len(body) = 3
    BY <2>1, <1>2, NoPropertiesIs
  <2> QED BY <1>2, <2>1, <2>3, <2>4, NoPropertiesIs
<1> HIDE DEF body
<1>4. BodyOk(TRUE, 32, body) /\ 32 \in Byte /\ Len(body) \in TwoBytes
  BY <1>1, <1>3 DEF BodyOk, Byte, TwoBytes
<1>5. ReadBack(TRUE, Framed(32, body))
  BY <1>3, <1>4, FramedReadsBack
<1> QED BY <1>5, Zenon DEF pkt5_connack, body, two, x

Acks == {PUBACK, PUBREC, PUBREL, PUBCOMP}

\* A PUBACK, PUBREC, PUBREL or PUBCOMP of either version.
LEMMA AckParses ==
    ASSUME NEW v5 \in BOOLEAN, NEW ctrl \in Acks, NEW id \in Word \ {0}
    PROVE  ReadBack(v5, pkt_ack(ctrl, id))
<1> DEFINE body == Big(id)
<1>1. /\ body \in Seq(Byte) /\ Len(body) = 2 /\ 256 * body[1] + body[2] = id
  <2>1. id \in Word
    OBVIOUS
  <2> QED BY <2>1, BigIs
<1>2. id > 0
  BY DEF Word
<1> HIDE DEF body
<1>3. BodyOk(v5, ctrl, body) /\ ctrl \in Byte /\ Len(body) \in TwoBytes
  BY <1>1, <1>2 DEF BodyOk, Pair, Byte, TwoBytes, Acks, PUBACK, PUBREC, PUBREL, PUBCOMP
<1>4. ReadBack(v5, Framed(ctrl, body))
  BY <1>1, <1>3, FramedReadsBack
<1> QED BY <1>4, Zenon DEF pkt_ack, body

\* MQTT 5 leaves out a reason of success, and then the properties too.
LEMMA Ack5Parses ==
    ASSUME NEW ctrl \in Acks, NEW id \in Word \ {0}, NEW reason \in BOOLEAN
    PROVE  ReadBack(TRUE, pkt5_puback_like(ctrl, id, reason))
<1> DEFINE word == Big(id)
           more == IF reason THEN <<0, 0>> ELSE <<>>
           body == word \o more
<1>1. word \in Seq(Byte) /\ Len(word) = 2 /\ 256 * word[1] + word[2] = id /\ id > 0
  <2>1. id \in Word
    OBVIOUS
  <2>2. id > 0
    BY DEF Word
  <2> QED BY <2>1, <2>2, BigIs
<1>2. /\ more \in Seq(Byte)
      /\ Len(more) = 0 \/ (Len(more) = 2 /\ more[2] = 0)
  <2>1. CASE reason
    <3>1. <<0, 0>> \in Seq(Byte) /\ Len(<<0, 0>>) = 2 /\ <<0, 0>>[2] = 0
      BY DEF Byte
    <3> QED BY <2>1, <3>1
  <2>2. CASE ~reason
    BY <2>2
  <2> QED BY <2>1, <2>2
<1> HIDE DEF word, more
<1>3. /\ body \in Seq(Byte)
      /\ Len(body) = 2 \/ (Len(body) = 4 /\ body[4] = 0)
      /\ body[1] = word[1] /\ body[2] = word[2]
  <2>1. /\ body \in Seq(Byte) /\ Len(body) = Len(word) + Len(more)
        /\ \A j \in 1 .. Len(word) : body[j] = word[j]
        /\ \A j \in 1 .. Len(more) : body[Len(word) + j] = more[j]
    BY <1>1, <1>2, Joined
  <2> HIDE DEF body
  <2>2. body[1] = word[1] /\ body[2] = word[2]
    BY <1>1, <2>1
  <2>3. CASE Len(more) = 0
    BY <2>1, <2>2, <2>3, <1>1
  <2>4. CASE Len(more) = 2 /\ more[2] = 0
    <3>1. Len(word) + 2 = 4 /\ 2 \in 1 .. Len(more)
      BY <2>4, <1>1
    <3>2. body[4] = more[2] /\ Len(body) = 4
      BY <2>1, <2>4, <1>1, <3>1
    <3> QED BY <2>1, <2>2, <2>4, <3>2
  <2> QED BY <1>2, <2>3, <2>4
<1> HIDE DEF body
<1>4. BodyOk(TRUE, ctrl, body) /\ ctrl \in Byte /\ Len(body) \in TwoBytes
  <2>1. ctrl \in {64, 80, 98, 112} /\ ctrl \in Byte
    BY DEF Byte, Acks, PUBACK, PUBREC, PUBREL, PUBCOMP
  <2>2. Pair(body, 1) > 0
    BY <1>1, <1>3 DEF Pair
  <2>3. Len(body) \in TwoBytes
    <3>1. 2 \in TwoBytes /\ 4 \in TwoBytes
      BY DEF TwoBytes
    <3> QED BY <3>1, <1>3
  <2> QED BY <1>3, <2>1, <2>2, <2>3 DEF BodyOk
<1>5. ReadBack(TRUE, Framed(ctrl, body))
  BY <1>3, <1>4, FramedReadsBack
<1> QED BY <1>5, Zenon DEF pkt5_puback_like, body, word, more

\* SUBACK: the id, and a code for each topic, of which there is one at least.
LEMMA SubackParses ==
    ASSUME NEW id \in Word \ {0}, NEW grants \in Seq(Byte), Len(grants) > 0,
           Len(grants) + 2 \in TwoBytes
    PROVE  ReadBack(FALSE, pkt_suback(id, grants))
<1> DEFINE word == Big(id)
           body == word \o grants
<1>1. word \in Seq(Byte) /\ Len(word) = 2 /\ 256 * word[1] + word[2] = id /\ id > 0
  <2>1. id \in Word
    OBVIOUS
  <2>2. id > 0
    BY DEF Word
  <2> QED BY <2>1, <2>2, BigIs
<1> HIDE DEF word
<1>2. /\ body \in Seq(Byte) /\ Len(body) = Len(word) + Len(grants) /\ Len(grants) \in Nat
      /\ \A j \in 1 .. Len(word) : body[j] = word[j]
  BY <1>1, Joined
<1> HIDE DEF body
<1>3. Len(body) = Len(grants) + 2 /\ Len(body) > 2 /\ Pair(body, 1) > 0
  BY <1>1, <1>2 DEF Pair
<1>4. BodyOk(FALSE, 144, body) /\ 144 \in Byte /\ Len(body) \in TwoBytes
  BY <1>3 DEF BodyOk, Byte
<1>5. ReadBack(FALSE, Framed(144, body))
  BY <1>2, <1>4, FramedReadsBack
<1> QED BY <1>5, Zenon DEF pkt_suback, body, word

\* The same with the length of its properties between the two.
LEMMA Suback5Parses ==
    ASSUME NEW id \in Word \ {0}, NEW codes \in Seq(Byte), Len(codes) > 0,
           Len(codes) + 3 \in TwoBytes
    PROVE  ReadBack(TRUE, pkt5_suback(id, codes))
<1> DEFINE word == Big(id)
           front == word \o NoProperties
           body == front \o codes
<1>1. word \in Seq(Byte) /\ Len(word) = 2 /\ 256 * word[1] + word[2] = id /\ id > 0
  <2>1. id \in Word
    OBVIOUS
  <2>2. id > 0
    BY DEF Word
  <2> QED BY <2>1, <2>2, BigIs
<1> HIDE DEF word
<1>2. /\ front \in Seq(Byte) /\ Len(front) = Len(word) + Len(NoProperties)
      /\ \A j \in 1 .. Len(word) : front[j] = word[j]
      /\ \A j \in 1 .. Len(NoProperties) : front[Len(word) + j] = NoProperties[j]
  <2>1. word \in Seq(Byte) /\ NoProperties \in Seq(Byte)
    BY <1>1, NoPropertiesIs, Zenon
  <2> QED BY <2>1, Joined, Zenon
<1> HIDE DEF front
<1>3. Len(front) = 3 /\ front[1] = word[1] /\ front[2] = word[2] /\ front[3] = 0
  <2>1. Len(word) + 1 = 3 /\ 1 \in 1 .. Len(NoProperties) /\ Len(front) = 3
    BY <1>1, <1>2, NoPropertiesIs
  <2>2. front[3] = NoProperties[1]
    BY <2>1, <1>2
  <2> QED BY <1>1, <1>2, <2>1, <2>2, NoPropertiesIs
<1>4. /\ body \in Seq(Byte) /\ Len(body) = Len(front) + Len(codes) /\ Len(codes) \in Nat
      /\ \A j \in 1 .. Len(front) : body[j] = front[j]
  BY <1>2, Joined
<1> HIDE DEF body
<1>5. /\ Len(body) = Len(codes) + 3 /\ Len(body) > 3 /\ body[3] = 0
      /\ Pair(body, 1) > 0
  BY <1>1, <1>3, <1>4 DEF Pair
<1>6. BodyOk(TRUE, 144, body) /\ 144 \in Byte /\ Len(body) \in TwoBytes
  BY <1>5 DEF BodyOk, Byte
<1>7. ReadBack(TRUE, Framed(144, body))
  BY <1>4, <1>6, FramedReadsBack
<1> QED BY <1>7, Zenon DEF pkt5_suback, body, front, word

\* PINGRESP has a header and nothing else.
LEMMA PingrespParses == ReadBack(FALSE, pkt_pingresp)
<1> DEFINE body == <<>>
<1>1. body \in Seq(Byte) /\ Len(body) = 0
  OBVIOUS
<1>2. Len(body) \in TwoBytes /\ BodyOk(FALSE, 208, body) /\ 208 \in Byte
  BY <1>1 DEF TwoBytes, BodyOk, Byte
<1>3. ReadBack(FALSE, fh(208, Len(body)) \o body)
  BY <1>1, <1>2, FramedReadsBack
<1>4. fh(208, 0) = pkt_pingresp
  <2>1. 208 \in Byte /\ 0 \in TwoBytes /\ 0 \in Byte
    BY DEF Byte, TwoBytes
  <2>2. /\ fh(208, 0) \in Seq(Byte) /\ Len(fh(208, 0)) = 1 + FieldLen(0)
        /\ fh(208, 0)[1] = 208 /\ FieldAt(fh(208, 0), 2, 0)
    BY <2>1, HeaderIs
  <2>3. Len(fh(208, 0)) = 2 /\ fh(208, 0)[2] = 0
    BY <2>2 DEF FieldLen, FieldAt
  <2>4. /\ pkt_pingresp \in Seq(Byte) /\ Len(pkt_pingresp) = 2
        /\ pkt_pingresp[1] = 208 /\ pkt_pingresp[2] = 0
    BY <2>1 DEF pkt_pingresp
  <2>5. \A j \in 1 .. 2 : fh(208, 0)[j] = pkt_pingresp[j]
    BY <2>2, <2>3, <2>4
  <2> QED BY <2>2, <2>3, <2>4, <2>5, SeqEqual
<1>5. fh(208, Len(body)) \o body = pkt_pingresp
  <2>0. 208 \in Byte /\ 0 \in TwoBytes
    BY DEF Byte, TwoBytes
  <2>1. fh(208, 0) \in Seq(Byte)
    BY <2>0, HeaderIs
  <2>2. fh(208, 0) \o <<>> = fh(208, 0)
    BY <2>1, ConcatEmptySeq
  <2> QED BY <1>1, <1>4, <2>2
<1> QED BY <1>3, <1>5

-----------------------------------------------------------------------------
(* PUBLISH. *)

\* The body of a PUBLISH is its parts, one behind the other.
Parts(body, w, t, i, p, l) ==
    /\ body \in Seq(Byte)
    /\ Len(body) = 2 + Len(t) + Len(i) + Len(p) + Len(l)
    /\ body[1] = w[1] /\ body[2] = w[2]
    /\ \A j \in 1 .. Len(t) : body[2 + j] = t[j]
    /\ \A j \in 1 .. Len(i) : body[2 + Len(t) + j] = i[j]
    /\ \A j \in 1 .. Len(p) : body[2 + Len(t) + Len(i) + j] = p[j]
    /\ \A j \in 1 .. Len(l) : body[2 + Len(t) + Len(i) + Len(p) + j] = l[j]

\* Where the five parts of the body of a PUBLISH are.
LEMMA PublishParts ==
    ASSUME NEW w \in Seq(Byte), NEW t \in Seq(Byte), NEW i \in Seq(Byte),
           NEW p \in Seq(Byte), NEW l \in Seq(Byte), Len(w) = 2
    PROVE  Parts((((w \o t) \o i) \o p) \o l, w, t, i, p, l)
<1> DEFINE a == w \o t
           b == a \o i
           c == b \o p
           body == c \o l
<1>0. Len(t) \in Nat /\ Len(i) \in Nat /\ Len(p) \in Nat /\ Len(l) \in Nat
  BY LenProperties
<1>1. /\ a \in Seq(Byte) /\ Len(a) = 2 + Len(t) /\ a[1] = w[1] /\ a[2] = w[2]
      /\ \A j \in 1 .. Len(t) : a[2 + j] = t[j]
  <2>1. /\ a \in Seq(Byte) /\ Len(a) = Len(w) + Len(t)
        /\ \A j \in 1 .. Len(w) : a[j] = w[j]
        /\ \A j \in 1 .. Len(t) : a[Len(w) + j] = t[j]
    BY Joined
  <2> HIDE DEF a
  <2> QED BY <2>1
<1> HIDE DEF a
<1>2. /\ b \in Seq(Byte) /\ Len(b) = 2 + Len(t) + Len(i)
      /\ \A j \in 1 .. Len(a) : b[j] = a[j]
      /\ \A j \in 1 .. Len(i) : b[2 + Len(t) + j] = i[j]
  <2>1. /\ b \in Seq(Byte) /\ Len(b) = Len(a) + Len(i)
        /\ \A j \in 1 .. Len(a) : b[j] = a[j]
        /\ \A j \in 1 .. Len(i) : b[Len(a) + j] = i[j]
    BY <1>1, Joined
  <2> HIDE DEF b
  <2> QED BY <2>1, <1>1
<1> HIDE DEF b
<1>3. /\ c \in Seq(Byte) /\ Len(c) = 2 + Len(t) + Len(i) + Len(p)
      /\ \A j \in 1 .. Len(b) : c[j] = b[j]
      /\ \A j \in 1 .. Len(p) : c[2 + Len(t) + Len(i) + j] = p[j]
  <2>1. /\ c \in Seq(Byte) /\ Len(c) = Len(b) + Len(p)
        /\ \A j \in 1 .. Len(b) : c[j] = b[j]
        /\ \A j \in 1 .. Len(p) : c[Len(b) + j] = p[j]
    BY <1>2, Joined
  <2> HIDE DEF c
  <2> QED BY <2>1, <1>2
<1> HIDE DEF c
<1>4. /\ body \in Seq(Byte) /\ Len(body) = 2 + Len(t) + Len(i) + Len(p) + Len(l)
      /\ \A j \in 1 .. Len(c) : body[j] = c[j]
      /\ \A j \in 1 .. Len(l) : body[2 + Len(t) + Len(i) + Len(p) + j] = l[j]
  <2>1. /\ body \in Seq(Byte) /\ Len(body) = Len(c) + Len(l)
        /\ \A j \in 1 .. Len(c) : body[j] = c[j]
        /\ \A j \in 1 .. Len(l) : body[Len(c) + j] = l[j]
    BY <1>3, Joined
  <2> HIDE DEF body
  <2> QED BY <2>1, <1>3
<1> HIDE DEF body
<1>5. ASSUME NEW j \in 1 .. Len(a) PROVE body[j] = a[j]
  <2>1. j \in 1 .. Len(b) /\ j \in 1 .. Len(c)
    BY <1>0, <1>1, <1>2, <1>3
  <2>2. b[j] = a[j]
    BY <1>2
  <2>3. c[j] = b[j]
    BY <2>1, <1>3
  <2>4. body[j] = c[j]
    BY <2>1, <1>4
  <2> QED BY <2>2, <2>3, <2>4
<1>6. body[1] = w[1] /\ body[2] = w[2]
  BY <1>0, <1>1, <1>5
<1>7. ASSUME NEW j \in 1 .. Len(t) PROVE body[2 + j] = t[j]
  <2>1. 2 + j \in 1 .. Len(a)
    BY <1>0, <1>1
  <2> QED BY <2>1, <1>1, <1>5
<1>8. ASSUME NEW j \in 1 .. Len(i) PROVE body[2 + Len(t) + j] = i[j]
  <2>1. 2 + Len(t) + j \in 1 .. Len(b) /\ 2 + Len(t) + j \in 1 .. Len(c)
    BY <1>0, <1>2, <1>3
  <2> QED BY <2>1, <1>2, <1>3, <1>4
<1>9. ASSUME NEW j \in 1 .. Len(p) PROVE body[2 + Len(t) + Len(i) + j] = p[j]
  <2>1. 2 + Len(t) + Len(i) + j \in 1 .. Len(c)
    BY <1>0, <1>3
  <2> QED BY <2>1, <1>3, <1>4
<1>10. body = (((w \o t) \o i) \o p) \o l
  BY Zenon DEF body, c, b, a
<1>11. Parts(body, w, t, i, p, l)
  BY <1>4, <1>6, <1>7, <1>8, <1>9 DEF Parts
<1> QED BY <1>10, <1>11, Zenon

\* The first byte of a PUBLISH gives its type and its quality of service back.
LEMMA ControlIs ==
    ASSUME NEW qos \in 0 .. 2, NEW dup \in BOOLEAN, NEW retain \in BOOLEAN
    PROVE  /\ Control(qos, dup, retain) \in 48 .. 61 /\ Control(qos, dup, retain) \in Byte
           /\ (Control(qos, dup, retain) % 8) \div 2 = qos
           /\ Control(qos, dup, retain) >= 56 => dup
<1> DEFINE x == IF dup THEN 8 ELSE 0
           y == IF retain THEN 1 ELSE 0
           c == 48 + x + 2 * qos + y
<1>1. x \in {0, 8} /\ y \in {0, 1} /\ qos \in {0, 1, 2} /\ (x = 8 => dup)
  OBVIOUS
<1> HIDE DEF x, y
<1>2. c \in 48 .. 61 /\ (c % 8) \div 2 = qos /\ (c >= 56 => x = 8)
  BY <1>1
<1>3. c \in Byte
  BY <1>2 DEF Byte
<1>4. Control(qos, dup, retain) = c
  BY Zenon DEF Control, x, y
<1> QED BY <1>1, <1>2, <1>3, <1>4, Zenon

\* The id is there for a quality of service above 0, and then it is read back.
LEMMA PacketIdIs ==
    ASSUME NEW qos \in 0 .. 2, NEW id \in Word
    PROVE  /\ PacketId(qos, id) \in Seq(Byte)
           /\ Len(PacketId(qos, id)) = IF qos > 0 THEN 2 ELSE 0
           /\ qos > 0 => 256 * PacketId(qos, id)[1] + PacketId(qos, id)[2] = id
<1>1. CASE qos > 0
  BY <1>1, BigIs DEF PacketId
<1>2. CASE ~(qos > 0)
  BY <1>2 DEF PacketId
<1> QED BY <1>1, <1>2

PublishBody(n, qos, id, p, m) ==
    (((Big(n) \o Bytes(TopicByte, n)) \o PacketId(qos, id)) \o p) \o Bytes(PayloadByte, m)
PublishControl(ctrl, qos) ==
    ctrl \in 48 .. 61 /\ ctrl \in Byte /\ (ctrl % 8) \div 2 = qos /\ (ctrl >= 56 => qos > 0)
PublishId(qos, id) == id \in Word /\ (qos > 0 => id > 0)
PropertiesOf(v5, p) ==
    p \in Seq(Byte) /\ (v5 => Len(p) = 1 /\ p[1] = 0) /\ (~v5 => Len(p) = 0)
Readable(v5, ctrl, body) == body \in Seq(Byte) /\ BodyOk(v5, ctrl, body)

\* The body of a PUBLISH is read by the lengths that are inside it.
LEMMA PublishBodyIs ==
    ASSUME NEW v5 \in BOOLEAN, NEW qos \in 0 .. 2, NEW id, PublishId(qos, id),
           NEW n \in Word, NEW m \in Nat, NEW ctrl, PublishControl(ctrl, qos),
           NEW p, PropertiesOf(v5, p)
    PROVE  Readable(v5, ctrl, PublishBody(n, qos, id, p, m))
<1> USE DEF PublishControl, PublishId, PropertiesOf
<1> DEFINE w == Big(n)
           t == Bytes(TopicByte, n)
           i == PacketId(qos, id)
           l == Bytes(PayloadByte, m)
           body == (((w \o t) \o i) \o p) \o l
<1>0. n \in Nat /\ TopicByte \in Byte /\ PayloadByte \in Byte
  <2>1. n \in Nat
    BY WordIsNat
  <2>2. TopicByte \in Byte /\ PayloadByte \in Byte
    BY DEF Byte, TopicByte, PayloadByte
  <2> QED BY <2>1, <2>2
<1>1. w \in Seq(Byte) /\ Len(w) = 2 /\ 256 * w[1] + w[2] = n
  BY BigIs
<1>2. t \in Seq(Byte) /\ Len(t) = n /\ \A j \in 1 .. n : t[j] = TopicByte
  BY <1>0, BytesAre
<1>3. /\ i \in Seq(Byte) /\ Len(i) = IF qos > 0 THEN 2 ELSE 0
      /\ qos > 0 => 256 * i[1] + i[2] = id
  BY PacketIdIs
<1>4. l \in Seq(Byte) /\ Len(l) = m /\ \A j \in 1 .. m : l[j] = PayloadByte
  BY <1>0, BytesAre
<1> HIDE DEF w, t, i, l
<1>5. /\ body \in Seq(Byte)
      /\ Len(body) = 2 + Len(t) + Len(i) + Len(p) + Len(l)
      /\ body[1] = w[1] /\ body[2] = w[2]
      /\ \A j \in 1 .. Len(t) : body[2 + j] = t[j]
      /\ \A j \in 1 .. Len(i) : body[2 + Len(t) + j] = i[j]
      /\ \A j \in 1 .. Len(p) : body[2 + Len(t) + Len(i) + j] = p[j]
      /\ \A j \in 1 .. Len(l) : body[2 + Len(t) + Len(i) + Len(p) + j] = l[j]
  <2>1. w \in Seq(Byte) /\ t \in Seq(Byte) /\ i \in Seq(Byte) /\ l \in Seq(Byte) /\ Len(w) = 2
    BY <1>1, <1>2, <1>3, <1>4
  <2>2. Parts(body, w, t, i, p, l)
    BY <2>1, PublishParts, Zenon
  <2> HIDE DEF body
  <2> QED BY <2>2 DEF Parts
<1> HIDE DEF body
<1> DEFINE at    == 3 + n
           props == at + (IF qos > 0 THEN 2 ELSE 0)
           load  == props + (IF v5 THEN 1 ELSE 0)
<1>6. Pair(body, 1) = n
  <2>1. Pair(body, 1) = 256 * body[1] + body[2]
    BY DEF Pair
  <2> QED BY <2>1, <1>1, <1>5
<1>7. /\ at = 3 + Len(t) /\ props = 3 + Len(t) + Len(i)
      /\ load = 3 + Len(t) + Len(i) + Len(p) /\ Len(body) + 1 = load + m
      /\ Len(p) \in Nat /\ Len(i) \in Nat
  <2> DEFINE a == Len(t)
             b == Len(i)
             c == Len(p)
             e == Len(l)
             g == Len(body)
  <2>1. /\ a = n /\ b = (IF qos > 0 THEN 2 ELSE 0) /\ c = (IF v5 THEN 1 ELSE 0) /\ e = m
        /\ g = 2 + a + b + c + e
    <3>1. c = (IF v5 THEN 1 ELSE 0)
      OBVIOUS
    <3> QED BY <3>1, <1>2, <1>3, <1>4, <1>5
  <2> HIDE DEF a, b, c, e, g
  <2>2. b \in {0, 2} /\ c \in {0, 1}
    BY <2>1
  <2>3. /\ at = 3 + a /\ props = 3 + a + b /\ load = 3 + a + b + c /\ g + 1 = load + m
        /\ c \in Nat /\ b \in Nat
    BY <2>1, <2>2, <1>0
  <2> QED BY <2>3 DEF a, b, c, e, g
<1> HIDE DEF at, props, load
<1>8. load <= Len(body) + 1
  BY <1>0, <1>2, <1>7
<1>9. qos > 0 => Pair(body, at) > 0
  <2> SUFFICES ASSUME qos > 0 PROVE Pair(body, at) > 0
    OBVIOUS
  <2>1. /\ 1 \in 1 .. Len(i) /\ 2 \in 1 .. Len(i)
        /\ 2 + Len(t) + 1 = at /\ 2 + Len(t) + 2 = at + 1
    BY <1>0, <1>2, <1>3, <1>7
  <2>2. body[at] = i[1] /\ body[at + 1] = i[2]
    BY <2>1, <1>5
  <2>3. Pair(body, at) = 256 * i[1] + i[2]
    BY <2>2, Zenon DEF Pair
  <2> QED BY <2>3, <1>3
<1>10. v5 => body[props] = 0
  <2> SUFFICES ASSUME v5 PROVE body[props] = 0
    OBVIOUS
  <2>0. Len(t) = n /\ Len(p) = 1 /\ p[1] = 0
    BY <1>2
  <2>1. 1 \in 1 .. Len(p) /\ 2 + Len(t) + Len(i) + 1 = props
    BY <2>0, <1>0, <1>7
  <2>2. body[props] = p[1]
    BY <2>1, <1>5
  <2> QED BY <2>0, <2>2
<1>11. ASSUME NEW j \in 3 .. at - 1 PROVE body[j] = TopicByte
  <2>1. j - 2 \in 1 .. Len(t) /\ 2 + (j - 2) = j
    BY <1>0, <1>2, <1>7
  <2>2. body[j] = t[j - 2]
    BY <2>1, <1>5
  <2> QED BY <2>1, <2>2, <1>2
<1>12. ASSUME NEW j \in load .. Len(body) PROVE body[j] = PayloadByte
  <2> DEFINE q == j - (2 + Len(t) + Len(i) + Len(p))
  <2>1. q \in 1 .. Len(l) /\ 2 + Len(t) + Len(i) + Len(p) + q = j
    BY <1>0, <1>2, <1>4, <1>7
  <2> HIDE DEF q
  <2>2. body[j] = l[q]
    BY <2>1, <1>5
  <2> QED BY <2>1, <2>2, <1>4
<1>13. PublishOk(v5, qos, body)
  <2>1. /\ at = 3 + Pair(body, 1)
        /\ props = at + (IF qos > 0 THEN 2 ELSE 0)
        /\ load = props + (IF v5 THEN 1 ELSE 0)
    BY <1>6 DEF at, props, load
  <2> QED BY <2>1, <1>8, <1>9, <1>10, <1>11, <1>12, Zenon DEF PublishOk
<1>14. Len(body) > 1
  BY <1>0, <1>2, <1>4, <1>5, <1>7
<1>15. BodyOk(v5, ctrl, body)
  BY <1>13, <1>14 DEF BodyOk
<1> QED BY <1>5, <1>15, Zenon DEF Readable, PublishBody, body, w, t, i, l

\* A PUBLISH, whose header counts the payload before the payload is there.
LEMMA PublishReadsBack ==
    ASSUME NEW v5, NEW ctrl \in Byte, NEW vh \in Seq(Byte), NEW m \in Nat,
           vh \o Bytes(PayloadByte, m) \in Seq(Byte), Len(vh) + m \in TwoBytes,
           BodyOk(v5, ctrl, vh \o Bytes(PayloadByte, m))
    PROVE  LET p == fh(ctrl, Len(vh) + m) \o vh \o Bytes(PayloadByte, m)
           IN  /\ ReadBack(v5, p)
               /\ LengthOf(p) = <<Len(vh) + m, FieldLen(Len(vh) + m)>>
<1> DEFINE l == Bytes(PayloadByte, m)
           h == fh(ctrl, Len(vh) + m)
           body == vh \o l
<1>1. l \in Seq(Byte) /\ Len(l) = m
  <2>1. PayloadByte \in Byte
    BY DEF Byte, PayloadByte
  <2> QED BY <2>1, BytesAre
<1>2. h \in Seq(Byte)
  BY HeaderIs
<1> HIDE DEF l
<1>3. Len(body) = Len(vh) + m
  BY <1>1, Joined
<1>4. body \in Seq(Byte) /\ BodyOk(v5, ctrl, body)
  BY Zenon DEF l
<1> HIDE DEF body
<1>5. /\ ReadBack(v5, fh(ctrl, Len(body)) \o body)
      /\ LengthOf(fh(ctrl, Len(body)) \o body) = <<Len(body), FieldLen(Len(body))>>
  BY <1>3, <1>4, FramedReadsBack
<1> HIDE DEF h
<1>6. (h \o vh) \o l = h \o body
  BY <1>1, <1>2, Regrouped, Zenon DEF body
<1> QED BY <1>3, <1>5, <1>6, Zenon DEF h, l

ReadWithLength(v5, p, len) == ReadBack(v5, p) /\ LengthOf(p) = <<len, FieldLen(len)>>

\* Every PUBLISH of version 3 whose length fits into two bytes is read back, with that
\* length: any topic, payload, quality of service, flags and id, but DUP with a
\* quality of service of 0.
THEOREM PublishParses ==
    ASSUME NEW n \in Word, NEW c, NEW m \in Nat, NEW qos \in 0 .. 2, NEW dup \in BOOLEAN,
           NEW retain \in BOOLEAN, NEW id \in Word, qos > 0 => id > 0, dup => qos > 0,
           2 + n + Len(PacketId(qos, id)) + m \in TwoBytes
    PROVE  ReadWithLength(FALSE, pkt_publish([chars |-> c, bytes |-> n], m, qos, dup, retain, id),
                          2 + n + Len(PacketId(qos, id)) + m)
<1> DEFINE ctrl == Control(qos, dup, retain)
           s == [chars |-> c, bytes |-> n]
           w == Big(n)
           t == Bytes(TopicByte, n)
           i == PacketId(qos, id)
           l == Bytes(PayloadByte, m)
           vh == (w \o t) \o i
           none == <<>>
<1>0. n \in Nat /\ TopicByte \in Byte /\ PayloadByte \in Byte
  <2>1. n \in Nat
    BY WordIsNat
  <2>2. TopicByte \in Byte /\ PayloadByte \in Byte
    BY DEF Byte, TopicByte, PayloadByte
  <2> QED BY <2>1, <2>2
<1>1. /\ w \in Seq(Byte) /\ Len(w) = 2 /\ t \in Seq(Byte) /\ Len(t) = n
      /\ i \in Seq(Byte) /\ l \in Seq(Byte) /\ Len(l) = m
  <2>1. w \in Seq(Byte) /\ Len(w) = 2
    BY BigIs
  <2>2. t \in Seq(Byte) /\ Len(t) = n
    BY <1>0, BytesAre
  <2>3. i \in Seq(Byte)
    BY PacketIdIs
  <2>4. l \in Seq(Byte) /\ Len(l) = m
    BY <1>0, BytesAre
  <2> HIDE DEF w, t, i, l
  <2> QED BY <2>1, <2>2, <2>3, <2>4
<1>2. ctrl \in 48 .. 61 /\ ctrl \in Byte /\ (ctrl % 8) \div 2 = qos /\ (ctrl >= 56 => dup)
  BY ControlIs
<1>3. pkt_publish(s, m, qos, dup, retain, id) = fh(ctrl, Len(vh) + m) \o vh \o l
  <2>1. s.bytes = n
    OBVIOUS
  <2>2. enc_utf8(s) = w \o t
    BY <2>1, Zenon DEF enc_utf8
  <2> HIDE DEF s, w, t, ctrl, i, l
  <2> QED BY <2>2, Zenon DEF pkt_publish, ctrl, i, l
<1>4. none \in Seq(Byte) /\ Len(none) = 0
  OBVIOUS
<1>5. vh \o none \o l \in Seq(Byte) /\ BodyOk(FALSE, ctrl, vh \o none \o l)
  <2>1. PropertiesOf(FALSE, none) /\ PublishControl(ctrl, qos) /\ PublishId(qos, id)
    BY <1>2, <1>4 DEF PropertiesOf, PublishControl, PublishId
  <2>2. Readable(FALSE, ctrl, PublishBody(n, qos, id, none, m))
    <3> HIDE DEF none, ctrl
    <3> QED BY <2>1, PublishBodyIs, Zenon
  <2>3. PublishBody(n, qos, id, none, m) = vh \o none \o l
    BY Zenon DEF PublishBody
  <2> QED BY <2>2, <2>3, Zenon DEF Readable
<1> HIDE DEF w, t, i, l, ctrl
<1>6. vh \in Seq(Byte) /\ Len(vh) = 2 + n + Len(i)
  <2> DEFINE wt == w \o t
  <2>1. wt \in Seq(Byte) /\ Len(wt) = 2 + n
    BY <1>1, JoinedLen
  <2> HIDE DEF wt
  <2>2. wt \o i \in Seq(Byte) /\ Len(wt \o i) = 2 + n + Len(i)
    BY <1>1, <2>1, JoinedLen
  <2> QED BY <2>2 DEF wt
<1> HIDE DEF vh
<1>7. vh \o none = vh
  BY <1>6, ConcatEmptySeq
<1>8. Len(vh) + m = 2 + n + Len(i) + m /\ Len(vh) + m \in TwoBytes
  BY <1>6 DEF i
<1>9. vh \o l \in Seq(Byte) /\ BodyOk(FALSE, ctrl, vh \o l)
  BY <1>5, <1>7
<1>10. /\ ReadBack(FALSE, fh(ctrl, Len(vh) + m) \o vh \o l)
       /\ LengthOf(fh(ctrl, Len(vh) + m) \o vh \o l) = <<Len(vh) + m, FieldLen(Len(vh) + m)>>
  BY <1>2, <1>6, <1>8, <1>9, PublishReadsBack, Zenon DEF l
<1> QED BY <1>3, <1>8, <1>10, Zenon DEF ReadWithLength, i

\* The same of version 5, whose properties are one byte more.
THEOREM Publish5Parses ==
    ASSUME NEW n \in Word, NEW c, NEW m \in Nat, NEW qos \in 0 .. 2,
           NEW id \in Word, qos > 0 => id > 0,
           3 + n + Len(PacketId(qos, id)) + m \in TwoBytes
    PROVE  ReadWithLength(TRUE, pkt5_publish([chars |-> c, bytes |-> n], m, qos, id),
                          3 + n + Len(PacketId(qos, id)) + m)
<1> DEFINE ctrl == Control(qos, FALSE, FALSE)
           s == [chars |-> c, bytes |-> n]
           w == Big(n)
           t == Bytes(TopicByte, n)
           i == PacketId(qos, id)
           l == Bytes(PayloadByte, m)
           vh == ((w \o t) \o i) \o NoProperties
<1>0. n \in Nat /\ TopicByte \in Byte /\ PayloadByte \in Byte
  <2>1. n \in Nat
    BY WordIsNat
  <2>2. TopicByte \in Byte /\ PayloadByte \in Byte
    BY DEF Byte, TopicByte, PayloadByte
  <2> QED BY <2>1, <2>2
<1>1. /\ w \in Seq(Byte) /\ Len(w) = 2 /\ t \in Seq(Byte) /\ Len(t) = n
      /\ i \in Seq(Byte) /\ l \in Seq(Byte) /\ Len(l) = m
  <2>1. w \in Seq(Byte) /\ Len(w) = 2
    BY BigIs
  <2>2. t \in Seq(Byte) /\ Len(t) = n
    BY <1>0, BytesAre
  <2>3. i \in Seq(Byte)
    BY PacketIdIs
  <2>4. l \in Seq(Byte) /\ Len(l) = m
    BY <1>0, BytesAre
  <2> HIDE DEF w, t, i, l
  <2> QED BY <2>1, <2>2, <2>3, <2>4
<1>2. ctrl \in 48 .. 61 /\ ctrl \in Byte /\ (ctrl % 8) \div 2 = qos /\ ~(ctrl >= 56)
  BY ControlIs
<1>3. pkt5_publish(s, m, qos, id) = fh(ctrl, Len(vh) + m) \o vh \o l
  <2>1. s.bytes = n
    OBVIOUS
  <2>2. enc_utf8(s) = w \o t
    BY <2>1, Zenon DEF enc_utf8
  <2> HIDE DEF s, w, t, ctrl, i, l
  <2> QED BY <2>2, Zenon DEF pkt5_publish, ctrl, i, l
<1>4. vh \o l \in Seq(Byte) /\ BodyOk(TRUE, ctrl, vh \o l)
  <2>1. PropertiesOf(TRUE, NoProperties) /\ PublishControl(ctrl, qos) /\ PublishId(qos, id)
    BY <1>2, NoPropertiesIs DEF PropertiesOf, PublishControl, PublishId
  <2>2. Readable(TRUE, ctrl, PublishBody(n, qos, id, NoProperties, m))
    <3> HIDE DEF ctrl
    <3> QED BY <2>1, PublishBodyIs, Zenon
  <2>3. PublishBody(n, qos, id, NoProperties, m) = vh \o l
    BY Zenon DEF PublishBody
  <2> QED BY <2>2, <2>3, Zenon DEF Readable
<1> HIDE DEF w, t, i, l, ctrl
<1>5. vh \in Seq(Byte) /\ Len(vh) = 3 + n + Len(i)
  <2> DEFINE wt == w \o t
             wti == wt \o i
  <2>1. wt \in Seq(Byte) /\ Len(wt) = 2 + n
    BY <1>1, JoinedLen
  <2> HIDE DEF wt
  <2>2. wti \in Seq(Byte) /\ Len(wti) = 2 + n + Len(i) /\ Len(i) \in Nat
    BY <1>1, <2>1, JoinedLen
  <2> HIDE DEF wti
  <2>3. /\ wti \o NoProperties \in Seq(Byte)
        /\ Len(wti \o NoProperties) = Len(wti) + 1
    BY <2>2, NoPropertiesIs, JoinedLen
  <2>4. vh = wti \o NoProperties
    BY Zenon DEF wti, wt
  <2> HIDE DEF vh
  <2> QED BY <2>2, <2>3, <2>4, <1>0
<1> HIDE DEF vh
<1>6. Len(vh) + m = 3 + n + Len(i) + m /\ Len(vh) + m \in TwoBytes
  BY <1>5 DEF i
<1>7. /\ ReadBack(TRUE, fh(ctrl, Len(vh) + m) \o vh \o l)
      /\ LengthOf(fh(ctrl, Len(vh) + m) \o vh \o l) = <<Len(vh) + m, FieldLen(Len(vh) + m)>>
  BY <1>2, <1>4, <1>5, <1>6, PublishReadsBack, Zenon DEF l
<1> QED BY <1>3, <1>6, <1>7, Zenon DEF ReadWithLength, i

\* Packets that are read back are read back one behind the other.
LEMMA CoalescedReadBack ==
    ASSUME NEW v5, NEW p, NEW q, ReadBack(v5, p), ReadBack(v5, q)
    PROVE  ReadBack(v5, p \o q)
<1>1. /\ p \in Seq(Byte) /\ q \in Seq(Byte) /\ IsFrames(v5, q)
      /\ \A rest \in Seq(Byte) : IsFrames(v5, rest) => IsFrames(v5, p \o rest)
      /\ \A rest \in Seq(Byte) : IsFrames(v5, rest) => IsFrames(v5, q \o rest)
  BY Zenon DEF ReadBack
<1>2. p \o q \in Seq(Byte)
  BY <1>1, Joined
<1>3. ASSUME NEW rest \in Seq(Byte), IsFrames(v5, rest)
      PROVE  IsFrames(v5, (p \o q) \o rest)
  <2>1. (p \o q) \o rest = p \o (q \o rest)
    BY <1>1, Regrouped, Zenon
  <2>2. q \o rest \in Seq(Byte) /\ IsFrames(v5, q \o rest)
    BY <1>1, <1>3, Joined
  <2> QED BY <1>1, <2>1, <2>2
<1>4. IsFrames(v5, p \o q)
  BY <1>1
<1> QED BY <1>2, <1>3, <1>4, Zenon DEF ReadBack

-----------------------------------------------------------------------------
(* What the script writes. *)

\* One more of the sequences, of a function that has those before it.
FlattenStep(f, ss, i) == IF i = 1 THEN ss[i] ELSE f[i-1] \o ss[i]
FlattensTo(f, ss, m) == f = [i \in 1 .. m |-> FlattenStep(f, ss, i)]

\* There is such a function for any number of sequences.
LEMMA FlattensToEach ==
    ASSUME NEW ss, NEW m \in Nat
    PROVE  \E f : FlattensTo(f, ss, m)
<1> DEFINE Bad == {l \in Nat : ~ \E f : FlattensTo(f, ss, l)}
<1> SUFFICES ASSUME Bad # {} PROVE FALSE
  OBVIOUS
<1>1. PICK l \in Bad : \A j \in Bad : l <= j
  BY Least, Zenon
<1>2. l \in Nat /\ ~ \E f : FlattensTo(f, ss, l)
  OBVIOUS
<1> HIDE DEF Bad
<1>3. ASSUME NEW g, l > 0 => FlattensTo(g, ss, l - 1) PROVE FALSE
  <2> DEFINE f == [i \in 1 .. l |-> FlattenStep(g, ss, i)]
  <2>1. ASSUME NEW i \in 1 .. l PROVE FlattenStep(f, ss, i) = FlattenStep(g, ss, i)
    <3>1. CASE i = 1
      BY <3>1, Zenon DEF FlattenStep
    <3>2. CASE i # 1
      <4>1. i - 1 \in 1 .. l - 1 /\ i - 1 \in 1 .. l /\ l > 0
        BY <3>2, <1>2
      <4>2. g[i - 1] = FlattenStep(g, ss, i - 1)
        BY <4>1, <1>3 DEF FlattensTo
      <4>3. f[i - 1] = g[i - 1]
        BY <4>1, <4>2
      <4> HIDE DEF f
      <4> QED BY <4>3, <3>2, Zenon DEF FlattenStep
    <3> QED BY <3>1, <3>2
  <2>2. f = [i \in 1 .. l |-> FlattenStep(f, ss, i)]
    BY <2>1, Zenon
  <2> QED BY <2>2, <1>2 DEF FlattensTo
<1>4. CASE l = 0
  BY <1>4, <1>3
<1>5. CASE l > 0
  <2>1. l - 1 \in Nat /\ l - 1 \notin Bad
    BY <1>5, <1>2, <1>1
  <2>2. PICK g : FlattensTo(g, ss, l - 1)
    BY <2>1 DEF Bad
  <2> QED BY <2>2, <1>3
<1> QED BY <1>2, <1>4, <1>5

\* What ForEach joins has the elements of what it joins.
LEMMA FlattenTyped ==
    ASSUME NEW T, NEW ss \in Seq(Seq(T))
    PROVE  FlattenSeq(ss) \in Seq(T)
<1> DEFINE f == CHOOSE f : FlattensTo(f, ss, Len(ss))
<1>0. Len(ss) \in Nat /\ \A i \in 1 .. Len(ss) : ss[i] \in Seq(T)
  BY LenProperties, ElementOfSeq
<1>1. FlattensTo(f, ss, Len(ss))
  BY <1>0, FlattensToEach, Zenon
<1>2. FlattenSeq(ss) = IF Len(ss) = 0 THEN ss ELSE f[Len(ss)]
  BY Zenon DEF FlattenSeq, FlattensTo, FlattenStep
<1> HIDE DEF f
<1>3. \A i \in 1 .. Len(ss) : f[i] \in Seq(T)
  <2> DEFINE Bad == {i \in 1 .. Len(ss) : f[i] \notin Seq(T)}
  <2> SUFFICES ASSUME Bad # {} PROVE FALSE
    OBVIOUS
  <2>1. Bad \in SUBSET Nat
    BY <1>0
  <2>2. PICK i \in Bad : \A j \in Bad : i <= j
    BY <2>1, Least, Zenon
  <2>3. i \in 1 .. Len(ss) /\ f[i] \notin Seq(T)
    OBVIOUS
  <2>4. f[i] = FlattenStep(f, ss, i)
    BY <1>1, <2>3 DEF FlattensTo
  <2>5. CASE i = 1
    BY <1>0, <2>3, <2>4, <2>5 DEF FlattenStep
  <2>6. CASE i # 1
    <3>1. i - 1 \in 1 .. Len(ss) /\ i - 1 < i /\ i - 1 \in Nat
      BY <1>0, <2>3, <2>6
    <3>2. i - 1 \notin Bad
      BY <2>2, <2>3, <3>1
    <3>3. f[i - 1] \in Seq(T) /\ ss[i] \in Seq(T)
      BY <1>0, <2>3, <3>1, <3>2
    <3>4. f[i] = f[i - 1] \o ss[i]
      BY <2>4, <2>6, Zenon DEF FlattenStep
    <3>5. f[i - 1] \o ss[i] \in Seq(T)
      BY <3>3, ConcatProperties
    <3> QED BY <2>3, <3>4, <3>5
  <2> QED BY <2>5, <2>6
<1>4. CASE Len(ss) = 0
  <2>1. ss = <<>>
    BY <1>4, EmptySeq
  <2> QED BY <1>2, <1>4, <2>1
<1>5. CASE Len(ss) # 0
  BY <1>0, <1>2, <1>3, <1>5
<1> QED BY <1>4, <1>5

\* The stems of the names, and of those that say how long their packet is.
Stems ==
    {"connack_ok", "connack_session_present", "connack_refused",
     "publish_qos0_small", "publish_qos0_retain",
     "publish_qos1_basic", "publish_qos1_dup", "publish_qos1_retain",
     "publish_qos2_basic", "publish_qos2_dup", "publish_qos2_retain",
     "publish_utf8_topic_qos0", "publish_utf8_topic_qos1", "publish_qos0",
     "publish_qos1", "publish_qos2", "puback_1", "pubrec_1", "pubrel_1",
     "pubcomp_1", "puback_beef", "pubcomp_cafe", "puback_min", "puback_full",
     "pubrec_min", "pubrec_full", "pubrel_min", "pubcomp_min",
     "suback_single_q0", "suback_single_q1", "suback_single_q2",
     "suback_single_fail", "suback_multi_mixed", "suback_q0", "suback_q1",
     "suback_q2", "suback_fail", "pingresp",
     "coalesced_connack_publish_pingresp"}
AtBoundaries == {"publish_qos0_rl", "publish_qos1_rl"}
DupAtQos0 == "publish_qos0_dup"
AllStems == (Stems \cup AtBoundaries) \cup {DupAtQos0}
SeedName == [dyn : BOOLEAN, v5 : BOOLEAN, stem : AllStems, n : Nat]
GoodWrite ==
    {w \in [name : SeedName, data : Seq(Byte)] :
        /\ Parses(w.name, w.data)
        /\ w.name.dyn => SelectsVersion(w.name, w.data)}

\* Packets that a seed of this name, not a dyn_ seed, may have.
FitsName(name, d) ==
    /\ name \in SeedName /\ ~name.dyn /\ d \in Seq(Byte) /\ ReadBack(name.v5, Corrected(name, d))
    /\ name.stem \in AtBoundaries => LengthOf(d) = <<name.n, FieldLen(name.n)>>

NamedAs(name, v5, stem, n) ==
    name \in SeedName /\ ~name.dyn /\ name.v5 = v5 /\ name.stem = stem /\ name.n = n

\* What a name says of version, stem and number.
LEMMA NamesAre ==
    ASSUME NEW stem \in AllStems, NEW n \in Nat
    PROVE  /\ NamedAs(Numbered(stem, n), FALSE, stem, n)
           /\ NamedAs(V5(Numbered(stem, n)), TRUE, stem, n)
  BY DEF Numbered, V5, SeedName, NamedAs

\* The selectors of the script: 4 is that of MQTT 5, and no other.
LEMMA ModeIs ==
    \A sel \in {0, 1, 2, 4} :
        sel % 16 \in Byte /\ (ModeOfSelector(sel % 16) = "MQTT5" <=> sel = 4)
  BY DEF ModeOfSelector, Byte

\* A seed without a selector is its packets.
LEMMA PlainIsGood ==
    ASSUME NEW name, NEW d, FitsName(name, d)
    PROVE  write_seed(name, d) \in GoodWrite
<1>1. /\ name \in SeedName /\ ~name.dyn /\ d \in Seq(Byte) /\ IsFrames(name.v5, Corrected(name, d))
      /\ name.stem \in AtBoundaries => LengthOf(d) = <<name.n, FieldLen(name.n)>>
  BY Zenon DEF FitsName, ReadBack
<1>2. Parses(name, d)
  BY <1>1, Zenon DEF Parses, Frames, AtBoundaries, FieldLen
<1>3. [name |-> name, data |-> d] \in GoodWrite
  BY <1>1, <1>2 DEF GoodWrite
<1> QED BY <1>3 DEF write_seed

\* The selector is in front of the packets, and is the one of their version.
LEMMA DynIsGood ==
    ASSUME NEW name, NEW d, FitsName(name, d), NEW sel \in {0, 1, 2, 4}, sel = 4 <=> name.v5
    PROVE  write_dynamic_seed(sel, name, d) \in GoodWrite
<1> DEFINE dn == Dyn(name)
           b == sel % 16
           one == <<b>>
           dd == one \o d
<1>1. /\ name \in SeedName /\ ~name.dyn /\ d \in Seq(Byte) /\ IsFrames(name.v5, Corrected(name, d))
      /\ name.stem \in AtBoundaries => LengthOf(d) = <<name.n, FieldLen(name.n)>>
  BY Zenon DEF FitsName, ReadBack
<1>2. /\ dn \in SeedName /\ dn.dyn /\ dn.v5 = name.v5 /\ dn.stem = name.stem /\ dn.n = name.n
  BY <1>1 DEF Dyn, SeedName
<1>3. b \in Byte /\ (ModeOfSelector(b) = "MQTT5" <=> sel = 4)
  BY ModeIs
<1> HIDE DEF b, dn
<1>4. one \in Seq(Byte) /\ Len(one) = 1 /\ one[1] = b
  BY <1>3, OneByte
<1> HIDE DEF one
<1>5. /\ Len(d) \in Nat /\ dd \in Seq(Byte) /\ Len(dd) = 1 + Len(d) /\ dd[1] = b
      /\ \A j \in 1 .. Len(d) : dd[1 + j] = d[j]
  <2>1. /\ Len(d) \in Nat /\ dd \in Seq(Byte) /\ Len(dd) = Len(one) + Len(d)
        /\ \A j \in 1 .. Len(one) : dd[j] = one[j]
        /\ \A j \in 1 .. Len(d) : dd[Len(one) + j] = d[j]
    BY <1>1, <1>4, Joined
  <2> HIDE DEF dd
  <2>2. 1 \in 1 .. Len(one)
    BY <1>4
  <2> QED BY <1>4, <2>1, <2>2
<1> HIDE DEF dd
<1>6. Tail(dd) = d
  <2>1. dd # <<>>
    BY <1>5
  <2>2. /\ Tail(dd) \in Seq(Byte) /\ Len(Tail(dd)) = Len(dd) - 1
        /\ \A j \in 1 .. Len(Tail(dd)) : Tail(dd)[j] = dd[j + 1]
    BY <1>5, <2>1, HeadTailProperties
  <2>3. Len(Tail(dd)) = Len(d)
    BY <1>5, <2>2
  <2>4. ASSUME NEW j \in 1 .. Len(d) PROVE Tail(dd)[j] = d[j]
    <3>1. j + 1 = 1 + j
      BY <1>5
    <3> QED BY <1>5, <2>2, <2>3, <3>1
  <2> QED BY <1>1, <2>2, <2>3, <2>4, SeqEqual
<1>7. Parses(dn, dd)
  <2>1. Frames(dn, dd) = d /\ Corrected(dn, d) = Corrected(name, d)
    BY <1>2, <1>6 DEF Frames, Corrected
  <2> QED BY <1>1, <1>2, <2>1, Zenon DEF Parses, AtBoundaries, FieldLen
<1>8. SelectsVersion(dn, dd)
  BY <1>2, <1>3, <1>5 DEF SelectsVersion
<1>9. [name |-> dn, data |-> dd] \in GoodWrite
  BY <1>2, <1>5, <1>7, <1>8 DEF GoodWrite
<1> QED BY <1>9, Zenon DEF write_dynamic_seed, write_seed, dn, dd, one, b

\* So a seed and its twin are good, if the selector is that of the version.
LEMMA BothAreGood ==
    ASSUME NEW name, NEW d, FitsName(name, d), NEW sel \in {0, 1, 2, 4}, sel = 4 <=> name.v5
    PROVE  Both(sel, name, d) \in Seq(GoodWrite)
<1>1. write_seed(name, d) \in GoodWrite /\ write_dynamic_seed(sel, name, d) \in GoodWrite
  BY PlainIsGood, DynIsGood
<1> QED BY <1>1 DEF Both

\* A name that promises no length asks for packets only.
LEMMA FitsUnnumbered ==
    ASSUME NEW stem \in Stems, NEW n \in Nat, NEW d
    PROVE  /\ ReadBack(FALSE, d) => FitsName(Numbered(stem, n), d)
           /\ ReadBack(TRUE, d) => FitsName(V5(Numbered(stem, n)), d)
<1>1. stem \in AllStems /\ stem \notin AtBoundaries /\ stem # "publish_qos0_dup"
  BY Zenon DEF AllStems, Stems, AtBoundaries
<1>2. ReadBack(FALSE, d) \/ ReadBack(TRUE, d) => d \in Seq(Byte)
  BY Zenon DEF ReadBack
<1> QED BY <1>1, <1>2, NamesAre, Zenon DEF FitsName, NamedAs, Corrected

\* What a write of packets of version 3, and one of packets of version 5, leaves in
\* the list, if its name does not say how long they are.
LEMMA UnnumberedAreGood ==
    ASSUME NEW stem \in Stems, NEW n \in Nat, NEW d
    PROVE  /\ ReadBack(FALSE, d) =>
                  /\ write_seed(Numbered(stem, n), d) \in GoodWrite
                  /\ \A sel \in {0, 1, 2} :
                         /\ write_dynamic_seed(sel, Numbered(stem, n), d) \in GoodWrite
                         /\ Both(sel, Numbered(stem, n), d) \in Seq(GoodWrite)
           /\ ReadBack(TRUE, d) =>
                  /\ write_seed(V5(Numbered(stem, n)), d) \in GoodWrite
                  /\ write_dynamic_seed(4, V5(Numbered(stem, n)), d) \in GoodWrite
                  /\ Both(4, V5(Numbered(stem, n)), d) \in Seq(GoodWrite)
<1>1. Numbered(stem, n).v5 = FALSE /\ V5(Numbered(stem, n)).v5 = TRUE
  <2>1. stem \in AllStems
    BY DEF AllStems
  <2>2. NamedAs(Numbered(stem, n), FALSE, stem, n) /\ NamedAs(V5(Numbered(stem, n)), TRUE, stem, n)
    BY <2>1, NamesAre, Zenon
  <2> QED BY <2>2 DEF NamedAs
<1>2. ASSUME ReadBack(FALSE, d)
      PROVE  /\ write_seed(Numbered(stem, n), d) \in GoodWrite
             /\ \A sel \in {0, 1, 2} :
                    /\ write_dynamic_seed(sel, Numbered(stem, n), d) \in GoodWrite
                    /\ Both(sel, Numbered(stem, n), d) \in Seq(GoodWrite)
  <2>1. FitsName(Numbered(stem, n), d)
    BY <1>2, FitsUnnumbered
  <2>2. \A sel \in {0, 1, 2} : sel \in {0, 1, 2, 4} /\ (sel = 4 <=> Numbered(stem, n).v5)
    BY <1>1
  <2> QED BY <2>1, <2>2, PlainIsGood, DynIsGood, BothAreGood, Zenon
<1>3. ASSUME ReadBack(TRUE, d)
      PROVE  /\ write_seed(V5(Numbered(stem, n)), d) \in GoodWrite
             /\ write_dynamic_seed(4, V5(Numbered(stem, n)), d) \in GoodWrite
             /\ Both(4, V5(Numbered(stem, n)), d) \in Seq(GoodWrite)
  <2>1. FitsName(V5(Numbered(stem, n)), d)
    BY <1>3, FitsUnnumbered
  <2>2. 4 \in {0, 1, 2, 4} /\ (4 = 4 <=> V5(Numbered(stem, n)).v5)
    BY <1>1
  <2> QED BY <2>1, <2>2, PlainIsGood, DynIsGood, BothAreGood, Zenon
<1> QED BY <1>2, <1>3

\* gen_connack
LEMMA ConnacksAreGood == gen_connack \in Seq(GoodWrite)
<1> DEFINE a1 == write_seed(Name("connack_ok"), pkt_connack(FALSE, 0))
           a2 == write_seed(Name("connack_session_present"), pkt_connack(TRUE, 0))
           a3 == write_dynamic_seed(0, Name("connack_ok"), pkt_connack(FALSE, 0))
           a4 == write_dynamic_seed(0, Name("connack_session_present"), pkt_connack(TRUE, 0))
           b1 == write_seed(V5(Name("connack_ok")), pkt5_connack(FALSE, 0))
           b2 == write_seed(V5(Name("connack_session_present")), pkt5_connack(TRUE, 0))
           b3 == write_dynamic_seed(4, V5(Name("connack_ok")), pkt5_connack(FALSE, 0))
           b4 == write_dynamic_seed(4, V5(Name("connack_session_present")), pkt5_connack(TRUE, 0))
           codes == <<1, 2, 3, 4, 5>>
           codes5 == <<129, 140, 135>>
           E(rc) == Both(0, Numbered("connack_refused", rc), pkt_connack(FALSE, rc))
           E5(rc) == Both(4, V5(Numbered("connack_refused", rc)), pkt5_connack(FALSE, rc))
           c == [j \in DOMAIN codes |-> E(codes[j])]
           c5 == [j \in DOMAIN codes5 |-> E5(codes5[j])]
<1>1. /\ "connack_ok" \in Stems /\ "connack_session_present" \in Stems
      /\ "connack_refused" \in Stems
  BY Zenon DEF Stems
<1>2. 0 \in Byte /\ \A rc \in {1, 2, 3, 4, 5, 129, 140, 135} : rc \in Byte /\ rc \in Nat
  BY DEF Byte
<1>3. a1 \in GoodWrite /\ a2 \in GoodWrite /\ a3 \in GoodWrite /\ a4 \in GoodWrite
  BY <1>1, <1>2, ConnackParses, UnnumberedAreGood, Zenon DEF Name
<1>4. b1 \in GoodWrite /\ b2 \in GoodWrite /\ b3 \in GoodWrite /\ b4 \in GoodWrite
  BY <1>1, <1>2, Connack5Parses, UnnumberedAreGood, Zenon DEF Name
<1>5. FlattenSeq(c) \in Seq(GoodWrite)
  <2>1. ASSUME NEW rc \in {1, 2, 3, 4, 5} PROVE E(rc) \in Seq(GoodWrite)
    BY <1>1, <1>2, ConnackParses, UnnumberedAreGood, Zenon
  <2>2. DOMAIN codes = 1 .. 5 /\ \A j \in 1 .. 5 : codes[j] \in {1, 2, 3, 4, 5}
    OBVIOUS
  <2> HIDE DEF codes, E
  <2>3. c \in Seq(Seq(GoodWrite))
    BY <2>1, <2>2
  <2> QED BY <2>3, FlattenTyped, Zenon
<1>6. FlattenSeq(c5) \in Seq(GoodWrite)
  <2>1. ASSUME NEW rc \in {129, 140, 135} PROVE E5(rc) \in Seq(GoodWrite)
    <3>1. rc \in Byte /\ rc \in Nat
      BY <1>2
    <3> QED BY <3>1, <1>1, Connack5Parses, UnnumberedAreGood, Zenon
  <2>2. DOMAIN codes5 = 1 .. 3 /\ \A j \in 1 .. 3 : codes5[j] \in {129, 140, 135}
    OBVIOUS
  <2> HIDE DEF codes5, E5
  <2>3. c5 \in Seq(Seq(GoodWrite))
    BY <2>1, <2>2
  <2> QED BY <2>3, FlattenTyped, Zenon
<1>7. gen_connack = <<a1, a2, a3, a4>> \o FlattenSeq(c) \o <<b1, b2, b3, b4>> \o FlattenSeq(c5)
  BY Zenon DEF gen_connack, ForEach
<1> HIDE DEF a1, a2, a3, a4, b1, b2, b3, b4, c, c5
<1>8. <<a1, a2, a3, a4>> \in Seq(GoodWrite) /\ <<b1, b2, b3, b4>> \in Seq(GoodWrite)
  BY <1>3, <1>4
<1>9. \A s, u \in Seq(GoodWrite) : s \o u \in Seq(GoodWrite)
  BY ConcatProperties
<1> QED BY <1>5, <1>6, <1>7, <1>8, <1>9

\* The ids in the list, and the lengths that its packets stay below.
Ids == {1, 2, 3, 4, 5, 10, 11, 12, 13, 14, 4660, 8738, 48879, 51966}

\* The numbers of the list are in range for the packets above.
LEMMA IdsAreWords ==
    /\ 0 \in Word /\ \A id \in Ids : id \in Word /\ id \in Word \ {0} /\ id > 0
    /\ \A n \in 0 .. 100 : n \in Word /\ n \in Nat
    /\ \A n \in 0 .. 999 : n \in TwoBytes
<1>1. ASSUME NEW id \in Ids PROVE id \in Nat /\ id < 256 * 256 /\ id > 0 /\ id # 0
  BY DEF Ids
<1>2. ASSUME NEW n \in Nat, n < 256 * 256 PROVE n \in Word
  <2> DEFINE b == 256 * 256
  <2>1. b \in Int /\ n < b
    BY <1>2
  <2> HIDE DEF b
  <2>2. n \in 0 .. b - 1
    BY <2>1
  <2> QED BY <2>2, Zenon DEF Word, b
<1>3. ASSUME NEW n \in Nat, n < 128 * 128 PROVE n \in TwoBytes
  <2> DEFINE b == 128 * 128
  <2>1. b \in Int /\ n < b
    BY <1>3
  <2> HIDE DEF b
  <2>2. n \in 0 .. b - 1
    BY <2>1
  <2> QED BY <2>2, Zenon DEF TwoBytes, b
<1>4. /\ 0 \in Nat /\ 0 < 256 * 256
      /\ \A n \in 0 .. 100 : n \in Nat /\ n < 256 * 256
      /\ \A n \in 0 .. 999 : n \in Nat /\ n < 128 * 128
  OBVIOUS
<1> QED BY <1>1, <1>2, <1>3, <1>4

\* The list has PUBLISH packets of topics and payloads far below two bytes of length.
LEMMA ShortPublishParses ==
    ASSUME NEW n \in 0 .. 100, NEW c, NEW m \in 0 .. 200, NEW qos \in 0 .. 2,
           NEW dup \in BOOLEAN, NEW retain \in BOOLEAN, NEW id \in Ids \cup {0}, qos > 0 => id > 0,
           dup => qos > 0
    PROVE  /\ ReadWithLength(FALSE, pkt_publish([chars |-> c, bytes |-> n], m, qos, dup, retain, id),
                             2 + n + (IF qos > 0 THEN 2 ELSE 0) + m)
           /\ ReadWithLength(TRUE, pkt5_publish([chars |-> c, bytes |-> n], m, qos, id),
                             3 + n + (IF qos > 0 THEN 2 ELSE 0) + m)
<1>1. n \in Word /\ id \in Word /\ m \in Nat
  BY IdsAreWords
<1> DEFINE l == Len(PacketId(qos, id))
           x == IF qos > 0 THEN 2 ELSE 0
<1>2. l = x
  BY <1>1, PacketIdIs
<1>3. 2 + n + l + m \in TwoBytes /\ 3 + n + l + m \in TwoBytes
  <2> HIDE DEF l
  <2>1. l \in {0, 2}
    BY <1>2
  <2>2. 2 + n + l + m \in 0 .. 999 /\ 3 + n + l + m \in 0 .. 999
    BY <2>1
  <2> QED BY <2>2, IdsAreWords
<1>4. ReadWithLength(FALSE, pkt_publish([chars |-> c, bytes |-> n], m, qos, dup, retain, id),
                     2 + n + l + m)
  BY <1>1, <1>3, PublishParses
<1>5. ReadWithLength(TRUE, pkt5_publish([chars |-> c, bytes |-> n], m, qos, id), 3 + n + l + m)
  BY <1>1, <1>3, Publish5Parses
<1> HIDE DEF l, x
<1>6. /\ ReadWithLength(FALSE, pkt_publish([chars |-> c, bytes |-> n], m, qos, dup, retain, id),
                        2 + n + x + m)
      /\ ReadWithLength(TRUE, pkt5_publish([chars |-> c, bytes |-> n], m, qos, id), 3 + n + x + m)
  BY <1>2, <1>4, <1>5
<1> QED BY <1>6 DEF x

\* A PUBLISH of the list, with its twin.
LEMMA PublishIsGood ==
    ASSUME NEW stem \in Stems, NEW j \in Nat, NEW c, NEW n \in 0 .. 100, NEW m \in 0 .. 200,
           NEW qos \in 0 .. 2, NEW dup \in BOOLEAN, NEW retain \in BOOLEAN,
           NEW id \in Ids \cup {0}, qos > 0 => id > 0, dup => qos > 0
    PROVE  /\ Both(1, Numbered(stem, j), pkt_publish([chars |-> c, bytes |-> n], m, qos, dup, retain, id))
                  \in Seq(GoodWrite)
           /\ Both(4, V5(Numbered(stem, j)), pkt5_publish([chars |-> c, bytes |-> n], m, qos, id))
                  \in Seq(GoodWrite)
<1>1. /\ ReadBack(FALSE, pkt_publish([chars |-> c, bytes |-> n], m, qos, dup, retain, id))
      /\ ReadBack(TRUE, pkt5_publish([chars |-> c, bytes |-> n], m, qos, id))
  BY ShortPublishParses, Zenon DEF ReadWithLength
<1>2. 1 \in {0, 1, 2}
  OBVIOUS
<1> QED BY <1>1, <1>2, UnnumberedAreGood, Zenon

AtBoundary(qos, rl, id) ==
    pkt_publish(Ascii(1), payload_len(rl, FALSE, qos), qos, FALSE, FALSE, id)
AtBoundary5(rl) == pkt5_publish(Ascii(1), payload_len(rl, TRUE, 0), 0, 0)

\* The payload is chosen so that the length field says what the name says: one byte of
\* it for 127, two from 128 on.
LEMMA BoundaryIsRead ==
    ASSUME NEW rl \in 127 .. 129, NEW qos \in 0 .. 1, NEW id \in Ids
    PROVE  /\ ReadWithLength(FALSE, AtBoundary(qos, rl, id), rl)
           /\ ReadWithLength(TRUE, AtBoundary5(rl), rl)
<1> DEFINE m  == payload_len(rl, FALSE, qos)
           m5 == payload_len(rl, TRUE, 0)
           x  == IF qos > 0 THEN 2 ELSE 0
           x5 == IF 0 > 0 THEN 2 ELSE 0
<1>1. m \in 0 .. 200 /\ 2 + 1 + x + m = rl
  BY DEF payload_len, vh_len
<1>2. m5 \in 0 .. 200 /\ 3 + 1 + x5 + m5 = rl
  BY DEF payload_len, vh_len
<1> HIDE DEF m, m5
<1>3. /\ 1 \in 0 .. 100 /\ qos \in 0 .. 2 /\ 0 \in 0 .. 2 /\ id > 0 /\ ~(0 > 0)
      /\ id \in Ids \cup {0} /\ 0 \in Ids \cup {0}
  BY DEF Ids
<1>4. Ascii(1) = [chars |-> 1, bytes |-> 1]
  BY DEF Ascii
<1>5. ReadWithLength(FALSE, pkt_publish(Ascii(1), m, qos, FALSE, FALSE, id), 2 + 1 + x + m)
  BY <1>1, <1>3, <1>4, ShortPublishParses, Zenon
<1>6. ReadWithLength(TRUE, pkt5_publish(Ascii(1), m5, 0, 0), 3 + 1 + x5 + m5)
  BY <1>2, <1>3, <1>4, ShortPublishParses, Zenon
<1> QED BY <1>1, <1>2, <1>5, <1>6, Zenon DEF AtBoundary, AtBoundary5, m, m5

\* So these seeds and their twins are good too.
LEMMA BoundaryIsGood ==
    ASSUME NEW rl \in 127 .. 129, NEW qos \in 0 .. 1, NEW id \in Ids
    PROVE  /\ Both(1, BoundaryName(qos, rl), AtBoundary(qos, rl, id)) \in Seq(GoodWrite)
           /\ Both(4, V5(BoundaryName(qos, rl)), AtBoundary5(rl)) \in Seq(GoodWrite)
<1> DEFINE stem == IF qos = 0 THEN "publish_qos0_rl" ELSE "publish_qos1_rl"
           name == Numbered(stem, rl)
<1>1. name = BoundaryName(qos, rl)
  BY Zenon DEF BoundaryName
<1>2. stem \in AllStems /\ rl \in Nat /\ stem # "publish_qos0_dup"
  BY DEF AllStems, AtBoundaries
<1> HIDE DEF stem
<1>3. /\ name \in SeedName /\ V5(name) \in SeedName
      /\ ~name.dyn /\ ~V5(name).dyn /\ name.v5 = FALSE /\ V5(name).v5 = TRUE
      /\ name.n = rl /\ V5(name).n = rl /\ name.stem = stem /\ V5(name).stem = stem
  <2>1. NamedAs(name, FALSE, stem, rl) /\ NamedAs(V5(name), TRUE, stem, rl)
    BY <1>2, NamesAre, Zenon
  <2> HIDE DEF name
  <2> QED BY <2>1, Zenon DEF NamedAs
<1> HIDE DEF name
<1>4. /\ ReadBack(FALSE, AtBoundary(qos, rl, id)) /\ ReadBack(TRUE, AtBoundary5(rl))
      /\ LengthOf(AtBoundary(qos, rl, id)) = <<rl, FieldLen(rl)>>
      /\ LengthOf(AtBoundary5(rl)) = <<rl, FieldLen(rl)>>
  BY BoundaryIsRead, Zenon DEF ReadWithLength
<1>5. FitsName(name, AtBoundary(qos, rl, id)) /\ FitsName(V5(name), AtBoundary5(rl))
  <2>1. \A d : Corrected(name, d) = d /\ Corrected(V5(name), d) = d
    BY <1>2, <1>3 DEF Corrected
  <2>2. AtBoundary(qos, rl, id) \in Seq(Byte) /\ AtBoundary5(rl) \in Seq(Byte)
    BY <1>4, Zenon DEF ReadBack
  <2> QED BY <1>3, <1>4, <2>1, <2>2, Zenon DEF FitsName
<1>6. /\ 1 \in {0, 1, 2, 4} /\ (1 = 4 <=> name.v5)
      /\ 4 \in {0, 1, 2, 4} /\ (4 = 4 <=> V5(name).v5)
  BY <1>3
<1> QED BY <1>1, <1>5, <1>6, BothAreGood, Zenon

\* A change of the first byte is one of what stands in front.
LEMMA FrontOf ==
    ASSUME NEW a \in Seq(Byte), NEW r \in Seq(Byte), Len(a) > 0, WithoutDup(a) \in Seq(Byte)
    PROVE  WithoutDup(a \o r) = WithoutDup(a) \o r
<1> DEFINE b == WithoutDup(a)
           x == a \o r
           y == b \o r
           z == WithoutDup(x)
<1>1. /\ Len(a) \in Nat /\ Len(r) \in Nat /\ Len(b) = Len(a) /\ b[1] = a[1] - 8
      /\ \A j \in 1 .. Len(a) : j # 1 => b[j] = a[j]
  BY LenProperties DEF WithoutDup
<1> HIDE DEF b
<1>2. /\ x \in Seq(Byte) /\ Len(x) = Len(a) + Len(r)
      /\ \A j \in 1 .. Len(a) : x[j] = a[j]
      /\ \A j \in 1 .. Len(r) : x[Len(a) + j] = r[j]
  BY Joined
<1>3. /\ y \in Seq(Byte) /\ Len(y) = Len(a) + Len(r)
      /\ \A j \in 1 .. Len(a) : y[j] = b[j]
      /\ \A j \in 1 .. Len(r) : y[Len(a) + j] = r[j]
  <2>1. b \in Seq(Byte)
    BY DEF b
  <2>2. /\ y \in Seq(Byte) /\ Len(y) = Len(b) + Len(r)
        /\ \A j \in 1 .. Len(b) : y[j] = b[j]
        /\ \A j \in 1 .. Len(r) : y[Len(b) + j] = r[j]
    BY <2>1, Joined
  <2> HIDE DEF y
  <2> QED BY <1>1, <2>2
<1> HIDE DEF x, y
<1>4. DOMAIN x = 1 .. Len(a) + Len(r) /\ DOMAIN y = 1 .. Len(a) + Len(r)
  BY <1>1, <1>2, <1>3, LenProperties
<1>5. /\ z = [j \in DOMAIN x |-> z[j]] /\ z[1] = x[1] - 8
      /\ \A j \in DOMAIN x : j # 1 => z[j] = x[j]
  <2>1. 1 \in DOMAIN x
    BY <1>1, <1>4
  <2> QED BY <2>1 DEF WithoutDup
<1> HIDE DEF z
<1>6. ASSUME NEW j \in 1 .. Len(a) + Len(r) PROVE z[j] = y[j]
  <2>1. CASE j \in 1 .. Len(a)
    BY <1>1, <1>2, <1>3, <1>4, <1>5, <2>1
  <2>2. CASE j \notin 1 .. Len(a)
    <3> DEFINE q == j - Len(a)
    <3>1. q \in 1 .. Len(r) /\ Len(a) + q = j /\ j # 1
      BY <1>1, <2>2
    <3> HIDE DEF q
    <3>2. x[j] = r[q] /\ y[j] = r[q]
      BY <1>2, <1>3, <3>1
    <3> QED BY <1>4, <1>5, <3>1, <3>2
  <2> QED BY <2>1, <2>2
<1>7. y = [j \in 1 .. Len(a) + Len(r) |-> y[j]]
  BY <1>3, <1>4
<1>8. z = y
  BY <1>4, <1>5, <1>6, <1>7
<1> QED BY <1>8, Zenon DEF x, y, z, b

DupPacket(dup) == pkt_publish(Ascii(19), 3, 0, dup, FALSE, 0)
DupSeed == Both(1, Name("publish_qos0_dup"), DupPacket(TRUE))

\* The two differ in the flag.
LEMMA DupIsOneBit ==
    DupPacket(TRUE) \in Seq(Byte) /\ WithoutDup(DupPacket(TRUE)) = DupPacket(FALSE)
<1> DEFINE w == Big(19)
           t == Bytes(TopicByte, 19)
           i == PacketId(0, 0)
           vh == (w \o t) \o i
           l == Bytes(PayloadByte, 3)
           e == enc_remaining_length(Len(vh) + 3)
           c56 == <<56>>
           c48 == <<48>>
           on == c56 \o e
           off == c48 \o e
<1>1. vh \in Seq(Byte) /\ Len(vh) = 21
  <2>1. /\ 19 \in 0 .. 100 /\ 0 \in 0 .. 100 /\ 0 \in 0 .. 2 /\ 19 \in Nat
        /\ TopicByte \in Byte
    BY DEF Byte, TopicByte
  <2>2. 19 \in Word /\ 0 \in Word
    BY <2>1, IdsAreWords
  <2>3. w \in Seq(Byte) /\ Len(w) = 2
    BY <2>2, BigIs
  <2>4. t \in Seq(Byte) /\ Len(t) = 19
    BY <2>1, BytesAre
  <2>5. i \in Seq(Byte) /\ Len(i) = 0
    BY <2>1, <2>2, PacketIdIs
  <2> HIDE DEF w, t, i
  <2> DEFINE wt == w \o t
             wti == wt \o i
  <2>6. wt \in Seq(Byte) /\ Len(wt) = Len(w) + Len(t)
    BY <2>3, <2>4, JoinedLen
  <2> HIDE DEF wt
  <2>7. wti \in Seq(Byte) /\ Len(wti) = Len(wt) + Len(i)
    BY <2>5, <2>6, JoinedLen
  <2> HIDE DEF wti
  <2>8. wti \in Seq(Byte) /\ Len(wti) = 21
    BY <2>3, <2>4, <2>5, <2>6, <2>7
  <2> QED BY <2>8 DEF wti, wt
<1>2. l \in Seq(Byte)
  <2>1. PayloadByte \in Byte /\ 3 \in Nat
    BY DEF Byte, PayloadByte
  <2> QED BY <2>1, BytesAre
<1>3. enc_utf8(Ascii(19)) = w \o t
  BY DEF enc_utf8, Ascii
<1> HIDE DEF w, t, i
<1>4. /\ DupPacket(TRUE) = (on \o vh) \o l
      /\ DupPacket(FALSE) = (off \o vh) \o l
  <2>1. Control(0, TRUE, FALSE) = 56 /\ Control(0, FALSE, FALSE) = 48
    BY DEF Control
  <2> QED BY <1>3, <2>1, Zenon DEF DupPacket, pkt_publish, fh, i
<1> HIDE DEF vh, l
<1>5. e \in Seq(Byte)
  <2>1. Len(vh) + 3 \in TwoBytes
    BY <1>1 DEF TwoBytes
  <2>2. e = encoded[Len(vh) + 3]
    BY DEF enc_remaining_length
  <2> HIDE DEF e
  <2> QED BY <2>1, <2>2, EncodedIs
<1> HIDE DEF e
<1>6. c56 \in Seq(Byte) /\ c48 \in Seq(Byte) /\ Len(c56) = 1 /\ WithoutDup(c56) = c48
  BY DEF Byte, WithoutDup
<1> HIDE DEF c56, c48
<1>7. on \in Seq(Byte) /\ off \in Seq(Byte) /\ Len(on) > 0 /\ WithoutDup(on) = off
  <2>1. /\ Len(on) = Len(c56) + Len(e) /\ Len(e) \in Nat /\ on \in Seq(Byte)
        /\ off \in Seq(Byte)
    BY <1>5, <1>6, JoinedLen
  <2>2. WithoutDup(on) = off
    <3>1. Len(c56) > 0 /\ WithoutDup(c56) \in Seq(Byte)
      BY <1>6
    <3>2. WithoutDup(c56 \o e) = WithoutDup(c56) \o e
      BY <1>5, <1>6, <3>1, FrontOf, Zenon
    <3> QED BY <1>6, <3>2
  <2> HIDE DEF on, off
  <2> QED BY <1>6, <2>1, <2>2
<1> HIDE DEF on, off
<1> DEFINE x == on \o vh
           y == off \o vh
<1>8. x \in Seq(Byte) /\ y \in Seq(Byte) /\ Len(x) > 0 /\ WithoutDup(x) = y
  <2>1. Len(x) = Len(on) + Len(vh) /\ Len(on) \in Nat /\ x \in Seq(Byte) /\ y \in Seq(Byte)
    BY <1>1, <1>7, JoinedLen
  <2>2. WithoutDup(x) = y
    BY <1>1, <1>7, FrontOf
  <2> HIDE DEF x, y
  <2> QED BY <1>1, <1>7, <2>1, <2>2
<1> HIDE DEF x, y
<1>9. x \o l \in Seq(Byte) /\ WithoutDup(x \o l) = y \o l
  BY <1>2, <1>8, FrontOf, JoinedLen
<1> QED BY <1>4, <1>9, Zenon DEF x, y

\* The seed that is corrected, with its twin.
LEMMA DupAtQos0IsGood == DupSeed \in Seq(GoodWrite)
<1> DEFINE name == Name("publish_qos0_dup")
<1>1. NamedAs(name, FALSE, "publish_qos0_dup", 0)
  BY NamesAre DEF Name, AllStems, DupAtQos0
<1> HIDE DEF name
<1>2. ReadBack(FALSE, DupPacket(FALSE))
  <2>1. /\ 19 \in 0 .. 100 /\ 3 \in 0 .. 200 /\ 0 \in 0 .. 2 /\ ~(0 > 0) /\ 0 \in Ids \cup {0}
        /\ FALSE \in BOOLEAN
    OBVIOUS
  <2> QED BY <2>1, ShortPublishParses, Zenon DEF DupPacket, Ascii, ReadWithLength
<1>3. Corrected(name, DupPacket(TRUE)) = DupPacket(FALSE)
  BY <1>1, DupIsOneBit DEF Corrected, NamedAs
<1>4. name.stem \notin AtBoundaries
  BY <1>1 DEF NamedAs, AtBoundaries
<1>5. FitsName(name, DupPacket(TRUE))
  BY <1>1, <1>2, <1>3, <1>4, DupIsOneBit, Zenon DEF FitsName, NamedAs
<1>6. 1 \in {0, 1, 2, 4} /\ (1 = 4 <=> name.v5)
  BY <1>1 DEF NamedAs
<1> QED BY <1>5, <1>6, BothAreGood, Zenon DEF DupSeed, name

\* gen_publish
LEMMA PublishesAreGood == gen_publish \in Seq(GoodWrite)
<1> DEFINE topic == Ascii(19)
           utf_topic == [chars |-> 7, bytes |-> 12]
           small == <<0, 1, 5, 15>>
           P(stem, j, m, qos, id) ==
               Both(1, Numbered(stem, j), pkt_publish(topic, m, qos, FALSE, FALSE, id))
           PD(stem, m, qos, id) == Both(1, Name(stem), pkt_publish(topic, m, qos, TRUE, FALSE, id))
           PR(stem, m, qos, id) == Both(1, Name(stem), pkt_publish(topic, m, qos, FALSE, TRUE, id))
           PU(stem, m, qos, id) ==
               Both(1, Name(stem), pkt_publish(utf_topic, m, qos, FALSE, FALSE, id))
           P5(stem, qos, id) == Both(4, V5(Name(stem)), pkt5_publish(Ascii(4), 2, qos, id))
           E0(j) == P("publish_qos0_small", j, small[j + 1], 0, 0)
           AtB(qos, rl) == Both(1, BoundaryName(qos, rl), AtBoundary(qos, rl, 8738))
           AtB5(rl) == Both(4, V5(BoundaryName(0, rl)), AtBoundary5(rl))
           list == <<0, 1, 2, 3>>
           b == Boundaries
           s0 == FlattenSeq([j \in DOMAIN list |-> E0(list[j])])
           s1 == PR("publish_qos0_retain", 6, 0, 0)
           s2 == PD("publish_qos0_dup", 3, 0, 0)
           s3 == P("publish_qos1_basic", 0, 6, 1, 1)
           s4 == PD("publish_qos1_dup", 4, 1, 4660)
           s5 == PR("publish_qos1_retain", 4, 1, 2)
           s6 == P("publish_qos2_basic", 0, 9, 2, 10)
           s7 == PD("publish_qos2_dup", 4, 2, 48879)
           s8 == PR("publish_qos2_retain", 5, 2, 11)
           s9 == FlattenSeq([j \in DOMAIN b |-> AtB(0, b[j])])
           t1 == FlattenSeq([j \in DOMAIN b |-> AtB(1, b[j])])
           t2 == PU("publish_utf8_topic_qos0", 5, 0, 0)
           t3 == PU("publish_utf8_topic_qos1", 3, 1, 3)
           t4 == P5("publish_qos0", 0, 0)
           t5 == P5("publish_qos1", 1, 1)
           t6 == P5("publish_qos2", 2, 2)
           t7 == FlattenSeq([j \in DOMAIN b |-> AtB5(b[j])])
<1>1. /\ "publish_qos0_retain" \in Stems
      /\ "publish_qos1_basic" \in Stems /\ "publish_qos1_dup" \in Stems
      /\ "publish_qos1_retain" \in Stems /\ "publish_qos2_basic" \in Stems
      /\ "publish_qos2_dup" \in Stems /\ "publish_qos2_retain" \in Stems
      /\ "publish_qos0_small" \in Stems /\ "publish_utf8_topic_qos0" \in Stems
      /\ "publish_utf8_topic_qos1" \in Stems
      /\ "publish_qos0" \in Stems /\ "publish_qos1" \in Stems /\ "publish_qos2" \in Stems
  BY Zenon DEF Stems
<1>2. ASSUME NEW stem \in Stems, NEW m \in 0 .. 200, NEW qos \in 0 .. 2,
             NEW id \in Ids \cup {0}, qos > 0 => id > 0
      PROVE  /\ \A j \in Nat : P(stem, j, m, qos, id) \in Seq(GoodWrite)
             /\ qos > 0 => PD(stem, m, qos, id) \in Seq(GoodWrite)
             /\ PR(stem, m, qos, id) \in Seq(GoodWrite)
             /\ PU(stem, m, qos, id) \in Seq(GoodWrite)
  <2>1. 0 \in Nat /\ 19 \in 0 .. 100 /\ 12 \in 0 .. 100
    OBVIOUS
  <2>2. ASSUME NEW j \in Nat PROVE P(stem, j, m, qos, id) \in Seq(GoodWrite)
    BY <1>2, <2>1, PublishIsGood, Zenon DEF Ascii
  <2>3. qos > 0 => PD(stem, m, qos, id) \in Seq(GoodWrite)
    BY <1>2, <2>1, PublishIsGood, Zenon DEF Ascii, Name
  <2>4. PR(stem, m, qos, id) \in Seq(GoodWrite)
    BY <1>2, <2>1, PublishIsGood, Zenon DEF Ascii, Name
  <2>5. PU(stem, m, qos, id) \in Seq(GoodWrite)
    BY <1>2, <2>1, PublishIsGood, Zenon DEF Name
  <2> QED BY <2>2, <2>3, <2>4, <2>5
<1> HIDE DEF P, PD, PR, PU
<1>3. ASSUME NEW stem \in Stems, NEW qos \in 0 .. 2, NEW id \in Ids \cup {0}, qos > 0 => id > 0
      PROVE  P5(stem, qos, id) \in Seq(GoodWrite)
  <2>1. 0 \in Nat /\ 4 \in 0 .. 100 /\ 2 \in 0 .. 200
    OBVIOUS
  <2> QED BY <1>3, <2>1, PublishIsGood, Zenon DEF Ascii, Name
<1>4. ASSUME NEW j \in 0 .. 3
      PROVE  E0(j) \in Seq(GoodWrite)
  <2>1. /\ j \in Nat /\ small[j + 1] \in 0 .. 200 /\ 0 \in 0 .. 2 /\ ~(0 > 0)
        /\ 0 \in Ids \cup {0}
    OBVIOUS
  <2> HIDE DEF small
  <2> QED BY <1>1, <1>2, <2>1
<1>5. ASSUME NEW rl \in 127 .. 129
      PROVE  AtB(0, rl) \in Seq(GoodWrite) /\ AtB(1, rl) \in Seq(GoodWrite)
             /\ AtB5(rl) \in Seq(GoodWrite)
  <2>1. 0 \in 0 .. 1 /\ 1 \in 0 .. 1 /\ 8738 \in Ids
    BY DEF Ids
  <2>2. \A qos \in 0 .. 1 : \A id \in Ids :
            /\ Both(1, BoundaryName(qos, rl), AtBoundary(qos, rl, id)) \in Seq(GoodWrite)
            /\ Both(4, V5(BoundaryName(qos, rl)), AtBoundary5(rl)) \in Seq(GoodWrite)
    BY BoundaryIsGood
  <2> QED BY <2>1, <2>2
<1> HIDE DEF P5, E0, AtB, AtB5
<1>6. s0 \in Seq(GoodWrite)
  <2>1. DOMAIN list = 1 .. 4 /\ \A j \in 1 .. 4 : list[j] \in 0 .. 3
    OBVIOUS
  <2> HIDE DEF list
  <2>2. [j \in DOMAIN list |-> E0(list[j])] \in Seq(Seq(GoodWrite))
    BY <1>4, <2>1
  <2> QED BY <2>2, FlattenTyped, Zenon
<1>7. DOMAIN b = 1 .. 3 /\ \A j \in 1 .. 3 : b[j] \in 127 .. 129
  BY DEF Boundaries
<1>8. s9 \in Seq(GoodWrite) /\ t1 \in Seq(GoodWrite) /\ t7 \in Seq(GoodWrite)
  <2> HIDE DEF b
  <2>1. [j \in DOMAIN b |-> AtB(0, b[j])] \in Seq(Seq(GoodWrite))
    BY <1>5, <1>7
  <2>2. [j \in DOMAIN b |-> AtB(1, b[j])] \in Seq(Seq(GoodWrite))
    BY <1>5, <1>7
  <2>3. [j \in DOMAIN b |-> AtB5(b[j])] \in Seq(Seq(GoodWrite))
    BY <1>5, <1>7
  <2> QED BY <2>1, <2>2, <2>3, FlattenTyped, Zenon
<1>9. /\ s1 \in Seq(GoodWrite) /\ s2 \in Seq(GoodWrite) /\ s3 \in Seq(GoodWrite)
      /\ s4 \in Seq(GoodWrite) /\ s5 \in Seq(GoodWrite) /\ s6 \in Seq(GoodWrite)
      /\ s7 \in Seq(GoodWrite) /\ s8 \in Seq(GoodWrite)
      /\ t2 \in Seq(GoodWrite) /\ t3 \in Seq(GoodWrite)
  <2>1. /\ 1 \in Ids /\ 2 \in Ids /\ 3 \in Ids /\ 10 \in Ids /\ 11 \in Ids /\ 4660 \in Ids
        /\ 48879 \in Ids
    BY DEF Ids
  <2>2. /\ 3 \in 0 .. 200 /\ 4 \in 0 .. 200 /\ 5 \in 0 .. 200 /\ 6 \in 0 .. 200 /\ 9 \in 0 .. 200
        /\ 0 \in 0 .. 2 /\ 1 \in 1 .. 2 /\ 2 \in 1 .. 2 /\ 0 \in Nat
    OBVIOUS
  <2>3. ASSUME NEW stem \in Stems, NEW m \in 0 .. 200
        PROVE  PR(stem, m, 0, 0) \in Seq(GoodWrite) /\ PU(stem, m, 0, 0) \in Seq(GoodWrite)
    BY <1>2
  <2>4. ASSUME NEW stem \in Stems, NEW m \in 0 .. 200, NEW qos \in 1 .. 2, NEW id \in Ids
        PROVE  /\ P(stem, 0, m, qos, id) \in Seq(GoodWrite)
               /\ PD(stem, m, qos, id) \in Seq(GoodWrite)
               /\ PR(stem, m, qos, id) \in Seq(GoodWrite)
               /\ PU(stem, m, qos, id) \in Seq(GoodWrite)
    <3>1. qos \in 0 .. 2 /\ qos > 0 /\ id > 0 /\ 0 \in Nat
      BY IdsAreWords
    <3> QED BY <3>1, <1>2
  <2>5. s2 \in Seq(GoodWrite)
    BY DupAtQos0IsGood, Zenon DEF PD, DupSeed, DupPacket
  <2> QED BY <1>1, <2>1, <2>2, <2>3, <2>4, <2>5
<1>10. t4 \in Seq(GoodWrite) /\ t5 \in Seq(GoodWrite) /\ t6 \in Seq(GoodWrite)
  BY <1>1, <1>3 DEF Ids
<1>11. gen_publish = s0 \o s1 \o s2 \o s3 \o s4 \o s5 \o s6 \o s7 \o s8 \o s9 \o t1 \o t2
                     \o t3 \o t4 \o t5 \o t6 \o t7
  BY DEF gen_publish, ForEach, Selector5, Name, P, PD, PR, PU, P5, E0, AtB, AtB5, AtBoundary, AtBoundary5
<1> HIDE DEF s0, s1, s2, s3, s4, s5, s6, s7, s8, s9, t1, t2, t3, t4, t5, t6, t7
<1>12. \A s, u \in Seq(GoodWrite) : s \o u \in Seq(GoodWrite)
  BY ConcatProperties
<1> QED BY <1>6, <1>8, <1>9, <1>10, <1>11, <1>12

\* gen_qos_acks
LEMMA AcksAreGood == gen_qos_acks \in Seq(GoodWrite)
<1> DEFINE A(stem, ctrl, id) == Both(1, Name(stem), pkt_ack(ctrl, id))
           A5(stem, ctrl, id, reason) == Both(4, V5(Name(stem)), pkt5_puback_like(ctrl, id, reason))
           Bare(stem, ctrl, id) == A5(stem, ctrl, id, FALSE)
           Full(stem, ctrl, id) == A5(stem, ctrl, id, TRUE)
           a1 == A("puback_1", PUBACK, 1)
           a2 == A("pubrec_1", PUBREC, 1)
           a3 == A("pubrel_1", PUBREL, 1)
           a4 == A("pubcomp_1", PUBCOMP, 1)
           a5 == A("puback_beef", PUBACK, 48879)
           a6 == A("pubcomp_cafe", PUBCOMP, 51966)
           b1 == Bare("puback_min", PUBACK, 1)
           b2 == Full("puback_full", PUBACK, 1)
           b3 == Bare("pubrec_min", PUBREC, 2)
           b4 == Full("pubrec_full", PUBREC, 2)
           b5 == Bare("pubrel_min", PUBREL, 3)
           b6 == Bare("pubcomp_min", PUBCOMP, 4)
<1>1. /\ "puback_1" \in Stems /\ "pubrec_1" \in Stems /\ "pubrel_1" \in Stems
      /\ "pubcomp_1" \in Stems /\ "puback_beef" \in Stems /\ "pubcomp_cafe" \in Stems
      /\ "puback_min" \in Stems /\ "puback_full" \in Stems /\ "pubrec_min" \in Stems
      /\ "pubrec_full" \in Stems /\ "pubrel_min" \in Stems /\ "pubcomp_min" \in Stems
  BY Zenon DEF Stems
<1>2. PUBACK \in Acks /\ PUBREC \in Acks /\ PUBREL \in Acks /\ PUBCOMP \in Acks
  BY Zenon DEF Acks
<1>3. /\ 1 \in Ids /\ 2 \in Ids /\ 3 \in Ids /\ 4 \in Ids /\ 48879 \in Ids /\ 51966 \in Ids
  BY DEF Ids
<1>4. ASSUME NEW stem \in Stems, NEW ctrl \in Acks, NEW id \in Ids
      PROVE  /\ A(stem, ctrl, id) \in Seq(GoodWrite)
             /\ Bare(stem, ctrl, id) \in Seq(GoodWrite)
             /\ Full(stem, ctrl, id) \in Seq(GoodWrite)
  <2>1. id \in Word \ {0}
    BY IdsAreWords
  <2>2. FALSE \in BOOLEAN /\ TRUE \in BOOLEAN /\ 1 \in {0, 1, 2} /\ 0 \in Nat
    OBVIOUS
  <2>3. /\ ReadBack(FALSE, pkt_ack(ctrl, id)) /\ ReadBack(TRUE, pkt5_puback_like(ctrl, id, FALSE))
        /\ ReadBack(TRUE, pkt5_puback_like(ctrl, id, TRUE))
    BY <2>1, <2>2, AckParses, Ack5Parses, Zenon
  <2> QED BY <2>2, <2>3, UnnumberedAreGood, Zenon DEF Name
<1>5. gen_qos_acks = a1 \o a2 \o a3 \o a4 \o a5 \o a6 \o b1 \o b2 \o b3 \o b4 \o b5 \o b6
  BY DEF gen_qos_acks
<1> HIDE DEF A, Bare, Full
<1>6. /\ a1 \in Seq(GoodWrite) /\ a2 \in Seq(GoodWrite) /\ a3 \in Seq(GoodWrite)
      /\ a4 \in Seq(GoodWrite) /\ a5 \in Seq(GoodWrite) /\ a6 \in Seq(GoodWrite)
      /\ b1 \in Seq(GoodWrite) /\ b2 \in Seq(GoodWrite) /\ b3 \in Seq(GoodWrite)
      /\ b4 \in Seq(GoodWrite) /\ b5 \in Seq(GoodWrite) /\ b6 \in Seq(GoodWrite)
  BY <1>1, <1>2, <1>3, <1>4
<1> HIDE DEF a1, a2, a3, a4, a5, a6, b1, b2, b3, b4, b5, b6
<1>7. \A s, u \in Seq(GoodWrite) : s \o u \in Seq(GoodWrite)
  BY ConcatProperties
<1> QED BY <1>5, <1>6, <1>7

\* gen_subacks
LEMMA SubacksAreGood == gen_subacks \in Seq(GoodWrite)
<1> DEFINE S(stem, id, grants) == Both(2, Name(stem), pkt_suback(id, grants))
           S5(stem, id, codes) == Both(4, V5(Name(stem)), pkt5_suback(id, codes))
           a1 == S("suback_single_q0", 1, <<0>>)
           a2 == S("suback_single_q1", 2, <<1>>)
           a3 == S("suback_single_q2", 3, <<2>>)
           a4 == S("suback_single_fail", 4, <<128>>)
           a5 == S("suback_multi_mixed", 5, <<0, 1, 2, 128>>)
           b1 == S5("suback_q0", 11, <<0>>)
           b2 == S5("suback_q1", 12, <<1>>)
           b3 == S5("suback_q2", 13, <<2>>)
           b4 == S5("suback_fail", 14, <<128>>)
           Lists == {l \in Seq(Byte) : Len(l) \in {1, 4}}
<1>1. /\ "suback_single_q0" \in Stems /\ "suback_single_q1" \in Stems
      /\ "suback_single_q2" \in Stems /\ "suback_single_fail" \in Stems
      /\ "suback_multi_mixed" \in Stems /\ "suback_q0" \in Stems /\ "suback_q1" \in Stems
      /\ "suback_q2" \in Stems /\ "suback_fail" \in Stems
  BY Zenon DEF Stems
<1>2. /\ 1 \in Ids /\ 2 \in Ids /\ 3 \in Ids /\ 4 \in Ids /\ 5 \in Ids
      /\ 11 \in Ids /\ 12 \in Ids /\ 13 \in Ids /\ 14 \in Ids
  BY DEF Ids
<1>3. 0 \in Byte /\ 1 \in Byte /\ 2 \in Byte /\ 128 \in Byte
  BY DEF Byte
<1>4. ASSUME NEW stem \in Stems, NEW list \in Lists, NEW id \in Ids
      PROVE  S(stem, id, list) \in Seq(GoodWrite) /\ S5(stem, id, list) \in Seq(GoodWrite)
  <2>1. id \in Word \ {0}
    BY IdsAreWords
  <2>2. 2 \in {0, 1, 2} /\ 0 \in Nat
    OBVIOUS
  <2>3. /\ Len(list) > 0 /\ Len(list) + 2 \in 0 .. 999 /\ Len(list) + 3 \in 0 .. 999
        /\ list \in Seq(Byte)
    <3> DEFINE n == Len(list)
    <3>1. list \in Seq(Byte) /\ n \in {1, 4}
      OBVIOUS
    <3> HIDE DEF n
    <3>2. n > 0 /\ n + 2 \in 0 .. 999 /\ n + 3 \in 0 .. 999
      BY <3>1
    <3> QED BY <3>1, <3>2 DEF n
  <2>4. Len(list) + 2 \in TwoBytes /\ Len(list) + 3 \in TwoBytes
    BY <2>3, IdsAreWords
  <2> HIDE DEF Lists
  <2>5. ReadBack(FALSE, pkt_suback(id, list)) /\ ReadBack(TRUE, pkt5_suback(id, list))
    BY <2>1, <2>3, <2>4, SubackParses, Suback5Parses
  <2> QED BY <2>2, <2>5, UnnumberedAreGood, Zenon DEF Name
<1>5. gen_subacks = a1 \o a2 \o a3 \o a4 \o a5 \o b1 \o b2 \o b3 \o b4
  BY DEF gen_subacks
<1>6. /\ <<0>> \in Lists /\ <<1>> \in Lists /\ <<2>> \in Lists /\ <<128>> \in Lists
      /\ <<0, 1, 2, 128>> \in Lists
  BY <1>3
<1> HIDE DEF S, S5, Lists
<1>7. /\ a1 \in Seq(GoodWrite) /\ a2 \in Seq(GoodWrite) /\ a3 \in Seq(GoodWrite)
      /\ a4 \in Seq(GoodWrite) /\ a5 \in Seq(GoodWrite)
      /\ b1 \in Seq(GoodWrite) /\ b2 \in Seq(GoodWrite) /\ b3 \in Seq(GoodWrite)
      /\ b4 \in Seq(GoodWrite)
  BY <1>1, <1>2, <1>4, <1>6
<1> HIDE DEF a1, a2, a3, a4, a5, b1, b2, b3, b4
<1>8. \A s, u \in Seq(GoodWrite) : s \o u \in Seq(GoodWrite)
  BY ConcatProperties
<1> QED BY <1>5, <1>7, <1>8

\* gen_misc
LEMMA MiscAreGood == gen_misc \in Seq(GoodWrite)
<1> DEFINE c == pkt_connack(FALSE, 0)
           p == pkt_publish(Ascii(15), 4, 0, FALSE, FALSE, 0)
           seq == (c \o p) \o pkt_pingresp
           a == write_seed(Name("pingresp"), pkt_pingresp)
           b == Both(1, Name("coalesced_connack_publish_pingresp"), seq)
<1>1. "pingresp" \in Stems /\ "coalesced_connack_publish_pingresp" \in Stems
  BY Zenon DEF Stems
<1>2. /\ 15 \in 0 .. 100 /\ 4 \in 0 .. 200 /\ 0 \in 0 .. 2 /\ ~(0 > 0) /\ 0 \in Ids \cup {0}
      /\ FALSE \in BOOLEAN /\ 0 \in Byte /\ 0 \in Nat /\ 1 \in {0, 1, 2}
  BY DEF Byte
<1>3. ReadBack(FALSE, c)
  BY <1>2, ConnackParses, Zenon
<1>4. ReadBack(FALSE, p)
  BY <1>2, ShortPublishParses, Zenon DEF Ascii, ReadWithLength
<1> HIDE DEF c, p
<1>5. ReadBack(FALSE, seq)
  BY <1>3, <1>4, PingrespParses, CoalescedReadBack, Zenon
<1>6. gen_misc = <<a>> \o b
  BY Zenon DEF gen_misc, c, p
<1> HIDE DEF seq
<1>7. a \in GoodWrite /\ b \in Seq(GoodWrite)
  BY <1>1, <1>2, <1>5, PingrespParses, UnnumberedAreGood, Zenon DEF Name
<1> HIDE DEF a, b
<1>8. <<a>> \in Seq(GoodWrite)
  BY <1>7
<1> QED BY <1>6, <1>7, <1>8, ConcatProperties

\* Whatever the script writes a reader can read, of the version and with the length
\* its name says, but for the flag of one seed (Corrected), and a dyn_ seed selects
\* that version.
THEOREM SeedWritesAreGood == SeedWrites \in Seq(GoodWrite)
<1>1. \A s, u \in Seq(GoodWrite) : s \o u \in Seq(GoodWrite)
  BY ConcatProperties
<1> QED BY <1>1, ConnacksAreGood, PublishesAreGood, AcksAreGood, SubacksAreGood, MiscAreGood
        DEF SeedWrites

-----------------------------------------------------------------------------
(* The list, and the state as three facts. *)

\* What WritesAssumption says of one write.
LEMMA ListOfWrites ==
    /\ Len(Writes) \in Nat /\ DOMAIN Writes = 1 .. Len(Writes)
    /\ \A j \in DOMAIN Writes :
           /\ Writes[j].data # Empty
           /\ \A b \in DOMAIN Writes[j].data : Writes[j].data[b] \in 0 .. 255
<1> DEFINE SeedNames == [dyn : BOOLEAN, v5 : BOOLEAN, stem : STRING, n : Nat]
           Datas == Seq(0 .. 255) \ {<<>>}
           Records == [name : SeedNames, data : Datas]
<1>1. Writes \in Seq(Records)
  BY Zenon, WritesAssumption
<1> HIDE DEF Records
<1>2. /\ Len(Writes) \in Nat /\ DOMAIN Writes = 1 .. Len(Writes)
      /\ \A j \in DOMAIN Writes : Writes[j] \in Records
  BY <1>1
<1> HIDE DEF SeedNames, Datas
<1>3. ASSUME NEW j \in DOMAIN Writes PROVE Writes[j].data \in Datas
  BY <1>2 DEF Records
<1>4. ASSUME NEW d \in Datas PROVE d # Empty /\ \A b \in DOMAIN d : d[b] \in 0 .. 255
  <2>1. d \in Seq(0 .. 255) /\ d # Empty
    BY Zenon DEF Datas, Empty
  <2>2. DOMAIN d = 1 .. Len(d) /\ \A b \in 1 .. Len(d) : d[b] \in 0 .. 255
    BY <2>1, ElementOfSeq, LenProperties
  <2> QED BY <2>1, <2>2
<1> QED BY <1>2, <1>3, <1>4

\* No file is written twice in a run.
LEMMA NamesDiffer ==
    \A j, l \in DOMAIN Writes : Writes[j].name = Writes[l].name => j = l
  BY Zenon, WritesAssumption

\* The twin of a dyn_ seed is written before it, with the same packets.
LEMMA TwinsBefore ==
    ASSUME NEW j \in DOMAIN Writes, Writes[j].name.dyn
    PROVE  \E l \in 1 .. j - 1 : /\ Writes[l].name = Twin(Writes[j].name)
                                 /\ Writes[l].data = Tail(Writes[j].data)
<1>1. PICK l \in 1 .. j - 1 : Writes[l] = write_seed(Twin(Writes[j].name), Tail(Writes[j].data))
  BY Zenon, WritesAssumption
<1>2. Writes[l].name = Twin(Writes[j].name) /\ Writes[l].data = Tail(Writes[j].data)
  BY <1>1 DEF write_seed
<1> QED BY <1>2

\* A file that is there is empty, or what was written under its name.
FilesAreWritten ==
    \A j \in DOMAIN Writes : Writes[j].name \in DOMAIN files =>
        files[Writes[j].name] \in {Empty, Writes[j].data}

\* What has been written since the script was last started is in its file.
WrittenBefore ==
    \A j \in 1 .. k - 1 : Writes[j].name \in DOMAIN files /\ files[Writes[j].name] = Writes[j].data

\* A dyn_ seed has had its twin from the start.
TwinsThere ==
    \A j \in DOMAIN Writes :
        Writes[j].name.dyn /\ Writes[j].name \in DOMAIN files => Twin(Writes[j].name) \in DOMAIN files

\* Where the script is, and what it has just truncated.
AtWrite ==
    /\ pc \in {"open", "write", "done", "stopped"}
    /\ k \in 1 .. Len(Writes) + 1 /\ stops \in 0 .. MaxStops
    /\ pc = "write" => k <= Len(Writes) /\ Writes[k].name \in CutOff
    /\ pc = "done" => k = Len(Writes) + 1

\* Only a stop leaves a file cut off.
FewCutOff ==
    /\ IsFiniteSet(CutOff)
    /\ Cardinality(CutOff) <= stops + (IF pc = "write" THEN 1 ELSE 0)

SeedInv ==
    /\ AtWrite /\ DOMAIN files \subseteq Names
    /\ FilesAreWritten /\ WrittenBefore /\ TwinsThere /\ FewCutOff

-----------------------------------------------------------------------------
(* Open and Write change one file. *)

\* FileHas leaves every other file alone.
LEMMA OneFile ==
    ASSUME NEW name, NEW data, FileHas(name, data)
    PROVE  /\ DOMAIN files' = DOMAIN files \cup {name} /\ files'[name] = data
           /\ \A n \in DOMAIN files : n # name => files'[n] = files[n]
  BY DEF FileHas

\* Opening cuts a file off.
LEMMA CutOffOfOpen ==
    ASSUME NEW name, FileHas(name, Empty)
    PROVE  CutOff' = CutOff \cup {name}
  BY OneFile DEF CutOff, Whole

\* Writing makes it whole.
LEMMA CutOffOfWrite ==
    ASSUME NEW name, NEW data, data # Empty, FileHas(name, data)
    PROVE  CutOff' = CutOff \ {name}
<1>1. /\ DOMAIN files' = DOMAIN files \cup {name} /\ files'[name] # Empty
      /\ \A n \in DOMAIN files : n # name => files'[n] = files[n]
  BY OneFile
<1>2. \A n : n \in CutOff' <=> n \in CutOff /\ n # name
  BY <1>1 DEF CutOff, Whole
<1> QED BY <1>2

\* Nothing but the file of the next write changes, so no write before it and no
\* twin is lost, and what it gets is its own data or nothing.
LEMMA FilesKept ==
    ASSUME SeedInv, k <= Len(Writes), k' \in {k, k + 1},
           NEW data \in {Empty, Writes[k].data}, FileHas(Writes[k].name, data),
           k' = k + 1 => data = Writes[k].data
    PROVE  /\ DOMAIN files' \subseteq Names
           /\ FilesAreWritten' /\ WrittenBefore' /\ TwinsThere'
<1> DEFINE name == Writes[k].name
<1>0. k \in DOMAIN Writes /\ k \in Nat /\ Len(Writes) \in Nat /\ DOMAIN Writes = 1 .. Len(Writes)
  BY ListOfWrites DEF SeedInv, AtWrite
<1>1. /\ DOMAIN files' = DOMAIN files \cup {name} /\ files'[name] = data
      /\ \A n \in DOMAIN files : n # name => files'[n] = files[n]
  BY OneFile
<1>2. DOMAIN files' \subseteq Names
  BY <1>0, <1>1 DEF SeedInv, Names
<1>3. FilesAreWritten'
  <2> SUFFICES ASSUME NEW j \in DOMAIN Writes, Writes[j].name \in DOMAIN files'
               PROVE  files'[Writes[j].name] \in {Empty, Writes[j].data}
    BY DEF FilesAreWritten
  <2>1. CASE j = k
    BY <2>1, <1>1
  <2>2. CASE j # k
    <3>1. Writes[j].name # name
      BY <2>2, <1>0, NamesDiffer
    <3>2. Writes[j].name \in DOMAIN files /\ files'[Writes[j].name] = files[Writes[j].name]
      BY <3>1, <1>1
    <3> QED BY <3>2 DEF SeedInv, FilesAreWritten
  <2> QED BY <2>1, <2>2
<1>4. WrittenBefore'
  <2> SUFFICES ASSUME NEW j \in 1 .. k' - 1
               PROVE  /\ Writes[j].name \in DOMAIN files'
                      /\ files'[Writes[j].name] = Writes[j].data
    BY DEF WrittenBefore
  <2>1. CASE j = k
    <3>1. k' = k + 1
      BY <2>1, <1>0
    <3> QED BY <3>1, <2>1, <1>1
  <2>2. CASE j # k
    <3>1. j \in 1 .. k - 1 /\ j \in DOMAIN Writes
      BY <2>2, <1>0
    <3>2. Writes[j].name # name
      BY <3>1, <2>2, <1>0, NamesDiffer
    <3>3. Writes[j].name \in DOMAIN files /\ files[Writes[j].name] = Writes[j].data
      BY <3>1 DEF SeedInv, WrittenBefore
    <3> QED BY <3>2, <3>3, <1>1
  <2> QED BY <2>1, <2>2
<1>5. TwinsThere'
  <2> SUFFICES ASSUME NEW j \in DOMAIN Writes, Writes[j].name.dyn, Writes[j].name \in DOMAIN files'
               PROVE  Twin(Writes[j].name) \in DOMAIN files'
    BY DEF TwinsThere
  <2>1. CASE j = k
    <3>1. PICK l \in 1 .. k - 1 : Writes[l].name = Twin(name)
      BY <2>1, <1>0, TwinsBefore
    <3> QED BY <3>1, <2>1, <1>1 DEF SeedInv, WrittenBefore
  <2>2. CASE j # k
    <3>1. Writes[j].name # name
      BY <2>2, <1>0, NamesDiffer
    <3>2. Writes[j].name \in DOMAIN files
      BY <3>1, <1>1
    <3> QED BY <3>2, <1>1 DEF SeedInv, TwinsThere
  <2> QED BY <2>1, <2>2
<1> QED BY <1>2, <1>3, <1>4, <1>5

-----------------------------------------------------------------------------
(* The steps. *)

\* An output directory without files.
LEMMA SeedInit == Init => SeedInv
<1> SUFFICES ASSUME Init PROVE SeedInv
  OBVIOUS
<1>1. pc = "open" /\ k = 1 /\ stops = 0 /\ DOMAIN files = {}
  BY DEF Init
<1>2. CutOff = {}
  BY <1>1 DEF CutOff
<1>3. AtWrite
  BY <1>1, ListOfWrites, MaxStopsAssumption DEF AtWrite
<1>4. FewCutOff
  BY <1>1, <1>2, FS_EmptySet DEF FewCutOff
<1> QED BY <1>1, <1>3, <1>4 DEF SeedInv, FilesAreWritten, WrittenBefore, TwinsThere

\* A file that is opened may be one more that is cut off, at a time when that is allowed.
LEMMA OpenStep ==
    ASSUME SeedInv, Open
    PROVE  SeedInv'
<1> DEFINE name == Writes[k].name
<1>1. /\ pc = "open" /\ k <= Len(Writes) /\ pc' = "write" /\ k' = k /\ stops' = stops
      /\ FileHas(name, Empty)
  BY Zenon DEF Open
<1>2. DOMAIN files' \subseteq Names /\ FilesAreWritten' /\ WrittenBefore' /\ TwinsThere'
  <2>1. k \in Nat
    BY DEF SeedInv, AtWrite
  <2> QED BY <1>1, <2>1, FilesKept
<1>3. CutOff' = CutOff \cup {name}
  BY <1>1, CutOffOfOpen
<1>4. AtWrite'
  BY <1>1, <1>3 DEF SeedInv, AtWrite
<1>5. FewCutOff'
  <2>1. IsFiniteSet(CutOff) /\ Cardinality(CutOff) \in Nat /\ stops \in Nat
    BY FS_CardinalityType, MaxStopsAssumption DEF SeedInv, FewCutOff, AtWrite
  <2>2. Cardinality(CutOff) <= stops
    BY <1>1, <2>1 DEF SeedInv, FewCutOff
  <2>3. /\ IsFiniteSet(CutOff')
        /\ Cardinality(CutOff') \in {Cardinality(CutOff), Cardinality(CutOff) + 1}
    BY <2>1, <1>3, FS_AddElement
  <2> QED BY <1>1, <2>1, <2>2, <2>3 DEF FewCutOff
<1> QED BY <1>2, <1>4, <1>5 DEF SeedInv

\* A file that is written has what its own write writes.
LEMMA WriteStep ==
    ASSUME SeedInv, Write
    PROVE  SeedInv'
<1> DEFINE name == Writes[k].name
<1>1. /\ pc = "write" /\ pc' = "open" /\ k' = k + 1 /\ stops' = stops
      /\ FileHas(name, Writes[k].data)
  BY Zenon DEF Write
<1>2. k <= Len(Writes) /\ name \in CutOff /\ k \in DOMAIN Writes /\ Len(Writes) \in Nat
  BY <1>1, ListOfWrites DEF SeedInv, AtWrite
<1>3. DOMAIN files' \subseteq Names /\ FilesAreWritten' /\ WrittenBefore' /\ TwinsThere'
  BY <1>1, <1>2, FilesKept
<1>4. CutOff' = CutOff \ {name}
  BY <1>1, <1>2, ListOfWrites, CutOffOfWrite
<1>5. AtWrite'
  BY <1>1, <1>2 DEF SeedInv, AtWrite
<1>6. FewCutOff'
  <2>1. IsFiniteSet(CutOff) /\ Cardinality(CutOff) <= stops + 1
    BY <1>1 DEF SeedInv, FewCutOff
  <2>2. IsFiniteSet(CutOff') /\ Cardinality(CutOff') = Cardinality(CutOff) - 1
    BY <2>1, <1>2, <1>4, FS_RemoveElement
  <2>3. Cardinality(CutOff) \in Nat /\ stops \in Nat
    BY <2>1, FS_CardinalityType, MaxStopsAssumption DEF SeedInv, AtWrite
  <2> QED BY <1>1, <2>1, <2>2, <2>3 DEF FewCutOff
<1> QED BY <1>3, <1>5, <1>6 DEF SeedInv

\* A step that leaves the files alone.
LEMMA FilesAlone ==
    ASSUME SeedInv, files' = files, k' \in {1, k}
    PROVE  /\ CutOff' = CutOff /\ DOMAIN files' \subseteq Names
           /\ FilesAreWritten' /\ WrittenBefore' /\ TwinsThere'
<1>1. CutOff' = CutOff /\ DOMAIN files' \subseteq Names /\ FilesAreWritten' /\ TwinsThere'
  BY DEF SeedInv, CutOff, Whole, FilesAreWritten, TwinsThere
<1>2. ASSUME NEW j \in 1 .. k' - 1 PROVE j \in 1 .. k - 1
  <2>1. CASE k' = k
    BY <2>1
  <2>2. CASE k' = 1
    <3>1. j \in 1 .. 1 - 1
      BY Zenon, <2>2
    <3> QED BY <3>1
  <2> QED BY <2>1, <2>2
<1>3. WrittenBefore'
  BY <1>2 DEF SeedInv, WrittenBefore
<1> QED BY <1>1, <1>3

\* Other steps leave the files alone.
LEMMA OtherStep ==
    ASSUME SeedInv, Done \/ Stop \/ Rerun \/ Rest \/ UNCHANGED vars
    PROVE  SeedInv'
<1>0. Len(Writes) \in Nat /\ k \in Nat /\ stops \in Nat
  BY ListOfWrites, MaxStopsAssumption DEF SeedInv, AtWrite
<1>1. files' = files /\ k' \in {1, k}
  BY DEF Done, Stop, Rerun, Rest, vars
<1>2. /\ CutOff' = CutOff /\ DOMAIN files' \subseteq Names
      /\ FilesAreWritten' /\ WrittenBefore' /\ TwinsThere'
  BY <1>1, FilesAlone
<1>3. AtWrite'
  BY <1>0, <1>2, MaxStopsAssumption DEF SeedInv, AtWrite, Done, Stop, Rerun, Rest, vars
<1>4. /\ stops' \in {stops, stops + 1}
      /\ pc = "write" /\ pc' # "write" => stops' = stops + 1
  BY DEF SeedInv, AtWrite, Done, Stop, Rerun, Rest, vars
<1>5. FewCutOff'
  <2>1. IsFiniteSet(CutOff) /\ Cardinality(CutOff) <= stops + (IF pc = "write" THEN 1 ELSE 0)
    BY DEF SeedInv, FewCutOff
  <2>2. Cardinality(CutOff) \in Nat
    BY <2>1, FS_CardinalityType
  <2> QED BY <2>1, <2>2, <1>0, <1>2, <1>4 DEF FewCutOff
<1> QED BY <1>2, <1>3, <1>5 DEF SeedInv

\* The invariant is inductive.
LEMMA SeedNext ==
    ASSUME SeedInv, [Next]_vars
    PROVE  SeedInv'
  BY OpenStep, WriteStep, OtherStep DEF Next

-----------------------------------------------------------------------------
(* Theorems. *)

\* Wherever and however often the script is stopped and run again, a file is empty
\* or its own write, and no more are empty than the script was stopped times.
THEOREM SeedSafety == Spec => []SeedInv
  BY SeedInit, SeedNext, PTL DEF Spec

\* It has the types.
LEMMA SeedTypes == SeedInv => TypeOK
<1> SUFFICES ASSUME SeedInv, NEW n \in DOMAIN files, NEW b \in DOMAIN files[n]
             PROVE  files[n][b] \in 0 .. 255
  BY DEF TypeOK, SeedInv, AtWrite
<1>1. PICK j \in DOMAIN Writes : n = Writes[j].name
  BY DEF SeedInv, Names
<1>2. files[n] \in {Empty, Writes[j].data}
  BY <1>1 DEF SeedInv, FilesAreWritten
<1>3. files[n] = Writes[j].data
  BY <1>2 DEF Empty
<1> QED BY <1>1, <1>3, ListOfWrites

\* A script that came to its end has left the data of every write and has made no
\* other file, for every list of writes and every number of stops before.
THEOREM CompleteWhenDoneHolds == Spec => []CompleteWhenDone
<1>1. SeedInv => CompleteWhenDone
  <2> SUFFICES ASSUME SeedInv PROVE CompleteWhenDone
    OBVIOUS
  <2>1. ASSUME pc = "done"
        PROVE  DOMAIN files = Names /\ \A j \in DOMAIN Writes : files[Writes[j].name] = Writes[j].data
    <3>1. k - 1 = Len(Writes) /\ DOMAIN Writes = 1 .. k - 1
      BY <2>1, ListOfWrites DEF SeedInv, AtWrite
    <3>2. \A j \in DOMAIN Writes : /\ Writes[j].name \in DOMAIN files
                                   /\ files[Writes[j].name] = Writes[j].data
      BY <3>1 DEF SeedInv, WrittenBefore
    <3> QED BY <3>2 DEF SeedInv, Names
  <2> QED BY <2>1, SeedTypes DEF CompleteWhenDone, SeedInv, FewCutOff
<1> QED BY <1>1, SeedSafety, PTL

\* What the writes say, of the list that the script has.
WritesParse  == \A j \in DOMAIN Writes : Parses(Writes[j].name, Writes[j].data)
WritesSelect == \A j \in DOMAIN Writes :
                    Writes[j].name.dyn => SelectsVersion(Writes[j].name, Writes[j].data)

\* By SeedWritesAreGood.
LEMMA ListIsGood ==
    ASSUME Writes = SeedWrites
    PROVE  WritesParse /\ WritesSelect
<1>1. \A j \in DOMAIN Writes : Writes[j] \in GoodWrite
  BY SeedWritesAreGood, ElementOfSeq, LenProperties
<1> QED BY <1>1 DEF GoodWrite, WritesParse, WritesSelect

\* A file that is not cut off is the data of the one write of its name.
LEMMA WholeIsWritten ==
    ASSUME SeedInv, NEW n \in DOMAIN files, Whole(n)
    PROVE  \E j \in DOMAIN Writes : n = Writes[j].name /\ files[n] = Writes[j].data
<1>1. PICK j \in DOMAIN Writes : n = Writes[j].name
  BY DEF SeedInv, Names
<1>2. files[n] \in {Empty, Writes[j].data} /\ files[n] # Empty
  BY <1>1 DEF SeedInv, FilesAreWritten, Whole
<1> QED BY <1>1, <1>2

\* Whatever the script has left behind, wherever it was stopped and however often, a
\* reader can read, of the version and with the length that its name says, but for
\* the flag of one seed (Corrected).
THEOREM SeedsParseHolds ==
    ASSUME Writes = SeedWrites
    PROVE  Spec => []SeedsParse
<1>1. SeedInv => SeedsParse
  BY WholeIsWritten, ListIsGood DEF SeedsParse, WritesParse
<1> QED BY <1>1, SeedSafety, PTL

\* A whole dyn_ seed selects the version it is of, and the seed it is named after is
\* there: its frames, or nothing while it is written again.
THEOREM TwinsAgreeHolds ==
    ASSUME Writes = SeedWrites
    PROVE  Spec => []TwinsAgree
<1>1. ASSUME SeedInv, NEW n \in DOMAIN files, n.dyn, Whole(n)
      PROVE  /\ SelectsVersion(n, files[n])
             /\ Twin(n) \in DOMAIN files /\ files[Twin(n)] \in {Empty, Tail(files[n])}
  <2>1. PICK j \in DOMAIN Writes : n = Writes[j].name /\ files[n] = Writes[j].data
    BY <1>1, WholeIsWritten
  <2>2. PICK l \in 1 .. j - 1 : Writes[l].name = Twin(n) /\ Writes[l].data = Tail(files[n])
    BY <1>1, <2>1, TwinsBefore
  <2>3. l \in DOMAIN Writes
    BY ListOfWrites
  <2>4. Twin(n) \in DOMAIN files
    BY <1>1, <2>1 DEF SeedInv, TwinsThere
  <2>5. files[Twin(n)] \in {Empty, Tail(files[n])}
    BY <1>1, <2>2, <2>3, <2>4 DEF SeedInv, FilesAreWritten
  <2> QED BY <1>1, <2>1, <2>4, <2>5, ListIsGood DEF WritesSelect
<1>2. SeedInv => TwinsAgree
  BY <1>1 DEF TwinsAgree
<1> QED BY <1>2, SeedSafety, PTL
=============================================================================
