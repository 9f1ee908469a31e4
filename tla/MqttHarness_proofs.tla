------------------------- MODULE MqttHarness_proofs -------------------------
(***************************************************************************)
(* What holds of the fuzz transport for every set of inputs, packets,      *)
(* modes, fragment sizes and read lengths, and then of the harness around  *)
(* it for every command line, input, client and number of iterations.  The *)
(* harness and the client call the transport as it may be called, so all   *)
(* that is proved of the transport holds in it.                            *)
(***************************************************************************)
EXTENDS MqttHarness, SequenceTheorems, TLAPS

-----------------------------------------------------------------------------
(* A byte buffer and an index into it as a queue. *)

\* A prefix of what is unread is the next bytes of the buffer, and the rest of
\* it is what is unread after them.
LEMMA UnreadPrefix ==
    ASSUME NEW S, NEW s \in Seq(S), NEW k \in 0 .. Len(s), NEW n \in 0 .. Len(s) - k
    PROVE  /\ Unread(s, k) \in Seq(S)
           /\ Len(Unread(s, k)) = Len(s) - k
           /\ SubSeq(Unread(s, k), 1, n) \in Seq(S)
           /\ SubSeq(Unread(s, k), 1, n) = SubSeq(s, k + 1, k + n)
           /\ SubSeq(Unread(s, k), n + 1, Len(Unread(s, k))) = Unread(s, k + n)
<1> DEFINE u == SubSeq(s, k + 1, Len(s))
<1>0. Len(s) \in Nat /\ \A q \in 1 .. Len(s) : s[q] \in S
  BY LenProperties, ElementOfSeq
<1>1. /\ u \in Seq(S) /\ Len(u) = Len(s) - k
      /\ \A q \in 1 .. Len(s) - k : u[q] = s[k + q]
  <2>1. \A q \in k + 1 .. Len(s) : s[q] \in S
    BY <1>0
  <2> QED BY <2>1, <1>0, SubSeqProperties
<1>2. SubSeq(u, 1, n) \in Seq(S) /\ SubSeq(u, 1, n) = SubSeq(s, k + 1, k + n)
  <2> DEFINE a == SubSeq(u, 1, n)
             b == SubSeq(s, k + 1, k + n)
  <2>1. \A q \in 1 .. n : u[q] \in S
    BY <1>0, <1>1
  <2>2. a \in Seq(S) /\ Len(a) = n /\ \A q \in 1 .. n : a[q] = u[q]
    BY <2>1, SubSeqProperties
  <2>3. \A q \in k + 1 .. k + n : s[q] \in S
    BY <1>0
  <2>4. b \in Seq(S) /\ Len(b) = n /\ \A q \in 1 .. n : b[q] = s[k + q]
    BY <2>3, <1>0, SubSeqProperties
  <2>5. \A q \in 1 .. Len(a) : a[q] = b[q]
    BY <2>2, <2>4, <1>1, <1>0
  <2> HIDE DEF a, b
  <2>6. a = b
    BY <2>2, <2>4, <2>5, SeqEqual
  <2> QED BY <2>2, <2>6 DEF a, b
<1>3. SubSeq(u, n + 1, Len(u)) = SubSeq(s, k + n + 1, Len(s))
  <2> DEFINE a == SubSeq(u, n + 1, Len(s) - k)
             b == SubSeq(s, k + n + 1, Len(s))
  <2>1. \A q \in n + 1 .. Len(s) - k : u[q] \in S
    BY <1>0, <1>1
  <2>2. /\ a \in Seq(S) /\ Len(a) = Len(s) - k - n
        /\ \A q \in 1 .. Len(s) - k - n : a[q] = u[n + q]
    BY <2>1, <1>0, SubSeqProperties
  <2>3. \A q \in k + n + 1 .. Len(s) : s[q] \in S
    BY <1>0
  <2>4. /\ b \in Seq(S) /\ Len(b) = Len(s) - k - n
        /\ \A q \in 1 .. Len(s) - k - n : b[q] = s[k + n + q]
    BY <2>3, <1>0, SubSeqProperties
  <2>5. \A q \in 1 .. Len(a) : a[q] = b[q]
    BY <2>2, <2>4, <1>1, <1>0
  <2> HIDE DEF a, b
  <2>6. a = b
    BY <2>2, <2>4, <2>5, SeqEqual
  <2> QED BY <2>6, <1>1 DEF a, b
<1> QED BY <1>1, <1>2, <1>3, <1>0 DEF Unread

\* Appending to the buffer appends to what is unread.
LEMMA UnreadConcat ==
    ASSUME NEW S, NEW s \in Seq(S), NEW t \in Seq(S), NEW k \in 0 .. Len(s)
    PROVE  Unread(s \o t, k) = Unread(s, k) \o t
<1> DEFINE a == Unread(s \o t, k)
           b == Unread(s, k) \o t
<1>0. /\ Len(s) \in Nat /\ Len(t) \in Nat
      /\ s \o t \in Seq(S) /\ Len(s \o t) = Len(s) + Len(t)
      /\ \A q \in 1 .. Len(s) + Len(t) :
            /\ (s \o t)[q] \in S
            /\ (s \o t)[q] = IF q <= Len(s) THEN s[q] ELSE t[q - Len(s)]
  <2>1. Len(s) \in Nat /\ Len(t) \in Nat
    BY LenProperties
  <2>2. s \o t \in Seq(S) /\ Len(s \o t) = Len(s) + Len(t)
    BY ConcatProperties
  <2>3. \A q \in 1 .. Len(s \o t) : (s \o t)[q] \in S
    BY <2>2, ElementOfSeq
  <2> QED BY <2>1, <2>2, <2>3, ConcatProperties
<1>1. /\ a \in Seq(S) /\ Len(a) = Len(s) + Len(t) - k
      /\ \A q \in 1 .. Len(s) + Len(t) - k : a[q] = (s \o t)[k + q]
  <2>1. \A q \in k + 1 .. Len(s \o t) : (s \o t)[q] \in S
    BY <1>0
  <2> QED BY <2>1, <1>0, SubSeqProperties DEF Unread
<1>2. /\ Unread(s, k) \in Seq(S) /\ Len(Unread(s, k)) = Len(s) - k
      /\ \A q \in 1 .. Len(s) - k : Unread(s, k)[q] = s[k + q]
  <2>1. \A q \in k + 1 .. Len(s) : s[q] \in S
    BY <1>0, ElementOfSeq
  <2> QED BY <2>1, <1>0, SubSeqProperties DEF Unread
<1>3. /\ b \in Seq(S) /\ Len(b) = Len(s) - k + Len(t)
      /\ \A q \in 1 .. Len(s) - k + Len(t) :
            b[q] = IF q <= Len(s) - k THEN Unread(s, k)[q] ELSE t[q - (Len(s) - k)]
  <2> DEFINE u == Unread(s, k)
  <2>1. u \in Seq(S) /\ Len(u) = Len(s) - k
    BY <1>2
  <2> HIDE DEF u
  <2>2. /\ u \o t \in Seq(S)
        /\ Len(u \o t) = Len(u) + Len(t)
        /\ \A q \in 1 .. Len(u) + Len(t) :
              (u \o t)[q] = IF q <= Len(u) THEN u[q] ELSE t[q - Len(u)]
    BY <2>1, ConcatProperties
  <2> QED BY <2>1, <2>2 DEF u
<1> HIDE DEF a, b
<1>4. ASSUME NEW q \in 1 .. Len(a) PROVE a[q] = b[q]
  <2>0. q \in Nat /\ 1 <= q /\ q <= Len(s) + Len(t) - k /\ k + q \in 1 .. Len(s) + Len(t)
    BY <1>0, <1>1
  <2>1. a[q] = IF k + q <= Len(s) THEN s[k + q] ELSE t[k + q - Len(s)]
    <3>1. q \in 1 .. Len(s) + Len(t) - k
      BY <1>1
    <3>2. a[q] = (s \o t)[k + q]
      BY <3>1, <1>1
    <3>3. (s \o t)[k + q] = IF k + q <= Len(s) THEN s[k + q] ELSE t[(k + q) - Len(s)]
      BY <2>0, <1>0
    <3> QED BY <3>2, <3>3
  <2>2. b[q] = IF q <= Len(s) - k THEN Unread(s, k)[q] ELSE t[q - (Len(s) - k)]
    BY <2>0, <1>0, <1>3
  <2>3. CASE q <= Len(s) - k
    <3>1. Unread(s, k)[q] = s[k + q]
      BY <2>3, <2>0, <1>0, <1>2
    <3> QED BY <3>1, <2>1, <2>2, <2>3, <2>0, <1>0
  <2>4. CASE ~(q <= Len(s) - k)
    <3>1. k + q - Len(s) = q - (Len(s) - k)
      BY <2>0, <1>0
    <3> QED BY <3>1, <2>1, <2>2, <2>4, <2>0, <1>0
  <2> QED BY <2>3, <2>4
<1>5. a = b
  <2>1. a \in Seq(S) /\ b \in Seq(S) /\ Len(a) = Len(b)
    BY <1>0, <1>1, <1>3
  <2> QED BY <2>1, <1>4, SeqEqual
<1> QED BY <1>5 DEF a, b

-----------------------------------------------------------------------------
(* The frames of fuzz_write. *)

\* The length header ends inside the packet, after four bytes at most.
LEMMA VarintIsInside ==
    ASSUME NEW p \in Seq(Byte)
    PROVE  VarintBytes(p) \in 0 .. Len(p)
<1>1. CASE p = <<>>
  BY <1>1 DEF VarintBytes
<1>2. CASE p # <<>>
  <2> DEFINE Stop(q) == p[q] < 128 \/ q = 4 \/ q = Len(p)
             Ends(q) == Stop(q) /\ \A j \in 1 .. q - 1 : p[j] >= 128 /\ j # 4
  <2>0. Len(p) \in Nat \ {0}
    BY <1>2, EmptySeq
  <2>1. ASSUME NEW q \in 1 .. Len(p), ~Stop(q)
        PROVE  q # 4 /\ q # Len(p) /\ p[q] >= 128 /\ q + 1 \in 1 .. Len(p)
    <3>1. p[q] \in 0 .. 255
      BY ElementOfSeq DEF Byte
    <3>2. ~(p[q] < 128) /\ q # 4 /\ q # Len(p)
      BY <2>1
    <3>3. p[q] >= 128
      <4>1. \A x \in 0 .. 255 : ~(x < 128) => x >= 128
        OBVIOUS
      <4> QED BY <3>1, <3>2, <4>1, Zenon
    <3>4. q + 1 \in 1 .. Len(p)
      BY <3>2, <2>0
    <3> QED BY <3>2, <3>3, <3>4
  <2>2. \E q \in 1 .. Len(p) : Ends(q)
    <3>1. 1 \in 1 .. Len(p)
      BY <2>0
    <3>2. CASE Stop(1)
      <4>1. Ends(1)
        BY <3>2
      <4> QED BY <3>1, <4>1
    <3>3. CASE ~Stop(1)
      <4> HIDE DEF Stop
      <4>1. p[1] >= 128 /\ 1 + 1 \in 1 .. Len(p)
        BY <3>1, <3>3, <2>1
      <4>2. CASE Stop(2)
        BY <4>1, <4>2
      <4>3. CASE ~Stop(2)
        <5>1. p[2] >= 128 /\ 2 + 1 \in 1 .. Len(p)
          BY <4>1, <4>3, <2>1
        <5>2. CASE Stop(3)
          BY <4>1, <5>1, <5>2
        <5>3. CASE ~Stop(3)
          <6>1. p[3] >= 128 /\ 3 + 1 \in 1 .. Len(p)
            BY <5>1, <5>3, <2>1
          <6>2. Stop(4)
            BY DEF Stop
          <6> QED BY <4>1, <5>1, <6>1, <6>2
        <5> QED BY <5>2, <5>3
      <4> QED BY <4>2, <4>3
    <3> QED BY <3>2, <3>3
  <2>3. VarintBytes(p) = CHOOSE q \in 1 .. Len(p) : Ends(q)
    BY <1>2 DEF VarintBytes
  <2> HIDE DEF Ends
  <2>4. VarintBytes(p) \in 1 .. Len(p)
    BY <2>2, <2>3
  <2> QED BY <2>4, <2>0
<1> QED BY <1>1, <1>2

\* The bytes of a packet that are echoed as its id are bytes of the packet.
LEMMA IdIsBytes ==
    ASSUME NEW w \in Seq(Byte), w # <<>>, HasId(w)
    PROVE  IdIn(w) \in Seq(Byte) /\ Len(IdIn(w)) = 2
<1>1. Tail(w) \in Seq(Byte) /\ Len(Tail(w)) = Len(w) - 1 /\ Len(w) \in Nat
  BY HeadTailProperties, LenProperties
<1>2. HeaderLen(w) \in Nat
  <2>1. VarintBytes(Tail(w)) \in 0 .. Len(Tail(w))
    BY <1>1, VarintIsInside
  <2> QED BY <2>1, <1>1 DEF HeaderLen
<1>3. \A q \in HeaderLen(w) + 1 .. HeaderLen(w) + 2 : w[q] \in Byte
  BY <1>1, <1>2, ElementOfSeq DEF HasId
<1> HIDE DEF HeaderLen
<1>4. HeaderLen(w) + 1 \in Int /\ HeaderLen(w) + 2 \in Int
  BY <1>2
<1> QED BY <1>2, <1>3, <1>4, SubSeqProperties DEF IdIn

\* Every automatic reply is a sequence of bytes.
LEMMA AnswerIsBytes ==
    ASSUME NEW m \in Modes, NEW w \in Seq(Byte)
    PROVE  Answer(m, w) \in Seq(Byte)
<1>1. /\ <<>> \in Seq(Byte) /\ Pingresp \in Seq(Byte)
      /\ Connack(m) \in Seq(Byte)
  <2>1. /\ <<>> \in Seq(Byte) /\ <<208, 0>> \in Seq(Byte)
        /\ <<32, 3, 0, 0, 0>> \in Seq(Byte) /\ <<32, 2, 0, 0>> \in Seq(Byte)
    BY DEF Byte
  <2> QED BY <2>1 DEF Pingresp, Connack
<1>2. ASSUME w # <<>>, HasId(w)
      PROVE  Suback(m, IdIn(w)) \in Seq(Byte) /\ Pubcomp(IdIn(w)) \in Seq(Byte)
  <2> DEFINE id == IdIn(w)
  <2>1. id \in Seq(Byte)
    BY <1>2, IdIsBytes
  <2>2. /\ <<144, 4>> \in Seq(Byte) /\ <<144, 3>> \in Seq(Byte)
        /\ <<112, 2>> \in Seq(Byte) /\ <<0, 0>> \in Seq(Byte) /\ <<0>> \in Seq(Byte)
    BY DEF Byte
  <2> HIDE DEF id
  <2>3. /\ <<144, 4>> \o id \in Seq(Byte) /\ <<144, 3>> \o id \in Seq(Byte)
        /\ <<112, 2>> \o id \in Seq(Byte)
    BY <2>1, <2>2, ConcatProperties
  <2>4. /\ (<<144, 4>> \o id) \o <<0, 0>> \in Seq(Byte)
        /\ (<<144, 3>> \o id) \o <<0>> \in Seq(Byte)
    BY <2>2, <2>3, ConcatProperties
  <2> QED BY <2>3, <2>4 DEF Suback, Pubcomp, id
<1>3. Answer(m, w) \in {<<>>, Connack(m), Pingresp}
      \/ (w # <<>> /\ HasId(w)
           /\ Answer(m, w) \in {Suback(m, IdIn(w)), Pubcomp(IdIn(w))})
  BY DEF Answer
<1> QED BY <1>1, <1>2, <1>3

-----------------------------------------------------------------------------
(* Type correctness and the shape of the reply buffer. *)

IInv == TypeOK /\ DrainedIsEmpty

\* The size of a read that has something to return.
LEMMA ReadSizeBounds ==
    ASSUME NEW len \in Nat \ {0}, NEW avail \in Nat \ {0}, frag \in Int
    PROVE  /\ ReadSize(len, avail) \in 1 .. avail
           /\ frag > 0 => ReadSize(len, avail) <= frag
BY DEF ReadSize

\* The creation of a transport establishes the invariant: only a nonempty input
\* has its first byte skipped.
LEMMA CreateInv ==
    ASSUME NEW data \in Inputs, NEW auto \in BOOLEAN, NEW md \in ModeArgs,
           NEW f \in Frags, esp_transport_fuzz_init(data, auto, md, f)
    PROVE  IInv'
<1> USE DEF esp_transport_fuzz_init
<1>1. data \in Seq(Byte) /\ Len(data) \in Nat
  BY InputsAssumption, LenProperties
<1>2. in_off' \in 0 .. Len(in')
  BY <1>1 DEF HasSelector
<1>3. mode' \in Modes
  BY DEF Modes, ModeOfArg, ModeOfSelector
<1>4. /\ <<>> \in Seq(Byte) /\ Len(<<>>) = 0
      /\ <<>> \in Seq([packet : Packets, frame : Seq(Byte)])
  BY EmptySeq
<1>5. f \in Int
  BY ArgsAssumption
<1>6. alive' \in BOOLEAN /\ connected' \in BOOLEAN /\ autopilot' \in BOOLEAN
  OBVIOUS
<1>7. rx_off' \in 0 .. Len(rx')
  BY <1>4
<1> QED BY <1>1, <1>2, <1>3, <1>4, <1>5, <1>6, <1>7, BoundAssumption
        DEF IInv, TypeOK, Ops, DrainedIsEmpty

\* A read moves one index over bytes that are there.
LEMMA ReadInv ==
    ASSUME IInv, NEW len \in ReadLens, fuzz_read(len)
    PROVE  IInv'
<1> USE DEF IInv
<1>0. len \in Nat \ {0} /\ Len(in) \in Nat /\ Len(rx) \in Nat
  BY ReadLensAssumption, LenProperties DEF TypeOK
<1>1. CASE ReadFails
  BY <1>1 DEF fuzz_read, ReadFails, TypeOK, Ops, DrainedIsEmpty, state
<1>2. CASE ReadReply(len)
  <2> DEFINE n == ReadSize(len, RxAvail)
  <2>1. n \in 1 .. Len(rx) - rx_off
    BY <1>0, <1>2, ReadSizeBounds DEF ReadReply, RxAvail, TypeOK
  <2> HIDE DEF n
  <2>2. SubSeq(rx, rx_off + 1, rx_off + n) \in Seq(Byte)
    BY <2>1, <1>0, UnreadPrefix DEF TypeOK
  <2>3. out' \in Seq(Byte)
    BY <1>2, <2>2, ConcatProperties DEF ReadReply, TypeOK, n
  <2>4. /\ rx' \in Seq(Byte) /\ rx_off' \in 0 .. Len(rx')
        /\ rx' # <<>> => rx_off' < Len(rx')
    <3>1. CASE rx_off + n = Len(rx)
      <4>1. rx' = <<>> /\ rx_off' = 0
        BY <1>2, <3>1 DEF ReadReply, n
      <4> QED BY <4>1, EmptySeq
    <3>2. CASE rx_off + n # Len(rx)
      <4>1. rx' = rx /\ rx_off' = rx_off + n
        BY <1>2, <3>2 DEF ReadReply, n
      <4> QED BY <4>1, <3>2, <2>1, <1>0 DEF TypeOK
    <3> QED BY <3>1, <3>2
  <2>5. ret' \in [op : Ops, val : Int]
    BY <1>2, <2>1, <1>0 DEF ReadReply, n, TypeOK, Ops
  <2> QED BY <1>2, <2>3, <2>4, <2>5, fuzz_read(len)
          DEF ReadReply, TypeOK, DrainedIsEmpty
<1>3. CASE ReadInput(len)
  <2> DEFINE n == ReadSize(len, Len(in) - in_off)
  <2>1. n \in 1 .. Len(in) - in_off
    BY <1>0, <1>3, ReadSizeBounds DEF ReadInput, TypeOK
  <2> HIDE DEF n
  <2>2. SubSeq(in, in_off + 1, in_off + n) \in Seq(Byte)
    BY <2>1, <1>0, UnreadPrefix DEF TypeOK
  <2>3. out' \in Seq(Byte)
    BY <1>3, <2>2, ConcatProperties DEF ReadInput, TypeOK, n
  <2>4. in' = in /\ in_off' \in 0 .. Len(in)
    <3>1. in' = in /\ in_off' = in_off + n
      BY <1>3 DEF ReadInput, n
    <3> QED BY <3>1, <2>1, <1>0 DEF TypeOK
  <2>5. ret' \in [op : Ops, val : Int]
    BY <1>3, <2>1, <1>0 DEF ReadInput, n, TypeOK, Ops
  <2> QED BY <1>3, <2>3, <2>4, <2>5 DEF ReadInput, TypeOK, DrainedIsEmpty
<1> QED BY <1>1, <1>2, <1>3 DEF fuzz_read

\* A write appends a frame to the reply buffer or leaves it as it is; it never
\* finds a consumed buffer to reset.
LEMMA WriteInv ==
    ASSUME IInv, NEW packet \in Packets, fuzz_write(packet)
    PROVE  IInv'
<1> DEFINE frame == IF autopilot THEN Answer(mode, packet.bytes) ELSE <<>>
<1> USE DEF IInv
<1>0. /\ frame \in Seq(Byte) /\ packet.bytes \in Seq(Byte)
      /\ Len(rx) \in Nat /\ Len(packet.bytes) \in Nat
  BY PacketsAssumption, AnswerIsBytes, EmptySeq, LenProperties DEF TypeOK
<1>1. ret' \in [op : Ops, val : Int]
  BY <1>0 DEF fuzz_write, Ops
<1> HIDE DEF frame
<1>2. CASE UNCHANGED <<rx, rx_off, replies>>
  BY <1>1, <1>2 DEF fuzz_write, TypeOK, DrainedIsEmpty
<1>3. CASE frame # <<>> /\ Len(replies) < MaxReplies /\ push_rx(packet, frame)
  <2>1. ~(rx_off > 0 /\ Len(rx) - rx_off = 0)
    BY <1>0 DEF TypeOK, DrainedIsEmpty
  <2>2. rx_off' = rx_off
    BY <1>3, <2>1 DEF push_rx
  <2>3. CASE rx' = rx /\ replies' = replies
    BY <1>1, <2>2, <2>3 DEF fuzz_write, TypeOK, DrainedIsEmpty
  <2>4. CASE /\ rx' = rx \o frame
             /\ replies' = Append(replies, [packet |-> packet, frame |-> frame])
    <3>1. /\ rx' \in Seq(Byte) /\ Len(rx') = Len(rx) + Len(frame)
          /\ Len(frame) \in Nat \ {0}
      BY <1>0, <1>3, <2>4, ConcatProperties, EmptySeq DEF TypeOK
    <3>2. rx_off' \in 0 .. Len(rx') /\ rx_off' < Len(rx')
      BY <3>1, <2>2, <1>0 DEF TypeOK
    <3> DEFINE R == [packet : Packets, frame : Seq(Byte)]
               elt == [packet |-> packet, frame |-> frame]
    <3>3. elt \in R /\ replies \in Seq(R)
      BY <1>0 DEF TypeOK
    <3> HIDE DEF R, elt
    <3>4. Append(replies, elt) \in Seq(R) /\ Len(Append(replies, elt)) = Len(replies) + 1
      BY <3>3, AppendProperties
    <3>5. Len(replies) \in Nat
      BY <3>3, LenProperties
    <3>6. replies' \in Seq(R) /\ Len(replies') <= MaxReplies
      BY <2>4, <3>4, <3>5, <1>3, BoundAssumption DEF elt
    <3> QED BY <1>1, <3>1, <3>2, <3>6 DEF fuzz_write, TypeOK, DrainedIsEmpty, R
  <2> QED BY <1>3, <2>1, <2>3, <2>4 DEF push_rx
<1> QED BY <1>2, <1>3 DEF fuzz_write, frame

\* The invariant: every step of the transport keeps it.
LEMMA InvStep == IInv /\ [Next]_vars => IInv'
<1> SUFFICES ASSUME IInv, [Next]_vars PROVE IInv'
  OBVIOUS
<1> USE DEF IInv
<1>1. CASE Create
  BY <1>1, CreateInv DEF Create
<1>2. CASE fuzz_connect
  BY <1>2 DEF fuzz_connect, TypeOK, Ops, DrainedIsEmpty
<1>3. CASE fuzz_poll_read
  BY <1>3 DEF fuzz_poll_read, TypeOK, Ops, DrainedIsEmpty, state
<1>4. CASE fuzz_close
  <2>1. connected' \in BOOLEAN
    BY <1>4 DEF fuzz_close
  <2> QED BY <1>4, <2>1 DEF fuzz_close, TypeOK, Ops, DrainedIsEmpty
<1>5. ASSUME NEW len \in ReadLens, fuzz_read(len) PROVE IInv'
  BY <1>5, ReadInv
<1>6. ASSUME NEW packet \in Packets, fuzz_write(packet) PROVE IInv'
  BY <1>6, WriteInv
<1>7. CASE fuzz_destroy
  <2>1. /\ <<>> \in Seq(Byte) /\ Len(<<>>) = 0
        /\ <<>> \in Seq([packet : Packets, frame : Seq(Byte)])
    BY EmptySeq
  <2>2. alive' \in BOOLEAN /\ connected' \in BOOLEAN /\ autopilot' \in BOOLEAN
    BY <1>7 DEF fuzz_destroy
  <2>3. in_off' \in 0 .. Len(in') /\ rx_off' \in 0 .. Len(rx')
    BY <1>7, <2>1 DEF fuzz_destroy
  <2> QED BY <1>7, <2>1, <2>2, <2>3, BoundAssumption
          DEF fuzz_destroy, TypeOK, Ops, DrainedIsEmpty, Modes
<1>8. CASE UNCHANGED vars
  BY <1>8 DEF vars, state, TypeOK, DrainedIsEmpty
<1> QED BY <1>1, <1>2, <1>3, <1>4, <1>5, <1>6, <1>7, <1>8 DEF Next, Call

LEMMA InvInit == Init => IInv
<1> SUFFICES ASSUME Init PROVE IInv
  OBVIOUS
<1>1. /\ <<>> \in Seq(Byte) /\ Len(<<>>) = 0
      /\ <<>> \in Seq([packet : Packets, frame : Seq(Byte)])
  BY EmptySeq
<1>2. alive \in BOOLEAN /\ connected \in BOOLEAN /\ autopilot \in BOOLEAN
  BY DEF Init
<1>3. /\ in \in Seq(Byte) /\ in_off \in 0 .. Len(in)
      /\ rx \in Seq(Byte) /\ rx_off \in 0 .. Len(rx)
  BY <1>1 DEF Init
<1>4. mode \in Modes /\ frag \in Int /\ out \in Seq(Byte)
  BY <1>1 DEF Init, Modes
<1>5. /\ replies \in Seq([packet : Packets, frame : Seq(Byte)])
      /\ Len(replies) <= MaxReplies
  BY <1>1, BoundAssumption DEF Init
<1>6. ret \in [op : Ops, val : Int]
  BY DEF Init, Ops
<1>7. DrainedIsEmpty
  BY DEF Init, DrainedIsEmpty
<1> QED BY <1>2, <1>3, <1>4, <1>5, <1>6, <1>7 DEF IInv, TypeOK

\* The inductive invariant holds in every behaviour of the transport.
THEOREM Invariant == Spec => []IInv
BY InvInit, InvStep, PTL DEF Spec

\* The state of the transport is type correct: its read indices never leave
\* their buffers.
THEOREM TypeCorrect == Spec => []TypeOK
<1>1. IInv => TypeOK
  BY DEF IInv
<1> QED BY Invariant, <1>1, PTL

\* A reply buffer that was read to the end is an empty one.
THEOREM BufferIsReset == Spec => []DrainedIsEmpty
<1>1. IInv => DrainedIsEmpty
  BY DEF IInv
<1> QED BY Invariant, <1>1, PTL

-----------------------------------------------------------------------------
(* The reads. *)

\* No step reads zero bytes, or more than a fragment.
THEOREM ReadsAreBounded == Spec => ReadBounded
<1> DEFINE Bounded == ret'.op = "read" =>
              \/ ret'.val = -1 /\ out' = out
              \/ /\ ret'.val > 0 /\ Len(out') = Len(out) + ret'.val
                 /\ frag > 0 => ret'.val <= frag
<1>1. ASSUME IInv, Next PROVE Bounded
  <2> USE <1>1 DEF IInv
  <2>1. ASSUME NEW len \in ReadLens, fuzz_read(len) PROVE Bounded
    <3>0. len \in Nat \ {0} /\ Len(in) \in Nat /\ Len(rx) \in Nat /\ frag \in Int
      BY ReadLensAssumption, LenProperties DEF TypeOK
    <3>1. CASE ReadFails
      BY <3>1 DEF ReadFails
    <3>2. CASE ReadReply(len)
      <4> DEFINE n == ReadSize(len, RxAvail)
      <4>1. n \in 1 .. Len(rx) - rx_off /\ (frag > 0 => n <= frag)
        BY <3>0, <3>2, ReadSizeBounds DEF ReadReply, RxAvail, TypeOK
      <4> HIDE DEF n
      <4>2. /\ SubSeq(rx, rx_off + 1, rx_off + n) \in Seq(Byte)
            /\ Len(SubSeq(rx, rx_off + 1, rx_off + n)) = n
        <5>1. \A q \in rx_off + 1 .. rx_off + n : rx[q] \in Byte
          BY <4>1, <3>0, ElementOfSeq DEF TypeOK
        <5>2. rx_off + 1 \in Int /\ rx_off + n \in Int
          BY <4>1, <3>0 DEF TypeOK
        <5> QED BY <5>1, <5>2, <4>1, <3>0, SubSeqProperties DEF TypeOK
      <4>3. Len(out') = Len(out) + n
        BY <3>2, <4>2, ConcatProperties DEF ReadReply, TypeOK, n
      <4>4. ret'.val = n
        BY <3>2 DEF ReadReply, n
      <4> QED BY <4>1, <4>3, <4>4, <3>0
    <3>3. CASE ReadInput(len)
      <4> DEFINE n == ReadSize(len, Len(in) - in_off)
      <4>1. n \in 1 .. Len(in) - in_off /\ (frag > 0 => n <= frag)
        BY <3>0, <3>3, ReadSizeBounds DEF ReadInput, TypeOK
      <4> HIDE DEF n
      <4>2. /\ SubSeq(in, in_off + 1, in_off + n) \in Seq(Byte)
            /\ Len(SubSeq(in, in_off + 1, in_off + n)) = n
        <5>1. \A q \in in_off + 1 .. in_off + n : in[q] \in Byte
          BY <4>1, <3>0, ElementOfSeq DEF TypeOK
        <5>2. in_off + 1 \in Int /\ in_off + n \in Int
          BY <4>1, <3>0 DEF TypeOK
        <5> QED BY <5>1, <5>2, <4>1, <3>0, SubSeqProperties DEF TypeOK
      <4>3. Len(out') = Len(out) + n
        BY <3>3, <4>2, ConcatProperties DEF ReadInput, TypeOK, n
      <4>4. ret'.val = n
        BY <3>3 DEF ReadInput, n
      <4> QED BY <4>1, <4>3, <4>4, <3>0
    <3> QED BY <2>1, <3>1, <3>2, <3>3 DEF fuzz_read
  <2>2. CASE ~(\E len \in ReadLens : fuzz_read(len))
    <3>1. ret'.op # "read"
      BY <1>1, <2>2 DEF Next, Call, Create, esp_transport_fuzz_init, fuzz_connect,
            fuzz_write, fuzz_poll_read, fuzz_close, fuzz_destroy
    <3> QED BY <3>1
  <2> QED BY <2>1, <2>2
<1>2. IInv /\ [Next]_vars => [Bounded]_vars
  BY <1>1
<1> QED BY Invariant, <1>2, PTL DEF Spec, ReadBounded

-----------------------------------------------------------------------------
(* The replies. *)

\* parse_varint_remaining stops behind the length field of a packet, however many
\* of its four bytes it has.
LEMMA VarintFindsTheEnd ==
    ASSUME NEW p \in Seq(Byte), NEW n \in 1 .. 4, n <= Len(p), p[n] < 128,
           \A j \in 1 .. n - 1 : p[j] >= 128
    PROVE  VarintBytes(p) = n
<1> DEFINE Ends(q) == /\ p[q] < 128 \/ q = 4 \/ q = Len(p)
                      /\ \A j \in 1 .. q - 1 : p[j] >= 128 /\ j # 4
<1>0. Len(p) \in Nat /\ n \in 1 .. Len(p) /\ p # <<>>
  BY LenProperties, EmptySeq
<1>1. Ends(n)
  BY <1>0
<1>2. ASSUME NEW q \in 1 .. Len(p), Ends(q) PROVE q = n
  <2>1. \A j \in 1 .. Len(p) : ~(p[j] >= 128 /\ p[j] < 128)
    <3>1. \A j \in 1 .. Len(p) : p[j] \in 0 .. 255
      BY ElementOfSeq DEF Byte
    <3>2. \A x \in 0 .. 255 : ~(x >= 128 /\ x < 128)
      OBVIOUS
    <3> QED BY <3>1, <3>2, Zenon
  <2>2. CASE q < n
    <3>1. q \in 1 .. n - 1 /\ q # 4 /\ q # Len(p)
      BY <2>2, <1>0
    <3>2. p[q] >= 128 /\ p[q] < 128
      BY <3>1, <1>2
    <3> QED BY <3>2, <2>1
  <2>3. CASE n < q
    <3>1. n \in 1 .. q - 1
      BY <2>3, <1>0
    <3>2. p[n] >= 128
      BY <3>1, <1>2
    <3> QED BY <3>2, <2>1, <1>0
  <2> QED BY <2>2, <2>3, <1>0
<1>3. VarintBytes(p) = CHOOSE q \in 1 .. Len(p) : Ends(q)
  BY <1>0 DEF VarintBytes
<1> HIDE DEF Ends
<1> QED BY <1>0, <1>1, <1>2, <1>3

\* What fuzz_write takes for the id of a request is its id.
LEMMA IdIsFound ==
    ASSUME NEW packet \in Packets, packet.bytes # <<>>, HasId(packet.bytes),
           packet.kind \in {"SUBSCRIBE", "PUBREL"}
    PROVE  IdIn(packet.bytes) = packet.id
<1> DEFINE w == packet.bytes
<1>0. /\ w \in Seq(Byte) /\ Len(w) \in Nat
      /\ Tail(w) \in Seq(Byte) /\ Len(Tail(w)) = Len(w) - 1
      /\ \A j \in 1 .. Len(w) - 1 : Tail(w)[j] = w[j + 1]
  BY PacketsAssumption, LenProperties, HeadTailProperties
<1>1. PICK k \in 2 .. 5 :
         /\ k <= Len(w) /\ w[k] < 128 /\ \A j \in 2 .. k - 1 : w[j] >= 128
         /\ Len(w) >= k + 2 => packet.id = SubSeq(w, k + 1, k + 2)
  BY MqttAssumption DEF WellFormed
<1> HIDE DEF w
<1>2. VarintBytes(Tail(w)) = k - 1
  <2>1. k - 1 \in 1 .. 4 /\ k - 1 <= Len(Tail(w)) /\ Tail(w)[k - 1] < 128
    <3>1. /\ k - 1 \in 1 .. 4 /\ k - 1 \in 1 .. Len(w) - 1 /\ (k - 1) + 1 = k
          /\ k - 1 <= Len(Tail(w))
      BY <1>0, <1>1
    <3>2. Tail(w)[k - 1] = w[(k - 1) + 1]
      BY <3>1, <1>0
    <3>3. w[k] < 128
      BY <1>1
    <3> QED BY <3>1, <3>2, <3>3
  <2>2. ASSUME NEW j \in 1 .. (k - 1) - 1 PROVE Tail(w)[j] >= 128
    <3>1. j \in 1 .. Len(w) - 1 /\ j + 1 \in 2 .. k - 1
      BY <1>0, <1>1
    <3>2. Tail(w)[j] = w[j + 1] /\ w[j + 1] >= 128
      BY <3>1, <1>0, <1>1
    <3> QED BY <3>2
  <2> QED BY <1>0, <2>1, <2>2, VarintFindsTheEnd
<1>3. HeaderLen(w) = k
  BY <1>2 DEF HeaderLen
<1>4. Len(w) >= k + 2 /\ IdIn(w) = SubSeq(w, k + 1, k + 2)
  BY <1>3 DEF HasId, IdIn, w
<1> QED BY <1>1, <1>4 DEF w

\* A frame that answers a packet in a mode.
Fits(m, packet, frame) ==
    /\ packet.kind \in DOMAIN AnswerType
    /\ frame[1] = AnswerType[packet.kind]
    /\ Len(frame) = 2 + frame[2]
    /\ packet.kind \in {"SUBSCRIBE", "PUBREL"} => SubSeq(frame, 3, 4) = packet.id
    /\ packet.kind \in {"CONNECT", "SUBSCRIBE"} =>
          ((m = "MQTT5") <=> (frame[2] = IF packet.kind = "CONNECT" THEN 3 ELSE 4))

\* The bytes of a frame that is put together of two bytes, an id and a rest.
LEMMA FrameParts ==
    ASSUME NEW a \in Byte, NEW b \in Byte, NEW id \in Seq(Byte), Len(id) = 2,
           NEW rest \in Seq(Byte)
    PROVE  /\ Len((<<a, b>> \o id) \o rest) = 4 + Len(rest)
           /\ ((<<a, b>> \o id) \o rest)[1] = a /\ ((<<a, b>> \o id) \o rest)[2] = b
           /\ SubSeq((<<a, b>> \o id) \o rest, 3, 4) = id
<1> DEFINE ab == <<a, b>>
           head == ab \o id
           f == head \o rest
<1>1. ab \in Seq(Byte) /\ Len(ab) = 2 /\ ab[1] = a /\ ab[2] = b
  OBVIOUS
<1> HIDE DEF ab
<1>2. /\ head \in Seq(Byte) /\ Len(head) = 4
      /\ head[1] = a /\ head[2] = b /\ head[3] = id[1] /\ head[4] = id[2]
  <2>1. /\ ab \o id \in Seq(Byte) /\ Len(ab \o id) = Len(ab) + Len(id)
        /\ \A q \in 1 .. Len(ab) + Len(id) :
              (ab \o id)[q] = IF q <= Len(ab) THEN ab[q] ELSE id[q - Len(ab)]
    BY <1>1, ConcatProperties
  <2> QED BY <1>1, <2>1
<1> HIDE DEF head
<1>3. /\ f \in Seq(Byte) /\ Len(f) = 4 + Len(rest) /\ Len(rest) \in Nat
      /\ f[1] = a /\ f[2] = b /\ f[3] = id[1] /\ f[4] = id[2]
  <2>1. /\ head \o rest \in Seq(Byte) /\ Len(head \o rest) = Len(head) + Len(rest)
        /\ \A q \in 1 .. Len(head) + Len(rest) :
              (head \o rest)[q] = IF q <= Len(head) THEN head[q] ELSE rest[q - Len(head)]
    BY <1>2, ConcatProperties
  <2>2. Len(rest) \in Nat
    BY LenProperties
  <2> QED BY <1>2, <2>1, <2>2
<1> HIDE DEF f
<1>4. SubSeq(f, 3, 4) = id
  <2>1. f[3] \in Byte /\ f[4] \in Byte
    BY <1>3, ElementOfSeq
  <2>2. \A j \in 3 .. 4 : f[j] \in Byte
    BY <2>1
  <2>3. /\ SubSeq(f, 3, 4) \in Seq(Byte) /\ Len(SubSeq(f, 3, 4)) = 2
        /\ \A j \in 1 .. 2 : SubSeq(f, 3, 4)[j] = f[2 + j]
    BY <2>2, <1>3, SubSeqProperties
  <2>4. \A j \in 1 .. Len(id) : SubSeq(f, 3, 4)[j] = id[j]
    BY <2>3, <1>3
  <2> QED BY <2>3, <2>4, SeqEqual
<1> QED BY <1>3, <1>4 DEF f, head, ab

\* Whatever fuzz_write answers a packet with, answers it.
LEMMA AnswerFits ==
    ASSUME NEW m \in Modes, NEW packet \in Packets, Answer(m, packet.bytes) # <<>>
    PROVE  Fits(m, packet, Answer(m, packet.bytes))
<1> DEFINE w == packet.bytes
           id == IdIn(w)
<1> USE DEF AnswerType, Fits
<1>0. w \in Seq(Byte) /\ <<>> \in Seq(Byte) /\ Len(<<>>) = 0
  BY PacketsAssumption, EmptySeq
<1>1. \/ w # <<>> /\ Type(w) = 16 /\ Answer(m, w) = Connack(m)
      \/ w # <<>> /\ Type(w) = 192 /\ Answer(m, w) = Pingresp
      \/ /\ w # <<>> /\ Type(w) = 128 /\ HasId(w)
         /\ Answer(m, w) = Suback(m, id)
      \/ /\ w # <<>> /\ Type(w) = 96 /\ HasId(w)
         /\ Answer(m, w) = Pubcomp(id)
  BY DEF Answer
<1>2. w # <<>> => \A kind \in {"CONNECT", "PINGREQ", "SUBSCRIBE", "PUBREL"} :
                       Type(w) = Control[kind] <=> packet.kind = kind
  BY MqttAssumption DEF WellFormed, Control
<1>3. ASSUME w # <<>>, HasId(w), packet.kind \in {"SUBSCRIBE", "PUBREL"}
      PROVE  id = packet.id /\ id \in Seq(Byte) /\ Len(id) = 2
  BY <1>3, <1>0, IdIsFound, IdIsBytes
<1> HIDE DEF w, id
<1>4. CASE w # <<>> /\ Type(w) = 16 /\ Answer(m, w) = Connack(m)
  <2>1. packet.kind = "CONNECT"
    BY <1>2, <1>4 DEF Control
  <2> QED BY <2>1, <1>4 DEF Connack, w
<1>5. CASE w # <<>> /\ Type(w) = 192 /\ Answer(m, w) = Pingresp
  <2>1. packet.kind = "PINGREQ"
    BY <1>2, <1>5 DEF Control
  <2> QED BY <2>1, <1>5 DEF Pingresp, w
<1>6. CASE /\ w # <<>> /\ Type(w) = 128 /\ HasId(w)
           /\ Answer(m, w) = Suback(m, id)
  <2>1. packet.kind = "SUBSCRIBE"
    BY <1>2, <1>6 DEF Control
  <2>2. id = packet.id /\ id \in Seq(Byte) /\ Len(id) = 2
    BY <2>1, <1>3, <1>6
  <2>3. CASE m = "MQTT5"
    <3>1. Suback(m, id) = (<<144, 4>> \o id) \o <<0, 0>>
      BY <2>3 DEF Suback
    <3>2. <<0, 0>> \in Seq(Byte) /\ Len(<<0, 0>>) = 2 /\ 144 \in Byte /\ 4 \in Byte
      BY DEF Byte
    <3>3. /\ Len(Suback(m, id)) = 6 /\ SubSeq(Suback(m, id), 3, 4) = id
          /\ Suback(m, id)[1] = 144 /\ Suback(m, id)[2] = 4
      BY <3>1, <3>2, <2>2, FrameParts
    <3> DEFINE frame == Answer(m, packet.bytes)
    <3>4. /\ Len(frame) = 6 /\ SubSeq(frame, 3, 4) = packet.id
          /\ frame[1] = 144 /\ frame[2] = 4
      BY <3>3, <2>2, <1>6 DEF w
    <3> HIDE DEF frame
    <3>5. Fits(m, packet, frame)
      BY <3>4, <2>1, <2>3
    <3> QED BY <3>5 DEF frame
  <2>4. CASE m # "MQTT5"
    <3>1. Suback(m, id) = (<<144, 3>> \o id) \o <<0>>
      BY <2>4 DEF Suback
    <3>2. <<0>> \in Seq(Byte) /\ Len(<<0>>) = 1 /\ 144 \in Byte /\ 3 \in Byte
      BY DEF Byte
    <3>3. /\ Len(Suback(m, id)) = 5 /\ SubSeq(Suback(m, id), 3, 4) = id
          /\ Suback(m, id)[1] = 144 /\ Suback(m, id)[2] = 3
      BY <3>1, <3>2, <2>2, FrameParts
    <3> DEFINE frame == Answer(m, packet.bytes)
    <3>4. /\ Len(frame) = 5 /\ SubSeq(frame, 3, 4) = packet.id
          /\ frame[1] = 144 /\ frame[2] = 3
      BY <3>3, <2>2, <1>6 DEF w
    <3> HIDE DEF frame
    <3>5. Fits(m, packet, frame)
      BY <3>4, <2>1, <2>4
    <3> QED BY <3>5 DEF frame
  <2> QED BY <2>3, <2>4
<1>7. CASE /\ w # <<>> /\ Type(w) = 96 /\ HasId(w)
           /\ Answer(m, w) = Pubcomp(id)
  <2>1. packet.kind = "PUBREL"
    BY <1>2, <1>7 DEF Control
  <2>2. id = packet.id /\ id \in Seq(Byte) /\ Len(id) = 2
    BY <2>1, <1>3, <1>7
  <2>3. Pubcomp(id) = (<<112, 2>> \o id) \o <<>>
    <3>1. <<112, 2>> \in Seq(Byte) /\ <<112, 2>> \o id \in Seq(Byte)
      BY <2>2, ConcatProperties DEF Byte
    <3> QED BY <3>1, ConcatEmptySeq DEF Pubcomp
  <2>4. 112 \in Byte /\ 2 \in Byte
    BY DEF Byte
  <2> QED BY <2>1, <2>2, <2>3, <2>4, <1>0, <1>7, FrameParts DEF w
<1> QED BY <1>1, <1>4, <1>5, <1>6, <1>7

\* The mode of a transport is what its replies were made for: it does not change
\* as long as there are any.
LEMMA RepliesStep == IInv /\ RepliesAnswer /\ [Next]_vars => RepliesAnswer'
<1> SUFFICES ASSUME IInv, RepliesAnswer, [Next]_vars PROVE RepliesAnswer'
  OBVIOUS
<1> DEFINE Answered == \A k \in 1 .. Len(replies) : Fits(mode, replies[k].packet, replies[k].frame)
<1>0. RepliesAnswer <=> Answered
  BY DEF RepliesAnswer, Fits
<1>1. RepliesAnswer' <=> Answered'
  BY DEF RepliesAnswer, Fits
<1>2. CASE Create \/ fuzz_destroy
  <2>1. replies' = <<>>
    BY <1>2 DEF Create, esp_transport_fuzz_init, fuzz_destroy
  <2>2. Len(replies') = 0
    BY <2>1, EmptySeq
  <2> QED BY <2>2, <1>1
<1>3. CASE UNCHANGED <<replies, mode>>
  BY <1>0, <1>1, <1>3
<1>4. ASSUME NEW packet \in Packets, fuzz_write(packet) PROVE Answered'
  <2> DEFINE frame == IF autopilot THEN Answer(mode, packet.bytes) ELSE <<>>
             entry == [packet |-> packet, frame |-> frame]
  <2>1. mode' = mode
    BY <1>4 DEF fuzz_write
  <2>2. CASE replies' = replies
    BY <2>1, <2>2, <1>0
  <2>3. CASE frame # <<>> /\ replies' = Append(replies, entry)
    <3>1. Fits(mode, packet, frame)
      BY <2>3, AnswerFits DEF IInv, TypeOK
    <3>2. replies \in Seq([packet : Packets, frame : Seq(Byte)])
      BY DEF IInv, TypeOK
    <3>3. entry \in [packet : Packets, frame : Seq(Byte)]
      BY PacketsAssumption, AnswerIsBytes, EmptySeq DEF IInv, TypeOK
    <3>4. entry.packet = packet /\ entry.frame = frame
      OBVIOUS
    <3> HIDE DEF frame, entry
    <3>5. /\ Len(replies') = Len(replies) + 1 /\ Len(replies) \in Nat
          /\ \A k \in 1 .. Len(replies) : replies'[k] = replies[k]
          /\ replies'[Len(replies) + 1] = entry
      BY <2>3, <3>2, <3>3, AppendProperties, LenProperties
    <3>6. ASSUME NEW k \in 1 .. Len(replies')
          PROVE  Fits(mode, replies'[k].packet, replies'[k].frame)
      <4>1. CASE k \in 1 .. Len(replies)
        BY <4>1, <3>5, <1>0
      <4>2. CASE k = Len(replies) + 1
        BY <4>2, <3>1, <3>4, <3>5
      <4> QED BY <4>1, <4>2, <3>5
    <3> QED BY <3>6, <2>1
  <2> QED BY <1>4, <2>2, <2>3 DEF fuzz_write, push_rx
<1>5. ASSUME NEW len \in ReadLens, fuzz_read(len) PROVE UNCHANGED <<replies, mode>>
  BY <1>5 DEF fuzz_read, ReadFails, ReadReply, ReadInput, state
<1>6. CASE fuzz_connect \/ fuzz_poll_read \/ fuzz_close \/ UNCHANGED vars
  <2>1. UNCHANGED <<replies, mode>>
    BY <1>6 DEF fuzz_connect, fuzz_poll_read, fuzz_close, vars, state
  <2> QED BY <2>1, <1>3
<1> QED BY <1>1, <1>2, <1>3, <1>4, <1>5, <1>6 DEF Next, Call

\* Every automatic reply is of the type, the id, the length and the version that
\* the packet it answers calls for, in every mode and for packets of any length.
THEOREM RepliesFit == Spec => []RepliesAnswer
<1>1. Init => RepliesAnswer
  <2>1. Len(<<>>) = 0
    BY EmptySeq
  <2> QED BY <2>1 DEF Init, RepliesAnswer
<1> QED BY <1>1, RepliesStep, Invariant, PTL DEF Spec

-----------------------------------------------------------------------------
(* A poll and the read behind it. *)

\* What the last poll said still holds: the call behind it has not read yet.
PollInv == ret.op = "poll_read" /\ ret.val = 1 => in_off < Len(in)

LEMMA PollStep == PollInv /\ [Next]_vars => PollInv'
<1> SUFFICES ASSUME PollInv, [Next]_vars PROVE PollInv'
  OBVIOUS
<1>1. CASE fuzz_poll_read
  BY <1>1 DEF fuzz_poll_read, state, PollInv
<1>2. CASE Create \/ fuzz_destroy \/ fuzz_connect \/ fuzz_close
  <2>1. ret'.op # "poll_read"
    BY <1>2 DEF Create, esp_transport_fuzz_init, fuzz_destroy, fuzz_connect, fuzz_close
  <2> QED BY <2>1 DEF PollInv
<1>3. CASE \/ \E len \in ReadLens : fuzz_read(len)
           \/ \E packet \in Packets : fuzz_write(packet)
  <2>1. ret'.op # "poll_read"
    BY <1>3 DEF fuzz_read, ReadFails, ReadReply, ReadInput, fuzz_write
  <2> QED BY <2>1 DEF PollInv
<1>4. CASE UNCHANGED vars
  BY <1>4 DEF vars, state, PollInv
<1> QED BY <1>1, <1>2, <1>3, <1>4 DEF Next, Call

\* A connected client that polls and is told of data reads some, whether it is the
\* input the poll has seen or a reply it knows nothing of.
THEOREM PolledDataIsRead == Spec => PollThenRead
<1> DEFINE Polled == ret.op = "poll_read" /\ ret.val = 1 /\ connected /\ ret'.op = "read"
                        => ret'.val > 0
<1>1. ASSUME IInv, PollInv, Next PROVE Polled
  <2> SUFFICES ASSUME ret.op = "poll_read", ret.val = 1, connected, ret'.op = "read"
               PROVE  ret'.val > 0
    OBVIOUS
  <2>1. in_off < Len(in)
    BY <1>1 DEF PollInv
  <2>2. PICK len \in ReadLens : fuzz_read(len)
    <3>1. ~Create /\ ~fuzz_destroy
      BY DEF Create, esp_transport_fuzz_init, fuzz_destroy
    <3>2. ~fuzz_connect /\ ~fuzz_poll_read /\ ~fuzz_close
      BY DEF fuzz_connect, fuzz_poll_read, fuzz_close
    <3>3. ASSUME NEW packet \in Packets, fuzz_write(packet) PROVE FALSE
      <4>1. ret'.op = "write"
        BY <3>3 DEF fuzz_write
      <4> QED BY <4>1
    <3> QED BY <3>1, <3>2, <3>3, <1>1 DEF Next, Call
  <2>3. /\ len \in Nat \ {0} /\ Len(in) \in Nat /\ Len(rx) \in Nat /\ frag \in Int
        /\ in_off \in Nat /\ rx_off \in Nat
    BY <1>1, ReadLensAssumption, LenProperties DEF IInv, TypeOK
  <2>4. ~ReadFails
    BY <2>1, <2>3 DEF ReadFails
  <2>5. CASE ReadReply(len)
    <3>1. ReadSize(len, RxAvail) > 0
      BY <2>3, <2>5, ReadSizeBounds DEF ReadReply, RxAvail
    <3> QED BY <3>1, <2>5 DEF ReadReply
  <2>6. CASE ReadInput(len)
    <3>1. ReadSize(len, Len(in) - in_off) > 0
      BY <2>3, <2>6, ReadSizeBounds DEF ReadInput
    <3> QED BY <3>1, <2>6 DEF ReadInput
  <2> QED BY <2>2, <2>4, <2>5, <2>6 DEF fuzz_read
<1>2. IInv /\ PollInv /\ [Next]_vars => [Polled]_vars
  BY <1>1
<1>3. Init => PollInv
  BY DEF Init, PollInv
<1> QED BY Invariant, PollStep, <1>2, <1>3, PTL DEF Spec, PollThenRead

-----------------------------------------------------------------------------
(* Without the autopilot. *)

\* With the autopilot off the reply buffer stays empty and what was read is the
\* part of the input the index has passed, the selector byte left out.
RawInv == ~autopilot =>
    /\ rx = <<>>
    /\ \E skip \in {0, 1} : skip <= in_off /\ out = SubSeq(in, skip + 1, in_off)

LEMMA RawStep == IInv /\ RawInv /\ [Next]_vars => RawInv'
<1> SUFFICES ASSUME IInv, RawInv, [Next]_vars, ~autopilot' PROVE
        /\ rx' = <<>>
        /\ \E skip \in {0, 1} : skip <= in_off' /\ out' = SubSeq(in', skip + 1, in_off')
  BY DEF RawInv
<1> USE DEF IInv
<1> DEFINE Goal == /\ rx' = <<>>
                   /\ \E skip \in {0, 1} :
                        skip <= in_off' /\ out' = SubSeq(in', skip + 1, in_off')
<1>1. CASE Create \/ fuzz_destroy
  <2>1. /\ in_off' \in {0, 1} /\ out' = <<>> /\ rx' = <<>>
    BY <1>1 DEF Create, esp_transport_fuzz_init, fuzz_destroy
  <2>2. SubSeq(in', in_off' + 1, in_off') = <<>>
    <3>1. \A q \in {0, 1} : q + 1 \in Int /\ q \in Int /\ q < q + 1
      OBVIOUS
    <3> QED BY <2>1, <3>1, SubSeqEmpty
  <2>3. in_off' <= in_off'
    BY <2>1
  <2> QED BY <2>1, <2>2, <2>3
<1>2. CASE UNCHANGED <<rx, in, in_off, out, autopilot>>
  BY <1>2 DEF RawInv
<1>3. ASSUME NEW len \in ReadLens, fuzz_read(len) PROVE Goal
  <2>0. /\ autopilot' = autopilot /\ in' = in
        /\ len \in Nat \ {0} /\ Len(in) \in Nat
    BY <1>3, ReadLensAssumption, LenProperties
       DEF fuzz_read, ReadFails, ReadReply, ReadInput, state, TypeOK
  <2>1. rx = <<>> /\ ~ReadReply(len)
    BY <2>0, EmptySeq DEF RawInv, ReadReply, RxAvail, TypeOK
  <2>2. PICK skip \in {0, 1} : skip <= in_off /\ out = SubSeq(in, skip + 1, in_off)
    BY <2>0 DEF RawInv
  <2>3. CASE ReadFails
    BY <1>2, <2>3 DEF ReadFails, state
  <2>4. CASE ReadInput(len)
    <3> DEFINE n == ReadSize(len, Len(in) - in_off)
    <3>1. n \in 1 .. Len(in) - in_off
      BY <2>0, <2>4, ReadSizeBounds DEF ReadInput, TypeOK
    <3> HIDE DEF n
    <3>2. SubSeq(in, skip + 1, in_off) \o SubSeq(in, in_off + 1, in_off + n)
             = SubSeq(in, skip + 1, in_off + n)
      <4>1. /\ skip + 1 \in 1 .. Len(in) + 1 /\ in_off \in (skip + 1) - 1 .. Len(in)
            /\ in_off + n \in in_off .. Len(in)
        BY <2>0, <2>2, <3>1 DEF TypeOK
      <4> QED BY <4>1, ConcatAdjacentSubSeq DEF TypeOK
    <3>3. /\ rx' = rx /\ in_off' = in_off + n
          /\ out' = out \o SubSeq(in, in_off + 1, in_off + n)
      BY <2>4 DEF ReadInput, n
    <3>4. skip <= in_off + n
      BY <2>0, <2>2, <3>1 DEF TypeOK
    <3> QED BY <2>0, <2>1, <2>2, <3>2, <3>3, <3>4
  <2> QED BY <1>3, <2>1, <2>3, <2>4 DEF fuzz_read
<1>4. ASSUME NEW packet \in Packets, fuzz_write(packet) PROVE Goal
  <2>1. UNCHANGED <<rx, in, in_off, out, autopilot>>
    BY <1>4 DEF fuzz_write
  <2> QED BY <2>1, <1>2
<1>5. CASE fuzz_connect \/ fuzz_poll_read \/ fuzz_close \/ UNCHANGED vars
  <2>1. UNCHANGED <<rx, in, in_off, out, autopilot>>
    BY <1>5 DEF fuzz_connect, fuzz_poll_read, fuzz_close, vars, state
  <2> QED BY <2>1, <1>2
<1> QED BY <1>1, <1>3, <1>4, <1>5 DEF Next, Call

LEMMA RawAlways == Spec => []RawInv
<1>1. Init => RawInv
  <2>1. SubSeq(<<>>, 0 + 1, 0) = <<>>
    BY SubSeqEmpty
  <2> QED BY <2>1 DEF Init, RawInv
<1> QED BY <1>1, RawStep, Invariant, PTL DEF Spec

\* Without the autopilot the client reads the input, all of it in order, and
\* nothing else.
THEOREM RawWithoutAutopilot == Spec => []ExactlyTheInput
<1>1. RawInv => ExactlyTheInput
  BY DEF RawInv, ExactlyTheInput
<1> QED BY <1>1, RawAlways, PTL

-----------------------------------------------------------------------------
(* The transport implements the abstract broker connection. *)

\* A freed transport, or none yet, is an empty connection.
LEMMA UnreadEmpty == Unread(<<>>, 0) = <<>>
<1>1. SubSeq(<<>>, 0 + 1, Len(<<>>)) = <<>>
  BY EmptySeq, SubSeqEmpty
<1> QED BY <1>1 DEF Unread

LEMMA StreamInit == Init => Stream!Init
BY UnreadEmpty DEF Init, Stream!Init

\* The creation of a transport loads the input, or its tail.
LEMMA StreamLoad ==
    ASSUME NEW data \in Inputs, NEW auto \in BOOLEAN, NEW md \in ModeArgs,
           NEW f \in Frags, esp_transport_fuzz_init(data, auto, md, f)
    PROVE  Stream!Load
<1> USE DEF esp_transport_fuzz_init
<1>0. data \in Seq(Byte) /\ Len(data) \in Nat
  BY InputsAssumption, LenProperties
<1>1. Unread(in', in_off') \in Inputs \cup {Tail(d) : d \in Inputs \ {<<>>}}
  <2>1. CASE HasSelector(md, data)
    <3>1. data # <<>>
      BY <2>1, EmptySeq DEF HasSelector
    <3>2. Unread(in', in_off') = Tail(data)
      <4>1. in' = data /\ in_off' = IF HasSelector(md, data) THEN 1 ELSE 0
        OBVIOUS
      <4>2. Tail(data) = SubSeq(data, 2, Len(data))
        BY <1>0, <3>1, TailIsSubSeq
      <4> QED BY <2>1, <4>1, <4>2 DEF Unread
    <3> QED BY <3>1, <3>2
  <2>2. CASE ~HasSelector(md, data)
    <3>1. Unread(data, 0) = data
      BY <1>0, SubSeqFull DEF Unread
    <3>2. in' = data /\ in_off' = 0
      BY <2>2
    <3> QED BY <3>1, <3>2
  <2> QED BY <2>1, <2>2
<1>2. Unread(rx', rx_off') = <<>>
  BY UnreadEmpty
<1> QED BY <1>1, <1>2 DEF Stream!Load

\* A read takes a prefix of the pending replies, or of the input when none is
\* pending, or nothing.
LEMMA StreamRead ==
    ASSUME IInv, NEW len \in ReadLens, fuzz_read(len)
    PROVE  Stream!DeliverReply \/ Stream!DeliverFeed \/ UNCHANGED Stream!streamVars
<1> USE DEF IInv
<1>0. len \in Nat \ {0} /\ Len(in) \in Nat /\ Len(rx) \in Nat
  BY ReadLensAssumption, LenProperties DEF TypeOK
<1>1. CASE ReadFails
  BY <1>1 DEF ReadFails, state, Stream!streamVars
<1>2. CASE ReadReply(len)
  <2> DEFINE n == ReadSize(len, RxAvail)
             pending == Unread(rx, rx_off)
  <2>1. n \in 1 .. Len(rx) - rx_off
    BY <1>0, <1>2, ReadSizeBounds DEF ReadReply, RxAvail, TypeOK
  <2>2. /\ connected' = connected /\ connected /\ in' = in /\ in_off' = in_off
        /\ out' = out \o SubSeq(rx, rx_off + 1, rx_off + n)
        /\ IF rx_off + n = Len(rx) THEN rx' = <<>> /\ rx_off' = 0
                                   ELSE rx' = rx /\ rx_off' = rx_off + n
    BY <1>2 DEF ReadReply
  <2> HIDE DEF n
  <2>3. /\ Len(pending) = Len(rx) - rx_off
        /\ SubSeq(pending, 1, n) = SubSeq(rx, rx_off + 1, rx_off + n)
        /\ SubSeq(pending, n + 1, Len(pending)) = Unread(rx, rx_off + n)
    <3>1. rx_off \in 0 .. Len(rx) /\ n \in 0 .. Len(rx) - rx_off
      BY <2>1, <1>0 DEF TypeOK
    <3> QED BY <3>1, UnreadPrefix DEF TypeOK
  <2>4. Unread(rx', rx_off') = Unread(rx, rx_off + n)
    <3>1. CASE rx_off + n = Len(rx)
      <4>1. Unread(rx, Len(rx)) = <<>>
        BY <1>0, SubSeqEmpty DEF Unread
      <4> QED BY <4>1, <3>1, <2>2, UnreadEmpty
    <3>2. CASE rx_off + n # Len(rx)
      BY <3>2, <2>2
    <3> QED BY <3>1, <3>2
  <2>5. n \in 1 .. Len(pending)
    BY <2>1, <2>3
  <2> HIDE DEF pending
  <2>6. Stream!DeliverReply
    BY <2>2, <2>3, <2>4, <2>5 DEF Stream!DeliverReply, Stream!Front, Stream!Rest, pending
  <2> QED BY <2>6
<1>3. CASE ReadInput(len)
  <2> DEFINE n == ReadSize(len, Len(in) - in_off)
             feed == Unread(in, in_off)
  <2>1. n \in 1 .. Len(in) - in_off
    BY <1>0, <1>3, ReadSizeBounds DEF ReadInput, TypeOK
  <2>2. /\ connected' = connected /\ connected /\ rx' = rx /\ rx_off' = rx_off
        /\ in' = in /\ in_off' = in_off + n /\ RxAvail = 0
        /\ out' = out \o SubSeq(in, in_off + 1, in_off + n)
    BY <1>3 DEF ReadInput
  <2> HIDE DEF n
  <2>3. /\ Len(feed) = Len(in) - in_off
        /\ SubSeq(feed, 1, n) = SubSeq(in, in_off + 1, in_off + n)
        /\ SubSeq(feed, n + 1, Len(feed)) = Unread(in, in_off + n)
    <3>1. in_off \in 0 .. Len(in) /\ n \in 0 .. Len(in) - in_off
      BY <2>1, <1>0 DEF TypeOK
    <3> QED BY <3>1, UnreadPrefix DEF TypeOK
  <2>4. Unread(rx, rx_off) = <<>>
    <3>1. rx_off \in 0 .. Len(rx) /\ ~(Len(rx) > rx_off)
      BY <2>2, <1>0 DEF RxAvail, TypeOK
    <3>2. rx_off + 1 \in Int /\ Len(rx) < rx_off + 1
      BY <3>1, <1>0
    <3> QED BY <3>2, <1>0, SubSeqEmpty DEF Unread
  <2>5. n \in 1 .. Len(feed)
    BY <2>1, <2>3
  <2> HIDE DEF feed
  <2>6. Stream!DeliverFeed
    BY <2>2, <2>3, <2>4, <2>5 DEF Stream!DeliverFeed, Stream!Front, Stream!Rest, feed
  <2> QED BY <2>6
<1> QED BY <1>1, <1>2, <1>3 DEF fuzz_read

\* A write queues one whole reply, or nothing.
LEMMA StreamWrite ==
    ASSUME IInv, NEW packet \in Packets, fuzz_write(packet)
    PROVE  Stream!Reply \/ UNCHANGED Stream!streamVars
<1> DEFINE frame == IF autopilot THEN Answer(mode, packet.bytes) ELSE <<>>
<1> USE DEF IInv
<1>0. frame \in Seq(Byte) /\ Len(rx) \in Nat
  BY PacketsAssumption, AnswerIsBytes, EmptySeq, LenProperties DEF TypeOK
<1>1. UNCHANGED <<in, in_off, connected, out>>
  BY DEF fuzz_write
<1>2. CASE UNCHANGED <<rx, rx_off>>
  BY <1>1, <1>2 DEF Stream!streamVars
<1>3. CASE frame # <<>> /\ push_rx(packet, frame)
  <2>1. ~(rx_off > 0 /\ Len(rx) - rx_off = 0)
    BY <1>0 DEF TypeOK, DrainedIsEmpty
  <2>2. frame \in {Answer(m, p.bytes) : m \in Modes, p \in Packets} \ {<<>>}
    BY <1>3 DEF TypeOK
  <2> HIDE DEF frame
  <2>3. rx_off' = rx_off /\ (rx' = rx \o frame \/ rx' = rx)
    BY <1>3, <2>1 DEF push_rx
  <2>4. CASE rx' = rx \o frame
    <3>1. Unread(rx', rx_off') = Unread(rx, rx_off) \o frame
      BY <2>3, <2>4, <1>0, UnreadConcat DEF TypeOK
    <3>2. Stream!Reply
      BY <3>1, <2>2, <1>1 DEF Stream!Reply
    <3> QED BY <3>2
  <2> QED BY <2>3, <2>4, <1>2
<1> QED BY <1>2, <1>3 DEF fuzz_write, frame

\* Every step of the transport is a step of the connection, or changes nothing
\* of it.
LEMMA StreamStep == IInv /\ [Next]_vars => [Stream!Next]_Stream!streamVars
<1> SUFFICES ASSUME IInv, [Next]_vars
             PROVE  Stream!Next \/ UNCHANGED Stream!streamVars
  OBVIOUS
<1> USE DEF Stream!Next
<1>1. CASE Create
  BY <1>1, StreamLoad DEF Create
<1>2. CASE fuzz_connect
  BY <1>2 DEF fuzz_connect, Stream!Open
<1>3. CASE fuzz_poll_read
  BY <1>3 DEF fuzz_poll_read, state, Stream!streamVars
<1>4. CASE fuzz_close
  BY <1>4 DEF fuzz_close, Stream!Close
<1>5. ASSUME NEW len \in ReadLens, fuzz_read(len)
      PROVE  Stream!Next \/ UNCHANGED Stream!streamVars
  BY <1>5, StreamRead
<1>6. ASSUME NEW packet \in Packets, fuzz_write(packet)
      PROVE  Stream!Next \/ UNCHANGED Stream!streamVars
  BY <1>6, StreamWrite
<1>7. CASE fuzz_destroy
  BY <1>7, UnreadEmpty DEF fuzz_destroy, Stream!Drop
<1>8. CASE UNCHANGED vars
  BY <1>8 DEF vars, state, Stream!streamVars
<1> QED BY <1>1, <1>2, <1>3, <1>4, <1>5, <1>6, <1>7, <1>8 DEF Next, Call

\* The transport, with its two buffers, two indices and the reallocation of one
\* of them, implements the connection with two queues.
THEOREM Refinement == Spec => ImplementsStream
BY StreamInit, StreamStep, Invariant, PTL DEF Spec, Stream!Spec, ImplementsStream

-----------------------------------------------------------------------------
(* main, run_once and the life of a transport. *)

\* The state of main and run_once; a transport is allocated from its creation to
\* the end of the client it was created for, and at no other time.
MainInv ==
    /\ pc \in {"args", "loop", "transport_init", "client_init", "step", "exit"}
    /\ g_mode \in 0 .. 5 /\ g_autopilot \in BOOLEAN
    /\ g_frag \in {0} \cup (Behind \cap Nat)
    /\ loops \in 0 .. AflLoops /\ i \in 0 .. MaxSteps
    /\ client \in {"none", "start", "hello", "wait", "connected", "abort"}
    /\ protocol_ver \in {"3.1.1", "5"}
    /\ pc = "transport_init" => buf \in Inputs
    /\ alive <=> pc \in {"client_init", "step"}
    /\ client # "none" <=> pc = "step"

\* No call but the creation and the destruction of a transport changes what it
\* was created with.
LEMMA CallKeeps ==
    ASSUME Call
    PROVE  UNCHANGED <<alive, in, autopilot, mode, frag>>
<1>1. CASE fuzz_connect \/ fuzz_poll_read \/ fuzz_close
  BY <1>1 DEF fuzz_connect, fuzz_poll_read, fuzz_close, state
<1>2. CASE \E len \in ReadLens : fuzz_read(len)
  BY <1>2 DEF fuzz_read, ReadFails, ReadReply, ReadInput, state
<1>3. CASE \E packet \in Packets : fuzz_write(packet)
  BY <1>3 DEF fuzz_write
<1> QED BY <1>1, <1>2, <1>3 DEF Call

\* A step of the client is one call on the transport, or none.
LEMMA StepCalls ==
    ASSUME Step
    PROVE  /\ pc = "step" /\ i < MaxSteps /\ i' = i + 1
           /\ UNCHANGED <<main, pc, protocol_ver>>
           /\ Call \/ UNCHANGED vars
           /\ client' \in {client, "start", "hello", "wait", "connected", "abort"}
<1>1. /\ pc = "step" /\ i < MaxSteps /\ i' = i + 1
      /\ UNCHANGED <<main, pc, protocol_ver>> /\ esp_mqtt_client_fuzz_step
  BY DEF Step
<1>2. Call \/ UNCHANGED vars
  BY <1>1 DEF esp_mqtt_client_fuzz_step, ClientConnect, ClientHello, ClientWait, ClientRun,
     ClientAbort, ClientIdle, Call
<1>3. client' \in {client, "start", "hello", "wait", "connected", "abort"}
  BY <1>1 DEF esp_mqtt_client_fuzz_step, ClientConnect, ClientHello, ClientWait, ClientRun,
     ClientAbort, ClientIdle
<1> QED BY <1>1, <1>2, <1>3

LEMMA MainInit == HarnessInit => MainInv
<1> SUFFICES ASSUME HarnessInit PROVE MainInv
  OBVIOUS
<1>1. pc = "args" /\ client = "none" /\ ~alive
  BY DEF HarnessInit, Init
<1>2. g_autopilot \in BOOLEAN
  BY DEF HarnessInit
<1>3. g_mode = 0 /\ g_frag = 0 /\ loops \in 0 .. AflLoops
  BY LoopAssumption DEF HarnessInit
<1>4. i \in 0 .. MaxSteps /\ protocol_ver = "3.1.1"
  BY LoopAssumption DEF HarnessInit
<1> QED BY <1>1, <1>2, <1>3, <1>4 DEF MainInv

LEMMA MainStep == MainInv /\ [HarnessNext]_harnessVars => MainInv'
<1> SUFFICES ASSUME MainInv, [HarnessNext]_harnessVars PROVE MainInv'
  OBVIOUS
<1> USE DEF MainInv
<1>1. CASE parse_args
  <2>1. /\ pc = "args" /\ UNCHANGED <<alive, argv, pc, loops, buf, i, client, protocol_ver>>
        /\ g_autopilot' \in BOOLEAN
    BY <1>1 DEF parse_args, vars
  <2>2. g_mode' \in 0 .. 5
    BY <1>1 DEF parse_args, ModeNumber
  <2>3. g_frag' \in {0} \cup (Behind \cap Nat)
    BY <1>1, BehindAssumption DEF parse_args
  <2> QED BY <2>1, <2>2, <2>3
<1>2. CASE ArgsDone \/ AflLoop
  <2>1. CASE ArgsDone
    BY <2>1 DEF ArgsDone, main, vars
  <2>2. CASE AflLoop
    <3>1. loops' \in 0 .. AflLoops
      BY <2>2, LoopAssumption DEF AflLoop
    <3> QED BY <2>2, <3>1 DEF AflLoop, vars
  <2> QED BY <1>2, <2>1, <2>2
<1>3. CASE TransportInit
  BY <1>3 DEF TransportInit, esp_transport_fuzz_init, main, vars
<1>4. CASE ClientInit
  <2>1. i' \in 0 .. MaxSteps
    BY <1>4, LoopAssumption DEF ClientInit
  <2> QED BY <1>4, <2>1 DEF ClientInit, fuzz_destroy, main, vars
<1>5. CASE Step
  <2>1. i' \in 0 .. MaxSteps
    BY <1>5, StepCalls, LoopAssumption
  <2>2. alive' = alive
    BY <1>5, StepCalls, CallKeeps DEF vars
  <2> QED BY <1>5, <2>1, <2>2, StepCalls DEF main
<1>6. CASE ClientDestroy
  BY <1>6 DEF ClientDestroy, fuzz_destroy, main
<1>7. CASE UNCHANGED harnessVars
  BY <1>7 DEF harnessVars, main, vars
<1> QED BY <1>1, <1>2, <1>3, <1>4, <1>5, <1>6, <1>7 DEF HarnessNext, Exited

-----------------------------------------------------------------------------
(* The harness uses the transport as it may be used. *)

\* Every step of the harness is a step of the transport or leaves it alone; what
\* the transport is created with is an input and what the flags can say.
LEMMA TransportStep == MainInv /\ [HarnessNext]_harnessVars => [Next]_vars
<1> SUFFICES ASSUME MainInv, [HarnessNext]_harnessVars PROVE Next \/ UNCHANGED vars
  OBVIOUS
<1>1. CASE parse_args \/ ArgsDone \/ AflLoop
  BY <1>1 DEF parse_args, ArgsDone, AflLoop
<1>2. CASE TransportInit
  <2>1. g_mode \in ModeArgs /\ g_frag \in Frags /\ g_autopilot \in BOOLEAN
    BY FlagsAssumption DEF MainInv
  <2>2. pc = "transport_init" /\ buf \in Inputs
    BY <1>2 DEF TransportInit, MainInv
  <2> QED BY <1>2, <2>1, <2>2 DEF TransportInit, Next, Create
<1>3. CASE ClientInit \/ ClientDestroy
  BY <1>3 DEF ClientInit, ClientDestroy, Next
<1>4. CASE Step
  BY <1>4, StepCalls DEF Next
<1>5. CASE UNCHANGED harnessVars
  BY <1>5 DEF harnessVars
<1> QED BY <1>1, <1>2, <1>3, <1>4, <1>5 DEF HarnessNext, Exited

LEMMA MainAlways == HarnessSpec => []MainInv
BY MainInit, MainStep, PTL DEF HarnessSpec

\* The composition of main, run_once and the client is a program the transport was
\* specified for: it never calls it before its creation or after its destruction,
\* whichever allocation fails.
THEOREM UsesTheTransport == HarnessSpec => Spec
<1>1. HarnessInit => Init
  BY DEF HarnessInit
<1> QED BY <1>1, TransportStep, MainAlways, PTL DEF HarnessSpec, Spec

\* What the transport promises to any client, it keeps in the harness: replies that
\* answer, reads that progress, a poll that does not lie, and the two queues.
THEOREM TransportInHarness ==
    HarnessSpec => []RepliesAnswer /\ ReadBounded /\ PollThenRead /\ ImplementsStream
BY UsesTheTransport, RepliesFit, ReadsAreBounded, PolledDataIsRead, Refinement, PTL

\* No transport outlives the client it was made for, and none is left when the next
\* input is read or the harness ends.
THEOREM NothingLeaks == HarnessSpec => []NoLeakBetweenInputs
<1>1. IInv /\ MainInv => NoLeakBetweenInputs
  BY DEF IInv, MainInv, NoLeakBetweenInputs, HarnessTypeOK
<1> QED BY <1>1, MainAlways, UsesTheTransport, Invariant, PTL

-----------------------------------------------------------------------------
(* One iteration. *)

Skip == IF g_mode = 5 /\ buf # <<>> THEN 1 ELSE 0

\* The transport of an iteration is as the flags and the input made it, and without
\* the autopilot what was read is the part of the input its index has passed.
IterationInv ==
    alive => /\ in = buf /\ in_off >= Skip /\ autopilot = g_autopilot
             /\ g_mode # 5 => mode = ModeOfArg(g_mode)
             /\ ~autopilot => out = SubSeq(buf, Skip + 1, in_off)

\* The client speaks what the flag says.
VersionInv == client # "none" => (protocol_ver = "5" <=> g_mode = 4)

\* A new transport has read nothing but the selector.
LEMMA CreateIteration == MainInv /\ TransportInit => IterationInv'
<1> SUFFICES ASSUME MainInv, TransportInit, alive' PROVE IterationInv'
  BY DEF IterationInv
<1>1. esp_transport_fuzz_init(buf, g_autopilot, g_mode, g_frag)
      /\ buf \in Seq(Byte) /\ UNCHANGED <<buf, g_mode, g_autopilot>>
  BY InputsAssumption DEF MainInv, TransportInit, vars, main
<1>2. HasSelector(g_mode, buf) <=> Skip = 1
  <2>1. ModeOfArg(g_mode) = "DYNAMIC" <=> g_mode = 5
    BY DEF ModeOfArg, MainInv
  <2>2. buf # <<>> <=> Len(buf) > 0
    BY <1>1, EmptySeq, LenProperties
  <2> QED BY <2>1, <2>2 DEF HasSelector, Skip
<1>3. Skip \in {0, 1} /\ Skip' = Skip
  BY <1>1 DEF Skip
<1>4. in' = buf /\ in_off' = Skip /\ autopilot' = g_autopilot /\ out' = <<>>
  BY <1>1, <1>2, <1>3 DEF esp_transport_fuzz_init
<1>5. SubSeq(buf, Skip + 1, Skip) = <<>>
  <2>1. \A s \in {0, 1} : s + 1 \in Int /\ s \in Int /\ s < s + 1
    OBVIOUS
  <2> QED BY <2>1, <1>3, SubSeqEmpty
<1>6. g_mode # 5 => mode' = ModeOfArg(g_mode)
  BY <1>1, <1>2 DEF esp_transport_fuzz_init, Skip
<1> QED BY <1>1, <1>3, <1>4, <1>5, <1>6 DEF IterationInv

\* A read moves the index over what it returns.
LEMMA ReadIteration ==
    ASSUME IInv, RawInv, IterationInv, NEW len \in ReadLens, fuzz_read(len),
           UNCHANGED <<g_mode, g_autopilot, buf>>
    PROVE  IterationInv'
<1>0. /\ alive /\ Skip \in {0, 1} /\ Skip' = Skip /\ UNCHANGED <<alive, in, autopilot, mode>>
      /\ len \in Nat \ {0} /\ Len(in) \in Nat /\ in_off \in 0 .. Len(in)
      /\ frag \in Int /\ in \in Seq(Byte)
  BY ReadLensAssumption, LenProperties
     DEF Skip, fuzz_read, ReadFails, ReadReply, ReadInput, state, IInv, TypeOK
<1>1. /\ in = buf /\ in_off >= Skip /\ autopilot = g_autopilot
      /\ g_mode # 5 => mode = ModeOfArg(g_mode)
      /\ ~autopilot => out = SubSeq(buf, Skip + 1, in_off)
  BY <1>0 DEF IterationInv
<1>2. CASE UNCHANGED <<in_off, out>>
  BY <1>0, <1>1, <1>2 DEF IterationInv
<1>3. CASE ReadReply(len)
  <2>1. autopilot
    <3>1. RxAvail > 0
      BY <1>3 DEF ReadReply
    <3>2. rx # <<>>
      BY <3>1, EmptySeq DEF RxAvail, IInv, TypeOK
    <3> QED BY <3>2 DEF RawInv
  <2>2. in_off' = in_off
    BY <1>3 DEF ReadReply
  <2> QED BY <1>0, <1>1, <2>1, <2>2 DEF IterationInv
<1>4. CASE ReadInput(len)
  <2> DEFINE n == ReadSize(len, Len(in) - in_off)
  <2>1. n \in 1 .. Len(in) - in_off
    BY <1>0, <1>4, ReadSizeBounds DEF ReadInput
  <2>2. in_off' = in_off + n /\ out' = out \o SubSeq(in, in_off + 1, in_off + n)
    BY <1>4 DEF ReadInput
  <2> HIDE DEF n
  <2>3. in_off' >= Skip
    BY <1>0, <1>1, <2>1, <2>2
  <2>4. SubSeq(in, Skip + 1, in_off) \o SubSeq(in, in_off + 1, in_off + n)
           = SubSeq(in, Skip + 1, in_off + n)
    <3>1. /\ Skip + 1 \in 1 .. Len(in) + 1 /\ in_off \in (Skip + 1) - 1 .. Len(in)
          /\ in_off + n \in in_off .. Len(in)
      BY <1>0, <1>1, <2>1
    <3> QED BY <3>1, <1>0, ConcatAdjacentSubSeq
  <2> QED BY <1>0, <1>1, <2>2, <2>3, <2>4 DEF IterationInv
<1> QED BY <1>2, <1>3, <1>4 DEF fuzz_read, ReadFails, state

LEMMA CallIteration ==
    ASSUME IInv, RawInv, IterationInv, Call \/ UNCHANGED vars, UNCHANGED <<g_mode, g_autopilot, buf>>
    PROVE  IterationInv'
<1>1. CASE \E len \in ReadLens : fuzz_read(len)
  BY <1>1, ReadIteration
<1>2. CASE UNCHANGED <<alive, in, in_off, autopilot, mode, out>>
  BY <1>2 DEF IterationInv, Skip
<1>3. CASE fuzz_connect \/ fuzz_poll_read \/ fuzz_close \/ UNCHANGED vars
  BY <1>2, <1>3 DEF fuzz_connect, fuzz_poll_read, fuzz_close, state, vars
<1>4. CASE \E packet \in Packets : fuzz_write(packet)
  BY <1>2, <1>4 DEF fuzz_write
<1> QED BY <1>1, <1>3, <1>4 DEF Call

LEMMA IterationStep ==
    IInv /\ RawInv /\ MainInv /\ IterationInv /\ [HarnessNext]_harnessVars => IterationInv'
<1> SUFFICES ASSUME IInv, RawInv, MainInv, IterationInv, [HarnessNext]_harnessVars
             PROVE  IterationInv'
  OBVIOUS
<1>1. CASE parse_args \/ ArgsDone \/ AflLoop
  <2>1. ~alive'
    BY <1>1 DEF parse_args, ArgsDone, AflLoop, MainInv, vars
  <2> QED BY <2>1 DEF IterationInv
<1>2. CASE TransportInit
  BY <1>2, CreateIteration
<1>3. CASE ClientInit \/ ClientDestroy
  <2>1. CASE fuzz_destroy
    BY <2>1 DEF fuzz_destroy, IterationInv
  <2>2. CASE UNCHANGED vars
    <3>1. UNCHANGED <<g_mode, g_autopilot, buf>>
      BY <1>3 DEF ClientInit, ClientDestroy, main
    <3> QED BY <2>2, <3>1, CallIteration
  <2> QED BY <1>3, <2>1, <2>2 DEF ClientInit, ClientDestroy
<1>4. CASE Step \/ UNCHANGED harnessVars
  <2>1. (Call \/ UNCHANGED vars) /\ UNCHANGED <<g_mode, g_autopilot, buf>>
    BY <1>4, StepCalls DEF harnessVars, main
  <2> QED BY <2>1, CallIteration
<1> QED BY <1>1, <1>2, <1>3, <1>4 DEF HarnessNext, Exited

LEMMA VersionStep == MainInv /\ VersionInv /\ [HarnessNext]_harnessVars => VersionInv'
<1> SUFFICES ASSUME MainInv, VersionInv, [HarnessNext]_harnessVars PROVE VersionInv'
  OBVIOUS
<1>1. CASE parse_args \/ ArgsDone \/ AflLoop \/ TransportInit
  <2>1. pc # "step" /\ client' = client
    BY <1>1 DEF parse_args, ArgsDone, AflLoop, TransportInit
  <2> QED BY <2>1 DEF MainInv, VersionInv
<1>2. CASE ClientInit
  BY <1>2 DEF ClientInit, main, VersionInv
<1>3. CASE Step
  <2>1. pc = "step" /\ UNCHANGED <<g_mode, protocol_ver>>
    BY <1>3, StepCalls DEF main
  <2> QED BY <2>1 DEF MainInv, VersionInv
<1>4. CASE ClientDestroy
  BY <1>4 DEF ClientDestroy, VersionInv
<1>5. CASE UNCHANGED harnessVars
  BY <1>5 DEF harnessVars, main, VersionInv
<1> QED BY <1>1, <1>2, <1>3, <1>4, <1>5 DEF HarnessNext, Exited

LEMMA IterationAlways == HarnessSpec => [](IterationInv /\ VersionInv)
<1>1. HarnessInit => IterationInv /\ VersionInv
  BY DEF HarnessInit, Init, IterationInv, VersionInv
<1> QED BY <1>1, IterationStep, VersionStep, MainAlways, UsesTheTransport, Invariant, RawAlways,
           PTL DEF HarnessSpec

\* The client reads the input of its iteration and no other, from its beginning, or
\* from the byte behind the selector, and in order.
THEOREM EachReadsItsInput == HarnessSpec => []ReadsThisInput
<1>1. IterationInv => ReadsThisInput
  BY DEF IterationInv, ReadsThisInput, Skip
<1> QED BY <1>1, IterationAlways, PTL

\* Client and transport agree on the version of the protocol for every mode that
\* the command line can name.
THEOREM SameVersion == HarnessSpec => []VersionsAgree
<1>1. MainInv /\ IterationInv /\ VersionInv => VersionsAgree
  <2> SUFFICES ASSUME MainInv, IterationInv, VersionInv, client # "none", g_mode # 5
               PROVE  protocol_ver = "5" <=> mode = "MQTT5"
    BY DEF VersionsAgree
  <2>1. mode = ModeOfArg(g_mode) /\ (protocol_ver = "5" <=> g_mode = 4)
    BY DEF MainInv, IterationInv, VersionInv
  <2>2. ModeOfArg(g_mode) = "MQTT5" <=> g_mode = 4
    BY DEF MainInv, ModeOfArg
  <2> QED BY <2>1, <2>2
<1> QED BY <1>1, IterationAlways, MainAlways, PTL
=============================================================================
