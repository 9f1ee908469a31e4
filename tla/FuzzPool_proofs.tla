--------------------------- MODULE FuzzPool_proofs ---------------------------
(***************************************************************************)
(* The shared pool of fuzz data is sound for every buffer, every content   *)
(* of the length fields and every sequence of callbacks.                   *)
(***************************************************************************)
EXTENDS FuzzPool, TLAPS

\* The two sizes are numbers; nothing else about them is used below.
LEMMA Sizes == MaxLen \in Nat /\ PktBuf \in Nat
BY SMT DEF MaxLen, PktBuf

\* A number that fits into a 16-bit length.
U16(n) == n \in Nat /\ n <= MaxLen

\* The cut of a length to what is left: the cast to 16 bits is harmless, as it
\* is only reached when what is left is less than a 16-bit number.
LEMMA RestBounds ==
    ASSUME NEW n, U16(n), NEW rest \in Nat
    PROVE  Rest(n, rest) \in Nat /\ Rest(n, rest) <= rest /\ Rest(n, rest) <= n
<1>1. CASE n > rest
  <2>1. rest < MaxLen + 1
    BY <1>1, Sizes DEF U16
  <2>2. rest % (MaxLen + 1) = rest
    BY <2>1, Sizes
  <2> QED BY <1>1, <2>2 DEF Rest, U16
<1>2. CASE ~(n > rest)
  BY <1>2 DEF Rest, U16
<1> QED BY <1>1, <1>2

\* The caps keep a length a 16-bit number.
LEMMA ClampBounds ==
    ASSUME NEW raw \in Raws, NEW bound, U16(bound)
    PROVE  U16(Clamp(raw, bound)) /\ U16(Clamp(raw % 2048, bound))
<1>1. U16(raw)
  BY RawsAssumption DEF U16
<1>2. raw % 2048 \in Nat /\ raw % 2048 < 2048
  BY <1>1, SMT DEF U16
<1>3. ASSUME NEW n, U16(n) PROVE U16(Clamp(n, bound))
  BY <1>3 DEF Clamp, U16
<1>4. 2048 <= MaxLen
  BY SMT DEF MaxLen
<1>5. U16(raw % 2048)
  <2>1. MaxLen \in Nat
    BY Sizes
  <2> QED BY <1>2, <1>4, <2>1 DEF U16
<1> QED BY <1>1, <1>3, <1>5

-----------------------------------------------------------------------------
(* The inductive invariant.  A single packet needs a part of its own: it is *)
(* the whole pool until it is copied, and the pool is empty afterwards.     *)

BeforeRead == pc = "read" => headers = 0 /\ framed = 0 /\ fed = 0 /\ remfuzz_ptr = 0

SingleInv == type = "SINGLE" =>
    /\ fed = 0
    /\ pc \in {"read", "input_pkts", "input_pkt", "stack", "done", "aborted", "exit"}
    /\ pc = "input_pkts" => remfuzz_ptr = 0
    /\ pc = "input_pkt" => frame_len = remfuzz_len /\ remfuzz_ptr = 0
    /\ pc = "stack" => remfuzz_len = 0

\* Only a single packet may be longer than a 16-bit length.
FrameSize == type # "SINGLE" => frame_len <= MaxLen

IInv == /\ TypeOK /\ PoolInBounds /\ FrameIsThere /\ UsedOnce
        /\ BeforeRead /\ SingleInv /\ FrameSize /\ UsedUp

LEMMA InvInit == Init => IInv
<1> SUFFICES ASSUME Init PROVE IInv
  OBVIOUS
<1>1. type \in TypeNames
  BY TypesAssumption DEF Init
<1>2. pcb \in [{"client", "server"} -> {"none", "connecting", "listen", "open", "closed"}]
  BY DEF Init
<1>3. calls \in 0 .. MaxCalls
  BY CallsAssumption DEF Init
<1> QED BY <1>1, <1>2, <1>3, Sizes DEF Init, IInv, TypeOK, PoolInBounds, FrameIsThere, UsedOnce,
           BeforeRead, SingleInv, FrameSize, UsedUp

\* What a callback may do to the pool: take some bytes that are there.
Took == \E n \in Nat : /\ n <= remfuzz_len
                       /\ remfuzz_ptr' = remfuzz_ptr + n
                       /\ remfuzz_len' = remfuzz_len - n
                       /\ fed' = fed + n

\* It takes its length field and its data, when there is more than a length field.
LEMMA FeedInv ==
    ASSUME IInv, NEW raw \in Raws, NEW cap, U16(cap), remfuzz_len > 2,
           Feed(Rest(Clamp(raw, cap), remfuzz_len - 2))
    PROVE  Took
<1> DEFINE n == Rest(Clamp(raw, cap), remfuzz_len - 2)
<1>1. remfuzz_len - 2 \in Nat /\ remfuzz_ptr \in Nat /\ fed \in Nat /\ remfuzz_len \in Int
  BY DEF IInv, TypeOK, PoolInBounds
<1>2. n \in Nat /\ n <= remfuzz_len - 2
  BY <1>1, ClampBounds, RestBounds
<1> HIDE DEF n
<1>3. /\ remfuzz_ptr' = remfuzz_ptr + 2 + n
      /\ remfuzz_len' = remfuzz_len - 2 - n
      /\ fed' = fed + 2 + n
  BY DEF Feed, n
<1>4. 2 + n \in Nat /\ 2 + n <= remfuzz_len
  BY <1>1, <1>2
<1>5. /\ remfuzz_ptr' = remfuzz_ptr + (2 + n)
      /\ remfuzz_len' = remfuzz_len - (2 + n)
      /\ fed' = fed + (2 + n)
  BY <1>1, <1>2, <1>3
<1> QED BY <1>4, <1>5 DEF Took

\* A callback that takes nothing, or what FeedInv describes, keeps the invariant
\* when it comes from the stack.
PcbType == pcb' \in [{"client", "server"} -> {"none", "connecting", "listen", "open", "closed"}]

LEMMA CallingInv ==
    ASSUME IInv, PcbType,
           \/ Calling({"stack"}) /\ remfuzz_len > 2 /\ Took
           \/ Calling({"stack", "timeouts", "timeouts_again"}) /\ UNCHANGED <<pool, fed>>
    PROVE  IInv'
<1> USE DEF Calling, IInv
<1>1. calls' \in 0 .. MaxCalls
  BY CallsAssumption DEF TypeOK
<1>2. CASE Calling({"stack"}) /\ remfuzz_len > 2 /\ Took
  <2>1. /\ pc = "stack" /\ pc' = "stack" /\ type # "SINGLE"
        /\ UNCHANGED <<argv, type, total, frame_len, headers, framed>>
    BY <1>2 DEF SingleInv
  <2>2. PICK n \in Nat : /\ n <= remfuzz_len
                        /\ remfuzz_ptr' = remfuzz_ptr + n
                        /\ remfuzz_len' = remfuzz_len - n
                        /\ fed' = fed + n
    BY <1>2 DEF Took
  <2>3. TypeOK'
    <3>1. type' \in TypeNames /\ pc' = "stack" /\ total' \in Nat /\ total' <= PktBuf
      BY <2>1 DEF TypeOK
    <3>2. frame_len' \in Nat /\ headers' \in Nat /\ framed' \in Nat
      BY <2>1 DEF TypeOK
    <3>3. remfuzz_ptr' \in Nat /\ remfuzz_len' \in Nat /\ fed' \in Nat
      BY <2>2 DEF TypeOK
    <3> HIDE DEF IInv, Calling
    <3> QED BY <1>1, <3>1, <3>2, <3>3 DEF TypeOK, PcbType
  <2>4. (PoolInBounds /\ UsedOnce)'
    BY <2>1, <2>2 DEF TypeOK, PoolInBounds, UsedOnce
  <2> QED BY <2>1, <2>3, <2>4 DEF FrameIsThere, BeforeRead, SingleInv, FrameSize, UsedUp
<1>3. CASE /\ Calling({"stack", "timeouts", "timeouts_again"})
           /\ UNCHANGED <<pool, fed>>
  <2>1. UNCHANGED <<argv, type, pc, total, frame_len, headers, framed, pool, fed>>
    BY <1>3
  <2>2. TypeOK'
    BY <1>1, <2>1 DEF TypeOK, PcbType, pool
  <2>3. (PoolInBounds /\ UsedOnce /\ FrameIsThere /\ BeforeRead /\ SingleInv /\ FrameSize /\ UsedUp)'
    BY <2>1 DEF pool, PoolInBounds, UsedOnce, FrameIsThere, BeforeRead, SingleInv,
                FrameSize, UsedUp, minlen
  <2> QED BY <2>2, <2>3
<1> QED BY <1>2, <1>3

\* Writing or closing keeps the connections what they are: connections.
LEMMA TcpFeeds ==
    ASSUME IInv, NEW c \in {"client", "server"}, Calling({"stack"}), tcp_app_fuzz_input(c)
    PROVE  IInv'
<1>1. PcbType
  BY DEF tcp_app_fuzz_input, PcbType, IInv, TypeOK
<1>2. CASE UNCHANGED <<pool, fed>>
  <2>1. Calling({"stack", "timeouts", "timeouts_again"})
    BY DEF Calling
  <2> QED BY <1>1, <1>2, <2>1, CallingInv
<1>3. ASSUME NEW raw \in Raws, remfuzz_len > 2,
             Feed(Rest(Clamp(raw, 65495), remfuzz_len - 2))
      PROVE  IInv'
  <2>1. U16(65495)
    BY SMT DEF U16, MaxLen
  <2>2. Took
    BY <1>3, <2>1, FeedInv
  <2> QED BY <1>1, <1>3, <2>2, CallingInv
<1> QED BY <1>2, <1>3 DEF tcp_app_fuzz_input

LEMMA UdpFeeds ==
    ASSUME IInv, Calling({"stack"}), udp_app_fuzz_input, UNCHANGED pcb
    PROVE  IInv'
<1>1. PcbType
  BY DEF PcbType, IInv, TypeOK
<1>2. CASE UNCHANGED <<pool, fed>>
  <2>1. Calling({"stack", "timeouts", "timeouts_again"})
    BY DEF Calling
  <2> QED BY <1>1, <1>2, <2>1, CallingInv
<1>3. ASSUME NEW raw \in Raws, remfuzz_len > 2,
             Feed(Rest(Clamp(raw, 65507), remfuzz_len - 2))
      PROVE  IInv'
  <2>1. U16(65507)
    BY SMT DEF U16, MaxLen
  <2>2. Took
    BY <1>3, <2>1, FeedInv
  <2> QED BY <1>1, <1>3, <2>2, CallingInv
<1> QED BY <1>2, <1>3 DEF udp_app_fuzz_input

\* The callbacks.
LEMMA CallbackInv == IInv /\ Callback => IInv'
<1> SUFFICES ASSUME IInv, Callback PROVE IInv'
  OBVIOUS
<1>0. Calling({"stack"}) \/ Calling({"timeouts", "timeouts_again"})
         => Calling({"stack", "timeouts", "timeouts_again"})
  BY DEF Calling
<1>1. CASE tcp_client_connected
  BY <1>1, TcpFeeds DEF tcp_client_connected
<1>2. CASE tcp_server_accept
  <2>1. PcbType
    BY <1>2 DEF tcp_server_accept, PcbType, IInv, TypeOK
  <2> QED BY <1>0, <1>2, <2>1, CallingInv DEF tcp_server_accept
<1>3. CASE udp_recv
  <2>1. PcbType
    BY <1>3 DEF udp_recv, PcbType, IInv, TypeOK
  <2>2. CASE udp_app_fuzz_input
    BY <1>3, <2>2, UdpFeeds DEF udp_recv
  <2>3. CASE UNCHANGED <<pool, fed>>
    BY <1>0, <1>3, <2>1, <2>3, CallingInv DEF udp_recv
  <2> QED BY <1>3, <2>2, <2>3 DEF udp_recv
<1>4. ASSUME NEW c \in {"client", "server"}, tcp_recv(c) PROVE IInv'
  <2>1. CASE tcp_app_fuzz_input(c)
    BY <1>4, <2>1, TcpFeeds DEF tcp_recv
  <2>2. CASE pcb' = [pcb EXCEPT ![c] = "closed"] /\ UNCHANGED <<pool, fed>>
    <3>1. PcbType
      BY <2>2 DEF PcbType, IInv, TypeOK
    <3> QED BY <1>0, <1>4, <2>2, <3>1, CallingInv DEF tcp_recv
  <2> QED BY <1>4, <2>1, <2>2 DEF tcp_recv
<1>5. ASSUME NEW c \in {"client", "server"}, tcp_poll(c) PROVE IInv'
  <2>1. PcbType
    BY <1>5 DEF tcp_poll, PcbType, IInv, TypeOK
  <2> QED BY <1>0, <1>5, <2>1, CallingInv DEF tcp_poll
<1>6. ASSUME NEW c \in {"client", "server"}, tcp_err(c) PROVE IInv'
  <2>1. PcbType
    BY <1>6 DEF tcp_err, PcbType, IInv, TypeOK
  <2> QED BY <1>6, <2>1, CallingInv DEF tcp_err
<1> QED BY <1>1, <1>2, <1>3, <1>4, <1>5, <1>6
   DEF Callback, tcp_client_recv, tcp_server_recv, tcp_client_poll, tcp_server_poll,
       tcp_client_err, tcp_server_err

\* One round of the loop: what is left after the length field bounds the frame.
LEMMA InputPktsInv == IInv /\ InputPkts => IInv'
<1> SUFFICES ASSUME IInv, InputPkts PROVE IInv'
  OBVIOUS
<1>0. /\ minlen \in {2, 6} /\ remfuzz_len > minlen /\ remfuzz_len \in Nat
      /\ type # "SINGLE" /\ pc = "input_pkts"
  BY DEF InputPkts, minlen, IInv, TypeOK, PoolInBounds
<1>1. PICK raw \in Raws :
          LET n == Rest(Clamp(raw % 2048, 1514), remfuzz_len - minlen)
          IN  /\ frame_len' = n
              /\ pc' = IF n = 0 THEN "input_pkts"
                       ELSE IF type = "MULTIPACKET_TIME" THEN "timeouts" ELSE "input_pkt"
  BY DEF InputPkts
<1>2. frame_len' \in Nat /\ frame_len' <= remfuzz_len - minlen
  <2>1. U16(1514) /\ remfuzz_len - minlen \in Nat
    BY <1>0, SMT DEF U16, MaxLen
  <2> QED BY <1>1, <2>1, ClampBounds, RestBounds
<1>3. pc' \in {"input_pkts", "timeouts", "input_pkt"}
  BY <1>1
<1>4. /\ remfuzz_ptr' = remfuzz_ptr + minlen /\ remfuzz_len' = remfuzz_len - minlen
      /\ headers' = headers + minlen /\ calls' = 0
      /\ UNCHANGED <<argv, type, total, pcb, framed, fed>>
  BY DEF InputPkts
<1> HIDE DEF InputPkts
<1>5. TypeOK'
  BY <1>0, <1>2, <1>3, <1>4, CallsAssumption DEF IInv, TypeOK
<1>7. FrameSize'
  <2>1. U16(1514) /\ remfuzz_len - minlen \in Nat
    BY <1>0, SMT DEF U16, MaxLen
  <2>2. U16(Clamp(raw % 2048, 1514))
    BY <2>1, ClampBounds
  <2>3. frame_len' <= Clamp(raw % 2048, 1514)
    BY <1>1, <2>1, <2>2, RestBounds
  <2> QED BY <1>2, <2>2, <2>3, Sizes DEF U16, FrameSize
<1>6. (PoolInBounds /\ UsedOnce /\ FrameIsThere)'
  BY <1>0, <1>2, <1>4 DEF IInv, TypeOK, PoolInBounds, UsedOnce, FrameIsThere
<1> QED BY <1>0, <1>3, <1>4, <1>5, <1>6, <1>7 DEF IInv, BeforeRead, SingleInv, FrameSize, UsedUp

\* Reading the data sets up the pool.
LEMMA ReadInv == IInv /\ (ReadFile \/ read_data_from_udp) => IInv'
<1> SUFFICES ASSUME IInv, ReadFile \/ read_data_from_udp PROVE IInv'
  OBVIOUS
<1>0. pc = "read" /\ UNCHANGED <<argv, type, frame_len, pcb, calls, history>>
  BY DEF ReadFile, read_data_from_udp
<1>1. ASSUME NEW n \in Nat, n <= PktBuf, Load(n) PROVE IInv'
  BY <1>0, <1>1 DEF Load, history, IInv, TypeOK, PoolInBounds, UsedOnce, FrameIsThere,
     BeforeRead, SingleInv, FrameSize, UsedUp
<1>2. CASE pc' \in {"aborted", "exit"} /\ UNCHANGED <<total, pool>>
  BY <1>0, <1>2 DEF pool, history, IInv, TypeOK, PoolInBounds, UsedOnce, FrameIsThere,
     BeforeRead, SingleInv, FrameSize, UsedUp
<1>3. 0 \in Nat /\ 0 <= PktBuf
  BY Sizes
<1>4. \A n \in Totals[type] : n \in Nat /\ n <= PktBuf
  BY TotalsAssumption DEF IInv, TypeOK
<1> QED BY <1>1, <1>2, <1>3, <1>4 DEF ReadFile, read_data_from_udp

\* Every step keeps the invariant.
LEMMA InvStep == IInv /\ [Next]_vars => IInv'
<1> SUFFICES ASSUME IInv, [Next]_vars PROVE IInv'
  OBVIOUS
<1> USE DEF IInv
<1>1. CASE ReadFile \/ read_data_from_udp
  BY <1>1, ReadInv
<1>2. CASE InputPkts
  BY <1>2, InputPktsInv
<1>3. CASE InputSingle
  BY <1>3, CallsAssumption DEF InputSingle, pool, history, TypeOK, PoolInBounds, UsedOnce,
     FrameIsThere, BeforeRead, SingleInv, FrameSize, UsedUp
<1>4. CASE InputPktsDone
  BY <1>4 DEF InputPktsDone, pool, history, minlen, TypeOK, PoolInBounds, UsedOnce,
     FrameIsThere, BeforeRead, SingleInv, FrameSize, UsedUp
<1>5. CASE InputPkt
  BY <1>5 DEF InputPkt, pool, TypeOK, PoolInBounds, UsedOnce,
     FrameIsThere, BeforeRead, SingleInv, FrameSize, UsedUp
<1>6. CASE PktTooBig
  <2>1. /\ pc = "input_pkt" /\ pc' = "done" /\ frame_len > MaxLen
        /\ UNCHANGED <<argv, type, total, remfuzz_ptr, remfuzz_len, frame_len, pcb, calls,
                      headers, framed, fed>>
    BY <1>6 DEF PktTooBig, pool, history
  <2>2. type = "SINGLE"
    BY <2>1, Sizes DEF FrameSize, TypeOK
  <2>3. total > MaxLen /\ remfuzz_ptr = 0
    BY <2>1, <2>2, Sizes DEF SingleInv, PoolInBounds, TypeOK
  <2>4. TypeOK'
    BY <2>1 DEF TypeOK
  <2>5. UsedUp'
    BY <2>1, <2>2, <2>3 DEF UsedUp
  <2> QED BY <2>1, <2>4, <2>5 DEF PoolInBounds, UsedOnce, FrameIsThere, BeforeRead,
             SingleInv, FrameSize
<1>7. CASE StackReturns
  BY <1>7, CallsAssumption DEF StackReturns, pool, history, TypeOK, PoolInBounds, UsedOnce,
     FrameIsThere, BeforeRead, SingleInv, FrameSize, UsedUp
<1>8. CASE TimeoutsChecked
  BY <1>8, CallsAssumption DEF TimeoutsChecked, pool, history, TypeOK, PoolInBounds, UsedOnce,
     FrameIsThere, BeforeRead, SingleInv, FrameSize, UsedUp
<1>9. CASE Callback
  BY <1>9, CallbackInv
<1>10. CASE Finished \/ UNCHANGED vars
  BY <1>10 DEF Finished, vars, pool, history, minlen, TypeOK, PoolInBounds, UsedOnce,
     FrameIsThere, BeforeRead, SingleInv, FrameSize, UsedUp
<1> QED BY <1>1, <1>2, <1>3, <1>4, <1>5, <1>6, <1>7, <1>8, <1>9, <1>10 DEF Next

\* The inductive invariant holds in every run of the fuzz test.
THEOREM Invariant == Spec => []IInv
BY InvInit, InvStep, PTL DEF Spec

\* Every length is a number, the callbacks of a call stay within their bound, and a
\* connection is in a state its callbacks know.
THEOREM TypeCorrect == Spec => []TypeOK
<1>1. IInv => TypeOK
  BY DEF IInv
<1> QED BY <1>1, Invariant, PTL

\* Pointer and length of the pool stay inside the buffer that was read, whatever
\* the length fields hold and whichever callbacks run in between.
THEOREM PoolStaysInBounds == Spec => []PoolInBounds
<1>1. IInv => PoolInBounds
  BY DEF IInv
<1> QED BY <1>1, Invariant, PTL

\* The length limited before the timers run is still there after them.
THEOREM FrameStaysThere == Spec => []FrameIsThere
<1>1. IInv => FrameIsThere
  BY DEF IInv
<1> QED BY <1>1, Invariant, PTL

\* No byte of the data is used twice and none is lost.
THEOREM EveryByteOnce == Spec => []UsedOnce
<1>1. IInv => UsedOnce
  BY DEF IInv
<1> QED BY <1>1, Invariant, PTL

\* The applications get nothing of a single packet.
THEOREM SinglePacketOnly == Spec => []SingleFeedsNobody
<1>1. IInv => SingleFeedsNobody
  BY DEF IInv, SingleInv, SingleFeedsNobody
<1> QED BY <1>1, Invariant, PTL

\* A run that ends normally has used up the data.
THEOREM DataIsUsedUp == Spec => []UsedUp
<1>1. IInv => UsedUp
  BY DEF IInv
<1> QED BY <1>1, Invariant, PTL
=============================================================================
