------------------------------ MODULE FuzzPool ------------------------------
(***************************************************************************)
(* examples/09_aflnet_dhcp_server/fuzz_common.c: lwip_fuzztest reads one   *)
(* buffer of fuzz data and feeds it to the TCP/IP stack, as one packet or  *)
(* as a series of length-prefixed ones.  What is left of the buffer, the   *)
(* pool (remfuzz_ptr, remfuzz_len), is shared: while the stack processes a *)
(* packet it calls back into the test applications, and these take what    *)
(* they send from the same pool.  Everything is one thread; pc says where  *)
(* in input_pkts it is, and "stack" and the two timeout checks are where   *)
(* lwIP (external) may call the application back.  Of the data only the    *)
(* lengths matter; a length field read from the pool may hold any value.   *)
(***************************************************************************)
EXTENDS Integers, Sequences

CONSTANTS Argvs,     \* command lines, without the program name
          Types,     \* the fuzz types lwip_fuzztest is called with
          Totals,    \* for each type, bytes of fuzz data: at most sizeof(pktbuf)
          Raws,      \* contents of the 16-bit length fields
          Apps,      \* the test applications that are set up
          MaxCalls   \* bound: callbacks per packet and per timeout check

TypeNames == {"SINGLE", "MULTIPACKET", "MULTIPACKET_TIME"}
AppNames  == {"TCP_CLIENT", "TCP_SERVER", "UDP_CLIENT", "UDP_SERVER"}

MaxLen == 65535    \* the largest 16-bit length
PktBuf == 200000   \* sizeof(pktbuf)

ASSUME TypesAssumption  == Types \subseteq TypeNames /\ Apps \subseteq AppNames
ASSUME TotalsAssumption == \A t \in TypeNames : \A n \in Totals[t] : n \in Nat /\ n <= PktBuf
ASSUME RawsAssumption   == \A raw \in Raws : raw \in Nat /\ raw <= MaxLen
ASSUME CallsAssumption  == MaxCalls \in Nat

VARIABLES argv, type, pc,
          total,                 \* len in lwip_fuzztest
          remfuzz_ptr, remfuzz_len,  \* the pool; the pointer as an offset
          frame_len,             \* the local of input_pkts
          pcb,                   \* the TCP connections of the applications
          calls,                 \* callbacks in the current call into the stack
          headers, framed, fed   \* history: bytes used as length and delay
                                 \* fields, as packets, as application data

pool    == <<remfuzz_ptr, remfuzz_len>>
history == <<headers, framed, fed>>
vars    == <<argv, type, pc, total, pool, frame_len, pcb, calls, history>>

\* Mutant of Rest: a length may exceed what is left.
Rest_Ignored(n, rest) == n

\* LWIP_MIN, and the cut of a 16-bit length to what is left of the pool, with
\* the cast to u16_t that goes with it.
Clamp(n, bound) == IF n < bound THEN n ELSE bound
Rest(n, rest)   == IF n > rest THEN rest % (MaxLen + 1) ELSE n

minlen == IF type = "MULTIPACKET_TIME" THEN 6 ELSE 2

Init ==
    /\ argv \in Argvs /\ type \in Types /\ pc = "read"
    /\ total = 0 /\ remfuzz_ptr = 0 /\ remfuzz_len = 0 /\ frame_len = 0
    /\ pcb = [c \in {"client", "server"} |->
                 IF c = "client" /\ "TCP_CLIENT" \in Apps THEN "connecting"
                 ELSE IF c = "server" /\ "TCP_SERVER" \in Apps THEN "listen"
                 ELSE "none"]
    /\ calls = 0 /\ headers = 0 /\ framed = 0 /\ fed = 0

-----------------------------------------------------------------------------
(* Where the fuzz data comes from. *)

\* argc counts the program name.  The second test never decides: a command line
\* long enough for it has passed the first.
Source(args) ==
    LET argc == Len(args) + 1
    IN  IF argc > 1 THEN "file"
        ELSE IF argc > 2 /\ args[1] = "--udp" THEN "udp_at" ELSE "udp"

\* input_pkts sets the pool to what was read.
Load(n) == /\ total' = n /\ remfuzz_ptr' = 0 /\ remfuzz_len' = n
           /\ pc' = "input_pkts"

\* A file that cannot be opened is an assertion failure.
ReadFile ==
    /\ pc = "read" /\ Source(argv) = "file"
    /\ \/ \E n \in Totals[type] : Load(n)
       \/ pc' = "aborted" /\ UNCHANGED <<total, pool>>
    /\ UNCHANGED <<argv, type, frame_len, pcb, calls, history>>

\* One datagram, or nothing at all after five seconds or on an error of the
\* socket; a port that cannot be bound ends the program.
read_data_from_udp ==
    /\ pc = "read" /\ Source(argv) # "file"
    /\ \/ \E n \in {n \in Totals[type] : n <= 65507} \cup {0} : Load(n)
       \/ pc' = "exit" /\ UNCHANGED <<total, pool>>
    /\ UNCHANGED <<argv, type, frame_len, pcb, calls, history>>

-----------------------------------------------------------------------------
(* input_pkts and input_pkt. *)

\* Mutant of InputPkts: the header is left in the pool when the packet is empty.
InputPkts_Peek ==
    /\ pc = "input_pkts" /\ type # "SINGLE" /\ remfuzz_len > minlen
    /\ \E raw \in Raws :
          LET rest == remfuzz_len - minlen
              n    == Rest(Clamp(raw % 2048, 1514), rest)
              used == IF n = 0 THEN 0 ELSE minlen
          IN  /\ frame_len' = n
              /\ pc' = IF n = 0 THEN "timeouts_again"
                       ELSE IF type = "MULTIPACKET_TIME" THEN "timeouts" ELSE "input_pkt"
              /\ remfuzz_ptr' = remfuzz_ptr + used
              /\ remfuzz_len' = remfuzz_len - used
              /\ headers' = headers + used
    /\ calls' = 0
    /\ UNCHANGED <<argv, type, total, pcb, framed, fed>>

\* The length field, after the delay in a series with times: eleven bits of it,
\* at most one Ethernet frame and no more than there is.
InputPkts ==
    /\ pc = "input_pkts" /\ type # "SINGLE" /\ remfuzz_len > minlen
    /\ \E raw \in Raws :
          LET rest == remfuzz_len - minlen
              n    == Rest(Clamp(raw % 2048, 1514), rest)
          IN  /\ frame_len' = n
              /\ pc' = IF n = 0 THEN "input_pkts"
                       ELSE IF type = "MULTIPACKET_TIME" THEN "timeouts" ELSE "input_pkt"
    /\ remfuzz_ptr' = remfuzz_ptr + minlen
    /\ remfuzz_len' = remfuzz_len - minlen
    /\ headers' = headers + minlen
    /\ calls' = 0
    /\ UNCHANGED <<argv, type, total, pcb, framed, fed>>

InputSingle ==
    /\ pc = "input_pkts" /\ type = "SINGLE"
    /\ pc' = "input_pkt" /\ frame_len' = remfuzz_len /\ calls' = 0
    /\ UNCHANGED <<argv, type, total, pool, pcb, history>>

\* Mutant of InputPktsDone: the loop ends at the first length that does not fit.
InputPktsDone_Early ==
    /\ pc = "input_pkts" /\ type # "SINGLE" /\ remfuzz_len <= minlen + 1
    /\ pc' = "done"
    /\ UNCHANGED <<argv, type, total, pool, frame_len, pcb, calls, history>>

InputPktsDone ==
    /\ pc = "input_pkts" /\ type # "SINGLE" /\ remfuzz_len <= minlen
    /\ pc' = "done"
    /\ UNCHANGED <<argv, type, total, pool, frame_len, pcb, calls, history>>

\* Mutant of InputPkt: the packet is copied and the pool left as it was.
InputPkt_NoAdvance ==
    /\ pc = "input_pkt" /\ frame_len <= MaxLen
    /\ \/ /\ framed' = framed + frame_len
          /\ pc' = "stack" /\ UNCHANGED pool
       \/ pc' = "aborted" /\ UNCHANGED <<pool, framed>>
    /\ UNCHANGED <<argv, type, total, frame_len, pcb, calls, headers, fed>>

\* The packet is copied out of the pool, and the pool advanced, before the stack
\* sees it.  Out of packet buffers the assertion fails.
InputPkt ==
    /\ pc = "input_pkt" /\ frame_len <= MaxLen
    /\ \/ /\ remfuzz_ptr' = remfuzz_ptr + frame_len
          /\ remfuzz_len' = remfuzz_len - frame_len
          /\ framed' = framed + frame_len
          /\ pc' = "stack"
       \/ pc' = "aborted" /\ UNCHANGED <<pool, framed>>
    /\ UNCHANGED <<argv, type, total, frame_len, pcb, calls, headers, fed>>

\* Only a single packet can be that large, and its length is not used up.
PktTooBig ==
    /\ pc = "input_pkt" /\ frame_len > MaxLen
    /\ pc' = "done"
    /\ UNCHANGED <<argv, type, total, pool, frame_len, pcb, calls, history>>

\* netif->input returns; a series checks the timeouts again, a single packet
\* does not.
StackReturns ==
    /\ pc = "stack"
    /\ pc' = IF type = "SINGLE" THEN "done" ELSE "timeouts_again"
    /\ calls' = 0
    /\ UNCHANGED <<argv, type, total, pool, frame_len, pcb, history>>

TimeoutsChecked ==
    /\ \/ pc = "timeouts" /\ pc' = "input_pkt"
       \/ pc = "timeouts_again" /\ pc' = "input_pkts"
    /\ calls' = 0
    /\ UNCHANGED <<argv, type, total, pool, frame_len, pcb, history>>

-----------------------------------------------------------------------------
(* The applications: callbacks of lwIP, one at a time. *)

\* The stack may call back while it processes a packet and when timers expire.
Calling(places) ==
    /\ pc \in places /\ calls < MaxCalls /\ calls' = calls + 1
    /\ UNCHANGED <<argv, type, pc, total, frame_len, headers, framed>>

\* n bytes of application data and their length field leave the pool.
Feed(n) == /\ remfuzz_ptr' = remfuzz_ptr + 2 + n
           /\ remfuzz_len' = remfuzz_len - 2 - n
           /\ fed' = fed + 2 + n

\* tcp_app_fuzz_input: write, or close when the length is zero.
tcp_app_fuzz_input(c) ==
    \/ remfuzz_len <= 2 /\ pcb' = [pcb EXCEPT ![c] = "open"] /\ UNCHANGED <<pool, fed>>
    \/ /\ remfuzz_len > 2
       /\ \E raw \in Raws :
             LET n == Rest(Clamp(raw, 65495), remfuzz_len - 2)
             IN  /\ Feed(n)
                 /\ pcb' = [pcb EXCEPT ![c] = IF n = 0 THEN "closed" ELSE "open"]

\* udp_app_fuzz_input: send, unless the length is zero.
udp_app_fuzz_input ==
    \/ remfuzz_len <= 2 /\ UNCHANGED <<pool, fed>>
    \/ remfuzz_len > 2 /\ \E raw \in Raws : Feed(Rest(Clamp(raw, 65507), remfuzz_len - 2))

tcp_client_connected ==
    /\ pcb["client"] = "connecting" /\ Calling({"stack"})
    /\ tcp_app_fuzz_input("client")

\* tcp_client_recv and tcp_server_recv: data, or the end of the connection.
tcp_recv(c) ==
    /\ pcb[c] = "open" /\ Calling({"stack"})
    /\ \/ tcp_app_fuzz_input(c)
       \/ pcb' = [pcb EXCEPT ![c] = "closed"] /\ UNCHANGED <<pool, fed>>

\* A connection to the server, which may be given up for an error.
tcp_server_accept ==
    /\ pcb["server"] \in {"listen", "closed"} /\ Calling({"stack"})
    /\ pcb' \in {pcb, [pcb EXCEPT !["server"] = "open"]}
    /\ UNCHANGED <<pool, fed>>

\* A datagram to answer, or none.
udp_recv ==
    /\ Apps \cap {"UDP_CLIENT", "UDP_SERVER"} # {} /\ Calling({"stack"})
    /\ udp_app_fuzz_input \/ UNCHANGED <<pool, fed>>
    /\ UNCHANGED pcb

\* Mutant of tcp_poll: the poll callbacks send as the recv callbacks do.
tcp_poll_Feeds(c) ==
    /\ pcb[c] = "open" /\ Calling({"timeouts", "timeouts_again"})
    /\ tcp_app_fuzz_input(c)

\* The poll callbacks of both ends do nothing.
tcp_poll(c) ==
    /\ pcb[c] = "open" /\ Calling({"timeouts", "timeouts_again"})
    /\ UNCHANGED <<pool, fed, pcb>>

\* The error callbacks do nothing; the connection is gone.
tcp_err(c) ==
    /\ pcb[c] \in {"open", "connecting"}
    /\ Calling({"stack", "timeouts", "timeouts_again"})
    /\ pcb' = [pcb EXCEPT ![c] = "closed"]
    /\ UNCHANGED <<pool, fed>>

tcp_client_recv == tcp_recv("client")
tcp_server_recv == tcp_recv("server")
tcp_client_poll == tcp_poll("client")
tcp_server_poll == tcp_poll("server")
tcp_client_err  == tcp_err("client")
tcp_server_err  == tcp_err("server")

Callback == \/ tcp_client_connected \/ tcp_client_recv \/ tcp_client_poll \/ tcp_client_err
            \/ tcp_server_accept \/ tcp_server_recv \/ tcp_server_poll \/ tcp_server_err
            \/ udp_recv

\* lwip_fuzztest has returned, or the process has ended.
Finished == pc \in {"done", "aborted", "exit"} /\ UNCHANGED vars

Next == \/ ReadFile \/ read_data_from_udp
        \/ InputPkts \/ InputSingle \/ InputPktsDone \/ InputPkt \/ PktTooBig
        \/ StackReturns \/ TimeoutsChecked \/ Callback \/ Finished

\* One thread that runs to its end; the stack returns from every call.
Spec == Init /\ [][Next]_vars /\ WF_vars(Next)

-----------------------------------------------------------------------------
(* Properties. *)

TypeOK ==
    /\ type \in TypeNames
    /\ pc \in {"read", "input_pkts", "input_pkt", "timeouts", "stack", "timeouts_again",
               "done", "aborted", "exit"}
    /\ total \in Nat /\ total <= PktBuf /\ remfuzz_ptr \in Nat /\ remfuzz_len \in Nat
    /\ frame_len \in Nat /\ calls \in 0 .. MaxCalls
    /\ headers \in Nat /\ framed \in Nat /\ fed \in Nat
    /\ pcb \in [{"client", "server"} ->
                   {"none", "connecting", "listen", "open", "closed"}]

\* The pool is the rest of the buffer whichever callbacks have run: pointer and
\* length move together and the length, which is unsigned, never goes below
\* zero (lines 213-214, 246-251, 296-315 and 499-519).
PoolInBounds ==
    remfuzz_ptr >= 0 /\ remfuzz_len >= 0 /\ remfuzz_ptr + remfuzz_len = total

\* The length of a packet is limited to what is left (line 254) before the
\* timers run (line 264) and used after (line 266): it still is no more than
\* what is left, because no callback a timer can trigger takes from the pool.
FrameIsThere ==
    pc \in {"timeouts", "input_pkt"} => frame_len <= remfuzz_len

\* Every byte the pool gave was used once, for one purpose: as a length or delay
\* field, in a packet, or by an application.
UsedOnce == headers + framed + fed = remfuzz_ptr

\* A single packet leaves nothing for the applications it calls: they only ever
\* send in a series (lines 213-214 run before line 216).
SingleFeedsNobody == type = "SINGLE" => fed = 0

\* The data is used up when the run ends normally, but for what is too short to
\* be a packet or, alone, too long to be one.
UsedUp == pc = "done" =>
    IF type = "SINGLE" THEN remfuzz_len = 0 \/ (total > MaxLen /\ remfuzz_ptr = 0)
                       ELSE remfuzz_len <= minlen

\* Every run ends, whatever lengths the data holds, zero included: each round of
\* the loop takes at least its length field from the pool.
RunEnds == <>(pc \in {"done", "aborted", "exit"})
=============================================================================
