---------------------------- MODULE FuzzTransport ----------------------------
(***************************************************************************)
(* examples/10_afl_mqtt/src/esp_transport_fuzz.c: the in-memory transport  *)
(* that plays the broker for a fuzzed MQTT client.  Its state is the C     *)
(* struct fuzz_state_t, field by field; the byte buffer rx of length       *)
(* rx_len is the sequence rx, and (in, in_len) the sequence in.  One       *)
(* action per function of the transport; the client calls them in any      *)
(* order.  A byte is its value, because the replies are recognised and     *)
(* built byte by byte.                                                     *)
(***************************************************************************)
EXTENDS Integers, Sequences, FiniteSets

CONSTANTS Inputs,     \* contents of the fuzz input
          Packets,    \* what the client writes: [kind, id, bytes]
          ModeArgs,   \* the "mode" argument of the factory
          Frags,      \* the "frag" argument of the factory
          ReadLens,   \* lengths of the client's read buffers
          MaxReplies  \* bound: automatic replies per transport

Byte == 0 .. 255

ASSUME InputsAssumption   == Inputs \subseteq Seq(Byte)
ASSUME PacketsAssumption  == \A p \in Packets : p.bytes \in Seq(Byte)
ASSUME ArgsAssumption     == ModeArgs \subseteq Int /\ Frags \subseteq Int
ASSUME ReadLensAssumption == ReadLens \subseteq Nat \ {0}
ASSUME BoundAssumption    == MaxReplies \in Nat

Modes == {"HANDSHAKE", "CONNECTED", "SUBSCRIBE", "QOS", "MQTT5", "DYNAMIC"}

Ops == {"none", "init", "connect", "read", "write", "poll_read", "close", "destroy"}

VARIABLES alive,      \* the transport and its fuzz_state_t are allocated
          in, in_off, rx, rx_off, connected, autopilot, mode, frag,
          ret,        \* the last call and what it returned
          out,        \* history: every byte the client has read
          replies     \* history: the packets answered and the frames pushed

state == <<in, in_off, rx, rx_off, connected, autopilot, mode, frag>>
vars  == <<alive, state, ret, out, replies>>

-----------------------------------------------------------------------------
(* The MQTT bytes the transport reads and writes. *)

Type(buf) == 16 * (buf[1] \div 16)

\* Mutant of VarintBytes: the loop gives up one byte early.
VarintBytes_Three(p) ==
    IF p = <<>> THEN 0
    ELSE CHOOSE i \in 1 .. Len(p) :
            /\ p[i] < 128 \/ i = 3 \/ i = Len(p)
            /\ \A j \in 1 .. i - 1 : p[j] >= 128 /\ j # 3

\* Bytes parse_varint_remaining consumes of p: up to the first one without a
\* continuation bit, but no more than four and no more than there are.
VarintBytes(p) ==
    IF p = <<>> THEN 0
    ELSE CHOOSE i \in 1 .. Len(p) :
            /\ p[i] < 128 \/ i = 4 \/ i = Len(p)
            /\ \A j \in 1 .. i - 1 : p[j] >= 128 /\ j # 4

HeaderLen(buf) == 1 + VarintBytes(Tail(buf))
HasId(buf)     == Len(buf) >= HeaderLen(buf) + 2
IdIn(buf)      == SubSeq(buf, HeaderLen(buf) + 1, HeaderLen(buf) + 2)

Connack(m)    == IF m = "MQTT5" THEN <<32, 3, 0, 0, 0>> ELSE <<32, 2, 0, 0>>
Pingresp      == <<208, 0>>
Suback(m, id) == IF m = "MQTT5" THEN <<144, 4>> \o id \o <<0, 0>>
                                ELSE <<144, 3>> \o id \o <<0>>
Pubcomp(id)   == <<112, 2>> \o id

\* The frame fuzz_write pushes for a written buffer, <<>> when it pushes none.
Answer(m, buf) ==
    CASE buf = <<>> -> <<>>
      [] buf # <<>> /\ Type(buf) = 16 /\ m \in {"CONNECTED", "MQTT5"}
            -> Connack(m)
      [] buf # <<>> /\ Type(buf) = 192 -> Pingresp
      [] buf # <<>> /\ Type(buf) = 128
            /\ m \in {"SUBSCRIBE", "CONNECTED", "MQTT5"} /\ HasId(buf)
            -> Suback(m, IdIn(buf))
      [] buf # <<>> /\ Type(buf) = 96 /\ m \in {"QOS", "CONNECTED"} /\ HasId(buf)
            -> Pubcomp(IdIn(buf))
      [] OTHER -> <<>>

\* The client writes one packet of MQTT at a time: the first byte is of its kind
\* and its id is behind the remaining length, of which at most three bytes have a
\* continuation bit and one has not.  What is written may end before the id.
Control == [CONNECT |-> 16, PINGREQ |-> 192, SUBSCRIBE |-> 128, PUBREL |-> 96]
WellFormed(packet) ==
    LET buf == packet.bytes
    IN  /\ \A kind \in DOMAIN Control : Type(buf) = Control[kind] <=> packet.kind = kind
        /\ packet.kind \in {"SUBSCRIBE", "PUBREL"} =>
              \E k \in 2 .. 5 :
                 /\ k <= Len(buf) /\ buf[k] < 128 /\ \A j \in 2 .. k - 1 : buf[j] >= 128
                 /\ Len(buf) >= k + 2 => packet.id = SubSeq(buf, k + 1, k + 2)
ASSUME MqttAssumption == \A p \in Packets : p.bytes # <<>> => WellFormed(p)

-----------------------------------------------------------------------------
(* Creation: the mode of the argument, or of the first byte of the input. *)

ModeOfArg(arg) ==
    CASE arg = 1 -> "CONNECTED" [] arg = 2 -> "SUBSCRIBE" [] arg = 3 -> "QOS"
      [] arg = 4 -> "MQTT5"     [] arg = 5 -> "DYNAMIC"   [] OTHER -> "HANDSHAKE"

ModeOfSelector(b) ==
    LET sel == b % 16
    IN  IF sel \in 1 .. 4 THEN ModeOfArg(sel) ELSE "HANDSHAKE"

HasSelector(arg, data) == ModeOfArg(arg) = "DYNAMIC" /\ Len(data) > 0

Init ==
    /\ alive = FALSE
    /\ in = <<>> /\ in_off = 0 /\ rx = <<>> /\ rx_off = 0
    /\ connected = FALSE /\ autopilot = FALSE /\ mode = "HANDSHAKE" /\ frag = 0
    /\ out = <<>> /\ replies = <<>>
    /\ ret = [op |-> "none", val |-> 0]

esp_transport_fuzz_init(data, auto, arg, f) ==
    /\ ~alive /\ alive' = TRUE
    /\ in' = data
    /\ in_off' = IF HasSelector(arg, data) THEN 1 ELSE 0
    /\ mode' = IF HasSelector(arg, data) THEN ModeOfSelector(data[1])
                                         ELSE ModeOfArg(arg)
    /\ rx' = <<>> /\ rx_off' = 0
    /\ connected' = FALSE /\ autopilot' = auto /\ frag' = f
    /\ ret' = [op |-> "init", val |-> 0]
    /\ out' = <<>> /\ replies' = <<>>

-----------------------------------------------------------------------------
(* The operations of the transport. *)

fuzz_connect ==
    /\ alive
    /\ connected' = TRUE
    /\ ret' = [op |-> "connect", val |-> 0]
    /\ UNCHANGED <<alive, in, in_off, rx, rx_off, autopilot, mode, frag, out, replies>>

\* Mutant of ReadSize: the fragment size limits nothing.
ReadSize_NoFrag(len, avail) == IF len < avail THEN len ELSE avail

\* How many of "avail" bytes one read into a buffer of "len" returns.
ReadSize(len, avail) ==
    LET cap == IF frag > 0 /\ frag < len THEN frag ELSE len
    IN  IF cap < avail THEN cap ELSE avail

RxAvail == IF Len(rx) > rx_off THEN Len(rx) - rx_off ELSE 0

ReadFails ==
    /\ ~connected \/ (RxAvail = 0 /\ in_off >= Len(in))
    /\ ret' = [op |-> "read", val |-> -1]
    /\ UNCHANGED <<alive, state, out, replies>>

ReadReply(len) ==
    LET n == ReadSize(len, RxAvail)
        drained == rx_off + n = Len(rx)
    IN  /\ connected /\ RxAvail > 0
        /\ out' = out \o SubSeq(rx, rx_off + 1, rx_off + n)
        /\ rx_off' = IF drained THEN 0 ELSE rx_off + n
        /\ rx' = IF drained THEN <<>> ELSE rx
        /\ ret' = [op |-> "read", val |-> n]
        /\ UNCHANGED <<alive, in, in_off, connected, autopilot, mode, frag, replies>>

ReadInput(len) ==
    LET n == ReadSize(len, Len(in) - in_off)
    IN  /\ connected /\ RxAvail = 0 /\ in_off < Len(in)
        /\ out' = out \o SubSeq(in, in_off + 1, in_off + n)
        /\ in_off' = in_off + n
        /\ ret' = [op |-> "read", val |-> n]
        /\ UNCHANGED <<alive, in, rx, rx_off, connected, autopilot, mode, frag, replies>>

fuzz_read(len) == alive /\ (ReadFails \/ ReadReply(len) \/ ReadInput(len))

\* Mutant of push_rx: a started buffer counts as a consumed one.
push_rx_EagerReset(packet, frame) ==
    LET kept == IF rx_off > 0 THEN <<>> ELSE rx
    IN  /\ rx_off' = 0
        /\ \/ /\ rx' = kept \o frame
              /\ replies' = Append(replies, [packet |-> packet, frame |-> frame])
           \/ rx' = kept /\ replies' = replies

\* realloc may fail, and then the reply is dropped without a word.
push_rx(packet, frame) ==
    LET drained == rx_off > 0 /\ Len(rx) - rx_off = 0
        kept    == IF drained THEN <<>> ELSE rx
    IN  /\ rx_off' = IF drained THEN 0 ELSE rx_off
        /\ \/ /\ rx' = kept \o frame
              /\ replies' = Append(replies, [packet |-> packet, frame |-> frame])
           \/ rx' = kept /\ replies' = replies

fuzz_write(packet) ==
    LET frame == IF autopilot THEN Answer(mode, packet.bytes) ELSE <<>>
    IN  /\ alive
        /\ \/ frame = <<>> /\ UNCHANGED <<rx, rx_off, replies>>
           \/ /\ frame # <<>> /\ Len(replies) < MaxReplies
              /\ push_rx(packet, frame)
        /\ ret' = [op |-> "write", val |-> Len(packet.bytes)]
        /\ UNCHANGED <<alive, in, in_off, connected, autopilot, mode, frag, out>>

\* Mutant of fuzz_poll_read: off by one at the end of the input.
fuzz_poll_read_OffByOne ==
    /\ alive
    /\ ret' = [op |-> "poll_read", val |-> IF in_off <= Len(in) THEN 1 ELSE -1]
    /\ UNCHANGED <<alive, state, out, replies>>

fuzz_poll_read ==
    /\ alive
    /\ ret' = [op |-> "poll_read", val |-> IF in_off < Len(in) THEN 1 ELSE -1]
    /\ UNCHANGED <<alive, state, out, replies>>

fuzz_close ==
    /\ alive
    /\ connected' = FALSE
    /\ ret' = [op |-> "close", val |-> 0]
    /\ UNCHANGED <<alive, in, in_off, rx, rx_off, autopilot, mode, frag, out, replies>>

fuzz_destroy ==
    /\ alive /\ alive' = FALSE
    /\ in' = <<>> /\ in_off' = 0 /\ rx' = <<>> /\ rx_off' = 0
    /\ connected' = FALSE /\ autopilot' = FALSE /\ mode' = "HANDSHAKE" /\ frag' = 0
    /\ out' = <<>> /\ replies' = <<>>
    /\ ret' = [op |-> "destroy", val |-> 0]

-----------------------------------------------------------------------------
Create == \E data \in Inputs, auto \in BOOLEAN, arg \in ModeArgs, f \in Frags :
             esp_transport_fuzz_init(data, auto, arg, f)

\* Every call the client may make on a transport it holds.
Call == \/ fuzz_connect \/ fuzz_poll_read \/ fuzz_close
        \/ \E len \in ReadLens : fuzz_read(len)
        \/ \E packet \in Packets : fuzz_write(packet)

Next == Create \/ Call \/ fuzz_destroy

Spec == Init /\ [][Next]_vars

-----------------------------------------------------------------------------
(* Properties. *)

\* The type of the state.  The read indices never leave their buffers, the
\* arithmetic of fuzz_read (lines 61-94) being on unsigned numbers.
TypeOK ==
    /\ alive \in BOOLEAN /\ connected \in BOOLEAN /\ autopilot \in BOOLEAN
    /\ in \in Seq(Byte) /\ in_off \in 0 .. Len(in)
    /\ rx \in Seq(Byte) /\ rx_off \in 0 .. Len(rx)
    /\ mode \in Modes /\ frag \in Int
    /\ out \in Seq(Byte)
    /\ replies \in Seq([packet : Packets, frame : Seq(Byte)])
    /\ Len(replies) <= MaxReplies
    /\ ret \in [op : Ops, val : Int]

\* What was read of the reply buffer is always less than all of it: fuzz_read
\* empties a buffer it has read to the end, so push_rx never finds a consumed
\* one to reset (lines 38-42 are redundant), and appending loses nothing.
DrainedIsEmpty == rx # <<>> => rx_off < Len(rx)

\* Each automatic reply answers the packet it was pushed for: the type the
\* client waits for, the packet id of its request wherever the variable
\* length header puts it, a remaining length that counts the bytes that
\* follow, and the MQTT 5 layout in that mode only (lines 116-174).
AnswerType == [CONNECT |-> 32, PINGREQ |-> 208, SUBSCRIBE |-> 144, PUBREL |-> 112]
RepliesAnswer ==
    \A i \in 1 .. Len(replies) :
        LET packet == replies[i].packet
            frame  == replies[i].frame
        IN  /\ packet.kind \in DOMAIN AnswerType
            /\ frame[1] = AnswerType[packet.kind]
            /\ Len(frame) = 2 + frame[2]
            /\ packet.kind \in {"SUBSCRIBE", "PUBREL"} => SubSeq(frame, 3, 4) = packet.id
            /\ packet.kind \in {"CONNECT", "SUBSCRIBE"} =>
                  ((mode = "MQTT5") <=> (frame[2] = IF packet.kind = "CONNECT" THEN 3 ELSE 4))

\* Without the autopilot the client reads the input it was given and nothing
\* else, whatever it writes and however often it reconnects: README.md line 37,
\* "the transport returns exactly what you feed via stdin".
ExactlyTheInput ==
    ~autopilot => \E skip \in {0, 1} : skip <= in_off /\ out = SubSeq(in, skip + 1, in_off)

\* A read that finds a byte returns at least one and, when a fragment size is
\* set, at most that many: README.md line 58.  A client that loops on short
\* reads always progresses (lines 73-74 and 89-90).
ReadBounded ==
    [][ ret'.op = "read" =>
          \/ ret'.val = -1 /\ out' = out
          \/ /\ ret'.val > 0 /\ Len(out') = Len(out) + ret'.val
             /\ frag > 0 => ret'.val <= frag ]_vars

\* A read on a connected transport right after a poll that reported data never
\* times out: fuzz_poll_read (line 180) looks at the input alone, but fuzz_read
\* delivers a reply or that input.  The converse fails: see the README.
PollThenRead ==
    [][ ret.op = "poll_read" /\ ret.val = 1 /\ connected /\ ret'.op = "read"
           => ret'.val > 0 ]_vars

\* Seen as two queues the transport is the abstract broker connection, whatever
\* the indices, resets and reallocations do: replies come first and whole,
\* nothing is lost but with the transport, and a reply that was not read
\* before fuzz_close is the first thing read after the next fuzz_connect.
Unread(buf, off) == SubSeq(buf, off + 1, Len(buf))

Stream == INSTANCE BrokerStream WITH
              Feeds   <- Inputs \cup {Tail(d) : d \in Inputs \ {<<>>}},
              Replies <- {Answer(m, p.bytes) : m \in Modes, p \in Packets} \ {<<>>},
              feed    <- Unread(in, in_off),
              pending <- Unread(rx, rx_off),
              open    <- connected
ImplementsStream == Stream!Spec
=============================================================================
