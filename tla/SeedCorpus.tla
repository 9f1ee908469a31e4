----------------------------- MODULE SeedCorpus -----------------------------
(***************************************************************************)
(* examples/10_afl_mqtt/gen_seeds.py: the files that the MQTT harness is   *)
(* fuzzed from.  A file is empty once open() has truncated it and whole    *)
(* once it is closed; the script may be killed, or fail to write, in       *)
(* between, and be run again over what it left.                            *)
(***************************************************************************)
EXTENDS SeedPackets, FiniteSets

CONSTANTS Writes,      \* what the script writes, in its order: SeedWrites
          MaxStops     \* how often the script is stopped before its end

Twin(name) == [name EXCEPT !.dyn = FALSE]

ASSUME MaxStopsAssumption == MaxStops \in Nat
ASSUME WritesAssumption ==     \* of no file twice, and of a twin before its dyn_ seed
    /\ Writes \in Seq([name : [dyn : BOOLEAN, v5 : BOOLEAN, stem : STRING, n : Nat],
                       data : Seq(0 .. 255) \ {<<>>}])
    /\ \A i, j \in DOMAIN Writes : Writes[i].name = Writes[j].name => i = j
    /\ \A j \in DOMAIN Writes : Writes[j].name.dyn =>
           \E i \in 1 .. j - 1 : Writes[i] = write_seed(Twin(Writes[j].name), Tail(Writes[j].data))

VARIABLES pc,
          k,         \* the write that is next
          files,     \* the output directory, from names to contents
          stops      \* how often it was stopped

vars == <<pc, k, files, stops>>

-----------------------------------------------------------------------------
(* main. *)

Names == {Writes[j].name : j \in DOMAIN Writes}
Empty == <<>>

Init == pc = "open" /\ k = 1 /\ stops = 0 /\ files = [n \in {} |-> Empty]

FileHas(name, data) ==
    files' = [n \in DOMAIN files \cup {name} |-> IF n = name THEN data ELSE files[n]]

\* Mutant of Open: a file that is there is not written again.
Open_IfAbsent ==
    /\ pc = "open" /\ k <= Len(Writes)
    /\ IF Writes[k].name \in DOMAIN files
       THEN k' = k + 1 /\ UNCHANGED <<pc, files>>
       ELSE pc' = "write" /\ FileHas(Writes[k].name, Empty) /\ UNCHANGED k
    /\ UNCHANGED stops

\* open(p, "wb")
Open ==
    /\ pc = "open" /\ k <= Len(Writes) /\ pc' = "write"
    /\ FileHas(Writes[k].name, Empty) /\ UNCHANGED <<k, stops>>

\* f.write, and close at the end of the with block.
Write ==
    /\ pc = "write" /\ pc' = "open" /\ k' = k + 1
    /\ FileHas(Writes[k].name, Writes[k].data)
    /\ UNCHANGED stops

Done == pc = "open" /\ k > Len(Writes) /\ pc' = "done" /\ UNCHANGED <<k, files, stops>>

\* The script is killed, or an OSError ends it: nothing catches one.
Stop == /\ pc \in {"open", "write"} /\ stops < MaxStops /\ stops' = stops + 1
        /\ pc' = "stopped" /\ UNCHANGED <<k, files>>

\* It is run again; makedirs accepts the directory.
Rerun == /\ pc = "stopped" /\ pc' = "open" /\ k' = 1
         /\ UNCHANGED <<files, stops>>

Rest == pc \in {"done", "stopped"} /\ UNCHANGED vars

Next == Open \/ Write \/ Done \/ Stop \/ Rerun \/ Rest

Spec == Init /\ [][Next]_vars

-----------------------------------------------------------------------------
(* Properties. *)

TypeOK ==
    /\ pc \in {"open", "write", "done", "stopped"}
    /\ k \in 1 .. Len(Writes) + 1 /\ stops \in 0 .. MaxStops
    /\ DOMAIN files \subseteq Names 
    /\ \A n \in DOMAIN files : \A j \in DOMAIN files[n] : files[n][j] \in 0 .. 255

\* A reader of MQTT that shares nothing with the writer: the length field of the
\* packet that d begins with, its value and its bytes; and where that packet ends.
LengthOf(d) == IF d[2] < 128 THEN <<d[2], 1>> ELSE <<d[2] - 128 + 128 * d[3], 2>>
PacketLen(d) == 1 + LengthOf(d)[2] + LengthOf(d)[1]
Pair(d, at) == 256 * d[at] + d[at + 1]

\* What a PUBLISH has inside: topic, id, properties and payload, and nothing else.
PublishOk(v5, qos, body) ==
    LET id    == 3 + Pair(body, 1)
        props == id + (IF qos > 0 THEN 2 ELSE 0)
        load  == props + (IF v5 THEN 1 ELSE 0)
    IN  /\ load <= Len(body) + 1
        /\ qos > 0 => Pair(body, id) > 0
        /\ v5 => body[props] = 0
        /\ \A j \in 3 .. id - 1 : body[j] = TopicByte
        /\ \A j \in load .. Len(body) : body[j] = PayloadByte

BodyOk(v5, ctrl, body) ==
    \/ /\ ctrl = 32 /\ Len(body) = (IF v5 THEN 3 ELSE 2)       \* CONNACK
       /\ body[1] \in {0, 1}
       /\ v5 => body[3] = 0
    \/ /\ ctrl \in 48 .. 61 /\ (ctrl % 8) \div 2 < 3 /\ Len(body) > 1   \* PUBLISH
       /\ ctrl >= 56 => (ctrl % 8) \div 2 > 0    \* DUP: for something that was sent before
       /\ PublishOk(v5, (ctrl % 8) \div 2, body)
    \/ /\ ctrl \in {64, 80, 98, 112}                          \* PUBACK to PUBCOMP
       /\ Len(body) = 2 \/ (v5 /\ Len(body) = 4 /\ body[4] = 0)
       /\ Pair(body, 1) > 0
    \/ /\ ctrl = 144 /\ Len(body) > (IF v5 THEN 3 ELSE 2)      \* SUBACK
       /\ Pair(body, 1) > 0
       /\ v5 => body[3] = 0
    \/ ctrl = 208 /\ body = <<>>                              \* PINGRESP

\* A client can read the packet p.
PacketOk(v5, p) ==
    /\ LengthOf(p)[2] = 2 => LengthOf(p)[1] > 127
    /\ BodyOk(v5, p[1], SubSeq(p, 2 + LengthOf(p)[2], Len(p)))

\* From which of its bytes on d is packets to its end, cut where their lengths say.
FramesFrom(v5, d) ==
    LET framed[at \in 1 .. Len(d) + 1] ==
            \/ at = Len(d) + 1
            \/ LET r == SubSeq(d, at, Len(d))
               IN  /\ Len(r) > 1 /\ PacketLen(r) \in 2 .. Len(r)
                   /\ PacketOk(v5, SubSeq(r, 1, PacketLen(r)))
                   /\ framed[at + PacketLen(r)]
    IN  framed
IsFrames(v5, d) == d # <<>> /\ FramesFrom(v5, d)[1]

\* The packets of a seed: what follows the selector of a dyn_ seed.
Frames(n, d) == IF n.dyn THEN Tail(d) ELSE d

\* One seed is not what the docstring says: publish_qos0_dup (line 253) has DUP with
\* QoS 0, which MQTT forbids.  It is read without the flag.
WithoutDup(f) == [f EXCEPT ![1] = @ - 8]
Corrected(n, f) == IF n.stem = "publish_qos0_dup" THEN WithoutDup(f) ELSE f

Parses(n, d) ==
    /\ IsFrames(n.v5, Corrected(n, Frames(n, d)))
    /\ n.stem \in {"publish_qos0_rl", "publish_qos1_rl"} =>
           LengthOf(Frames(n, d)) = <<n.n, IF n.n < 128 THEN 1 ELSE 2>>

\* esp_transport_fuzz_init under --mode=dynamic
ModeOfSelector(b) == IF b % 16 \in 1 .. 4
                     THEN <<"CONNECTED", "SUBSCRIBE", "QOS", "MQTT5">>[b % 16] ELSE "HANDSHAKE"
SelectsVersion(n, d) == ModeOfSelector(d[1]) = "MQTT5" <=> n.v5

Whole(n) == n \in DOMAIN files /\ files[n] # Empty
CutOff   == {n \in DOMAIN files : ~Whole(n)}

\* The docstring (lines 5 and 15), "valid" and "well-formed" packets: whatever the
\* script leaves behind, at its end or where it was stopped, is frames without a gap
\* or a rest, of the version its name says, with the lengths inside that the length
\* field leaves room for, and flags that go together, but for one seed (Corrected);
\* reason codes are not looked at.  Those that are named for a remaining length have it, and
\* so lie on both sides of where the length field grows (lines 272 and 307).
SeedsParse ==
    pc \in {"done", "stopped"} => \A n \in DOMAIN files : Whole(n) => Parses(n, files[n])

\* A dyn_ seed makes the transport take the version that its frames are of, and
\* then read the frames of the seed it is named after.
TwinsAgree ==
    \A n \in DOMAIN files : n.dyn /\ Whole(n) =>
        /\ SelectsVersion(n, files[n])
        /\ Twin(n) \in DOMAIN files /\ files[Twin(n)] \in {Empty, Tail(files[n])}

\* A script that came to its end has left what every one of its writes wrote, over
\* whatever a run before it had left of them, and has made no other file; before, no
\* more seeds are cut off than times it was stopped.
CompleteWhenDone ==
    /\ TypeOK
    /\ pc = "done" => /\ DOMAIN files = Names
                      /\ \A j \in DOMAIN Writes : files[Writes[j].name] = Writes[j].data
    /\ Cardinality(CutOff) <= stops + (IF pc = "write" THEN 1 ELSE 0)
=============================================================================
