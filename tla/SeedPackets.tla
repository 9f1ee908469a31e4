---------------------------- MODULE SeedPackets ----------------------------
(***************************************************************************)
(* examples/10_afl_mqtt/gen_seeds.py: the packets the script writes and    *)
(* the order it writes them in, byte for byte but for the characters of    *)
(* topics and payloads: a topic is its numbers of characters and of bytes, *)
(* a payload its length.                                                   *)
(***************************************************************************)
EXTENDS Integers, SequencesExt

-----------------------------------------------------------------------------
(* MQTT packets. *)

TopicByte   == 116
PayloadByte == 170
Bytes(byte, n) == [j \in 1 .. n |-> byte]
Big(n) == <<n \div 256, n % 256>>          \* to_bytes(2, "big")

encoded[n \in Nat] == IF n < 128 THEN <<n>> ELSE <<128 + (n % 128)>> \o encoded[n \div 128]
enc_remaining_length(n) == encoded[n]

\* Mutant of enc_utf8: the length of a string is that of its characters.
enc_utf8_Chars(s) == Big(s.chars) \o Bytes(TopicByte, s.bytes)
enc_utf8(s) == Big(s.bytes) \o Bytes(TopicByte, s.bytes)
Ascii(n) == [chars |-> n, bytes |-> n]

fh(ctrl, remaining_len) == <<ctrl>> \o enc_remaining_length(remaining_len)
Framed(ctrl, vh) == fh(ctrl, Len(vh)) \o vh

pkt_connack(session_present, rc) == Framed(32, <<IF session_present THEN 1 ELSE 0, rc>>)
pkt_pingresp == <<208, 0>>
pkt_ack(ctrl, id) == Framed(ctrl, Big(id))
PUBACK  == 64
PUBREC  == 80
PUBREL  == 98
PUBCOMP == 112
pkt_suback(id, grants) == Framed(144, Big(id) \o grants)

Control(qos, dup, retain) ==
    48 + (IF dup THEN 8 ELSE 0) + 2 * qos + (IF retain THEN 1 ELSE 0)
PacketId(qos, id) == IF qos > 0 THEN Big(id) ELSE <<>>
pkt_publish(topic, payload, qos, dup, retain, id) ==
    LET vh == enc_utf8(topic) \o PacketId(qos, id)
    IN  fh(Control(qos, dup, retain), Len(vh) + payload) \o vh \o Bytes(PayloadByte, payload)

\* Every properties argument is empty.
NoProperties == enc_remaining_length(0)
pkt5_connack(session_present, reason_code) ==
    Framed(32, <<IF session_present THEN 1 ELSE 0, reason_code>> \o NoProperties)
pkt5_suback(id, reason_codes) == Framed(144, Big(id) \o NoProperties \o reason_codes)
pkt5_puback_like(ctrl, id, include_reason) ==
    Framed(ctrl, Big(id) \o IF include_reason THEN <<0, 0>> ELSE <<>>)
pkt5_publish(topic, payload, qos, id) ==
    LET vh == enc_utf8(topic) \o PacketId(qos, id) \o NoProperties
    IN  fh(Control(qos, FALSE, FALSE), Len(vh) + payload) \o vh \o Bytes(PayloadByte, payload)

-----------------------------------------------------------------------------
(* The writes, in their order.  A name is its prefixes, its stem and the     *)
(* number at its end.                                                        *)

Numbered(stem, n) == [dyn |-> FALSE, v5 |-> FALSE, stem |-> stem, n |-> n]
Name(stem) == Numbered(stem, 0)
V5(name)   == [name EXCEPT !.v5 = TRUE]
Dyn(name)  == [name EXCEPT !.dyn = TRUE]

write_seed(name, data) == [name |-> name, data |-> data]
write_dynamic_seed(mode_selector, name, data) ==
    write_seed(Dyn(name), <<mode_selector % 16>> \o data)
Both(mode_selector, name, data) ==
    <<write_seed(name, data), write_dynamic_seed(mode_selector, name, data)>>

\* for ... in list: the writes of each element
ForEach(list, Each(_)) == FlattenSeq([j \in DOMAIN list |-> Each(list[j])])

gen_connack ==
    <<write_seed(Name("connack_ok"), pkt_connack(FALSE, 0)),
      write_seed(Name("connack_session_present"), pkt_connack(TRUE, 0)),
      write_dynamic_seed(0, Name("connack_ok"), pkt_connack(FALSE, 0)),
      write_dynamic_seed(0, Name("connack_session_present"), pkt_connack(TRUE, 0))>>
    \o ForEach(<<1, 2, 3, 4, 5>>,
               LAMBDA rc : Both(0, Numbered("connack_refused", rc), pkt_connack(FALSE, rc)))
    \o <<write_seed(V5(Name("connack_ok")), pkt5_connack(FALSE, 0)),
         write_seed(V5(Name("connack_session_present")), pkt5_connack(TRUE, 0)),
         write_dynamic_seed(4, V5(Name("connack_ok")), pkt5_connack(FALSE, 0)),
         write_dynamic_seed(4, V5(Name("connack_session_present")), pkt5_connack(TRUE, 0))>>
    \o ForEach(<<129, 140, 135>>,
               LAMBDA rc : Both(4, V5(Numbered("connack_refused", rc)), pkt5_connack(FALSE, rc)))

\* The bytes in front of the payload, for the boundaries of the length field.
vh_len(v5, qos) == 2 + 1 + (IF qos > 0 THEN 2 ELSE 0) + (IF v5 THEN 1 ELSE 0)
Boundaries == <<127, 128, 129>>
payload_len(rl, v5, qos) == IF rl > vh_len(v5, qos) THEN rl - vh_len(v5, qos) ELSE 0

BoundaryName(qos, rl) ==
    Numbered(IF qos = 0 THEN "publish_qos0_rl" ELSE "publish_qos1_rl", rl)

\* Mutant of Selector5: the seeds of MQTT 5 are run as the others.
Selector5_Connected == 1
Selector5 == 4

gen_publish ==
    LET topic == Ascii(19)
        utf_topic == [chars |-> 7, bytes |-> 12]
        small == <<0, 1, 5, 15>>      \* the lengths of the payloads
        P(stem, payload, qos, dup, retain, id) ==
            Both(1, Name(stem), pkt_publish(topic, payload, qos, dup, retain, id))
        AtBoundary(qos) ==
            ForEach(Boundaries, LAMBDA rl :
                Both(1, BoundaryName(qos, rl),
                     pkt_publish(Ascii(1), payload_len(rl, FALSE, qos), qos, FALSE, FALSE, 8738)))
        P5(stem, qos, id) == Both(Selector5, V5(Name(stem)), pkt5_publish(Ascii(4), 2, qos, id))
    IN  ForEach(<<0, 1, 2, 3>>, LAMBDA j :
            Both(1, Numbered("publish_qos0_small", j),
                 pkt_publish(topic, small[j + 1], 0, FALSE, FALSE, 0)))
        \o P("publish_qos0_retain", 6, 0, FALSE, TRUE, 0)
        \o P("publish_qos0_dup", 3, 0, TRUE, FALSE, 0)
        \o P("publish_qos1_basic", 6, 1, FALSE, FALSE, 1)
        \o P("publish_qos1_dup", 4, 1, TRUE, FALSE, 4660)
        \o P("publish_qos1_retain", 4, 1, FALSE, TRUE, 2)
        \o P("publish_qos2_basic", 9, 2, FALSE, FALSE, 10)
        \o P("publish_qos2_dup", 4, 2, TRUE, FALSE, 48879)
        \o P("publish_qos2_retain", 5, 2, FALSE, TRUE, 11)
        \o AtBoundary(0) \o AtBoundary(1)
        \o Both(1, Name("publish_utf8_topic_qos0"), pkt_publish(utf_topic, 5, 0, FALSE, FALSE, 0))
        \o Both(1, Name("publish_utf8_topic_qos1"), pkt_publish(utf_topic, 3, 1, FALSE, FALSE, 3))
        \o P5("publish_qos0", 0, 0) \o P5("publish_qos1", 1, 1) \o P5("publish_qos2", 2, 2)
        \o ForEach(Boundaries, LAMBDA rl :
               Both(Selector5, V5(BoundaryName(0, rl)),
                    pkt5_publish(Ascii(1), payload_len(rl, TRUE, 0), 0, 0)))

gen_qos_acks ==
    LET A(stem, ctrl, id) == Both(1, Name(stem), pkt_ack(ctrl, id))
        A5(stem, ctrl, id, reason) == Both(4, V5(Name(stem)), pkt5_puback_like(ctrl, id, reason))
    IN  A("puback_1", PUBACK, 1) \o A("pubrec_1", PUBREC, 1) \o A("pubrel_1", PUBREL, 1)
        \o A("pubcomp_1", PUBCOMP, 1) \o A("puback_beef", PUBACK, 48879)
        \o A("pubcomp_cafe", PUBCOMP, 51966)
        \o A5("puback_min", PUBACK, 1, FALSE) \o A5("puback_full", PUBACK, 1, TRUE)
        \o A5("pubrec_min", PUBREC, 2, FALSE) \o A5("pubrec_full", PUBREC, 2, TRUE)
        \o A5("pubrel_min", PUBREL, 3, FALSE) \o A5("pubcomp_min", PUBCOMP, 4, FALSE)

gen_subacks ==
    LET S(stem, id, grants) == Both(2, Name(stem), pkt_suback(id, grants))
        S5(stem, id, codes) == Both(4, V5(Name(stem)), pkt5_suback(id, codes))
    IN  S("suback_single_q0", 1, <<0>>) \o S("suback_single_q1", 2, <<1>>)
        \o S("suback_single_q2", 3, <<2>>) \o S("suback_single_fail", 4, <<128>>)
        \o S("suback_multi_mixed", 5, <<0, 1, 2, 128>>)
        \o S5("suback_q0", 11, <<0>>) \o S5("suback_q1", 12, <<1>>)
        \o S5("suback_q2", 13, <<2>>) \o S5("suback_fail", 14, <<128>>)

gen_misc ==
    LET seq == pkt_connack(FALSE, 0) \o pkt_publish(Ascii(15), 4, 0, FALSE, FALSE, 0) \o pkt_pingresp
    IN  <<write_seed(Name("pingresp"), pkt_pingresp)>>
        \o Both(1, Name("coalesced_connack_publish_pingresp"), seq)

SeedWrites == gen_connack \o gen_publish \o gen_qos_acks \o gen_subacks \o gen_misc
=============================================================================
