--------------------------- MODULE MCFuzzTransport ---------------------------
(* Small inputs and the packets of an MQTT client, for TLC. *)
EXTENDS FuzzTransport

MCInputs == {<<>>, <<3, 48>>, <<36, 65>>}

\* A packet with the remaining length encoded in the bytes "header".
Packet(kind, control, header, id, rest) ==
    [kind |-> kind, id |-> id, bytes |-> <<control>> \o header \o id \o rest]

Connect   == Packet("CONNECT", 16, <<1>>, <<>>, <<4>>)
Pingreq   == Packet("PINGREQ", 192, <<0>>, <<>>, <<>>)
Publish   == Packet("PUBLISH", 48, <<2>>, <<>>, <<7, 7>>)
Pubrel    == Packet("PUBREL", 98, <<2>>, <<0, 2>>, <<>>)
Subscribe == Packet("SUBSCRIBE", 130, <<2>>, <<1, 7>>, <<>>)
Subscribe4 == Packet("SUBSCRIBE", 130, <<130, 128, 128, 0>>, <<1, 7>>, <<>>)
Truncated == Packet("SUBSCRIBE", 130, <<2>>, <<1>>, <<>>)
Nothing   == [kind |-> "NOTHING", id |-> <<>>, bytes |-> <<>>]

MCPackets == {Connect, Pingreq, Pubrel, Subscribe4, Publish, Subscribe, Truncated, Nothing}
=============================================================================
