-------------------------- MODULE MCBoofuzzCampaign --------------------------
(* Two elements: one that may fail too often, one behind it. *)
EXTENDS BoofuzzCampaign

MCElementOf == <<"topic", "topic", "topic", "payload">>
MCCodes == {-11, 0, 1}
=============================================================================
