--------------------------- MODULE MCCaseCampaign ---------------------------
(* Two campaigns in one directory: one of two runs with scripts of up to two *)
(* cases, one of a single run with one case.                                 *)
EXTENDS CaseCampaign

MCCampaigns == {"long", "short"}
MCMaxRuns   == [p \in MCCampaigns |-> IF p = "long" THEN 2 ELSE 1]
MCMaxCases  == [p \in MCCampaigns |-> IF p = "long" THEN 2 ELSE 1]
=============================================================================
