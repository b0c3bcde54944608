-------------------------- MODULE MCOzonAutopilot --------------------------
(* An instance of OzonAutopilot for TLC. *)
EXTENDS OzonAutopilot

CONSTANTS c1

Do(kind) == [kind |-> kind, camp |-> c1]

MCPlans == {<<Do("campaign_pause"), Do("bid_change")>>, <<Do("campaign_activate")>>}
=============================================================================
