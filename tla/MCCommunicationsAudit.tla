------------------------- MODULE MCCommunicationsAudit -------------------------
(* Instances of CommunicationsAudit for TLC. *)
EXTENDS CommunicationsAudit, TLC

CONSTANTS lead, wing, hq, jet, order, report

MCAt     == (lead :> hq) @@ (wing :> jet)
MCAuthor == (order :> lead) @@ (report :> wing)
MCFrom   == (order :> hq) @@ (report :> jet)
MCTo     == (order :> jet) @@ (report :> hq)
================================================================================
