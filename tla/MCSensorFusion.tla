---------------------------- MODULE MCSensorFusion -----------------------------
(* An instance of SensorFusion for TLC. *)
EXTENDS SensorFusion, TLC

CONSTANTS scout, gun, x

MCFixes == [u \in Platform |-> {x}]
MCHears == [u \in Platform |-> IF u \in {scout, gun} THEN {x} ELSE {}]
MCLinks == {{<<scout, gun>>, <<gun, scout>>}, {}}
MCRoute == {<<scout, gun>>, <<gun, scout>>}
================================================================================
