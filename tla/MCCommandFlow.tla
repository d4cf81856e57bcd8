----------------------------- MODULE MCCommandFlow -----------------------------
(* Instances of CommandFlow for TLC. *)
EXTENDS CommandFlow, TLC

CONSTANTS strike, launch, pilot, chief, staff

\* A player's strike that its superiors approve or, under another definition,
\* that the pilot may order alone; and a request to an operator outside the game.
MCKind   == [o \in Order |-> IF o = strike THEN "order" ELSE "external"]
MCIssuer == [o \in Order |-> pilot]
MCChains == [o \in Order |-> {<<chief>>}]
MCLongChains == [o \in Order |-> {<<staff, chief>>, <<>>}]
MCNear   == {m \in Message : m.of = launch /\ m.leg = "ask"}
MCStaffNear == MCNear \cup {m \in Message : m.of = strike /\ m.leg = "ask" /\ m.n = 2}

\* No reply of these instances is handed over aboard the unit.
ASSUME InstanceAssumption == RepliesTravel
================================================================================
