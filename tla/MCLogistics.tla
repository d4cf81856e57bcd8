------------------------------ MODULE MCLogistics ------------------------------
(* Instances of Logistics for TLC: air refuelling, two aircraft and one parking  *)
(* place, ships and a carrier.                                                   *)
EXTENDS Logistics, TLC

CONSTANTS tanker, fighter, wingman, lifter, guest, tender, escort, base, depot, carrier

MCId == tanker :> 1 @@ fighter :> 2 @@ wingman :> 3 @@ lifter :> 4 @@ guest :> 5
          @@ tender :> 6 @@ escort :> 7
MCTasks == tanker  :> {"support", "cancel"} @@
           fighter :> {"refuel", "cancel"} @@
           wingman :> {"refuel"} @@
           lifter  :> {"cargo", "cancel", "depart"} @@
           guest   :> {"return", "depart", "cargo"} @@
           tender  :> {"support", "cargo", "cancel"} @@
           escort  :> {"refuel"}
MCHomes == [u \in AnyUnit |-> IF u \in {tender, escort} THEN {depot} ELSE {base}]
MCAboard == [u \in AnyUnit |-> IF u = lifter THEN depot ELSE Nil]
MCFull == [u \in AnyUnit |-> [g \in Good |-> IF g = "fuel" /\ u \in {tanker, fighter, wingman, escort} THEN 2 ELSE 1]]
MCFuel == [u \in AnyUnit |-> CASE u = escort -> 0 [] u = tanker -> 2 [] OTHER -> 1]
MCReserve == [u \in AnyUnit |-> IF u = escort THEN 1 ELSE 0]
MCMinDeparture == [u \in AnyUnit |-> 1]
MCHold == [u \in AnyUnit |-> CASE u \in {lifter, tender} -> 2 [] u = guest -> 1 [] OTHER -> 0]
MCStations == [u \in AnyUnit |-> [i \in Interface |->
                 CASE u = tanker /\ i = "Boom"     -> 2
                   [] u = tender /\ i = "Underway" -> 1
                   [] OTHER -> 0]]
MCIntake == [u \in AnyUnit |-> CASE u \in {fighter, wingman} -> {"Boom"}
                                 [] u = escort -> {"Underway"}
                                 [] OTHER -> {}]
MCCompatible == {tanker, fighter, wingman, lifter, guest} \X {base, depot}
                  \cup {tender, escort} \X {depot}
MCDelivers == MCCompatible \cup {<<tender, carrier>>}
MCCapacity == [f \in Facility |-> [g \in Good |-> IF g = "fuel" THEN 2 ELSE 1]]
MCOpening == [f \in Facility |-> [g \in Good |-> CASE f \in {depot, tender} -> MCCapacity[f][g]
                                         [] f = base /\ g = "fuel" -> 1
                                         [] OTHER -> 0]]
MCParking == [f \in Facility |-> 1]
MCSlots == [f \in Facility |-> 1]

\* The fleets have a berth for whoever starts in one, and no ship departs dry.
ASSUME InstanceAssumption == Provisioned
================================================================================
