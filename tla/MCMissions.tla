------------------------------ MODULE MCMissions ------------------------------
(* Instances of Missions for TLC. *)
EXTENDS Missions, TLC

CONSTANTS jfc, tower, pilot, hq, field, jet, sweep, escort, raid,
          opening, second, handover

MCAt == (jfc :> hq) @@ (tower :> field) @@ (pilot :> jet)
MCOperator == (hq :> jfc) @@ (field :> tower) @@ (jet :> pilot)
MCChain == (jfc :> {jet, field}) @@ (tower :> {}) @@ (pilot :> {jet})
MCTransfer == (handover :> [unit |-> jet, from |-> jfc, to |-> tower])
MCRecipients == <<jfc, tower, pilot>>
MCLoad == (hq :> 0) @@ (field :> 0) @@ (jet :> 2)

\* The opening course has the jet sweep and the field's aircraft follow; the
\* second one has another mission fly first, sweeps later, and has the jet escort.
MCTasks ==
    (opening :> (sweep :> [unit |-> jet, kind |-> "strike", start |-> 1, end |-> 2,
                           after |-> {}, lost |-> "hold", release |-> TRUE]
                 @@ raid :> None
                 @@ escort :> [unit |-> field, kind |-> "transit", start |-> 2, end |-> 4,
                               after |-> {sweep}, lost |-> "return", release |-> FALSE]))
    @@ (second :> (sweep :> [unit |-> jet, kind |-> "patrol", start |-> 2, end |-> 3,
                             after |-> {}, lost |-> "continue", release |-> TRUE]
                   @@ raid :> [unit |-> jet, kind |-> "strike", start |-> 1, end |-> 2,
                               after |-> {}, lost |-> "hold", release |-> TRUE]
                   @@ escort :> [unit |-> jet, kind |-> "return", start |-> 3, end |-> 4,
                                 after |-> {raid}, lost |-> "return", release |-> FALSE]))

\* The instance is one of those the theorems of MissionsProofs are about.
ASSUME InstanceAssumption == MovesLeaveRoom /\ OperatorApart

MCScenes ==
    {{"publish", "fly", "save"}, {"publish", "fly", "fail"}, {"publish", "fly", "loss"},
     {"publish", "fly", "cancel"}, {"publish", "fly", "heartbeat"},
     {"publish", "fly", "move", "engage"}, {"publish", "clear", "offer", "accept"},
     {"publish", "propose", "adopt"}}
===============================================================================
