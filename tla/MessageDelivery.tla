---------------------------- MODULE MessageDelivery ----------------------------
(***************************************************************************)
(* What the campaign's reliable transport promises its callers for each    *)
(* application message (DeliveryState in sim-core/src/transport.rs): an    *)
(* accepted message is delivered at most once, the sender is told it was   *)
(* acknowledged only after the recipient has it, a message reported lost   *)
(* was never delivered, and one terminal verdict ends every message that   *)
(* the application does not cancel.                                        *)
(***************************************************************************)
CONSTANT Msg

VARIABLE verdict    \* verdict[m]: where message m is in its life

Open    == {"Queued", "InTransit"}
Settled == {"Acknowledged", "Unacknowledged", "Expired", "Dropped", "Cancelled"}

Verdict == {"Unsent", "Delivered"} \cup Open \cup Settled

Becomes(m, from, to) ==
    /\ verdict[m] \in from
    /\ verdict' = [verdict EXCEPT ![m] = to]

Accept(m)      == Becomes(m, {"Unsent"}, "Queued")
Start(m)       == Becomes(m, {"Queued"}, "InTransit")
Deliver(m)     == Becomes(m, Open, "Delivered")
Acknowledge(m) == Becomes(m, {"Delivered"}, "Acknowledged")

\* A message to the sender's own entity is delivered and acknowledged at once.
DeliverLocally(m) == Becomes(m, {"Queued"}, "Acknowledged")

\* The sender gives up on a message nobody received, ...
Lose(m)   == Becomes(m, Open, "Expired") \/ Becomes(m, Open, "Dropped")

\* ... or on the acknowledgement of one that was received.
Doubt(m)  == Becomes(m, {"Delivered"}, "Unacknowledged")
Cancel(m) == Becomes(m, Open \cup {"Delivered"}, "Cancelled")

Init == verdict = [m \in Msg |-> "Unsent"]

Next == \E m \in Msg : \/ Accept(m) \/ Start(m) \/ Deliver(m) \/ Acknowledge(m)
                       \/ DeliverLocally(m) \/ Lose(m) \/ Doubt(m) \/ Cancel(m)

\* Every accepted message comes to an end.
EverySettled == \A m \in Msg : (verdict[m] \in Open) ~> (verdict[m] \in Settled)

Safety == Init /\ [][Next]_verdict

Spec == Safety /\ EverySettled
================================================================================
