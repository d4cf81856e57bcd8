--------------------------- MODULE ReliableTransport ---------------------------
(***************************************************************************)
(* The reliable application transport of sim-core/src/transport.rs: a      *)
(* message is cut into fragments, every attempt resends the fragments the  *)
(* recipient still misses, the recipient answers a complete message with   *)
(* an acknowledgement packet, and data and acknowledgement attempts share  *)
(* one budget.                                                             *)
(*                                                                         *)
(* One simulated second is one pass of advance_messages: the clock moves,  *)
(* every live message is visited once (todo), the packet network reports   *)
(* what happened to the packets in the air, and retired packets are        *)
(* forgotten.  The packet network (c3mesh) is outside the repository: it   *)
(* may lose, delay and reorder any packet.  Calls between two passes       *)
(* (send, cancel, end of the mission) happen when pass = "idle".           *)
(***************************************************************************)
EXTENDS Integers, Sequences, FiniteSets

CONSTANTS
    Msg,          \* application message ids, the idempotency keys
    Frags,        \* Frags[m]: number of 512-byte fragments of m's payload
    Local,        \* messages whose sender is their recipient
    Tracked,      \* messages sent with MessageOptions (metadata, hop limit)
    HopLimit,     \* HopLimit[m]: forwarding budget of a tracked message
    MaxHops,      \* MaxHops[m]: longest route the links can form for m
    RetryTicks,   \* RETRY_TICKS
    MaxAttempts,  \* MAX_ATTEMPTS
    Horizon,      \* bound: the last second that is simulated
    Together      \* bound: the sets of messages that one behaviour may send

ASSUME TransportAssumption ==
    /\ Frags \in [Msg -> Nat \ {0}]
    /\ Local \subseteq Msg
    /\ Tracked \subseteq Msg
    /\ HopLimit \in [Msg -> Nat]
    /\ RetryTicks \in Nat \ {0}
    /\ MaxAttempts \in Nat \ {0}
    /\ Horizon \in Nat

ASSUME RouteAssumption ==
    /\ MaxHops \in [Msg -> Nat \ {0}]
    /\ Together \subseteq SUBSET Msg

VARIABLES
    tick,         \* SimClock: the world's second
    reporting,    \* reporting_ticks: seconds simulated after the mission
    over,         \* mission_complete()
    live,         \* ids in Transport.messages
    finished,     \* Transport.finished
    message,      \* message[m]: the Message record of a live id
    packets,      \* Transport.packets, as the network sees them in this pass
    outbound,     \* packets queued while this pass handles network events
    events,       \* events[m]: every DeliveryEvent pushed for m, in order
    pass,         \* where advance_messages is
    todo,         \* ids this pass has still to visit
    retired       \* the pass's flag of the same name

clock == <<tick, reporting>>
store == <<live, finished, message>>
air   == <<packets, outbound>>
loop  == <<pass, todo, retired>>
vars  == <<tick, reporting, over, live, finished, message, packets, outbound,
           events, pass, todo, retired>>

--------------------------------------------------------------------------------
radio_tick == tick + reporting

Indices(m) == 1..Frags[m]

Blank == [expires |-> 0, nextAttempt |-> 0, attempts |-> 0,
          received |-> {}, delivered |-> FALSE, started |-> FALSE]

\* A packet carries fragment `index` of the `attempt`-th transmission of a
\* message (0: the acknowledgement); it is on hop `hop` of `last`.
Packet(m, i, attempt, hops) ==
    [msg |-> m, index |-> i, attempt |-> attempt,
     hop |-> 0, last |-> hops - 1, onAir |-> FALSE]

IsAck(p) == p.index = 0

\* usable_routes and send_fragment for the fragments `indices`: without a route,
\* beyond the hop limit, or where the link refuses it, a fragment is not sent.
Transmissions(m, indices, attempt) ==
    LET routes == {h \in 1..MaxHops[m] : m \in Tracked => h <= HopLimit[m]}
    IN  {{}} \cup {{Packet(m, i, attempt, hops) : i \in sent} :
                      sent \in SUBSET indices, hops \in routes}

Tell(m, state) == events' = [events EXCEPT ![m] = Append(@, state)]

\* Mutant: the id of a removed message is not remembered.
FinishForgotten(m) ==
    /\ live' = live \ {m}
    /\ message' = [message EXCEPT ![m] = Blank]
    /\ UNCHANGED finished

\* messages.remove(id) and finished.insert(id)
Finish(m) ==
    /\ live' = live \ {m}
    /\ finished' = finished \cup {m}
    /\ message' = [message EXCEPT ![m] = Blank]

--------------------------------------------------------------------------------

\* An id that was accepted before is accepted again and ignored.
Known(m) == m \in live \cup finished

\* send_message_with_options.  A known id changes nothing; an expiry that is not in
\* the future of the WORLD clock is refused.
SendMessage(m, expires) ==
    /\ pass = "idle"
    /\ radio_tick < Horizon
    /\ ~Known(m)
    /\ expires > tick
    /\ \E group \in Together : live \cup finished \cup {m} \subseteq group
    /\ live' = live \cup {m}
    /\ message' = [message EXCEPT ![m] =
                     [Blank EXCEPT !.expires = expires, !.nextAttempt = tick]]
    /\ UNCHANGED <<clock, over, finished, air, events, loop>>

Without(m) == {p \in packets : p.msg # m}

\* cancel_application_message
Cancel(m) ==
    /\ pass = "idle"
    /\ m \in live
    /\ Finish(m)
    /\ packets' = Without(m)
    /\ UNCHANGED <<clock, over, outbound, events, loop>>

\* The objective is reached: from now on only the radio clock advances.
CompleteMission ==
    /\ pass = "idle"
    /\ ~over
    /\ over' = TRUE
    /\ UNCHANGED <<clock, store, air, events, loop>>

\* step / advance_reporting_second, up to the loop over the live messages.
BeginPass ==
    /\ pass = "idle"
    /\ radio_tick < Horizon
    /\ tick' = IF over THEN tick ELSE tick + 1
    /\ reporting' = IF over THEN reporting + 1 ELSE reporting
    /\ pass' = "send"
    /\ todo' = live
    /\ retired' = FALSE
    /\ UNCHANGED <<over, store, air, events>>

--------------------------------------------------------------------------------
(* The loop over the live messages.                                         *)

Overdue(m) ==
    \/ radio_tick >= message[m].expires
    \/ /\ message[m].attempts >= MaxAttempts
       /\ radio_tick >= message[m].nextAttempt

\* Mutant: a message whose acknowledgement was lost is reported as lost itself.
VerdictOfSender(m) ==
    IF radio_tick >= message[m].expires THEN "Expired" ELSE "Dropped"

FinalVerdict(m) ==
    IF message[m].delivered THEN "Unacknowledged"
    ELSE IF radio_tick >= message[m].expires THEN "Expired" ELSE "Dropped"

Visit(m) ==
    /\ pass = "send"
    /\ m \in todo
    /\ todo' = todo \ {m}
    /\ UNCHANGED <<clock, over, outbound, pass>>

GiveUp(m) ==
    /\ Visit(m)
    /\ Overdue(m)
    /\ Tell(m, FinalVerdict(m))
    /\ Finish(m)
    /\ retired' = TRUE
    /\ UNCHANGED packets

Wait(m) ==
    /\ Visit(m)
    /\ ~Overdue(m)
    /\ radio_tick < message[m].nextAttempt
    /\ UNCHANGED <<store, packets, events, retired>>

Due(m) == ~Overdue(m) /\ radio_tick >= message[m].nextAttempt

\* from == to: no packet is needed.
DeliverLocally(m) ==
    /\ Visit(m)
    /\ Due(m)
    /\ m \in Local
    /\ events' = [events EXCEPT ![m] = Append(Append(@, "Delivered"), "Acknowledged")]
    /\ Finish(m)
    /\ UNCHANGED <<packets, retired>>

\* One more attempt: the missing fragments, or the acknowledgement again.
Attempt(m) ==
    /\ Visit(m)
    /\ Due(m)
    /\ m \notin Local
    /\ message' = [message EXCEPT ![m].attempts = @ + 1,
                                  ![m].nextAttempt = radio_tick + RetryTicks]
    /\ \E new \in Transmissions(m, IF message[m].delivered THEN {0}
                                   ELSE Indices(m) \ message[m].received,
                                message[m].attempts + 1) :
          packets' = packets \cup new
    /\ UNCHANGED <<live, finished, events, retired>>

EndSending ==
    /\ pass = "send"
    /\ todo = {}
    /\ pass' = "receive"
    /\ UNCHANGED <<clock, over, store, air, events, todo, retired>>

--------------------------------------------------------------------------------
(* The events of advance_network, in any order the network reports them.    *)

Receiving(p) ==
    /\ pass = "receive"
    /\ p \in packets
    /\ UNCHANGED <<clock, over, pass, todo>>

Replace(p, new) == packets' = (packets \ {p}) \cup new

\* TransmissionStarted
TransmissionStarted(p) ==
    /\ Receiving(p)
    /\ ~p.onAir
    /\ Replace(p, {[p EXCEPT !.onAir = TRUE]})
    /\ IF /\ p.msg \in live \cap Tracked
          /\ ~IsAck(p)
          /\ ~message[p.msg].started
       THEN /\ message' = [message EXCEPT ![p.msg].started = TRUE]
            /\ Tell(p.msg, "InTransit")
       ELSE UNCHANGED <<message, events>>
    /\ UNCHANGED <<live, finished, outbound, retired>>

\* PacketDropped, or any outcome for a packet whose message is gone.
PacketLost(p) ==
    /\ Receiving(p)
    /\ Replace(p, {})
    /\ UNCHANGED <<store, outbound, events, retired>>

Delivered(p) ==
    /\ Receiving(p)
    /\ p.onAir
    /\ p.msg \in live
    /\ Replace(p, {})

\* PacketDelivered at an intermediate node: forwarded, unless its link refuses.
PacketForwarded(p) ==
    /\ Delivered(p)
    /\ p.hop < p.last
    /\ \E queued \in BOOLEAN :
          outbound' = IF queued
                      THEN outbound \cup {[p EXCEPT !.hop = @ + 1, !.onAir = FALSE]}
                      ELSE outbound
    /\ UNCHANGED <<store, events, retired>>

\* PacketDelivered: the acknowledgement reaches the sender.
AckReceived(p) ==
    /\ Delivered(p)
    /\ p.hop = p.last
    /\ IsAck(p)
    /\ Tell(p.msg, "Acknowledged")
    /\ Finish(p.msg)
    /\ retired' = TRUE
    /\ UNCHANGED outbound

\* Mutant: the last missing fragment is not waited for.
CompleteEarly(m, received) ==
    ~message[m].delivered /\ Cardinality(received) + 1 >= Frags[m]

Complete(m, received) == ~message[m].delivered /\ received = Indices(m)

\* PacketDelivered: a fragment reaches the recipient.  The fragment that
\* completes the message delivers it and sends the first acknowledgement.
FragmentReceived(p) ==
    /\ Delivered(p)
    /\ p.hop = p.last
    /\ ~IsAck(p)
    /\ LET m        == p.msg
           received == message[m].received \cup {p.index}
           complete == Complete(m, received)
       IN  /\ message' = [message EXCEPT ![m].received = received,
                                         ![m].delivered = message[m].delivered \/ complete]
           /\ IF complete
              THEN /\ Tell(m, "Delivered")
                   /\ \E new \in Transmissions(m, {0}, message[m].attempts) :
                        outbound' = outbound \cup new
              ELSE UNCHANGED <<events, outbound>>
    /\ UNCHANGED <<live, finished, retired>>

\* Once per pass, packets of messages that are gone are forgotten.
Kept == IF retired THEN {p \in packets \cup outbound : p.msg \in live}
                   ELSE packets \cup outbound

\* The end of advance_messages.
EndPass ==
    /\ pass = "receive"
    /\ pass' = "idle"
    /\ packets' = Kept
    /\ outbound' = {}
    /\ retired' = FALSE
    /\ UNCHANGED <<clock, over, store, events, todo>>

--------------------------------------------------------------------------------
Init ==
    /\ tick = 0 /\ reporting = 0 /\ over = FALSE
    /\ live = {} /\ finished = {} /\ message = [m \in Msg |-> Blank]
    /\ packets = {} /\ outbound = {}
    /\ events = [m \in Msg |-> <<>>]
    /\ pass = "idle" /\ todo = {} /\ retired = FALSE

Sending   == \E m \in Msg : GiveUp(m) \/ Wait(m) \/ DeliverLocally(m) \/ Attempt(m)

Reporting == \E p \in packets : \/ TransmissionStarted(p) \/ PacketLost(p)
                                \/ PacketForwarded(p) \/ AckReceived(p)
                                \/ FragmentReceived(p)

Advance   == BeginPass \/ Sending \/ EndSending \/ EndPass

Simulate  == Advance \/ Reporting

Next ==
    \/ \E m \in Msg, expires \in 1..Horizon : SendMessage(m, expires)
    \/ \E m \in Msg : Cancel(m)
    \/ CompleteMission
    \/ Simulate

\* Only the simulation loop is fair: it keeps a running game's clock moving.
\* Nobody has to send or cancel anything, and the network may lose every packet.
Fairness == WF_vars(Advance)

Spec == Init /\ [][Next]_vars /\ Fairness

--------------------------------------------------------------------------------
(* Properties.                                                              *)

Message == [expires : Nat, nextAttempt : Nat, attempts : Nat,
            received : SUBSET Nat, delivered : BOOLEAN, started : BOOLEAN]

Fragment == [msg : Msg, index : Nat, attempt : Nat, hop : Nat, last : Nat,
             onAir : BOOLEAN]

DeliveryState == {"InTransit", "Delivered", "Acknowledged", "Unacknowledged",
                  "Expired", "Dropped"}

TypeOK ==
    /\ tick \in Nat /\ reporting \in Nat /\ over \in BOOLEAN
    /\ live \subseteq Msg /\ finished \subseteq Msg
    /\ message \in [Msg -> Message]
    /\ packets \subseteq Fragment /\ outbound \subseteq Fragment
    /\ events \in [Msg -> Seq(DeliveryState)]
    /\ pass \in {"idle", "send", "receive"}
    /\ todo \subseteq Msg /\ retired \in BOOLEAN

Opening == {"InTransit", "Delivered", "Expired", "Dropped"}

MayFollow(state) ==
    CASE state = "InTransit" -> {"Delivered", "Expired", "Dropped"}
      [] state = "Delivered" -> {"Acknowledged", "Unacknowledged"}
      [] OTHER -> {}

\* The application is told a legal life story of every message: perhaps InTransit
\* once, then one delivery at most, an acknowledgement or a doubt only after the
\* delivery, a loss only without one, and nothing after the verdict.  Retries,
\* duplicate fragments and late acknowledgements must not disturb it.
Lifecycle ==
    \A m \in Msg : \A i \in 1..Len(events[m]) :
        events[m][i] \in IF i = 1 THEN Opening ELSE MayFollow(events[m][i - 1])

\* No acknowledgement is in the air for a message its recipient does not have
\* whole: an acknowledgement that arrives never lies.
AckIsHonest ==
    \A p \in packets \cup outbound :
        IsAck(p) /\ p.msg \in live => /\ message[p.msg].delivered
                                      /\ message[p.msg].received = Indices(p.msg)

\* A finished id stays finished and nothing more is ever told about it: resending
\* it, or a late packet of it, changes nothing.
FinishedForever ==
    [][\A m \in finished : m \in finished' /\ events'[m] = events[m]]_vars

\* The life of a message as its callers see it.
Verdict(m) ==
    LET told == IF events[m] = <<>> THEN "Queued" ELSE events[m][Len(events[m])]
    IN  IF m \in live THEN told
        ELSE IF m \notin finished THEN "Unsent"
        ELSE IF told \in {"Queued", "InTransit", "Delivered"} THEN "Cancelled"
        ELSE told

Verdicts == [m \in Msg |-> Verdict(m)]

Contract == INSTANCE MessageDelivery WITH verdict <- Verdicts

\* The transport keeps the contract of MessageDelivery, its liveness included.
KeepsContract == Contract!Spec
================================================================================
