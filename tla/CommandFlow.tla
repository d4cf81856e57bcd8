------------------------------ MODULE CommandFlow ------------------------------
(***************************************************************************)
(* The life of a command in one game: a role submits it                    *)
(* (submit_authority_action), it travels to each deciding role in turn,    *)
(* who approves it, or chance does while the seat is vacant                *)
(* (process_vacant_authority_requests), it travels to the executing unit,  *)
(* is queued in the simulation and applied (apply_orders), and the         *)
(* player's order is acknowledged by replies that travel back              *)
(* (execution_acks.rs).  Every leg is a message over the simulated radio   *)
(* (server/src/transport.rs), and what is to happen on its arrival waits   *)
(* in pending_deliveries.                                                  *)
(*                                                                         *)
(* Requests of players run under the games lock, between two ticks         *)
(* (phase = "idle").  A tick runs under it from end to end; its phases are *)
(* the calls of advance_game_tick_mode in their order, because a failure   *)
(* of the event store stops some of them half way.                         *)
(*                                                                         *)
(* Messages keep the contract MessageDelivery, which ReliableTransport     *)
(* implements.  Games without radio propagation use single packets, which  *)
(* are not acknowledged.                                                   *)
(***************************************************************************)
EXTENDS Integers, Sequences, FiniteSets

CONSTANTS
    Order,        \* what roles ask for: an intent, or a request without one
    Role,         \* roles of the authority definition
    Claimable,    \* roles that somebody may take the seat of
    Kind,         \* Kind[o]: how o is submitted (Kinds below)
    Issuer,       \* Issuer[o]: the role that submits o
    Chains,       \* Chains[o]: the chains of deciding roles that o gets from
                  \* one authority definition or another, <<>> if it needs none
    Near,         \* messages whose sender and recipient are one entity
    Radios,       \* values of simulation.uses_radio_propagation() considered
    Failures,     \* whether the event store of a volatile game may fail
    Edits,        \* whether the host edits the authority definition
    Mission,      \* whether the scenario has an objective that ends
    Delay,        \* vacant_delay_ticks, EXTERNAL_OPERATOR_DELAY_TICKS
    MaxAttempts,  \* MAX_ATTEMPTS of execution_acks.rs
    RetryTicks,   \* RETRY_TICKS of execution_acks.rs
    Window        \* reporting_window_ticks

Kinds == {"order",      \* a player's intent (intents::submit_intent)
          "plan",       \* an intent of ai_orders::process_ai_orders
          "request",    \* a request that has no intent to execute
          "satellite",  \* the same for a satellite of the armed forces, ...
          "external"}   \* ... or of an operator outside the game

ASSUME FlowAssumption ==
    /\ Kind \in [Order -> Kinds]
    /\ Issuer \in [Order -> Role]
    /\ Claimable \subseteq Role
    /\ Chains \in [Order -> SUBSET Seq(Role)]
    /\ \A o \in Order : Kind[o] \notin {"order", "plan"} => <<>> \notin Chains[o]
    /\ Delay \in Nat \ {0} /\ MaxAttempts \in Nat \ {0}
    /\ RetryTicks \in Nat \ {0} /\ Window \in Nat
    /\ Radios \subseteq BOOLEAN /\ {Failures, Edits, Mission} \subseteq BOOLEAN

\* The legs of a command: to its i-th decider, to its executor, and back.
Ask(o, i)   == [of |-> o, leg |-> "ask", n |-> i]
Command(o)  == [of |-> o, leg |-> "order", n |-> 1]
Reply(o, i) == [of |-> o, leg |-> "ack", n |-> i]

Asks(o)    == UNION {{Ask(o, i) : i \in 1..Len(chain)} : chain \in Chains[o]}
Replies(o) == {Reply(o, i) : i \in 1..MaxAttempts}
Message    == UNION {Asks(o) \cup {Command(o)} \cup Replies(o) : o \in Order}

ASSUME NearAssumption ==
    /\ Near \subseteq Message
    /\ \A o \in Order : Kind[o] = "external" => Ask(o, 1) \in Near

VARIABLES
    radio,     \* simulation.uses_radio_propagation(), fixed with the scenario
    status,    \* game.status once started: "Running" or "Paused"
    broken,    \* game.operational_error is set
    alive,     \* the simulation loop's task has not panicked
    mission,   \* "active", "ending" in the tick that completes it, or "over"
    whole,     \* this frame of the simulation completes a second
    window,    \* impact_reports.remaining_ticks
    phase,     \* what the tick does next, "idle" between two ticks
    present,   \* roles of the current authority definition
    seated,    \* roles with an owner or an agent
    request,   \* request[o]: the AuthorityRequest made for o
    pending,   \* messages in pending_deliveries
    record,    \* record[m]: MessageState of m's record, "None" without one
    verdict,   \* verdict[m]: what the network did with m
    queue,     \* queue[o]: how often PendingIntents holds the intent of o
    applied,   \* AppliedIntents
    results,   \* OrderResults
    acks       \* acks[o]: the ExecutionAcknowledgement of o

game  == <<status, broken>>
clock == <<alive, mission, whole, window, phase>>
seats == <<radio, present, seated>>
wires == <<pending, record, verdict>>
world == <<queue, applied, results>>
vars  == <<radio, status, broken, alive, mission, whole, window, phase, present,
           seated, request, pending, record, verdict, queue, applied, results, acks>>

Network == INSTANCE MessageDelivery WITH Msg <- Message

--------------------------------------------------------------------------------
(* Requests and records.                                                   *)

Open     == {"Queued", "InTransit"}
Lost     == {"Expired", "Dropped", "Unacknowledged"}
Decision == [role : Role, approved : BOOLEAN, automatic : BOOLEAN]

\* `step' is the step being decided or travelled to, Len(steps) + 1 once the
\* command itself travels; `left' counts down to resolves_at_tick.  An order
\* that needs no decision has no request.
NoRequest == [status |-> "None", steps |-> <<>>, step |-> 1, left |-> 0,
              decisions |-> <<>>]

Waiting == {"WaitingVacant", "PendingExternal"}
Turned(r, state) ==
    [r EXCEPT !.status = state, !.left = IF state \in Waiting THEN Delay ELSE 0]

Decider(r) == r.steps[r.step]
\* Mutant: the command leaves before the last decider was asked.
AwaitedEarly(o, r) == IF r.step < Len(r.steps) THEN Ask(o, r.step) ELSE Command(o)

Awaited(o, r) == IF r.step <= Len(r.steps) THEN Ask(o, r.step) ELSE Command(o)
Awaits(m, r)  == r.status = "InTransit" /\ Awaited(m.of, r) = m

Executable(o) == Kind[o] \in {"order", "plan"}
Fresh(o)      == \A m \in Asks(o) \cup {Command(o)} : record[m] = "None"
Submission(o) == Kind[o] = "order" /\ ~Fresh(o)    \* in intent_submissions

NoAck == [made |-> 0, left |-> 0, received |-> FALSE, known |-> FALSE]

Answering(o) == Replies(o) \cap pending # {}

AcksSettled == \A o \in Order : acks[o].known =>
    acks[o].received \/ (acks[o].made >= MaxAttempts /\ ~Answering(o))

Over    == mission # "active"
Running == status = "Running"

--------------------------------------------------------------------------------
(* What the arrival of a message does (apply_delivery).                    *)

\* The request reaches a decider: the seat decides, or chance after a delay.
Activated(o, r) ==
    Turned(r, IF Kind[o] = "external" THEN "PendingExternal"
              ELSE IF Decider(r) \in seated THEN "PendingHuman" ELSE "WaitingVacant")

\* Only the leg the request is waiting for moves it.
Arrived(m, requests) ==
    [requests EXCEPT ![m.of] =
        IF ~Awaits(m, @) THEN @
        ELSE IF m.leg = "order" THEN Turned(@, "Approved")
        ELSE Activated(m.of, @)]

\* Mutant: nobody asks whether the mission is still on.
EntersLate(m, requests) ==
    /\ m.leg = "order"
    /\ requests[m.of].status = "None" \/ Awaits(m, requests[m.of])

\* A command is queued in the simulation, directly or for its request.
Enters(m, requests) ==
    /\ m.leg = "order" /\ ~Over
    /\ requests[m.of].status = "None" \/ Awaits(m, requests[m.of])

\* execution_acks::receive
Received(m, answers) ==
    IF m.leg = "ack" THEN [answers EXCEPT ![m.of].received = TRUE] ELSE answers

Arrive(m, requests, answers) ==
    /\ request' = Arrived(m, requests)
    /\ queue' = IF Enters(m, requests) THEN [queue EXCEPT ![m.of] = @ + 1] ELSE queue
    /\ acks' = Received(m, answers)

\* Mutant: the loss is only logged.
FailedSilently(lost, requests) == requests

\* Mutant: the request is not asked what it waits for.
FailedAlways(lost, requests) ==
    [o \in Order |-> IF requests[o].status # "None" /\ \E m \in lost : m.of = o
                     THEN Turned(requests[o], "BlockedComms") ELSE requests[o]]

\* fail_delivery: a request whose leg is lost is blocked.
Failed(lost, requests) ==
    [o \in Order |-> IF \E m \in lost : m.of = o /\ Awaits(m, requests[o])
                     THEN Turned(requests[o], "BlockedComms") ELSE requests[o]]

\* record_transition could not write; abort_pending.
Abort(requests, dropped) ==
    /\ status' = "Paused"
    /\ broken' = TRUE
    /\ pending' = {}
    /\ request' = Failed(pending, requests)
    /\ record' = [m \in Message |-> IF m \in dropped \/ record[m] \in Open
                                    THEN "Dropped" ELSE record[m]]

--------------------------------------------------------------------------------
(* Sending (transmit_c2_message_from_entity and what its callers do with   *)
(* the answer): `sent' are the requests if the message goes, `unsent' if   *)
(* it does not, `answers' the acknowledgements either way.                 *)

Accepted(m, sent, answers) ==
    /\ m \notin Near
    /\ Network!Accept(m)
    /\ record' = [record EXCEPT ![m] = "Queued"]
    /\ pending' = pending \cup {m}
    /\ request' = sent
    /\ acks' = answers
    /\ UNCHANGED <<queue, game>>

HandedOver(m, sent, answers) ==
    /\ m \in Near
    /\ record' = [record EXCEPT ![m] = "Delivered"]
    /\ Arrive(m, sent, answers)
    /\ UNCHANGED <<verdict, pending, game>>

\* No configured route.
NoRoute(m, unsent, answers) ==
    /\ m \notin Near
    /\ record' = [record EXCEPT ![m] = "Dropped"]
    /\ request' = unsent
    /\ acks' = answers
    /\ UNCHANGED <<verdict, pending, queue, game>>

\* The network may have the message all the same.
Unrecorded(m, unsent, answers) ==
    /\ Failures
    /\ \/ UNCHANGED verdict
       \/ m \notin Near /\ Network!Accept(m)
    /\ Abort(unsent, {m})
    /\ acks' = answers
    /\ UNCHANGED queue

Post(m, sent, unsent, answers) ==
    \/ Accepted(m, sent, answers)
    \/ HandedOver(m, sent, answers)
    \/ NoRoute(m, unsent, answers)
    \/ Unrecorded(m, unsent, answers)

\* The next leg of request r leaves from the decider's role.
Forward(o, from, to, r) ==
    LET blocked == [request EXCEPT ![o] = Turned(r, "BlockedComms")]
    IN  IF from \in present /\ to \subseteq present
        THEN Post(Awaited(o, r), [request EXCEPT ![o] = Turned(r, "InTransit")],
                  blocked, acks)
        ELSE /\ request' = blocked
             /\ UNCHANGED <<wires, queue, acks, game>>

\* advance_authority_request
Advance(o, approved, automatic) ==
    LET r    == request[o]
        role == Decider(r)
        said == [r EXCEPT !.decisions = Append(@, [role |-> role,
                            approved |-> approved, automatic |-> automatic])]
        next == [said EXCEPT !.step = r.step + 1]
        Close(state) ==
            /\ request' = [request EXCEPT ![o] = state]
            /\ UNCHANGED <<wires, queue, acks, game>>
    IN  \/ ~approved /\ Close(Turned(said, "Denied"))
        \/ approved /\ r.step < Len(r.steps)
           /\ Forward(o, role, {Decider(next)}, next)
        \/ approved /\ r.step = Len(r.steps)
           /\ IF Executable(o) THEN Forward(o, role, {}, next)
              ELSE Close(Turned(next, "ApprovedNoExecutor"))

--------------------------------------------------------------------------------
(* Between two ticks: players, agents and the host.                        *)

Idle == phase = "idle"

Asking(chain) == Turned([NoRequest EXCEPT !.steps = chain], "InTransit")

\* A command names roles of the current authority definition, and is new.
Submit(o) ==
    /\ Idle /\ Fresh(o)
    /\ Kind[o] \in {"order", "plan", "request"}
    /\ Issuer[o] \in seated
    /\ Executable(o) => Running
    /\ ~Over
    /\ Kind[o] = "plan" => alive
    /\ \E chain \in Chains[o] :
           /\ \A i \in 1..Len(chain) : chain[i] \in present
           /\ IF chain = <<>> THEN Post(Command(o), request, request, acks)
              ELSE Post(Ask(o, 1), [request EXCEPT ![o] = Asking(chain)], request, acks)
    /\ UNCHANGED <<clock, seats, applied, results>>

\* create_satellite_request looks up the catalog without the lock, and then at
\* the seat again; whether the game runs or is over makes no difference to it.
SubmitSatellite(o) ==
    /\ Idle /\ Fresh(o)
    /\ Kind[o] \in {"satellite", "external"}
    /\ Issuer[o] \in seated
    /\ \E chain \in Chains[o] :
           /\ Kind[o] = "satellite" => chain[1] \in present
           /\ Post(Ask(o, 1), [request EXCEPT ![o] = Asking(chain)], request, acks)
    /\ UNCHANGED <<clock, seats, applied, results>>

MayDecide(r) == r.status = "PendingHuman"

\* decide_authority_request, with a lease, paused or not.
Decide(o, approved) ==
    /\ Idle /\ ~Over
    /\ MayDecide(request[o])
    /\ Decider(request[o]) \in seated
    /\ Advance(o, approved, FALSE)
    /\ UNCHANGED <<clock, seats, applied, results>>

Others == <<radio, request, wires, world, acks, broken>>

Sit(r) ==
    /\ Idle /\ r \in (present \cap Claimable) \ seated
    /\ seated' = seated \cup {r}
    /\ UNCHANGED <<status, clock, present, Others>>

Leave(r) ==
    /\ Idle /\ r \in seated
    /\ seated' = seated \ {r}
    /\ UNCHANGED <<status, clock, present, Others>>

\* The roles somebody sits in stay.
Editable(roles) == seated \subseteq roles

UpdateAuthority(roles) ==
    /\ Edits /\ Idle
    /\ Editable(roles)
    /\ present' = roles
    /\ UNCHANGED <<status, clock, seated, Others>>

Pause ==
    /\ Idle /\ Running
    /\ status' = "Paused"
    /\ UNCHANGED <<clock, seats, Others>>

\* A completed mission runs on only while its reports are under way.
Resume ==
    /\ Idle /\ ~Running
    /\ Over => window > 0
    /\ status' = "Running"
    /\ UNCHANGED <<clock, seats, Others>>

--------------------------------------------------------------------------------
(* One frame of the simulation loop (advance_game_tick_mode).              *)

GoTo(next) ==
    /\ phase' = next
    /\ UNCHANGED <<alive, mission, whole, window>>

EndTick ==
    /\ phase' = "idle"
    /\ mission' = IF Over THEN "over" ELSE mission
    /\ whole' = TRUE
    /\ UNCHANGED alive

Stop == EndTick /\ UNCHANGED window

Elsewhere == <<seats, request, wires, world, acks>>

\* A retry of an acknowledgement waits for radio seconds, which pass after
\* the mission too.
AcksWait == acks' = [o \in Order |-> [acks[o] EXCEPT !.left = IF @ = 0 THEN 0 ELSE @ - 1]]

BeginTick ==
    /\ Idle /\ alive /\ Running
    /\ IF Over
       THEN GoTo("air") /\ AcksWait
       ELSE GoTo("inbox") /\ UNCHANGED acks
    /\ UNCHANGED <<game, seats, request, wires, world>>

\* record_transition, then the action that waits for the message.
Noted(m) ==
    LET state == verdict'[m]
    IN  /\ record' = [record EXCEPT ![m] = state]
        /\ IF m \in pending /\ state \in {"Delivered"} \cup Lost
           THEN /\ pending' = pending \ {m}
                /\ IF state = "Delivered" THEN Arrive(m, request, acks)
                   ELSE /\ request' = Failed({m}, request)
                        /\ UNCHANGED <<queue, acks>>
           ELSE UNCHANGED <<pending, request, queue, acks>>

\* Packets: process_network_messages, called at every turn of the tick.
PacketEvent(m) ==
    /\ ~radio /\ phase \in {"inbox", "relay", "report", "reply", "wire"}
    /\ record[m] \in Open
    /\ Network!Start(m) \/ Network!Deliver(m) \/ Network!Lose(m)
    /\ \/ Noted(m) /\ UNCHANGED game
       \/ Failures /\ Abort(request, {m}) /\ UNCHANGED <<queue, acks>>
    /\ UNCHANGED <<clock, seats, applied, results>>

\* Reliable messages: planning::process_deliveries, once a second.
Happens(m) ==
    \/ Network!Start(m) \/ Network!Deliver(m) \/ Network!Acknowledge(m)
    \/ Network!Lose(m) \/ Network!Doubt(m)

RadioEvent(m) ==
    /\ radio /\ phase = "air"
    /\ Happens(m)
    /\ Noted(m)
    /\ UNCHANGED <<game, clock, seats, applied, results>>

\* The events drained after one that could not be written are gone.
DeliveryUnrecorded(m) ==
    /\ radio /\ Failures /\ phase = "air"
    /\ Happens(m)
    /\ record' = [record EXCEPT ![m] = "Dropped"]
    /\ status' = "Paused"
    /\ broken' = TRUE
    /\ GoTo("deaf")
    /\ UNCHANGED <<seats, request, pending, world, acks>>

UnheardEvent(m) ==
    /\ phase = "deaf"
    /\ Happens(m)
    /\ UNCHANGED <<game, clock, seats, request, pending, record, world, acks>>

\* process_vacant_authority_requests, for the requests it changes.
Vacant(o) ==
    /\ phase \in {"vacant", "last"}
    /\ LET r == request[o]
           Turn(state) ==
               /\ request' = [request EXCEPT ![o] = Turned(r, state)]
               /\ UNCHANGED <<game, wires, queue, acks>>
       IN  \/ /\ r.status = "PendingExternal" /\ r.left = 0
              /\ Turn("ApprovedNoExecutor") \/ Turn("DeniedExternal")
           \/ /\ r.status = "WaitingVacant" /\ Decider(r) \in seated
              /\ Turn("PendingHuman")
           \/ /\ r.status = "WaitingVacant" /\ Decider(r) \notin seated /\ r.left = 0
              /\ \E approved \in BOOLEAN : Advance(o, approved, TRUE)
           \/ /\ r.status = "PendingHuman" /\ Decider(r) \notin seated
              /\ Turn("WaitingVacant")
    /\ UNCHANGED <<clock, seats, applied, results>>

NothingVacant == \A o \in Order :
    LET r == request[o]
    IN  /\ r.status \in Waiting => r.left > 0
        /\ r.status = "WaitingVacant" => Decider(r) \notin seated
        /\ r.status = "PendingHuman" => Decider(r) \in seated

\* The intents whose time has come are applied, each id once.
ApplyOrders ==
    \E due \in SUBSET {o \in Order : queue[o] > 0} :
        /\ queue' = [o \in Order |-> IF o \in due THEN 0 ELSE queue[o]]
        /\ applied' = applied \cup due
        /\ results' = results \cup due

\* A frame of the simulation; with a full second the mission may end.
Step ==
    /\ phase = "step"
    /\ ApplyOrders
    /\ \/ /\ whole' = TRUE
          /\ mission' \in {mission} \cup (IF Mission THEN {"ending"} ELSE {})
          /\ request' = [o \in Order |->
                 [request[o] EXCEPT !.left = IF @ = 0 THEN 0 ELSE @ - 1]]
          /\ AcksWait
          /\ phase' = "air"
       \/ /\ whole' = FALSE
          /\ phase' = "record"
          /\ UNCHANGED <<mission, request, acks>>
    /\ UNCHANGED <<game, alive, window, seats, wires>>

\* intents::record_execution_results; indexing the roles with the issuer's
\* panics when the host has removed it, and ends the loop.
RecordResult(o) ==
    /\ phase = "record" /\ o \in results
    /\ results' = results \ {o}
    /\ IF ~Submission(o) \/ acks[o].known
       THEN UNCHANGED <<acks, clock>>
       ELSE IF Issuer[o] \in present
       THEN /\ acks' = [acks EXCEPT ![o].known = TRUE]
            /\ UNCHANGED clock
       ELSE /\ alive' = FALSE
            /\ phase' = "idle"
            /\ UNCHANGED <<acks, mission, whole, window>>
    /\ UNCHANGED <<game, seats, request, wires, queue, applied>>

AckDue(o) == /\ acks[o].known /\ ~acks[o].received
             /\ acks[o].made < MaxAttempts
             /\ acks[o].left = 0
             /\ ~Answering(o)

\* execution_acks::send_pending; a failed write stops it.
SendAck(o) ==
    /\ phase = "acks" /\ Running /\ AckDue(o)
    /\ LET made  == acks[o].made + 1
           tried == [acks EXCEPT ![o] = [@ EXCEPT !.made = made, !.left = RetryTicks]]
       IN  Post(Reply(o, made), request, request, tried)
    /\ UNCHANGED <<clock, seats, applied, results>>

\* The calls of a frame in order, with the returns between them.
Proceed ==
    /\ \/ phase = "inbox"  /\ IF Running THEN GoTo("vacant") ELSE Stop
       \/ phase = "vacant" /\ NothingVacant /\ GoTo("relay")
       \/ phase = "relay"  /\ IF Running THEN GoTo("step") ELSE Stop
       \/ phase \in {"air", "deaf"}
              /\ GoTo(IF mission = "over" THEN "report" ELSE "record")
       \/ phase = "record" /\ results = {} /\ GoTo(IF whole THEN "report" ELSE "acks")
       \/ phase = "report" /\ GoTo("acks")
       \/ phase = "acks" /\ (\A o \in Order : ~Running \/ ~AckDue(o))
              /\ IF whole /\ mission # "over" /\ ~Running THEN Stop ELSE GoTo("reply")
       \/ phase = "reply"
              /\ IF ~whole THEN Stop
                 ELSE IF Over THEN GoTo("close")
                 ELSE IF Running THEN GoTo("last") ELSE Stop
       \/ phase = "last" /\ NothingVacant /\ GoTo("wire")
       \/ phase = "wire" /\ Stop
    /\ UNCHANGED <<game, Elsewhere>>

\* Mutant: the seconds of the window are not counted.
WindowStands == IF mission = "ending" THEN Window ELSE window

NextWindow == IF mission = "ending" THEN Window
              ELSE IF window > 0 THEN window - 1 ELSE 0

\* The reporting window opens with the end of the mission and closes when its
\* time is up or everything is settled, impact reports (not modelled) included.
CloseWindow ==
    /\ phase = "close"
    /\ window' = NextWindow
    /\ \/ /\ window' = 0 \/ AcksSettled
          /\ phase' = "finish"
          /\ UNCHANGED <<alive, mission, whole>>
       \/ window' > 0 /\ EndTick
    /\ UNCHANGED <<game, Elsewhere>>

\* transport::finish_reporting, message by message.
FinishReporting(m) ==
    /\ phase = "finish" /\ record[m] \in Open
    /\ \/ radio /\ Network!Cancel(m)
       \/ (~radio \/ verdict[m] \notin Open) /\ UNCHANGED verdict
    /\ \/ /\ record' = [record EXCEPT ![m] = "Dropped"]
          /\ pending' = pending \ {m}
          /\ request' = Failed({m} \cap pending, request)
          /\ UNCHANGED game
       \/ Failures /\ Abort(request, {m})
    /\ UNCHANGED <<clock, seats, world, acks>>

FinishTick ==
    /\ phase = "finish"
    /\ \A m \in Message : record[m] \notin Open
    /\ status' = "Paused"
    /\ Stop
    /\ UNCHANGED <<broken, Elsewhere>>

--------------------------------------------------------------------------------
(* Receipts: what the issuer of an order is told of it                     *)
(* (receipt_for_principal), while the event store has not failed.          *)

\* Mutant: whoever did not acknowledge the message is taken not to have it.
DoubtIsLoss(m) == CASE record[m] = "InTransit" -> "InTransit"
                    [] record[m] \in {"Delivered", "Acknowledged"} -> "AwaitingExecution"
                    [] record[m] = "Expired" -> "Expired"
                    [] record[m] \in {"Dropped", "Unacknowledged"} -> "Dropped"
                    [] OTHER -> "Queued"

\* message_state: an unacknowledged message was delivered all the same.
MessageState(m) ==
    CASE record[m] = "InTransit" -> "InTransit"
      [] record[m] \in {"Delivered", "Acknowledged", "Unacknowledged"} -> "AwaitingExecution"
      [] record[m] = "Expired" -> "Expired"
      [] record[m] = "Dropped" -> "Dropped"
      [] OTHER -> "Queued"

\* The latest message that names the order: those between deciders do not.
Bearer(o) == IF record[Command(o)] # "None" THEN Command(o) ELSE Ask(o, 1)

\* Before a confirmation is looked for.
Outlook(o) ==
    LET r == request[o]
    IN  CASE r.status = "None" -> MessageState(Bearer(o))
          [] r.status = "InTransit" -> MessageState(Awaited(o, r))
          [] r.status \in {"PendingHuman"} \cup Waiting -> "AwaitingAuthority"
          [] r.status = "Approved" -> "AwaitingExecution"
          [] r.status = "Denied" -> "Denied"
          [] r.status = "BlockedComms" ->
                IF record[Bearer(o)] = "Expired" THEN "Expired" ELSE "Dropped"

\* The issuer shares the unit's entity if a reply need not travel.  An executed
\* order that no reply tells of reads "Unconfirmed" in the end.
Receipt(o) ==
    LET state == Outlook(o)
    IN  IF acks[o].received THEN "Executed"
        ELSE IF state = "AwaitingExecution" /\ ~(Replies(o) \subseteq Near)
             THEN "AwaitingAcknowledgement"
        ELSE IF Over /\ state \in Open \cup {"AwaitingAuthority", "AwaitingExecution"}
             THEN "Rejected"
        ELSE state

--------------------------------------------------------------------------------
Init ==
    /\ radio \in Radios
    /\ status = "Running" /\ broken = FALSE /\ alive = TRUE
    /\ mission = "active" /\ whole = TRUE /\ window = 0 /\ phase = "idle"
    /\ present = Role /\ seated \in SUBSET Claimable
    /\ request = [o \in Order |-> NoRequest]
    /\ pending = {}
    /\ record = [m \in Message |-> "None"]
    /\ Network!Init
    /\ queue = [o \in Order |-> 0] /\ applied = {} /\ results = {}
    /\ acks = [o \in Order |-> NoAck]

Users ==
    \/ \E o \in Order : Submit(o) \/ SubmitSatellite(o) \/ \E approved \in BOOLEAN : Decide(o, approved)
    \/ \E r \in Role : Sit(r) \/ Leave(r)
    \/ \E roles \in SUBSET Role : UpdateAuthority(roles)
    \/ Pause \/ Resume

Wires == \E m \in Message : \/ PacketEvent(m) \/ RadioEvent(m)
                            \/ DeliveryUnrecorded(m) \/ UnheardEvent(m)

Loop ==
    \/ BeginTick \/ Step \/ Proceed \/ CloseWindow \/ FinishTick
    \/ \E o \in Order : Vacant(o) \/ RecordResult(o) \/ SendAck(o)
    \/ \E m \in Message : FinishReporting(m)

Next == Users \/ Wires \/ Loop

\* The loop runs, its frames add up to seconds, and the network does not keep
\* what it accepted for ever (MessageDelivery!EverySettled).
Fairness ==
    /\ WF_vars(Loop)
    /\ SF_vars(Step /\ whole')
    /\ SF_vars(Wires /\ pending' # pending)

Spec == Init /\ [][Next]_vars /\ Fairness

--------------------------------------------------------------------------------
(* Properties.                                                             *)

Phases == {"idle", "inbox", "vacant", "relay", "step", "air", "deaf", "record",
           "report", "acks", "reply", "close", "finish", "last", "wire"}
Final  == {"Approved", "ApprovedNoExecutor", "Denied", "DeniedExternal",
           "BlockedComms"}

Request == [status : {"None", "InTransit", "PendingHuman"} \cup Waiting \cup Final,
            steps : Seq(Role), step : Nat, left : 0..Delay, decisions : Seq(Decision)]
Ack     == [made : 0..MaxAttempts, left : 0..RetryTicks,
            received : BOOLEAN, known : BOOLEAN]

TypeOK ==
    /\ status \in {"Running", "Paused"}
    /\ radio \in Radios /\ {broken, alive, whole} \subseteq BOOLEAN
    /\ mission \in {"active", "ending", "over"}
    /\ window \in 0..Window
    /\ phase \in Phases
    /\ present \subseteq Role /\ seated \subseteq present
    /\ request \in [Order -> Request]
    /\ pending \subseteq Message
    /\ record \in [Message -> {"None", "Delivered", "Acknowledged"} \cup Open \cup Lost]
    /\ verdict \in [Message -> Network!Verdict]
    /\ queue \in [Order -> Nat] /\ applied \subseteq Order /\ results \subseteq Order
    /\ acks \in [Order -> Ack]

Reached(m) == m \in Near \/ verdict[m] \in {"Delivered", "Acknowledged", "Unacknowledged"}

\* The chain of command: an order is in the simulation's hands, at most once,
\* only after each of its deciders in turn was reached by the request and said
\* yes, and the command itself reached the executing unit, whatever seats,
\* authority definition, store and network did meanwhile.
OnlyVouchedOrders ==
    /\ \A o \in applied \cup {p \in Order : queue[p] > 0} :
           /\ Reached(Command(o))
           /\ request[o].steps \in Chains[o]
           /\ Len(request[o].decisions) = Len(request[o].steps)
           /\ \A i \in 1..Len(request[o].steps) :
                  /\ Reached(Ask(o, i))
                  /\ request[o].decisions[i].role = request[o].steps[i]
                  /\ request[o].decisions[i].approved
    /\ \A o \in Order : queue[o] <= IF o \in applied THEN 0 ELSE 1

\* What the issuer reads is true, and stays so: "executed" is said only after the
\* order was applied and a reply made the way back, and an order said to be
\* refused, lost or overtaken by the end of the mission was not applied, nor is
\* anything of it left that could apply it.
ReceiptsAreHonest ==
    Idle /\ ~broken => \A o \in Order : Submission(o) =>
        /\ Receipt(o) = "Executed" => o \in applied /\ \E m \in Replies(o) : Reached(m)
        /\ Receipt(o) \in {"Dropped", "Expired", "Denied", "Rejected"} =>
               /\ o \notin applied
               /\ Over \/ /\ \A m \in pending : m.of # o
                          /\ queue[o] = 0
                          /\ request[o].status \notin {"PendingHuman"} \cup Waiting

\* The instances in which receipts are honest.  When the host removes the role of
\* an issuer who is aboard the unit, recording its executed order panics, the
\* reply is never handed over, and after the mission the order reads "Rejected".
RepliesTravel == Edits /\ Mission =>
    \A o \in Order : Kind[o] = "order" => ~(Replies(o) \subseteq Near)

\* What was decided stays decided: a late, duplicate or failed delivery never
\* moves a request that came to its end, nor takes a decision back.
DecisionsStand ==
    [][\A o \in Order :
          /\ request[o].status \in Final => request'[o] = request[o]
          /\ Len(request'[o].decisions) >= Len(request[o].decisions)
          /\ SubSeq(request'[o].decisions, 1, Len(request[o].decisions))
                 = request[o].decisions]_vars

\* After the end of the mission nothing enters the simulation or is applied.
NothingAfterTheEnd ==
    [][Over => /\ \A o \in Order : queue'[o] <= queue[o]
               /\ applied' = applied]_vars

\* Not checked by a run, TLC refutes it in the instance of CommandsFailing.cfg: a
\* failure of the event store discards every pending action.
DiscardOnFailure == [][~broken /\ broken' => pending' = {}]_vars

\* Not checked by a run, TLC refutes it in the instance of CommandsFailing.cfg:
\* every executed order of a player is acknowledged.
ResultsAreAcknowledged ==
    Idle => \A o \in applied : Submission(o) => acks[o].known

\* In a game that keeps running, its loop and its event store whole, a request
\* does not stay in transit and an acknowledgement is received or given up.
EveryLegEnds ==
    <>[](Running /\ alive /\ ~broken) =>
        \A o \in Order :
            /\ request[o].status = "InTransit" ~> request[o].status # "InTransit"
            /\ acks[o].known ~> acks[o].received
                                \/ (acks[o].made = MaxAttempts /\ ~Answering(o))

\* The reporting window closes, unless the loop that counts it is gone.
ReportingCloses == (Over /\ Running) ~> (~Running \/ ~alive)

================================================================================
