# World At War: specifications

TLA+ models of the parts of the server and simulation whose correctness depends on
the order of things: messages that get lost, seats that expire, transactions that
fail half way, commands, plans and reports that travel while everything else changes.
TLC checks the models on small instances; TLAPS proves the most important properties
for every value of the constants. `PROJECT.json` lists the runs, the source lines
behind every definition, the hazards and the theorems.

    tlc -workers 2 -config Transport.cfg MCReliableTransport.tla
    tlapm SeatLeasesProofs.tla

## The system

A Rust workspace (`crates/`) with a web client (`web/`). One process serves an HTTP
API, keeps all games in memory behind one lock, advances the running ones sixty
times a second, and journals them in PostgreSQL. Packets travel in `c3mesh`, a
library outside the repository.

| Part | State it keeps | Operations | Interacts by |
|---|---|---|---|
| Reliable application transport (`sim-core/src/transport.rs`) | live messages, finished ids, packets, delivery events | send, cancel, one pass of `advance_messages` a second | called by the kernel's step; events drained by the server |
| Packet network (c3mesh, external) | packets in the air | forward, lose, delay | reports to the transport and the server |
| Command pipeline (`server/src/{main,intents,transport,planning,execution_acks}.rs`) | authority requests, pending deliveries, message records, submissions, acknowledgements | submit, decide, deliver, fail, abort, vacancy, execute, acknowledge, close the reporting window | messages over the transport; the kernel's intent queue |
| Seats (`leases.rs`, `observers.rs`, `update_authority`) | occupancy of seats with lease and generation, grants, the authority definition | claim, renew, resume, release, expire, move, remove, grant, edit, hand to an agent | validates every request; sessions release seats |
| Teams (`teams.rs`) | members, requests, the control revision | join, request, decide, withdraw, remove, control by revision | decides who may take which seat |
| Sessions and accounts (`auth.rs`) | sessions, password hashes, throttles | guest, register, login, logout, expiry | guards requests; committed with the games |
| Durability (`recovery.rs`, `storage.rs`) | gate, backup, journal, snapshots, advisory lock, failed and stopping flags | transaction boundary, commit, rollback, load and replay, shutdown | wraps every mutating handler and every loop cycle |
| Simulation loop (`main.rs`, `game_clock.rs`) | schedule of frames | release expired, capture inputs, advance, commit | gate, kernel, all the above |
| AI agents (`agents.rs`, `ai_orders.rs`, `sim-ai`) | connections, open work with deadlines, generations, decisions | configure, observe, decide, time out, fall back, rotate, revoke | seats, submissions |
| Planning (`planning.rs`, `sim-core/src/operations.rs`) | drafts, proposals, published plans, handoffs, missions and their reports | save, propose, adopt, publish, cancel, clear, hand over, fly | messages over the transport |
| Sensing (`sim-core/src/sensing.rs`, `update_reports`, `sensor_reports.rs`) | estimates, evidence, watermarks, bearings | observe, receive, report, relay | messages over the transport |
| In-flight target updates (`sim-core/src/iftu`) | provider, assignment revision, estimate on both sides | designate, launch, update, subscribe, assign, retarget | datagrams that may be lost |
| Logistics (`sim-core/src/logistics.rs`) | units with phase, fuel and cargo; stocks | deliver a task, guide, serve, settle | tasks from orders; losses from combat |
| Communications archive (`audit.rs`, `storage.rs`) | observations and record history, heads, floors, bodies | observe, commit, page, clean up | commit, maintenance task, readers |
| Kernel (`sim-core/src/lib.rs`) | ECS world | `step`, snapshots | queue of intents, results |
| Impact reports, combat, propagation | physical effects | compute | kernel |
| Catalogues, scenarios, airspace, geodesy, terrain | static data | parse, validate, compute | arguments and results |
| Web client (`web/src`) | saved session, streams, polls | fetch, retry | HTTP |

What is hard: the transport retries over a lossy network with two clocks; leases
run by the wall clock while players, hosts and agents act; a request is
authenticated before it waits for the gate and acts after it; a commit can succeed
without the server knowing; two processes can believe they own the database; a
handler can panic with half of its changes in memory; a command's chain of decisions
spans minutes in which seats and even the authority definition change; the event
store of a volatile game can fail between two steps; the world's clock stops at the
end of the mission while reports are still on their way; a plan is amended while its
units fly by older revisions; goods are promised in one frame and moved in others;
reports of one sighting come round by several ways; retention deletes what readers
are reading. The properties that make each part correct are the ones named below and
under `hazards`.

## Modules

| Module | Models | State and actions in the code |
|---|---|---|
| `MessageDelivery` | the contract of a reliable message, as its callers see it | `DeliveryState`; `verdict[m]` is what the sender was told |
| `ReliableTransport` | `sim-core/src/transport.rs` | `live`, `finished`, `message`, `packets` are the fields of `Transport`; `events` what `drain_deliveries` will hand out. One pass of `advance_messages` is `BeginPass`, one visit per message (`GiveUp`, `Wait`, `DeliverLocally`, `Attempt`), any packet reports, `EndPass` |
| `SeatLeases` | leases, immediate team moves, grants, authority edits, agent configuration, sessions' effect on seats | `occupancy` is `Occupancy` with the time left for the two deadlines; every HTTP handler is one action because it runs under the games lock; `Maintain` is the loop's once-a-second release |
| `TeamAdmission` | `teams.rs`: membership and its requests | `team`, `former`, `request`, `revision` are the fields of `Teams`; one action per handler; referee seats as far as they say who may decide |
| `AgentWork` | `TeamAdmission` with `agents.rs`, `game_clock.rs` and the controls of a game | `work`, `credential`, `fallback`, `decisions` are those of `Connection` and `AgentState`; `due` is `Scheduler::next`; `Frame` is one cycle of the loop, `Elapse` the wall clock; `View` and the controls carry the revision the client read |
| `GameStates` | what recovery can tell apart in a game, and what each request or tick does to it | pure operators, used by the next two |
| `DurableStore` | what clients may rely on: whole requests, ticks, pauses | the abstract specification |
| `Durability` | `recovery.rs`, the commit of `storage.rs`, the loop's use of them | `gate` is the mutex and what its holder backed up, `memory` the games, `cache` the session entries, `snapshot`, `journal` and `rows` the tables, `linked` the advisory lock |
| `CommandFlow` | the life of a command, from submission to acknowledgement, and the receipts its issuer reads | `request` is `authority_requests`, `pending` is `pending_deliveries`, `record` the message records, `queue` (how often an order is in it), `applied` and `results` the kernel's resources, `acks` is `execution_acks.results`. `phase` walks through the calls of `advance_game_tick_mode`; `Receipt` is the projection of `intents.rs` |
| `Missions` | `planning.rs`, `operations.rs` | `drafts`, `proposals`, `published`, `received`, `inbox` are the fields of `Planning` by role; `execution`, `tasking`, `completions` those of the operations resource by mission and unit; `Deliver` is one message of `network`, `Frame` a second of `advance_operations` |
| `SensorFusion` | `sensing.rs`, `update_reports`, `sensor_reports.rs` | `known[u]` is `u`'s part of `Runtime`; `wire` the reports under way; `phase` walks through a tick: sense, hear, broadcast, serve subscriptions; `made`, all sightings an estimate was ever made of, is a history that the code does not keep |
| `TargetUpdates` | `iftu/mod.rs` | `weapon` and `sender` are the two halves of `Flight`, `air` the datagrams, `view` the status each unit has received |
| `Logistics` | `logistics.rs` | `unit[u]` is `UnitRuntime`, `stock` what `FacilityRuntime` may still give away; `stage` walks through a frame, which visits every unit to guide it, to serve it and to settle it |
| `CommunicationsAudit` | `audit.rs`, the archive of `storage.rs`, `list_network_events` | `db` is what is committed, `pending` and `lifecycle` what is not, `heads` the numbers given, `buffer` the archive of a game without a database; `Commit`, `CommitFails`, `Restart`, `Sweep` (one cleanup batch), `AskFloor` and `Answer` (the two statements of a reader) |
| `MC*` | constants for TLC | |
| `FieldProofs` | theorems about `TargetUpdates`, `SensorFusion` and `Logistics` | |
| other `*Proofs` | theorems about the module of that name | |

How they compose. `ReliableTransport` is shown to implement `MessageDelivery` with a
refinement mapping from the delivery events; `CommandFlow` uses `MessageDelivery` as
its network (`Network == INSTANCE MessageDelivery`), so what it shows rests on the
contract that the transport is shown to keep. `Missions` and `SensorFusion` use less
of that contract: a message is delivered at most once, in any order, or never.
`Durability` implements `DurableStore`, both being written with `GameStates`.
`AgentWork` EXTENDS `TeamAdmission` and keeps its variables, so that teams, agents and
controls interleave. `SeatLeases` and `TeamAdmission` look at the same seats from two
sides: leases and tokens in the one, who may decide in the other. Operators marked
*Mutant* are plausible mistakes: replacing the definition they stand beside by one of
them must make TLC refute the property paired with it in `PROJECT.json`. They are not
part of the models.

What is abstracted. Payloads, contents of orders and reports, texts and positions. A
lease is the time it has left. Journal hashes are taken to be collision free, so an
event stores the state itself. Chance and geometry (vacant seats, external operators,
packet loss, whether an objective is reached, whether a bearing meets another, whether
a runway is open) are nondeterministic. In `CommandFlow` a chain of deciding roles is
picked from the chains that one authority definition or another may give; seats are
reduced to *occupied or not*, their rules being those of `SeatLeases`; the kernel
applies any subset of the queued intents in a frame, which covers every
`requested_tick`; a restart, which restores the state and pauses, is `Durability`'s
subject. The record of an external operator's decision carries no role, so it is left
out of `decisions`. `SensorFusion` leaves out what is known of friends and weather but
for the times that decide whether it is passed on. `CommunicationsAudit` has one
fragment and one hop per message and one game per cleanup batch.

## Runs

| Run | Instance and bounds | Shows |
|---|---|---|
| `transport` | a message of two fragments over one or two hops with a local one, or two of one fragment; two attempts two seconds apart, four seconds | the life story told of a message is legal (`Lifecycle`); acknowledgements never lie (`AckIsHonest`); the contract, its liveness included (`KeepsContract`) |
| `seats` | two players, one role and their White Cell seats, over two generations of a lease or with an edit of the definition; or one player with one role and one observer seat | owners are entitled to their seats; a player without session holds none; nobody takes a reserved seat; a dead token stays dead; seats come free |
| `durability` | two servers on one database, one game, one order; failed and unknown commits, lost connections, crashes, shutdown | the journal replays; history never forks; `DurableStore` is implemented, sign-out and seats together |
| `durability_panics` | one server, two clients, handlers that panic half way | answers to clients are durable |
| `commands_radio` | one order over the radio: direct, or through a role nobody can sit in and one somebody can; two replies | the chain of command is kept; receipts are true; every leg ends; the reporting window closes |
| `commands_failing` | an order and an external request; radio or packets; the event store may fail at any write; the host edits roles | decisions stand; nothing happens after the mission |
| `logistics_field` | three fleets: a tanker and two receivers; two transports and one parking place; a tender, an escort and a carrier. Three tasks and one hit | goods are not made; capacities, berths and stations are kept; separations end while the partner lives |
| `target_updates` | launcher and relay, two contacts, three datagrams, three ticks, the relay mortal | provider and assignment revision agree; numbers go on; an estimate comes from the provider of its revision |
| `missions` | three roles, three missions, two courses, two revisions, one handoff, one loss, eight scenes | weapons are accounted for; dependencies come first; handoffs happen at the aircraft; missions end |
| `agents` | a host and two players, two requests, two roles, two observations, four scenes | admission is vouched and decided once; answers are timely; the revision tells changes; frames do not burst; work ends |
| `fusion` | two platforms, one target, three sightings, four ticks; campaign links or subscriptions | freshness is earned; old reports replace no newer ones; own sightings are no news |
| `audit` | two terminals, an order and a report, three days, four observations; a new, an upgraded or a volatile game | gaps are told; numbers are not reused; only dead history goes; it does go |

Bounds. A CONSTANT named `Max...`, `Horizon`, `Targets`, `Orders`, `Mortal`, `Tasks`,
`Together` or `Scenes` is a bound. All but the last two appear in guards only; they
stop counters, clocks and the number of free events. `Together` says which messages may be in
flight together. `Scenes` picks in the initial state who takes part and which kinds of
events meet in the behaviour: every scene is a full run of the model with some free
inputs absent, and the union of the scenes, not their product, is explored. What never
meets in a scene is therefore not checked together by TLC: in `Missions` a loss and a
handoff, in `AgentWork` frames and team requests. The theorems have no such limit.

Why they are enough. Two messages, two fragments, two hops and two attempts are
the smallest numbers at which a message can disturb another, arrive in part, be lost
between hops and be retried; further ones repeat the same cases. Two players and one
role give every contest for a seat; two lease generations a stale token and its
successor. Two servers make a fork; the checkpoint interval (60 in the code) is cut to
two or three so that journals of every length up to it occur. Two servers with two
games would take hours; a second game shares with the first only the commit, which
the model writes for all touched games at once, and the proofs are for any number. One
order in `CommandFlow` meets every delivery, failure, edit and vacancy; a second one
can only share the abort and the loop over vacant requests with it, and
`commands_failing` has one. Two revisions are what an amendment needs, three missions
a dependency, a re-tasking and a competitor for one aircraft. Two units and a carrier
are every kind of coupling `Logistics` has; capacities of one or two let every stock
run full and empty. Three sightings let a report be older than an estimate, equal to
it and newer. Two observations let an answer be for the earlier one. Batches of two
rows and pages of one make cleanup and readers stop half way. `CHECK_DEADLOCK FALSE`
is set throughout because the systems do stop: at the bounds, with a paused game or
a crashed server.

Fairness. `ReliableTransport` and `SeatLeases` assume only that the loop keeps running
(`run_simulation_loop` never leaves its `loop`), never that anybody calls, sends or
succeeds, and let the network lose everything. `CommandFlow` assumes the loop, that
frames add up to seconds (a frame is a fixed fraction of 240 units), and that the
network gives a verdict on what it accepted, which is `EverySettled` of the contract;
its liveness properties are checked where the store does not fail and the host does
not remove roles, because they fail otherwise, as told below. `Logistics` assumes that
frames come; `Missions` that time and again a frame comes in which
every unit gets where it is going and nothing else befalls it (`Homeward`, which is what
movement does when nobody interferes), from which `MissionsEnd` follows that time and
again no mission is under way; `AgentWork` that the wall clock and
the loop go on in the scenes with frames; `CommunicationsAudit` that a frame's commit
ends, one way or the other, and that the maintenance loop gets its turn at the gate
again and again. `Durability`, `TargetUpdates` and `SensorFusion` have safety
properties only.

## Where the code differs from what is said of it

These statements are defined in the modules and, but for the seventh and the last, not
part of a run. Adding one to the cfg named makes TLC show the behaviour (`INVARIANT` for
the state predicates, `PROPERTY` for the rest).

1. `JournalReplays`, in `DurabilityPanics.cfg`. A handler that panics frees the gate
   before the failure is recorded (`recovery.rs`, the `Err` branch behind
   `catch_unwind`); a tick in between commits the partial change under its own journal
   entry, which then does not replay, and the server refuses to start.
2. `DiscardOnFailure`, in `CommandsFailing.cfg`. `planning::process_deliveries` returns
   at the first delivery it cannot record, without `abort_pending`; the test
   `event_store_failure_during_delivery_pauses_and_discards_every_pending_action` says
   that such a failure discards every pending action, and tests it with packets only.
3. `ResultsAreAcknowledged`, in `CommandsFailing.cfg`. `execution_acks::record_result`
   indexes the roles with the issuer's. Once the player has left the seat the host may
   remove the role while the order is on its way; its execution then panics the task
   that advances all games.
4. `OnePlanPerRevision`, in `Missions.cfg`. "Published revisions are immutable" (the
   error in `planning.rs`, and the repository's README): a publication that fails at one
   recipient has been sent to those before it, is not in `published`, and can be
   published again under the same number with another course.
5. `EstimatesAreNotRewound`, in `Fusion.cfg`. "Out-of-order data never rewinds a newer
   estimate" (the comment in `Runtime::receive`): candidates are compared by
   `predicted_tick` and `estimate_tick`, while `observed_tick` is overwritten by the
   report's, which may be older when the report was predicted further on the way.
6. `HistoryGapsAreTold`, in `Audit.cfg`. `docs/COMMUNICATIONS_AUDIT.md` promises a
   `truncated` field on record histories; `list_network_events` reads the floor and the
   rows in separate statements, and a cleanup between them leaves a gap that is not told.
7. `WeaponsAreAccountedFor` in `Missions.cfg` with courses in which `second` moves `sweep`
   from the jet to another aircraft and gives the jet another mission in the same window
   (`MovesLeaveRoom` of `Missions`, which `InstanceAssumption` of `MCMissions` states of
   the instance, then does not hold). `validate` (`operations.rs`) refuses an "aircraft
   allocated to overlapping missions", but looks at one course only: the jet goes on
   flying the mission that was moved until the other aircraft has received its tasking
   (`receive_tasking`), so it may have both active in one window.
8. `Separates`, in `LogisticsField.cfg`. A unit that takes fuel from a lost donor is
   disconnected anew in every frame, which resets the timer of its separation.
9. `WithinLimits`, in `LogisticsField.cfg` with every `MinDeparture` and `Reserve` 0, the
   tender starting in the depot, one unit of fuel in the escort, and the tasks to return
   and to depart for it.
   "Departure requires a berthed unit" (the error in `logistics.rs`), but the guard asks
   for a phase and a facility: a ship that runs dry on its way back is immobilized, keeps
   the facility it was bound for, and with a minimum of 0 departs at sea, counted at that
   facility, which is then over its parking capacity. `Configuration::validate` accepts
   such a profile, and more units that start in a facility than it has places;
   `Provisioned` says that neither is so, as in the data of the repository, and
   `InstanceAssumption` of `MCLogistics` states it of the instance.

## Proofs

Each theorem is proved from the module's named assumptions on its constants, which say
only that bounds and intervals are natural numbers, that sets do not overlap, that some
are finite, and what the code demands of a configuration (`ValidConfiguration`,
`ValidLogistics`). Every component has an inductive invariant (`IInv`, `FusionInv`,
`FieldInv`), made of the properties and of what they rest on; each part was checked by
TLC on the run's instance before it was proved. `TypeOK` is proved of every component that states one.

* `ReliableTransportProofs`: `Lifecycle`, `AckIsHonest`, `FinishedForever` (which the run
  leaves to the theorem), and the safety part of `KeepsContract` (`ContractHolds`: `Spec`
  implies `Contract!Safety`, every step of the transport being a step of
  `MessageDelivery` or none). `Lifecycle` alone is not inductive: what may be told next
  depends on the record of the message. `IInv` adds `StoreInv` (live and finished ids are
  disjoint, only live ones are still to be visited), `StoryInv` (the last thing told of a
  live message is what its record remembers; a message never sent is untold),
  `ReceiptInv` (a delivered message was received whole, a local one never started) and
  `PacketInv` (a packet belongs to a message that was sent, and one whose transmission
  was seen has started it).
* `SeatLeasesProofs`: `OwnersAreEntitled`, `SessionlessHoldNothing`,
  `NobodyTakesAReservedSeat`, `DeadTokensStayDead`. The second is not inductive by itself:
  `IInv` adds that a referee seat is granted to nobody but its own White Cell member and
  that a removed role keeps no occupancy to come back to. The action properties follow
  from a lemma on what a step does to one seat.
* `DurabilityProofs`: `HistoryNeverForks`, `AnswersAreDurable` for any number of servers
  and games and with panics; `JournalReplays`, `SignedOutHoldNothing` and the refinement
  `Implements` where handlers do not panic (the first difference above is the reason).
  `Typed` adds that the order in a boundary is recorded and that only a running server has
  one; `Orderly` that at most one server has the advisory lock and that its memory keeps
  the answers the store has; `Exact` that its memory *is* the store, up to the boundary in
  progress. The refinement needs `Staged` besides: what a server that still has its lock
  holds under its gate is one whole step of `DurableStore` away from what is committed,
  so that its commit, whether or not its outcome gets known, is that step.
* `CommandFlowProofs`: `OnlyVouchedOrders`, `DecisionsStand` and `NothingAfterTheEnd`, for
  any chains of command, edits and failures of the store. `Legal` says where on its chain
  a request is and that its decisions are those of the roles before; `Asked` that each of
  these got the request; `Heard` collects the messages of which nothing more can come, and
  never shrinks; `EnteredOnce` ties the count of an order in the kernel's queue to the one
  message that brings it; `Booked` says that what was sent is on record.
  `ReceiptsAreHonest` is proved under `RepliesTravel`: where a reply need not travel and
  the host removes the issuer's role while the order is under way (the third difference),
  the loop dies on the applied order and the receipt may read `Rejected`, and TLC shows
  it in such an instance. Receipts are read off the records of messages, so besides `IInv`
  the theorem needs `Tracked`, true until the event store fails: a message waits exactly
  as long as its request or its order wants it (`Heeded`, `Borne`), an order that entered
  has its command on record as delivered, an acknowledgement speaks of an applied order
  and was received only if a reply came through (`Grounded`), and an order whose reply is
  at hand is answered within the tick that applies it (`NearAnswered`).
* `FieldProofs`, for `TargetUpdates`: `OneProviderPerRevision`, `NumbersGoOn`,
  `EstimateFromItsSource`, for any number of datagrams, lost or late. `Protocol` adds to
  the first two that nothing is under way before the launch and that whoever sends under a
  revision was assigned under it; `Sourced` that nobody knows of a contact anything newer
  than the unit whose sensors saw it.
* `FieldProofs`, for `SensorFusion`: `FreshnessIsEarned`, `OlderNeverReplacesNewer`,
  `OwnSightingsAreNoNews`, for any platforms, links, subscriptions, expiry times and limits
  of evidence. The invariant is `FusionInv`: the estimates of a platform and the reports on
  the way are made of sightings on record (`Earned`), estimates have numbers of their own,
  a watermark that is still kept is the newest of its source and one that is not has
  expired (`Remembered`), and a platform remembers its own fixes while they are fresh
  (`OwnSeen`). A report lists its bearings and estimates in any order: `Grown` says what
  any of them, and any order of them, may do to the memory of a platform, and
  `AfterDefined` that the recursive function over the orders exists.
  `FreshnessIsEarned` speaks of the sightings an estimate was ever made of (`made`) and
  not of its evidence: of that a platform keeps some and sends some along, by when they were
  first heard of, and with three platforms the sighting its observation time is from can
  be missing from it while older ones are kept.
* `FieldProofs`, for `Logistics`: `NothingFromNothing`, and `WithinLimits` under
  `Provisioned` (the ninth difference is why), for any fleets, facilities, goods,
  capacities and rates. `FieldInv` says that a unit's record fits its phase (`Sane`: an
  immobilized ship has no fuel, so it cannot depart into a berth it does not have), that
  stock and reservations together fit every facility, and that berths and stations are
  given once. The limits are about reservations, which are spread over the tasks of all
  units, so most of the work is accounting: `BalancedStep`, `GiveUpStep`, `TransferStep`,
  `LoadMoves` and `FuelShared` say what a step has to balance, `Calm` and `OneCalm` cover
  the steps in which a unit gives up things only, and each action is led back to one of
  them. `Total` is a fold, a recursive function over the parts of a set. `Totals` is its
  defining equation, `TotalsExist` that it has a solution for every finite set;
  `EverySubset` stands for induction over the size of a set, again by the least
  counterexample.
* `MissionsProofs`: `DependenciesComeFirst`, `OneWeaponPerMission`;
  `WeaponsAreAccountedFor` under `MovesLeaveRoom` (the seventh difference above is why it
  is needed); `HandedOverAtTheAircraft` under `OperatorApart` (the
  operator of an aircraft is none of the controllers it is handed between: an offer
  overwrites what the inbox of a controller says). Both hypotheses are statements about the plan, and
  hold of the instance of the run. `RunOK` says that a mission under way has the window
  and the dependencies of some course, within the revision its unit holds; `Counted` ties
  the weapons to the missions that fired; `Room` says that missions a unit may still fly
  do not overlap; `TrueNotices` what a handoff message promises of the aircraft.
* `AgentWorkProofs`: `Admission`, `AnswersAreTimely`, `RevisionTellsChanges`,
  `NoBurstOfFrames`. `Answers` adds that open work is the last observation of its role and
  was handed to the present token; `ReadBefore` that what a client read of the controls is
  older where they differ; `Paced` how far apart the last frames are, given when the next
  one is due.
* `CommunicationsAuditProofs`: `NumbersAreNotReused`, `GapsAreTold`,
  `OnlyDeadHistoryGoes`, for any capacity, page, batch and retention, with a database and
  without. `HeadsAgree` says that a server that is up has the heads that are committed,
  also after a commit of unknown outcome; `NumbersGiven` that a role's numbers are given
  without gap, each to one row; `AuditFloored`, `LifeFloored` and `BufferFloored` that what
  is gone is below the floor of everybody who could have read it; `Correlated` that a game
  audited from its beginning knows its packets in the air; `Undisturbed` what a reader
  between its two queries can rely on. `audit::prepare` counts, and the volatile buffer
  joins a sequence of sequences: the lemmas about both (`RanksFill`, `Joined`) argue from
  the least counterexample (`LeastElement`), because the induction theorems of the
  library cannot be instantiated.

Only model-checked. All liveness: `EverySettled` of `KeepsContract`, `SeatsComeFree`,
`MissionsEnd`, `WorkEnds` and the like need fairness and ENABLED, which TLAPS's backends
cannot handle; so does `SeparationEnds`, all else that the run of `Logistics` checks being
proved.

## Not modelled

Geodesy, propagation, terrain, kinematics, detection and kill probabilities are
floating-point functions. Scenario, airspace and catalogue code parses static data, and
the catalogues' handlers only read. Password hashing, cookies, throttling and origin
checks have no behaviour over time but a counter per address. Impact reports appear only
by their window. `sim-ai` picks orders from observations: its choices are inputs here.
The snapshot and the projections for clients are formats. The web client and the
deployment files are another program. Of the modelled parts the following is left out:
several weapons in `TargetUpdates` (they share nothing but the units' tracks), names and
invitations in `TeamAdmission`, the reader's filters and several games per batch in
`CommunicationsAudit`, weather products in `SensorFusion`, runways and aprons in
`Logistics`, volumes and routes in `Missions`. In `Durability` the creation of a guest is
a `Login` of a player with no earlier session.

## Plan

Done: transport, seats, durability, commands, logistics, target updates, missions, teams
and agents, fusion, archive, and theorems about all of them. What would come next, in
this order: impact reports on top of `CommandFlow`; the client's saved session against
`SeatLeases`; several weapons of one unit in `TargetUpdates`.
