------------------------------- MODULE Missions -------------------------------
(***************************************************************************)
(* A side's air campaign (server/src/planning.rs and                       *)
(* sim-core/src/operations.rs): drafts, proposals and published revisions  *)
(* of the one plan of a game, the messages that carry them, and the        *)
(* missions the units fly by whatever revision has reached them.           *)
(*                                                                         *)
(* A message is one application message of the reliable transport: it is   *)
(* delivered at most once, in any order, or never.  A lost or expired one  *)
(* simply stays in `network'.  A plan is its revision and the course of    *)
(* action selected in it; what validate() demands of a plan is assumed of  *)
(* the courses.  Routes, volumes and clearances are left out but for who   *)
(* controls an aircraft; what a position, a track or the supply system     *)
(* makes of a mission is the choice of a frame.                            *)
(***************************************************************************)
EXTENDS Integers, FiniteSets, Sequences

CONSTANTS
    None,
    Role, Commander,
    Recipients,     \* the roles of the side, in the order of their ids
    Planner,        \* command roles that may save a draft
    Controller,     \* roles that control a volume of the plan
    Unit,
    At,             \* At[r]: location_unit_id
    Operator,       \* Operator[u]: role_at_unit
    Chain,          \* Chain[r]: units in r's chain of command
    Mission,
    Course, Template,   \* courses of action; the scenario's own
    Tasks,          \* Tasks[c][m]: the task of m in course c, or None
    Handoff,        \* ids of handoffs
    Transfer,       \* Transfer[h]: its aircraft and controllers
    Sustained,      \* units the supply system is configured for
    Load,           \* Load[u]: ammunition
    LostAfter,      \* seconds without contact (30)
    Interval,       \* seconds between reports and heartbeats (5)
    Horizon,        \* bound: the clock stops there, past every task window
    MaxRevision,    \* bound: revisions of the plan
    MaxLosses,      \* bound: units lost
    Scenes          \* bound: kinds of events that meet in one behaviour

Kind  == {"transit", "patrol", "strike", "return", "defend"}
Lost  == {"continue", "hold", "return"}
State == {"Scheduled", "Active", "Holding", "Returning",
          "Completed", "Failed", "Cancelled"}
Final == {"Completed", "Failed", "Cancelled"}

Task == [unit : Unit, kind : Kind, start : Nat, end : Nat, after : SUBSET Mission,
         lost : Lost, release : BOOLEAN]

Ordered(c) == {m \in Mission : Tasks[c][m] # None}

\* CampaignPlan::validate, of what the missions use.
ValidCourse(c) ==
    \A m \in Ordered(c) :
        /\ Tasks[c][m].start < Tasks[c][m].end
        /\ Tasks[c][m].unit \in Chain[Commander]
        /\ \A d \in Tasks[c][m].after :
              d \in Ordered(c) /\ Tasks[c][d].end <= Tasks[c][m].start
        /\ \A n \in Ordered(c) \ {m} :
              Tasks[c][n].unit = Tasks[c][m].unit =>
                  Tasks[c][n].end <= Tasks[c][m].start \/ Tasks[c][m].end <= Tasks[c][n].start

ASSUME CourseAssumption ==
    /\ Tasks \in [Course -> [Mission -> Task \cup {None}]]
    /\ \A c \in Course : ValidCourse(c) /\ \A m \in Ordered(c) : Tasks[c][m].end < Horizon

ASSUME CampaignAssumption ==
    /\ Template \in Course
    /\ IsFiniteSet(Mission)
    /\ Recipients \in Seq(Role) /\ \A r \in Role : \E i \in DOMAIN Recipients : Recipients[i] = r
    /\ Commander \in Planner /\ Planner \subseteq Role /\ Controller \subseteq Role
    /\ At \in [Role -> Unit] /\ Operator \in [Unit -> Role]
    /\ Chain \in [Role -> SUBSET Unit]
    /\ Transfer \in [Handoff -> [unit : Unit, from : Controller, to : Controller]]
    /\ Sustained \subseteq Unit /\ Load \in [Unit -> Nat]
    /\ LostAfter \in Nat /\ Interval \in Nat \ {0} /\ Horizon \in Nat
    /\ MaxRevision \in Nat \ {0} /\ MaxLosses \in Nat

Plan == [revision : Nat, course : Course]

VARIABLES
    tick,
    scene,        \* bound: the kinds of events of this behaviour
    drafts,       \* drafts[r]
    published,    \* the revisions recorded as published
    received,     \* received[r]: the newest publication r received
    proposals,    \* proposals[r]: what the commander has of planner r
    inbox,        \* inbox[r][h]: what r knows of handoff h
    network,      \* messages under way
    tasking,      \* tasking[u]: the revision u is tasked by
    execution,    \* execution[m]: Operations.missions
    completions,  \* completions[u]: known_completions
    ammunition, destroyed, dry,
    shots,        \* history: weapons each unit released
    released,     \* history: weapons each mission released
    achieved      \* history: missions that were completed

staff == <<drafts, published, proposals>>
craft == <<ammunition, destroyed, dry, shots, released>>
vars  == <<tick, scene, drafts, published, received, proposals, inbox, network,
           tasking, execution, completions, ammunition, destroyed, dry, shots,
           released, achieved>>

--------------------------------------------------------------------------------
(* Planning: requests of a role, between frames.                             *)

In(kind) == kind \in scene /\ UNCHANGED scene

Send(messages) == network' = network \cup messages

\* draft: the role's own draft, else what it received, else the scenario's plan.
Draft(r) ==
    CASE drafts[r] # None   -> drafts[r]
      [] drafts[r] = None /\ received[r] # None -> received[r]
      [] OTHER -> IF r = Commander THEN [revision |-> 1, course |-> Template] ELSE None

HasPlan(r) == Draft(r) # None

\* Save: an edit of the revision the editor saw makes the next one.  (Bound: edits
\* follow a publication.)
Save(r, c) ==
    /\ In(IF r = Commander THEN "save" ELSE "propose")
    /\ r \in Planner /\ HasPlan(r) /\ published # {}
    /\ Draft(r).revision < MaxRevision
    /\ drafts' = [drafts EXCEPT ![r] = [revision |-> Draft(r).revision + 1, course |-> c]]
    /\ UNCHANGED <<tick, published, received, proposals, inbox, network, tasking,
                   execution, completions, craft, achieved>>

Propose(r) ==
    /\ In("propose")
    /\ r # Commander /\ HasPlan(r)
    /\ Send({[kind |-> "proposal", from |-> r, plan |-> Draft(r)]})
    /\ UNCHANGED <<tick, staff, received, inbox, tasking, execution, completions,
                   craft, achieved>>

AdoptProposal(r) ==
    /\ In("adopt")
    /\ proposals[r] # None
    /\ Draft(Commander).revision < MaxRevision
    /\ drafts' = [drafts EXCEPT ![Commander] =
                    [revision |-> Draft(Commander).revision + 1,
                     course |-> proposals[r].course]]
    /\ UNCHANGED <<tick, published, received, proposals, inbox, network, tasking,
                   execution, completions, craft, achieved>>

Publication(r, plan) == [kind |-> "publication", to |-> r, plan |-> plan]

Publishable(plan) ==
    /\ \A p \in published : p.revision < plan.revision
    /\ \A m \in Ordered(plan.course) : Tasks[plan.course][m].end > tick

\* Publish: every role of the side is sent the plan, then it is recorded.
Publish(c) ==
    LET plan == [Draft(Commander) EXCEPT !.course = c]
    IN  /\ In("publish")
        /\ Publishable(plan)
        /\ Send({Publication(Recipients[i], plan) : i \in DOMAIN Recipients})
        /\ published' = published \cup {plan}
        /\ drafts' = [drafts EXCEPT ![Commander] = plan]
        /\ UNCHANGED <<tick, received, proposals, inbox, tasking, execution,
                       completions, craft, achieved>>

\* The event store fails at the n-th send, whose message is queued all the same:
\* nothing is recorded.  (Bound: the first publication only.)
PublishFails(c, n) ==
    LET plan == [Draft(Commander) EXCEPT !.course = c]
    IN  /\ In("fail")
        /\ Publishable(plan)
        /\ \A r \in Role : received[r] = None
        /\ \A msg \in network : msg.kind # "publication"
        /\ Send({Publication(Recipients[i], plan) : i \in 1..n})
        /\ UNCHANGED <<tick, staff, received, inbox, tasking, execution,
                       completions, craft, achieved>>

\* Cancel: a mission of the received plan, by a role in its chain of command.
\* (Bound: one under way.)
CancelMission(r, m) ==
    /\ In("cancel")
    /\ \A msg \in network : msg.kind # "cancel"
    /\ received[r] # None /\ m \in Ordered(received[r].course)
    /\ LET u == Tasks[received[r].course][m].unit
       IN  /\ u \in Chain[r]
           /\ Send({[kind |-> "cancel", unit |-> u, mission |-> m]})
    /\ UNCHANGED <<tick, staff, received, inbox, tasking, execution, completions,
                   craft, achieved>>

Flies(r, u) ==
    received[r] # None
    /\ \E m \in Ordered(received[r].course) : Tasks[received[r].course][m].unit = u

GrantClearance(r, u) ==
    /\ In("clear")
    /\ r \in Controller /\ Flies(r, u)
    /\ Send({[kind |-> "clearance", unit |-> u, controller |-> r]})
    /\ UNCHANGED <<tick, staff, received, inbox, tasking, execution, completions,
                   craft, achieved>>

Offer(h)  == [kind |-> "offer", to |-> Transfer[h].to, handoff |-> h]
Accept(h) == [kind |-> "accept", to |-> Operator[Transfer[h].unit], handoff |-> h]
Notice(h, r) == [kind |-> "notice", to |-> r, handoff |-> h]

OfferHandoff(h) ==
    LET from == Transfer[h].from
    IN  /\ In("offer")
        /\ Flies(from, Transfer[h].unit)
        /\ Send({Offer(h)})
        /\ inbox' = [inbox EXCEPT ![from][h] = "Offered"]
        /\ UNCHANGED <<tick, staff, received, tasking, execution, completions,
                       craft, achieved>>

\* Mutant: the acceptance already counts as the handoff.
AcceptedDelivered == "Delivered"

Accepted == "Accepted"

AcceptHandoff(h) ==
    LET to == Transfer[h].to
    IN  /\ In("accept")
        /\ inbox[to][h] = "Offered"
        /\ Send({Accept(h)})
        /\ inbox' = [inbox EXCEPT ![to][h] = Accepted]
        /\ UNCHANGED <<tick, staff, received, tasking, execution, completions,
                       craft, achieved>>

--------------------------------------------------------------------------------
(* Orders a unit carries out at once.                                        *)

\* tactical_move: a received movement order supersedes what the unit flies.
TacticalMove(u) ==
    /\ In("move")
    /\ execution' = [m \in Mission |->
                       IF /\ execution[m] # None /\ execution[m].task.unit = u
                          /\ execution[m].state \in {"Active", "Holding", "Returning"}
                       THEN [execution[m] EXCEPT !.state = "Cancelled"]
                       ELSE execution[m]]
    /\ UNCHANGED <<tick, staff, received, inbox, network, tasking, completions,
                   craft, achieved>>

\* engage: an order to engage needs a mission that may release weapons.
Engage(u) ==
    /\ In("engage")
    /\ \E m \in Mission :
          /\ execution[m] # None /\ execution[m].task.unit = u
          /\ execution[m].state = "Active" /\ execution[m].task.release
    /\ u \notin destroyed /\ ammunition[u] > 0
    /\ ammunition' = [ammunition EXCEPT ![u] = @ - 1]
    /\ shots' = [shots EXCEPT ![u] = @ + 1]
    /\ UNCHANGED <<tick, staff, received, inbox, network, tasking, execution,
                   completions, destroyed, dry, released, achieved>>

--------------------------------------------------------------------------------
(* Messages that arrive (receive, between frames).                           *)

Fired(m) == execution[m] # None /\ execution[m].fired

Fresh(m, plan) ==
    [task |-> Tasks[plan.course][m], revision |-> plan.revision, state |-> "Scheduled",
     recovering |-> FALSE, controller |-> None, silent |-> 0, fired |-> Fired(m)]

\* Mutant: a mission that is no longer tasked goes on.
TaskedStill(u, plan, m) ==
    LET old == execution[m]
        new == Tasks[plan.course][m]
    IN  IF new = None \/ new.unit # u THEN old
        ELSE IF old # None /\ old.revision >= plan.revision THEN old
        ELSE IF old # None /\ old.task = new THEN [old EXCEPT !.revision = plan.revision]
        ELSE Fresh(m, plan)

\* receive_tasking, of one mission: what is no longer ordered is cancelled, what
\* is ordered as before goes on, what is new or changed starts over.
Tasked(u, plan, m) ==
    LET old == execution[m]
        new == Tasks[plan.course][m]
    IN  IF new = None
        THEN IF old # None /\ old.task.unit = u THEN [old EXCEPT !.state = "Cancelled"] ELSE old
        ELSE IF new.unit # u \/ (old # None /\ old.revision >= plan.revision) THEN old
        ELSE IF old # None /\ old.task = new THEN [old EXCEPT !.revision = plan.revision]
        ELSE Fresh(m, plan)

TakeTasking(u, plan) ==
    IF tasking[u] >= plan.revision
    THEN UNCHANGED <<tasking, execution>>
    ELSE /\ tasking' = [tasking EXCEPT ![u] = plan.revision]
         /\ execution' = [m \in Mission |-> Tasked(u, plan, m)]

ReceivePublication(msg) ==
    /\ msg.kind = "publication"
    /\ IF received[msg.to] # None /\ received[msg.to].revision >= msg.plan.revision
       THEN UNCHANGED <<received, tasking, execution>>
       ELSE /\ received' = [received EXCEPT ![msg.to] = msg.plan]
            /\ TakeTasking(At[msg.to], msg.plan)
    /\ network' = network \ {msg}
    /\ UNCHANGED <<proposals, inbox, completions>>

ReceiveProposal(msg) ==
    /\ msg.kind = "proposal"
    /\ proposals' = [proposals EXCEPT ![msg.from] = msg.plan]
    /\ network' = network \ {msg}
    /\ UNCHANGED <<received, inbox, tasking, execution, completions>>

\* cancel_missions, whatever revision or state the mission has by now.
ReceiveCancel(msg) ==
    /\ msg.kind = "cancel"
    /\ execution' = [m \in Mission |->
                       IF /\ m = msg.mission /\ execution[m] # None
                          /\ execution[m].task.unit = msg.unit
                       THEN [execution[m] EXCEPT !.state = "Cancelled"] ELSE execution[m]]
    /\ network' = network \ {msg}
    /\ UNCHANGED <<received, proposals, inbox, tasking, completions>>

\* receive_clearance: the aircraft is the controller's from now on.
Controlled(u, k) ==
    [m \in Mission |->
       IF execution[m] # None /\ execution[m].task.unit = u
       THEN [execution[m] EXCEPT !.controller = k, !.silent = 0] ELSE execution[m]]

ReceiveClearance(msg) ==
    /\ msg.kind = "clearance"
    /\ execution' = Controlled(msg.unit, msg.controller)
    /\ network' = network \ {msg}
    /\ UNCHANGED <<received, proposals, inbox, tasking, completions>>

\* receive_controller_heartbeat
ReceiveHeartbeat(msg) ==
    /\ msg.kind = "heartbeat"
    /\ execution' = [m \in Mission |->
                       IF /\ execution[m] # None /\ execution[m].task.unit = msg.unit
                          /\ execution[m].controller \in {None, msg.controller}
                       THEN [execution[m] EXCEPT !.silent = 0] ELSE execution[m]]
    /\ network' = network \ {msg}
    /\ UNCHANGED <<received, proposals, inbox, tasking, completions>>

\* An offer, or the notice that the aircraft has been handed over.
ReceiveHandoff(msg) ==
    /\ msg.kind \in {"offer", "notice"}
    /\ inbox' = [inbox EXCEPT ![msg.to][msg.handoff] =
                    IF msg.kind = "offer" THEN "Offered" ELSE "Delivered"]
    /\ network' = network \ {msg}
    /\ UNCHANGED <<received, proposals, tasking, execution, completions>>

\* The acceptance reaches the aircraft: both controllers are told.
ReceiveAcceptance(msg) ==
    LET transfer == Transfer[msg.handoff]
    IN  /\ msg.kind = "accept"
        /\ IF received[msg.to] = None
           THEN /\ network' = network \ {msg}
                /\ UNCHANGED <<inbox, execution>>
           ELSE /\ execution' = Controlled(transfer.unit, transfer.to)
                /\ inbox' = [inbox EXCEPT ![msg.to][msg.handoff] = "Delivered"]
                /\ network' = (network \ {msg}) \cup
                     {Notice(msg.handoff, r) : r \in {transfer.from, transfer.to}}
        /\ UNCHANGED <<received, proposals, tasking, completions>>

\* receive_mission_report: a completion is known at the recipient's unit.
ReceiveReport(msg) ==
    /\ msg.kind = "report"
    /\ completions' = [completions EXCEPT ![At[msg.to]] =
                          @ \cup {msg.mission}]
    /\ network' = network \ {msg}
    /\ UNCHANGED <<received, proposals, inbox, tasking, execution>>

Deliver ==
    /\ \E msg \in network :
          \/ ReceivePublication(msg) \/ ReceiveProposal(msg) \/ ReceiveCancel(msg)
          \/ ReceiveClearance(msg) \/ ReceiveHeartbeat(msg)
          \/ ReceiveHandoff(msg) \/ ReceiveAcceptance(msg) \/ ReceiveReport(msg)
    /\ UNCHANGED <<tick, scene, drafts, published, craft, achieved>>

--------------------------------------------------------------------------------
(* A frame: advance_operations, then report_tick.                            *)

Now == IF tick = Horizon THEN tick ELSE tick + 1

\* A completion the unit knows of: its own, or one it was told of.
Known(u, d) ==
    \/ d \in completions[u]
    \/ execution[d] # None /\ execution[d].task.unit = u /\ execution[d].state = "Completed"

Running(m) ==
    execution[m] # None /\ execution[m].state \notin Final /\ Now >= execution[m].task.start

\* What the rest of the world makes of a frame, of the units that fly a mission:
\* which of them reach the end of their leg, have a qualified track within the
\* envelope of their weapons, are hit or out of fuel, are not let go by the supply
\* system, and have their return refused by it.
Flying == {execution[m].task.unit : m \in {n \in Mission : Running(n)}}
Armed  == {execution[m].task.unit : m \in {n \in Mission : /\ Running(n)
                                                          /\ execution[n].task.release
                                                          /\ ~execution[n].fired}}

Situation ==
    {s \in [arriving : SUBSET Flying,
            engaging : SUBSET Armed,
            hit : SUBSET Flying, drying : SUBSET (Flying \ Sustained),
            waiting : SUBSET (Flying \cap Sustained),
            refused : SUBSET (Flying \cap Sustained)] :
        /\ "loss" \notin scene => s.hit \cup s.drying = {}
        /\ Cardinality(destroyed \cup s.hit \cup dry \cup s.drying) <= MaxLosses}

\* Scheduled missions start, missions out of contact follow their procedure, and
\* a hold ends only while in contact.
InContact(e) ==
    LET state == IF e.state = "Scheduled" THEN "Active" ELSE e.state
    IN  IF e.silent >= LostAfter /\ state # "Returning"
        THEN CASE e.task.lost = "return"   -> "Returning"
               [] e.task.lost = "hold"     -> "Holding"
               [] e.task.lost = "continue" -> state
        ELSE IF state = "Holding" THEN "Active" ELSE state

\* Mutant: a mission that waits for another does not look at its window.
WaitsOn(e) ==
    IF ~ \A d \in e.task.after : Known(e.task.unit, d) THEN "Waiting"
    ELSE IF Now >= e.task.end \/ e.state = "Returning" THEN "Returning"
    ELSE InContact(e)

\* The state a mission moves in, before what it meets there.
Underway(e) ==
    IF Now >= e.task.end \/ e.state = "Returning" THEN "Returning"
    ELSE IF ~ \A d \in e.task.after : Known(e.task.unit, d) THEN "Waiting"
    ELSE InContact(e)

Fires(m, s) ==
    LET e == execution[m]
    IN  /\ e.task.kind \in {"strike", "patrol", "defend"} /\ e.task.release /\ ~e.fired
        /\ ammunition[e.task.unit] > 0 /\ e.task.unit \in s.engaging

\* What happens at the end of the leg: home, the next round, or the way home.
Arrived(e, state) ==
    IF state = "Returning" \/ e.task.kind = "return" THEN "Completed"
    ELSE IF e.task.kind = "patrol" THEN state
    ELSE "Returning"

\* A unit the supply system looks after returns through a facility.
Recovering(e, state, s) ==
    IF e.task.unit \in s.refused THEN [e EXCEPT !.state = "Failed"]
    ELSE [e EXCEPT !.state = "Returning", !.recovering = TRUE]

\* On its way: it may shoot, and it may reach the end of its leg.
Moved(m, state, s) ==
    LET e == execution[m]
        u == e.task.unit
    IN  [e EXCEPT !.fired = @ \/ (state = "Active" /\ Fires(m, s)),
                  !.state = IF e.task.kind # "defend" /\ u \in s.arriving
                            THEN Arrived(e, state) ELSE state]

\* advance_operations, of one running mission.
Advanced(m, s) ==
    LET e == execution[m]
        u == e.task.unit
        state == Underway(e)
    IN  IF u \in destroyed \cup s.hit \/ u \in dry \ Sustained
        THEN [e EXCEPT !.state = "Failed"]
        ELSE IF e.recovering
        THEN IF u \in s.arriving THEN [e EXCEPT !.state = "Completed"] ELSE e
        ELSE IF u \in s.waiting \/ state = "Waiting" THEN [e EXCEPT !.state = "Holding"]
        ELSE IF u \in Sustained /\ (state = "Returning" \/ e.task.kind = "return")
        THEN Recovering(e, state, s)
        ELSE Moved(m, state, s)

Silent(e) == IF e.silent = LostAfter THEN e.silent ELSE e.silent + 1

After(m, s) ==
    IF execution[m] = None THEN None
    ELSE LET e == IF Running(m) THEN Advanced(m, s) ELSE execution[m]
         IN  [e EXCEPT !.silent = Silent(e)]

\* Every few seconds a controller calls the aircraft of the plan it received.
Heartbeats(r) ==
    {[kind |-> "heartbeat", unit |-> u, controller |-> r] :
        u \in {v \in Unit : r \in Controller /\ Flies(r, v) /\ "heartbeat" \in scene}}

\* Mutant: the end of the way out counts as the end of the mission.
TellingEarly(state) == state \in {"Returning", "Completed"}

\* Of what a report says, only a completion changes anything at its recipient, and
\* only at the units of other missions: the reports to the commander and the
\* controllers are shown to them and left out here.
Telling(state) == state = "Completed"

\* ... and every role with a plan reports the missions of its own unit.
Reports(r) ==
    {[kind |-> "report", to |-> to, mission |-> m] :
        m \in {n \in Mission : /\ execution'[n] # None /\ execution'[n].task.unit = At[r]
                               /\ At[r] \notin destroyed' /\ Telling(execution'[n].state)},
        to \in {Operator[Tasks[received[r].course][n].unit] :
                   n \in Ordered(received[r].course)} \ {r}}

ReportTick ==
    IF Now % Interval = 0
    THEN UNION {Heartbeats(r) \cup Reports(r) : r \in {p \in Role : received[p] # None}}
    ELSE {}

Frame(s) ==
    LET next   == [m \in Mission |-> After(m, s)]
        firing == {m \in Mission : next[m] # None /\ next[m].fired /\ ~execution[m].fired}
        \* a unit pays for one weapon in a frame, however many its missions released
        payers == {execution[m].task.unit : m \in firing}
    IN  /\ In("fly")
        /\ tick' = Now
        /\ destroyed' = destroyed \cup s.hit
        /\ dry' = dry \cup s.drying
        /\ execution' = next
        /\ ammunition' = [u \in Unit |-> IF u \in payers THEN ammunition[u] - 1
                                                         ELSE ammunition[u]]
        /\ shots' = [u \in Unit |->
                       shots[u] + Cardinality({m \in firing : execution[m].task.unit = u})]
        /\ released' = [m \in Mission |-> released[m] + IF m \in firing THEN 1 ELSE 0]
        /\ achieved' = achieved \cup
                         {m \in Mission : next[m] # None /\ next[m].state = "Completed"}
        /\ network' = network \cup ReportTick
        /\ UNCHANGED <<staff, received, inbox, tasking, completions>>

--------------------------------------------------------------------------------
Init ==
    /\ tick = 0 /\ scene \in Scenes
    /\ drafts = [r \in Role |-> None] /\ published = {}
    /\ received = [r \in Role |-> None] /\ proposals = [r \in Role |-> None]
    /\ inbox = [r \in Role |-> [h \in Handoff |-> None]]
    /\ network = {}
    /\ tasking = [u \in Unit |-> 0]
    /\ execution = [m \in Mission |-> None]
    /\ completions = [u \in Unit |-> {}]
    /\ ammunition = Load
    /\ destroyed = {} /\ dry = {}
    /\ shots = [u \in Unit |-> 0] /\ released = [m \in Mission |-> 0]
    /\ achieved = {}

Staff ==
    \/ \E r \in Role, c \in Course : Save(r, c)
    \/ \E r \in Role : Propose(r) \/ AdoptProposal(r)
    \/ \E c \in Course : Publish(c) \/ \E n \in 1..(Len(Recipients) - 1) : PublishFails(c, n)
    \/ \E r \in Role, m \in Mission : CancelMission(r, m)

Control ==
    \/ \E r \in Role, u \in Unit : GrantClearance(r, u)
    \/ \E h \in Handoff : OfferHandoff(h) \/ AcceptHandoff(h)
    \/ \E u \in Unit : TacticalMove(u) \/ Engage(u)

Next == Staff \/ Control \/ Deliver \/ \E s \in Situation : Frame(s)

\* The game loop runs, and time and again all that are on their way get there.
Calm == [arriving |-> Flying, engaging |-> {}, hit |-> {}, drying |-> {},
         waiting |-> {}, refused |-> {}]

Homeward == Frame(Calm)

Spec == Init /\ [][Next]_vars /\ WF_vars(Homeward)

--------------------------------------------------------------------------------
(* Properties.                                                               *)

Execution ==
    [task : Task, revision : 1..MaxRevision, state : State, recovering : BOOLEAN,
     controller : Controller \cup {None}, silent : 0..LostAfter, fired : BOOLEAN]

Message ==
    [kind : {"publication"}, to : Role, plan : Plan]
    \cup [kind : {"proposal"}, from : Role, plan : Plan]
    \cup [kind : {"cancel"}, unit : Unit, mission : Mission]
    \cup [kind : {"clearance", "heartbeat"}, unit : Unit, controller : Controller]
    \cup [kind : {"offer", "accept", "notice"}, to : Role, handoff : Handoff]
    \cup [kind : {"report"}, to : Role, mission : Mission]

ASSUME NoneAssumption ==
    /\ None \notin Plan /\ None \notin Task /\ None \notin Execution
    /\ None \notin {"Offered", "Accepted", "Delivered"}

TypeOK ==
    /\ tick \in 0..Horizon
    /\ {drafts, received, proposals} \subseteq [Role -> Plan \cup {None}]
    /\ published \subseteq Plan
    /\ inbox \in [Role -> [Handoff -> {None, "Offered", "Accepted", "Delivered"}]]
    /\ network \subseteq Message
    /\ tasking \in [Unit -> Nat]
    /\ execution \in [Mission -> Execution \cup {None}]
    /\ completions \in [Unit -> SUBSET Mission]
    /\ ammunition \in [Unit -> Nat] /\ shots \in [Unit -> Nat]
    /\ released \in [Mission -> Nat]
    /\ destroyed \subseteq Unit /\ dry \subseteq Unit /\ achieved \subseteq Mission

Active(m) == execution[m] # None /\ execution[m].state = "Active"

OneWeaponPerMission == \A m \in Mission : released[m] <= 1

EveryWeaponIsPaid == \A u \in Unit : shots[u] + ammunition[u] = Load[u]

OneActivePerUnit ==
    \A m, n \in Mission :
        Active(m) /\ Active(n) /\ execution[m].task.unit = execution[n].task.unit => m = n

\* However often a mission is re-tasked, dropped, given out again or moved to
\* another aircraft, it releases at most one weapon in its life; and a unit pays
\* for every weapon it releases: no two missions of it are ever Active together,
\* whatever revisions, cancellations and orders met there, as long as
\* MovesLeaveRoom.
WeaponsAreAccountedFor == OneWeaponPerMission /\ EveryWeaponIsPaid /\ OneActivePerUnit

\* validate() compares the missions of one course.  An aircraft whose mission a
\* later revision gives to another one flies it on until that one has heard of
\* it, next to what the revision gives the aircraft instead: TLC refutes
\* WeaponsAreAccountedFor where the two windows overlap.
MovesLeaveRoom ==
    \A c, d \in Course, m, n \in Mission :
        /\ m # n
        /\ None \notin {Tasks[c][m], Tasks[d][m], Tasks[d][n]}
        /\ Tasks[c][m].unit = Tasks[d][n].unit
        /\ Tasks[d][m].unit # Tasks[c][m].unit
        => \/ Tasks[c][m].end <= Tasks[d][n].start
           \/ Tasks[d][n].end <= Tasks[c][m].start

\* A mission goes active only after each mission it waits for was completed at
\* some time, wherever that one was flown and however the news travelled.
DependenciesComeFirst ==
    \A m \in Mission : Active(m) => execution[m].task.after \subseteq achieved

\* The operator of an aircraft is none of the controllers it goes between.
OperatorApart == \A h \in Handoff :
    Operator[Transfer[h].unit] \notin {Transfer[h].from, Transfer[h].to}

\* Nobody is told of a completed handoff before the aircraft took it, as
\* long as OperatorApart: an offer overwrites what the inbox of a controller says.
HandedOverAtTheAircraft ==
    \A r \in Role, h \in Handoff : inbox[r][h] = "Delivered" =>
        inbox[Operator[Transfer[h].unit]][h] = "Delivered"

\* Not checked by a run, TLC refutes it in the instance of Missions.cfg: two roles
\* that received the same revision have the same course of action.
OnePlanPerRevision ==
    \A p, q \in Role :
        received[p] # None /\ received[q] # None
          /\ received[p].revision = received[q].revision => received[p] = received[q]

\* Time and again nobody is still under way: every mission a unit was tasked with
\* ends, unless it defends a place or its unit may wait for supplies for ever (in
\* every scene that has frames).
MissionsEnd ==
    []<>(\A m \in Mission :
            \/ execution[m] = None \/ execution[m].state \in Final
            \/ execution[m].task.kind = "defend"
            \/ execution[m].task.unit \in Sustained
            \/ "fly" \notin scene)
================================================================================
