---------------------------- MODULE MissionsProofs ----------------------------
(***************************************************************************)
(* Proofs about Missions, for every side, every plan that validate()       *)
(* accepts, any number of revisions, and messages that arrive late, in any *)
(* order or never.                                                         *)
(*                                                                         *)
(* What a mission carries with it (RunOK) is what its unit was tasked with *)
(* by the revision the unit holds: its window, what it waits for, and      *)
(* whether it fired.  A frame lets it go active only within that window    *)
(* and after what it waits for (AfterFacts).                               *)
(***************************************************************************)
EXTENDS Missions, FiniteSetTheorems, TLAPS

\* Plans as they are saved and published: their revision is within the bound.
Issued == [revision : 1..MaxRevision, course : Course]

InWindow(t, now) == t.start <= now /\ now < t.end

\* Execution e of mission m, at time `now', where unit u holds revision held[u],
\* after the missions in `done' were completed.
RunOK(m, e, now, held, done) ==
    /\ e \in Execution
    /\ \E c \in Course : e.task = Tasks[c][m]
    /\ e.revision <= held[e.task.unit]
    /\ e.state = "Active" => /\ ~e.recovering /\ InWindow(e.task, now)
                             /\ e.task.after \subseteq done
    /\ e.state = "Completed" => m \in done

Runs == \A m \in Mission :
    execution[m] # None => RunOK(m, execution[m], tick, tasking, achieved)

\* A mission released a weapon if it says so.
Counted == \A m \in Mission : released[m] = IF Fired(m) THEN 1 ELSE 0

\* A message says what is known where it comes from.
MailOK(msg, done) ==
    /\ msg \in Message
    /\ msg.kind \in {"publication", "proposal"} => msg.plan \in Issued
    /\ msg.kind = "report" => msg.mission \in done

StaffOK ==
    /\ {drafts, received, proposals} \subseteq [Role -> Issued \cup {None}]
    /\ published \subseteq Issued

InboxOK == inbox \in [Role -> [Handoff -> {None, "Offered", "Accepted", "Delivered"}]]

Mail == \A msg \in network : MailOK(msg, achieved)

CraftOK ==
    /\ ammunition \in [Unit -> Nat] /\ shots \in [Unit -> Nat]
    /\ released \in [Mission -> Nat]
    /\ destroyed \subseteq Unit /\ dry \subseteq Unit

FlightOK ==
    /\ tick \in 0..Horizon
    /\ tasking \in [Unit -> Nat]
    /\ execution \in [Mission -> Execution \cup {None}]
    /\ completions \in [Unit -> SUBSET achieved] /\ achieved \subseteq Mission

IInv == StaffOK /\ InboxOK /\ Mail /\ CraftOK /\ FlightOK /\ Runs /\ Counted

--------------------------------------------------------------------------------
(* Plans, tasks, executions.                                                *)

LEMMA BoundFacts ==
    /\ LostAfter \in Nat /\ Horizon \in Nat /\ MaxRevision \in Nat
    /\ \A i \in 1..MaxRevision : i \in Nat
    /\ 1 \in 1..MaxRevision
  <1>1. LostAfter \in Nat /\ Horizon \in Nat /\ MaxRevision \in Nat \ {0}
    BY CampaignAssumption
  <1>. QED  BY <1>1

LEMMA IssuedFacts ==
    /\ Issued \subseteq Plan /\ None \notin Issued
    /\ \A p \in Issued : p.revision \in Nat /\ p.revision \in 1..MaxRevision /\ p.course \in Course
  <1>1. Issued \subseteq Plan
    BY CampaignAssumption DEF Issued, Plan
  <1>2. None \notin Issued
    <2>1. None \notin Plan
      BY NoneAssumption
    <2>. QED  BY ONLY <1>1, <2>1
  <1>3. ASSUME NEW p \in Issued
        PROVE  p.revision \in 1..MaxRevision /\ p.course \in Course
    BY ONLY <1>3 DEF Issued
  <1>. QED  BY <1>1, <1>2, <1>3, BoundFacts

LEMMA TaskFacts ==
    ASSUME NEW t \in Task
    PROVE  /\ t.unit \in Unit /\ t.kind \in Kind /\ t.start \in Nat /\ t.end \in Nat
           /\ t.after \subseteq Mission /\ t.lost \in Lost /\ t.release \in BOOLEAN
           /\ t # None
  BY NoneAssumption DEF Task

LEMMA CourseFacts ==
    ASSUME NEW c \in Course, NEW m \in Mission, Tasks[c][m] # None
    PROVE  /\ Tasks[c][m] \in Task /\ m \in Ordered(c)
           /\ Tasks[c][m].unit \in Unit
           /\ Tasks[c][m].end < Horizon
  <1>1. Tasks[c][m] \in Task /\ m \in Ordered(c)
    BY CourseAssumption DEF Ordered
  <1>. QED  BY <1>1, TaskFacts, CourseAssumption

LEMMA ExecutionFacts ==
    ASSUME NEW e \in Execution
    PROVE  /\ e.task \in Task /\ e.task.unit \in Unit
           /\ e.revision \in 1..MaxRevision /\ e.revision \in Nat
           /\ e.state \in State /\ e.recovering \in BOOLEAN
           /\ e.controller \in Controller \cup {None} /\ e.silent \in 0..LostAfter
           /\ e.fired \in BOOLEAN /\ e # None
  <1>1. /\ e.task \in Task /\ e.revision \in 1..MaxRevision
        /\ e.state \in State /\ e.recovering \in BOOLEAN
        /\ e.controller \in Controller \cup {None} /\ e.silent \in 0..LostAfter
        /\ e.fired \in BOOLEAN
    BY DEF Execution
  <1>2. e.revision \in Nat
    BY <1>1, BoundFacts
  <1>3. e # None
    <2>1. None \notin Execution
      BY NoneAssumption
    <2>. QED  BY <2>1
  <1>. QED  BY <1>1, <1>2, <1>3, TaskFacts

LEMMA RunFacts ==
    ASSUME IInv, NEW m \in Mission, execution[m] # None
    PROVE  /\ execution[m] \in Execution
           /\ RunOK(m, execution[m], tick, tasking, achieved)
  BY DEF IInv, FlightOK, Runs

LEMMA ReceivedFacts ==
    ASSUME IInv, NEW r \in Role, received[r] # None
    PROVE  received[r] \in Issued
  BY DEF IInv, StaffOK

LEMMA DraftFacts ==
    ASSUME IInv, NEW r \in Role, Draft(r) # None
    PROVE  Draft(r) \in Issued
  <1>1. drafts[r] \in Issued \cup {None} /\ received[r] \in Issued \cup {None}
    BY DEF IInv, StaffOK
  <1>2. [revision |-> 1, course |-> Template] \in Issued
    BY CampaignAssumption DEF Issued
  <1>. QED  BY <1>1, <1>2 DEF Draft

LEMMA CommanderFacts ==
    ASSUME IInv
    PROVE  Commander \in Role /\ Draft(Commander) \in Issued
  <1>1. Commander \in Role /\ [revision |-> 1, course |-> Template] \in Issued
    BY CampaignAssumption DEF Issued
  <1>2. Draft(Commander) # None
    BY <1>1, IssuedFacts DEF Draft
  <1>. QED  BY <1>1, <1>2, DraftFacts

--------------------------------------------------------------------------------
(* Steps that leave a mission what it is.                                   *)

\* Execution f is e, perhaps cancelled, under another controller or heard again.
Kept(e, f) ==
    /\ f \in Execution
    /\ f.task = e.task /\ f.revision = e.revision /\ f.fired = e.fired
    /\ f.recovering = e.recovering
    /\ f.state \in {e.state, "Cancelled"}

AllKept ==
    /\ execution' = [m \in Mission |-> execution'[m]]
    /\ \A m \in Mission : IF execution[m] = None THEN execution'[m] = None
                          ELSE Kept(execution[m], execution'[m])

\* A mission is what it was, or over.
Continues == \A m \in Mission :
    execution'[m] # None /\ execution'[m].state \notin Final =>
        /\ execution[m] # None /\ execution[m].state \notin Final
        /\ execution'[m].task = execution[m].task

LEMMA KeptRuns ==
    ASSUME IInv, AllKept, UNCHANGED <<tick, tasking, achieved, released>>,
           completions' \in [Unit -> SUBSET achieved]
    PROVE  FlightOK' /\ Runs' /\ Counted' /\ Continues
  <1>1. ASSUME NEW m \in Mission, execution[m] # None
        PROVE  /\ execution'[m] \in Execution /\ execution'[m] # None
               /\ RunOK(m, execution'[m], tick, tasking, achieved)
               /\ execution'[m].fired = execution[m].fired
               /\ execution'[m].task = execution[m].task
               /\ execution'[m].state \notin Final => execution[m].state \notin Final
    BY <1>1, RunFacts, ExecutionFacts DEF AllKept, Kept, RunOK, Final
  <1>2. \A m \in Mission : execution[m] = None => execution'[m] = None
    BY DEF AllKept
  <1>3. execution' \in [Mission -> Execution \cup {None}]
    BY <1>1, <1>2 DEF AllKept
  <1>4. FlightOK'
    BY <1>3 DEF IInv, FlightOK
  <1>5. Runs'
    BY <1>1, <1>2 DEF Runs
  <1>6. Counted'
    <2>1. \A m \in Mission : (execution'[m] # None /\ execution'[m].fired) <=> Fired(m)
      BY <1>1, <1>2 DEF Fired
    <2>. QED  BY <2>1 DEF Counted, IInv, Fired
  <1>7. Continues
    BY <1>1, <1>2 DEF Continues
  <1>. QED  BY <1>4, <1>5, <1>6, <1>7

LEMMA SameRuns ==
    ASSUME IInv, UNCHANGED <<tick, tasking, achieved, released, execution, completions>>
    PROVE  FlightOK' /\ Runs' /\ Counted' /\ Continues
  <1>1. AllKept
    BY DEF AllKept, Kept, IInv, FlightOK
  <1>2. completions' \in [Unit -> SUBSET achieved]
    BY DEF IInv, FlightOK
  <1>. QED  BY <1>1, <1>2, KeptRuns

LEMMA CraftSame ==
    ASSUME IInv, UNCHANGED craft
    PROVE  CraftOK' /\ released' = released
  BY DEF IInv, CraftOK, craft

--------------------------------------------------------------------------------
(* Messages.                                                                *)

LEMMA PlanMail ==
    ASSUME NEW r \in Role, NEW plan \in Issued, NEW done
    PROVE  /\ MailOK(Publication(r, plan), done)
           /\ MailOK([kind |-> "proposal", from |-> r, plan |-> plan], done)
  BY IssuedFacts DEF MailOK, Publication, Message

LEMMA UnitMail ==
    ASSUME NEW u \in Unit, NEW done
    PROVE  /\ \A m \in Mission : MailOK([kind |-> "cancel", unit |-> u, mission |-> m], done)
           /\ \A r \in Controller : \A kind \in {"clearance", "heartbeat"} :
                 MailOK([kind |-> kind, unit |-> u, controller |-> r], done)
  BY DEF MailOK, Message

LEMMA TransferFacts ==
    ASSUME NEW h \in Handoff
    PROVE  /\ Transfer[h].unit \in Unit
           /\ Transfer[h].from \in Controller /\ Transfer[h].to \in Controller
           /\ Transfer[h].from \in Role /\ Transfer[h].to \in Role
           /\ Operator[Transfer[h].unit] \in Role
  <1>1. /\ Transfer \in [Handoff -> [unit : Unit, from : Controller, to : Controller]]
        /\ Controller \subseteq Role /\ Operator \in [Unit -> Role]
    BY CampaignAssumption
  <1>. QED  BY <1>1

LEMMA HandoffMail ==
    ASSUME NEW h \in Handoff, NEW done
    PROVE  /\ MailOK(Offer(h), done) /\ MailOK(Accept(h), done)
           /\ \A r \in Role : MailOK(Notice(h, r), done)
  BY TransferFacts DEF MailOK, Message, Offer, Accept, Notice

LEMMA ReportMail ==
    ASSUME NEW r \in Role, NEW m \in Mission, NEW done, m \in done
    PROVE  MailOK([kind |-> "report", to |-> r, mission |-> m], done)
  BY DEF MailOK, Message

\* What a message of each kind says.
LEMMA MessageFacts ==
    ASSUME NEW msg, NEW done, MailOK(msg, done)
    PROVE  /\ msg.kind = "publication" => msg.to \in Role /\ msg.plan \in Issued
           /\ msg.kind = "proposal" => msg.from \in Role /\ msg.plan \in Issued
           /\ msg.kind = "cancel" => msg.unit \in Unit /\ msg.mission \in Mission
           /\ msg.kind \in {"clearance", "heartbeat"} =>
                 msg.unit \in Unit /\ msg.controller \in Controller
           /\ msg.kind \in {"offer", "accept", "notice"} =>
                 msg.to \in Role /\ msg.handoff \in Handoff
           /\ msg.kind = "report" => msg.to \in Role /\ msg.mission \in Mission \cap done
  BY DEF MailOK, Message

LEMMA SendMail ==
    ASSUME IInv, NEW new, Send(new), \A msg \in new : MailOK(msg, achieved),
           UNCHANGED achieved
    PROVE  Mail'
  BY DEF IInv, Mail, Send

LEMMA SameMail ==
    ASSUME IInv, UNCHANGED <<network, achieved>>
    PROVE  Mail'
  BY DEF IInv, Mail

LEMMA InboxChange ==
    ASSUME IInv, NEW r \in Role, NEW h \in Handoff,
           NEW x \in {None, "Offered", "Accepted", "Delivered"},
           inbox' = [inbox EXCEPT ![r][h] = x]
    PROVE  InboxOK'
  BY DEF IInv, InboxOK

LEMMA RolesAndCourses ==
    /\ Planner \subseteq Role /\ Controller \subseteq Role
    /\ \A i \in DOMAIN Recipients : Recipients[i] \in Role
    /\ \A i \in 1..(Len(Recipients) - 1) : 1..i \subseteq DOMAIN Recipients
    /\ \A r \in Role : Chain[r] \subseteq Unit /\ At[r] \in Unit
    /\ \A u \in Unit : Operator[u] \in Role
  <1>1. /\ Planner \subseteq Role /\ Controller \subseteq Role
        /\ Recipients \in Seq(Role) /\ Chain \in [Role -> SUBSET Unit]
        /\ At \in [Role -> Unit] /\ Operator \in [Unit -> Role]
    BY CampaignAssumption
  <1>. QED  BY <1>1

--------------------------------------------------------------------------------
(* What the staff does.                                                     *)

LEMMA SaveOK ==
    ASSUME IInv, NEW r \in Role, NEW c \in Course, Save(r, c)
    PROVE  IInv' /\ Continues
  <1>1. Draft(r) \in Issued
    BY DraftFacts DEF Save, HasPlan
  <1>2. Draft(r).revision + 1 \in 1..MaxRevision
    BY <1>1, IssuedFacts, BoundFacts DEF Save
  <1>3. [revision |-> Draft(r).revision + 1, course |-> c] \in Issued
    BY <1>2 DEF Issued
  <1>4. StaffOK'
    BY <1>3 DEF Save, IInv, StaffOK
  <1>5. FlightOK' /\ Runs' /\ Counted' /\ Continues
    BY SameRuns DEF Save, craft
  <1>6. InboxOK' /\ Mail'
    BY SameMail DEF Save, IInv, InboxOK
  <1>. QED  BY <1>4, <1>5, <1>6, CraftSame DEF IInv, Save

LEMMA ProposeOK ==
    ASSUME IInv, NEW r \in Role, Propose(r)
    PROVE  IInv' /\ Continues
  <1>1. Draft(r) \in Issued
    BY DraftFacts DEF Propose, HasPlan
  <1>2. Mail'
    BY <1>1, PlanMail, SendMail DEF Propose
  <1>3. FlightOK' /\ Runs' /\ Counted' /\ Continues
    BY SameRuns DEF Propose, craft
  <1>4. StaffOK' /\ InboxOK'
    BY DEF Propose, IInv, StaffOK, InboxOK, staff
  <1>. QED  BY <1>2, <1>3, <1>4, CraftSame DEF IInv, Propose

LEMMA AdoptProposalOK ==
    ASSUME IInv, NEW r \in Role, AdoptProposal(r)
    PROVE  IInv' /\ Continues
  <1>1. Draft(Commander) \in Issued /\ Commander \in Role
    BY CommanderFacts
  <1>2. proposals[r] \in Issued
    BY DEF AdoptProposal, IInv, StaffOK
  <1>3. Draft(Commander).revision + 1 \in 1..MaxRevision
    BY <1>1, IssuedFacts, BoundFacts DEF AdoptProposal
  <1>4. [revision |-> Draft(Commander).revision + 1, course |-> proposals[r].course] \in Issued
    BY <1>2, <1>3 DEF Issued
  <1>5. StaffOK'
    BY <1>1, <1>4 DEF AdoptProposal, IInv, StaffOK
  <1>6. FlightOK' /\ Runs' /\ Counted' /\ Continues
    BY SameRuns DEF AdoptProposal, craft
  <1>7. InboxOK' /\ Mail'
    BY SameMail DEF AdoptProposal, IInv, InboxOK
  <1>. QED  BY <1>5, <1>6, <1>7, CraftSame DEF IInv, AdoptProposal

LEMMA SelectedPlan ==
    ASSUME IInv, NEW c \in Course
    PROVE  [Draft(Commander) EXCEPT !.course = c] \in Issued
  BY CommanderFacts DEF Issued

LEMMA PublishOK ==
    ASSUME IInv, NEW c \in Course, Publish(c)
    PROVE  IInv' /\ Continues
  <1>. DEFINE plan == [Draft(Commander) EXCEPT !.course = c]
              new == {Publication(Recipients[i], plan) : i \in DOMAIN Recipients}
  <1>1. plan \in Issued
    BY SelectedPlan
  <1>2. Send(new) /\ published' = published \cup {plan}
        /\ drafts' = [drafts EXCEPT ![Commander] = plan]
    BY DEF Publish
  <1>. HIDE DEF plan
  <1>3. \A msg \in new : MailOK(msg, achieved)
    BY <1>1, PlanMail, RolesAndCourses
  <1>. HIDE DEF new
  <1>4. Mail'
    BY <1>2, <1>3, SendMail DEF Publish
  <1>5. StaffOK'
    BY <1>1, <1>2, CommanderFacts DEF Publish, IInv, StaffOK
  <1>6. FlightOK' /\ Runs' /\ Counted' /\ Continues
    BY SameRuns DEF Publish, craft
  <1>7. InboxOK'
    BY DEF Publish, IInv, InboxOK
  <1>. QED  BY <1>4, <1>5, <1>6, <1>7, CraftSame DEF IInv, Publish

LEMMA PublishFailsOK ==
    ASSUME IInv, NEW c \in Course, NEW n \in 1..(Len(Recipients) - 1), PublishFails(c, n)
    PROVE  IInv' /\ Continues
  <1>. DEFINE plan == [Draft(Commander) EXCEPT !.course = c]
              new == {Publication(Recipients[i], plan) : i \in 1..n}
  <1>1. plan \in Issued
    BY SelectedPlan
  <1>2. Send(new)
    BY DEF PublishFails
  <1>. HIDE DEF plan
  <1>3. \A msg \in new : MailOK(msg, achieved)
    BY <1>1, PlanMail, RolesAndCourses
  <1>. HIDE DEF new
  <1>4. Mail'
    BY <1>2, <1>3, SendMail DEF PublishFails
  <1>5. StaffOK' /\ InboxOK'
    BY DEF PublishFails, IInv, StaffOK, InboxOK, staff
  <1>6. FlightOK' /\ Runs' /\ Counted' /\ Continues
    BY SameRuns DEF PublishFails, craft
  <1>. QED  BY <1>4, <1>5, <1>6, CraftSame DEF IInv, PublishFails

LEMMA CancelMissionOK ==
    ASSUME IInv, NEW r \in Role, NEW m \in Mission, CancelMission(r, m)
    PROVE  IInv' /\ Continues
  <1>. DEFINE u == Tasks[received[r].course][m].unit
  <1>1. u \in Unit
    BY RolesAndCourses DEF CancelMission
  <1>2. Send({[kind |-> "cancel", unit |-> u, mission |-> m]})
    BY DEF CancelMission
  <1>. HIDE DEF u
  <1>3. Mail'
    BY <1>1, <1>2, UnitMail, SendMail DEF CancelMission
  <1>4. StaffOK' /\ InboxOK'
    BY DEF CancelMission, IInv, StaffOK, InboxOK, staff
  <1>5. FlightOK' /\ Runs' /\ Counted' /\ Continues
    BY SameRuns DEF CancelMission, craft
  <1>. QED  BY <1>3, <1>4, <1>5, CraftSame DEF IInv, CancelMission

--------------------------------------------------------------------------------
(* What controllers and units do.                                           *)

LEMMA GrantClearanceOK ==
    ASSUME IInv, NEW r \in Role, NEW u \in Unit, GrantClearance(r, u)
    PROVE  IInv' /\ Continues
  <1>1. Mail'
    BY UnitMail, SendMail DEF GrantClearance
  <1>2. StaffOK' /\ InboxOK'
    BY DEF GrantClearance, IInv, StaffOK, InboxOK, staff
  <1>3. FlightOK' /\ Runs' /\ Counted' /\ Continues
    BY SameRuns DEF GrantClearance, craft
  <1>. QED  BY <1>1, <1>2, <1>3, CraftSame DEF IInv, GrantClearance

LEMMA HandoffOK ==
    ASSUME IInv, NEW h \in Handoff, OfferHandoff(h) \/ AcceptHandoff(h)
    PROVE  IInv' /\ Continues
  <1>1. UNCHANGED <<tick, staff, received, tasking, execution, completions, craft, achieved>>
    BY DEF OfferHandoff, AcceptHandoff
  <1>2. Send({Offer(h)}) \/ Send({Accept(h)})
    BY DEF OfferHandoff, AcceptHandoff
  <1>3. Mail'
    BY <1>1, <1>2, HandoffMail, SendMail
  <1>4. InboxOK'
    BY InboxChange, TransferFacts DEF OfferHandoff, AcceptHandoff, Accepted
  <1>5. FlightOK' /\ Runs' /\ Counted' /\ Continues
    BY <1>1, SameRuns DEF craft
  <1>6. StaffOK'
    BY <1>1 DEF IInv, StaffOK, staff
  <1>. QED  BY <1>1, <1>3, <1>4, <1>5, <1>6, CraftSame DEF IInv

\* A mission that is cancelled, given to a controller or heard again is kept.
LEMMA KeptFacts ==
    ASSUME NEW e \in Execution
    PROVE  /\ Kept(e, e)
           /\ Kept(e, [e EXCEPT !.state = "Cancelled"])
           /\ \A k \in Controller : Kept(e, [e EXCEPT !.controller = k, !.silent = 0])
           /\ Kept(e, [e EXCEPT !.silent = 0])
  <1>1. 0 \in 0..LostAfter /\ "Cancelled" \in State
    BY BoundFacts DEF State
  <1>2. Kept(e, e) /\ Kept(e, [e EXCEPT !.state = "Cancelled"])
    BY <1>1 DEF Kept, Execution
  <1>3. Kept(e, [e EXCEPT !.silent = 0])
    BY <1>1 DEF Kept, Execution
  <1>4. ASSUME NEW k \in Controller
        PROVE  Kept(e, [e EXCEPT !.controller = k, !.silent = 0])
    BY <1>1 DEF Kept, Execution
  <1>. QED  BY <1>2, <1>3, <1>4


LEMMA TacticalMoveOK ==
    ASSUME IInv, NEW u \in Unit, TacticalMove(u)
    PROVE  IInv' /\ Continues
  <1>1. AllKept
    BY KeptFacts, RunFacts DEF TacticalMove, AllKept
  <1>2. completions' \in [Unit -> SUBSET achieved]
    BY DEF TacticalMove, IInv, FlightOK
  <1>3. FlightOK' /\ Runs' /\ Counted' /\ Continues
    BY <1>1, <1>2, KeptRuns DEF TacticalMove, craft
  <1>4. StaffOK' /\ InboxOK' /\ Mail'
    BY SameMail DEF TacticalMove, IInv, StaffOK, InboxOK, staff
  <1>. QED  BY <1>3, <1>4, CraftSame DEF IInv, TacticalMove

LEMMA EngageOK ==
    ASSUME IInv, NEW u \in Unit, Engage(u)
    PROVE  IInv' /\ Continues
  <1>1. CraftOK'
    BY DEF Engage, IInv, CraftOK
  <1>2. FlightOK' /\ Runs' /\ Counted' /\ Continues
    BY SameRuns DEF Engage
  <1>3. StaffOK' /\ InboxOK' /\ Mail'
    BY SameMail DEF Engage, IInv, StaffOK, InboxOK, staff
  <1>. QED  BY <1>1, <1>2, <1>3 DEF IInv

--------------------------------------------------------------------------------
(* Tasking.                                                                 *)

\* A unit takes a revision newer than the one it holds.
Retasks == \E u \in Unit, plan \in Issued :
    tasking[u] < plan.revision /\ TakeTasking(u, plan)

LEMMA FreshOK ==
    ASSUME IInv, NEW m \in Mission, NEW plan \in Issued, NEW held, NEW done,
           Tasks[plan.course][m] # None, held[Tasks[plan.course][m].unit] = plan.revision
    PROVE  /\ RunOK(m, Fresh(m, plan), tick, held, done)
           /\ Fresh(m, plan).fired = Fired(m)
           /\ Fresh(m, plan).task = Tasks[plan.course][m]
           /\ Fresh(m, plan).revision = plan.revision
  <1>1. /\ plan.revision \in 1..MaxRevision /\ plan.course \in Course
        /\ Tasks[plan.course][m] \in Task /\ plan.revision \in Nat
    BY IssuedFacts, CourseFacts
  <1>2. Fired(m) \in BOOLEAN
    BY RunFacts, ExecutionFacts DEF Fired
  <1>3. 0 \in 0..LostAfter /\ "Scheduled" \in State
    BY BoundFacts DEF State
  <1>4. Fresh(m, plan) \in Execution
    BY <1>1, <1>2, <1>3 DEF Fresh, Execution
  <1>. QED  BY <1>1, <1>4 DEF Fresh, RunOK

LEMMA TaskedOK ==
    ASSUME IInv, NEW m \in Mission, NEW u \in Unit, NEW plan \in Issued,
           tasking[u] < plan.revision
    PROVE  LET held == [tasking EXCEPT ![u] = plan.revision]
               f    == Tasked(u, plan, m)
           IN  /\ f = None \/ RunOK(m, f, tick, held, achieved)
               /\ (f # None /\ f.fired) <=> Fired(m)
  <1>. DEFINE held == [tasking EXCEPT ![u] = plan.revision]
              old  == execution[m]
              new  == Tasks[plan.course][m]
  <1>1. /\ tasking \in [Unit -> Nat] /\ plan.revision \in Nat /\ held[u] = plan.revision
        /\ \A v \in Unit : tasking[v] <= held[v]
    BY IssuedFacts DEF IInv, FlightOK
  <1>. HIDE DEF held
  <1>2. ASSUME old # None
        PROVE  RunOK(m, old, tick, held, achieved) /\ old \in Execution
    <2>1. RunOK(m, old, tick, tasking, achieved) /\ old \in Execution
      BY <1>2, RunFacts
    <2>2. old.revision \in Nat /\ old.task.unit \in Unit
      BY <2>1, ExecutionFacts
    <2>3. old.revision <= held[old.task.unit]
      <3>1. old.revision <= tasking[old.task.unit]
        BY <2>1 DEF RunOK
      <3>2. tasking[old.task.unit] \in Nat /\ held[old.task.unit] \in Nat
            /\ tasking[old.task.unit] <= held[old.task.unit]
        BY <1>1, <2>2 DEF held
      <3>. QED  BY <2>2, <3>1, <3>2
    <2>. QED  BY <2>1, <2>3 DEF RunOK
  <1>3. ASSUME old # None, NEW f, f = [old EXCEPT !.state = "Cancelled"]
        PROVE  RunOK(m, f, tick, held, achieved) /\ f.fired = old.fired /\ f # None
    <2>1. Kept(old, f)
      BY <1>2, <1>3, KeptFacts
    <2>2. f.state = "Cancelled"
      BY <1>2, <1>3 DEF Execution
    <2>3. f # None
      BY <2>1, ExecutionFacts DEF Kept
    <2>. QED  BY <1>2, <1>3, <2>1, <2>2, <2>3 DEF Kept, RunOK
  <1>4. ASSUME old # None, new # None, old.task = new, new.unit = u,
               NEW f, f = [old EXCEPT !.revision = plan.revision]
        PROVE  RunOK(m, f, tick, held, achieved) /\ f.fired = old.fired /\ f # None
    <2>1. f \in Execution /\ f.task = old.task /\ f.state = old.state /\ f.fired = old.fired
          /\ f.recovering = old.recovering /\ f.revision = plan.revision
      BY <1>2, <1>4, IssuedFacts DEF Execution
    <2>2. f # None
      BY <2>1, ExecutionFacts
    <2>3. f.revision <= held[f.task.unit]
      BY <1>1, <1>4, <2>1
    <2>. QED  BY <1>2, <1>4, <2>1, <2>2, <2>3 DEF RunOK
  <1>5. ASSUME new # None, new.unit = u
        PROVE  /\ RunOK(m, Fresh(m, plan), tick, held, achieved)
               /\ Fresh(m, plan).fired = Fired(m) /\ Fresh(m, plan) # None
    <2>1. RunOK(m, Fresh(m, plan), tick, held, achieved) /\ Fresh(m, plan).fired = Fired(m)
      BY <1>1, <1>5, FreshOK
    <2>2. Fresh(m, plan) # None
      BY <2>1, ExecutionFacts DEF RunOK
    <2>. QED  BY <2>1, <2>2
  <1>6. Fired(m) <=> old # None /\ old.fired
    BY DEF Fired
  <1>7. CASE new = None
    <2>1. CASE old # None /\ old.task.unit = u
      <3>1. Tasked(u, plan, m) = [old EXCEPT !.state = "Cancelled"]
        BY <1>7, <2>1 DEF Tasked
      <3>. QED  BY <1>3, <1>6, <2>1, <3>1 DEF held
    <2>2. CASE ~(old # None /\ old.task.unit = u)
      <3>1. Tasked(u, plan, m) = old
        BY <1>7, <2>2 DEF Tasked
      <3>. QED  BY <1>2, <1>6, <3>1 DEF held
    <2>. QED  BY <2>1, <2>2
  <1>8. CASE new # None /\ (new.unit # u \/ (old # None /\ old.revision >= plan.revision))
    <2>1. Tasked(u, plan, m) = old
      BY <1>8 DEF Tasked
    <2>. QED  BY <1>2, <1>6, <2>1 DEF held
  <1>9. CASE new # None /\ ~(new.unit # u \/ (old # None /\ old.revision >= plan.revision))
    <2>1. CASE old # None /\ old.task = new
      <3>1. Tasked(u, plan, m) = [old EXCEPT !.revision = plan.revision]
        BY <1>9, <2>1 DEF Tasked
      <3>. QED  BY <1>4, <1>6, <1>9, <2>1, <3>1 DEF held
    <2>2. CASE ~(old # None /\ old.task = new)
      <3>1. Tasked(u, plan, m) = Fresh(m, plan)
        BY <1>9, <2>2 DEF Tasked
      <3>. QED  BY <1>5, <1>9, <3>1 DEF held
    <2>. QED  BY <2>1, <2>2
  <1>. QED  BY <1>7, <1>8, <1>9

LEMMA TakeTaskingOK ==
    ASSUME IInv, NEW u \in Unit, NEW plan \in Issued, TakeTasking(u, plan),
           UNCHANGED <<tick, completions, achieved, released>>
    PROVE  FlightOK' /\ Runs' /\ Counted' /\ (Continues \/ Retasks)
  <1>1. CASE UNCHANGED <<tasking, execution>>
    BY <1>1, SameRuns
  <1>2. CASE tasking[u] < plan.revision
    <2>1. /\ tasking' = [tasking EXCEPT ![u] = plan.revision]
          /\ execution' = [m \in Mission |-> Tasked(u, plan, m)]
      <3>1. tasking[u] \in Nat /\ plan.revision \in Nat
        BY IssuedFacts DEF IInv, FlightOK
      <3>. QED  BY <1>2, <3>1 DEF TakeTasking
    <2>2. ASSUME NEW m \in Mission
          PROVE  /\ execution'[m] = None \/ RunOK(m, execution'[m], tick, tasking', achieved)
                 /\ (execution'[m] # None /\ execution'[m].fired) <=> Fired(m)
      BY <1>2, <2>1, TaskedOK
    <2>3. Runs'
      BY <2>2 DEF Runs
    <2>4. FlightOK'
      <3>1. execution' \in [Mission -> Execution \cup {None}]
        BY <2>1, <2>2 DEF RunOK
      <3>2. tasking' \in [Unit -> Nat]
        BY <2>1, IssuedFacts DEF IInv, FlightOK
      <3>. QED  BY <3>1, <3>2 DEF IInv, FlightOK
    <2>5. Counted'
      BY <2>2 DEF Counted, IInv, Fired
    <2>. QED  BY <1>2, <2>3, <2>4, <2>5 DEF Retasks
  <1>3. tasking[u] \in Nat /\ plan.revision \in Nat
    BY IssuedFacts DEF IInv, FlightOK
  <1>. QED  BY <1>1, <1>2, <1>3 DEF TakeTasking

--------------------------------------------------------------------------------
(* What arrives.                                                            *)

LEMMA ReceivedMail ==
    ASSUME IInv, NEW msg \in network, NEW new, network' = (network \ {msg}) \cup new,
           \A n \in new : MailOK(n, achieved), UNCHANGED achieved
    PROVE  Mail'
  BY DEF IInv, Mail

LEMMA TakenMail ==
    ASSUME IInv, NEW msg \in network, network' = network \ {msg}, UNCHANGED achieved
    PROVE  Mail'
  BY DEF IInv, Mail

LEMMA ControlledKept ==
    ASSUME IInv, NEW u \in Unit, NEW k \in Controller, execution' = Controlled(u, k)
    PROVE  AllKept
  BY KeptFacts, RunFacts DEF Controlled, AllKept

LEMMA DeliverOK ==
    ASSUME IInv, Deliver
    PROVE  IInv' /\ (Continues \/ Retasks)
  <1>1. UNCHANGED <<tick, drafts, published, craft, achieved>>
    BY DEF Deliver
  <1>2. CraftOK' /\ UNCHANGED <<tick, achieved, released>>
    BY <1>1, CraftSame
  <1>3. PICK msg \in network :
          \/ ReceivePublication(msg) \/ ReceiveProposal(msg) \/ ReceiveCancel(msg)
          \/ ReceiveClearance(msg) \/ ReceiveHeartbeat(msg)
          \/ ReceiveHandoff(msg) \/ ReceiveAcceptance(msg) \/ ReceiveReport(msg)
    BY DEF Deliver
  <1>4. MailOK(msg, achieved)
    BY DEF IInv, Mail
  <1>5. completions \in [Unit -> SUBSET achieved]
    BY DEF IInv, FlightOK
  <1>6. CASE ReceivePublication(msg)
    <2>1. msg.to \in Role /\ msg.plan \in Issued /\ At[msg.to] \in Unit
      BY <1>4, <1>6, MessageFacts, RolesAndCourses DEF ReceivePublication
    <2>2. FlightOK' /\ Runs' /\ Counted' /\ (Continues \/ Retasks)
      <3>1. CASE UNCHANGED <<received, tasking, execution>>
        BY <1>2, <1>6, <3>1, SameRuns DEF ReceivePublication
      <3>2. CASE TakeTasking(At[msg.to], msg.plan)
        <4>1. PICK u \in Unit, plan \in Issued : u = At[msg.to] /\ plan = msg.plan
          BY <2>1
        <4>. QED  BY <1>2, <1>6, <3>2, <4>1, TakeTaskingOK DEF ReceivePublication
      <3>. QED  BY <1>6, <3>1, <3>2 DEF ReceivePublication
    <2>3. StaffOK' /\ InboxOK'
      BY <1>1, <1>6, <2>1 DEF ReceivePublication, IInv, StaffOK, InboxOK
    <2>4. Mail'
      BY <1>1, <1>6, TakenMail DEF ReceivePublication
    <2>. QED  BY <1>2, <2>2, <2>3, <2>4 DEF IInv
  <1>7. CASE ReceiveProposal(msg)
    <2>1. msg.from \in Role /\ msg.plan \in Issued
      BY <1>4, <1>7, MessageFacts DEF ReceiveProposal
    <2>2. StaffOK' /\ InboxOK'
      BY <1>1, <1>7, <2>1 DEF ReceiveProposal, IInv, StaffOK, InboxOK
    <2>3. FlightOK' /\ Runs' /\ Counted' /\ Continues
      BY <1>2, <1>7, SameRuns DEF ReceiveProposal
    <2>4. Mail'
      BY <1>1, <1>7, TakenMail DEF ReceiveProposal
    <2>. QED  BY <1>2, <2>2, <2>3, <2>4 DEF IInv
  <1>8. ASSUME AllKept, UNCHANGED <<received, proposals, tasking, completions>>, InboxOK', Mail'
        PROVE  IInv' /\ Continues
    <2>1. FlightOK' /\ Runs' /\ Counted' /\ Continues
      BY <1>2, <1>5, <1>8, KeptRuns
    <2>2. StaffOK'
      BY <1>1, <1>8 DEF IInv, StaffOK
    <2>. QED  BY <1>2, <1>8, <2>1, <2>2 DEF IInv
  <1>9. CASE ReceiveCancel(msg)
    <2>1. AllKept
      BY <1>9, KeptFacts, RunFacts DEF ReceiveCancel, AllKept
    <2>2. InboxOK' /\ Mail'
      BY <1>1, <1>9, TakenMail DEF ReceiveCancel, IInv, InboxOK
    <2>. QED  BY <1>8, <1>9, <2>1, <2>2 DEF ReceiveCancel
  <1>10. CASE ReceiveClearance(msg)
    <2>1. AllKept
      BY <1>4, <1>10, MessageFacts, ControlledKept DEF ReceiveClearance
    <2>2. InboxOK' /\ Mail'
      BY <1>1, <1>10, TakenMail DEF ReceiveClearance, IInv, InboxOK
    <2>. QED  BY <1>8, <1>10, <2>1, <2>2 DEF ReceiveClearance
  <1>11. CASE ReceiveHeartbeat(msg)
    <2>1. AllKept
      BY <1>11, KeptFacts, RunFacts DEF ReceiveHeartbeat, AllKept
    <2>2. InboxOK' /\ Mail'
      BY <1>1, <1>11, TakenMail DEF ReceiveHeartbeat, IInv, InboxOK
    <2>. QED  BY <1>8, <1>11, <2>1, <2>2 DEF ReceiveHeartbeat
  <1>12. CASE ReceiveHandoff(msg)
    <2>1. msg.to \in Role /\ msg.handoff \in Handoff
      BY <1>4, <1>12, MessageFacts DEF ReceiveHandoff
    <2>2. InboxOK'
      BY <1>12, <2>1, InboxChange DEF ReceiveHandoff
    <2>3. Mail'
      BY <1>1, <1>12, TakenMail DEF ReceiveHandoff
    <2>4. FlightOK' /\ Runs' /\ Counted' /\ Continues
      BY <1>2, <1>12, SameRuns DEF ReceiveHandoff
    <2>5. StaffOK'
      BY <1>1, <1>12 DEF ReceiveHandoff, IInv, StaffOK
    <2>. QED  BY <1>2, <2>2, <2>3, <2>4, <2>5 DEF IInv
  <1>13. CASE ReceiveAcceptance(msg)
    <2>1. msg.to \in Role /\ msg.handoff \in Handoff
      BY <1>4, <1>13, MessageFacts DEF ReceiveAcceptance
    <2>2. CASE received[msg.to] = None
      <3>1. network' = network \ {msg} /\ UNCHANGED <<inbox, execution>>
        BY <1>13, <2>2 DEF ReceiveAcceptance
      <3>2. AllKept
        BY <3>1 DEF AllKept, Kept, IInv, FlightOK
      <3>3. InboxOK' /\ Mail'
        BY <1>1, <3>1, TakenMail DEF IInv, InboxOK
      <3>. QED  BY <1>8, <1>13, <3>2, <3>3 DEF ReceiveAcceptance
    <2>3. CASE received[msg.to] # None
      <3>. DEFINE h == msg.handoff
                  new == {Notice(h, r) : r \in {Transfer[h].from, Transfer[h].to}}
      <3>1. /\ execution' = Controlled(Transfer[h].unit, Transfer[h].to)
            /\ inbox' = [inbox EXCEPT ![msg.to][h] = "Delivered"]
            /\ network' = (network \ {msg}) \cup new
        BY <1>13, <2>3 DEF ReceiveAcceptance
      <3>2. AllKept
        BY <2>1, <3>1, TransferFacts, ControlledKept
      <3>3. \A n \in new : MailOK(n, achieved)
        BY <2>1, HandoffMail, TransferFacts
      <3>4. InboxOK'
        BY <2>1, <3>1, InboxChange
      <3>. HIDE DEF new
      <3>5. Mail'
        BY <1>1, <3>1, <3>3, ReceivedMail
      <3>. QED  BY <1>8, <1>13, <3>2, <3>4, <3>5 DEF ReceiveAcceptance
    <2>. QED  BY <2>2, <2>3
  <1>14. CASE ReceiveReport(msg)
    <2>1. msg.to \in Role /\ msg.mission \in achieved /\ At[msg.to] \in Unit
      BY <1>4, <1>14, MessageFacts, RolesAndCourses DEF ReceiveReport
    <2>2. completions' \in [Unit -> SUBSET achieved]
      BY <1>5, <1>14, <2>1 DEF ReceiveReport
    <2>3. AllKept
      BY <1>14 DEF ReceiveReport, AllKept, Kept, IInv, FlightOK
    <2>4. FlightOK' /\ Runs' /\ Counted' /\ Continues
      BY <1>2, <1>14, <2>2, <2>3, KeptRuns DEF ReceiveReport
    <2>5. StaffOK' /\ InboxOK' /\ Mail'
      BY <1>1, <1>14, TakenMail DEF ReceiveReport, IInv, StaffOK, InboxOK
    <2>. QED  BY <1>2, <2>4, <2>5 DEF IInv
  <1>. QED  BY <1>3, <1>6, <1>7, <1>9, <1>10, <1>11, <1>12, <1>13, <1>14

--------------------------------------------------------------------------------
(* A frame.                                                                 *)

\* What a frame may make of execution e.
Progress(e, f) ==
    /\ f \in Execution /\ f.task = e.task /\ f.revision = e.revision
    /\ f.state \notin Final => e.state \notin Final
    /\ f.state = "Active" => /\ ~f.recovering /\ InWindow(e.task, Now)
                             /\ e.task.after \subseteq achieved
    /\ e.fired => f.fired
    /\ f.fired /\ ~e.fired => /\ InWindow(e.task, Now) /\ e.state \notin Final
                              /\ ammunition[e.task.unit] > 0

LEMMA NowFacts ==
    ASSUME IInv
    PROVE  Now \in 0..Horizon /\ tick <= Now /\ (Now # Horizon => tick < Now)
  BY BoundFacts DEF IInv, FlightOK, Now

LEMMA KnownAchieved ==
    ASSUME IInv, NEW u \in Unit, NEW d \in Mission, Known(u, d)
    PROVE  d \in achieved
  <1>1. CASE d \in completions[u]
    BY <1>1 DEF IInv, FlightOK
  <1>2. CASE execution[d] # None /\ execution[d].state = "Completed"
    BY <1>2, RunFacts DEF RunOK
  <1>. QED  BY <1>1, <1>2 DEF Known

LEMMA InContactFacts ==
    ASSUME NEW e \in Execution
    PROVE  InContact(e) \in State
  <1>1. e.state \in State /\ e.task.lost \in Lost
    BY ExecutionFacts, TaskFacts
  <1>. QED  BY <1>1 DEF InContact, State, Lost

LEMMA UnderwayFacts ==
    ASSUME IInv, NEW m \in Mission, Running(m)
    PROVE  /\ Underway(execution[m]) \in State \cup {"Waiting"}
           /\ Underway(execution[m]) = "Active" =>
                 /\ InWindow(execution[m].task, Now)
                 /\ execution[m].task.after \subseteq achieved
  <1>. DEFINE e == execution[m]
  <1>1. e \in Execution /\ Now >= e.task.start
    BY RunFacts DEF Running
  <1>. HIDE DEF e
  <1>2. e.task.unit \in Unit /\ e.task.after \subseteq Mission /\ e.task.end \in Nat
        /\ e.task.start \in Nat
    BY <1>1, ExecutionFacts, TaskFacts
  <1>3. Now \in Int
    BY NowFacts, BoundFacts
  <1>4. Underway(e) \in State \cup {"Waiting"}
    BY <1>1, InContactFacts DEF Underway, State
  <1>5. ASSUME Underway(e) = "Active"
        PROVE  InWindow(e.task, Now) /\ e.task.after \subseteq achieved
    <2>1. ~(Now >= e.task.end)
      BY <1>5 DEF Underway
    <2>2. \A d \in e.task.after : Known(e.task.unit, d)
      BY <1>5 DEF Underway
    <2>3. e.task.after \subseteq achieved
      BY <1>2, <2>2, KnownAchieved
    <2>. QED  BY <1>1, <1>2, <1>3, <2>1, <2>3 DEF InWindow
  <1>. QED  BY <1>4, <1>5 DEF e

LEMMA EndedProgress ==
    ASSUME NEW e \in Execution, NEW state \in State \ {"Active"}, e.state \notin Final
    PROVE  /\ Progress(e, [e EXCEPT !.state = state])
           /\ Progress(e, [e EXCEPT !.state = state, !.recovering = TRUE])
  <1>1. ASSUME NEW f, f \in {[e EXCEPT !.state = state],
                             [e EXCEPT !.state = state, !.recovering = TRUE]}
        PROVE  Progress(e, f)
    <2>1. f \in Execution /\ f.state = state /\ f.task = e.task /\ f.revision = e.revision
          /\ f.fired = e.fired
      BY <1>1 DEF Execution
    <2>. QED  BY <2>1 DEF Progress
  <1>. QED  BY <1>1

LEMMA MovedProgress ==
    ASSUME IInv, NEW m \in Mission, NEW s, NEW state \in State, Running(m),
           ~execution[m].recovering,
           state = "Active" => /\ InWindow(execution[m].task, Now)
                               /\ execution[m].task.after \subseteq achieved
    PROVE  Progress(execution[m], Moved(m, state, s))
  <1>. DEFINE e == execution[m]
              f == Moved(m, state, s)
              hit == state = "Active" /\ Fires(m, s)
              next == IF e.task.kind # "defend" /\ e.task.unit \in s.arriving
                      THEN Arrived(e, state) ELSE state
  <1>1. e \in Execution /\ e.state \notin Final
    BY RunFacts DEF Running
  <1>2. f = [e EXCEPT !.fired = e.fired \/ hit, !.state = next]
    BY DEF Moved
  <1>3. next \in State /\ (next = "Active" => state = "Active")
    BY DEF Arrived, State
  <1>4. hit => state = "Active" /\ ammunition[e.task.unit] > 0
    BY DEF Fires
  <1>5. hit \in BOOLEAN
    OBVIOUS
  <1>. HIDE DEF f, hit, next
  <1>6. /\ f \in Execution /\ f.state = next /\ f.task = e.task /\ f.revision = e.revision
        /\ f.recovering = e.recovering /\ (f.fired <=> e.fired \/ hit)
    <2>1. e.fired \in BOOLEAN /\ (e.fired \/ hit) \in BOOLEAN
      BY <1>1, ExecutionFacts
    <2>. QED  BY <1>1, <1>2, <1>3, <2>1 DEF Execution
  <1>. QED  BY <1>1, <1>3, <1>4, <1>6 DEF Progress, f

LEMMA AdvancedProgress ==
    ASSUME IInv, NEW m \in Mission, NEW s, Running(m)
    PROVE  Progress(execution[m], Advanced(m, s))
  <1>. DEFINE e == execution[m]
              u == e.task.unit
              state == Underway(e)
  <1>1. e \in Execution /\ e.state \notin Final /\ RunOK(m, e, tick, tasking, achieved)
    BY RunFacts DEF Running
  <1>2. /\ state \in State \cup {"Waiting"}
        /\ state = "Active" => InWindow(e.task, Now) /\ e.task.after \subseteq achieved
    BY UnderwayFacts
  <1>3. {"Failed", "Completed", "Holding", "Returning"} \subseteq State \ {"Active"}
    BY DEF State
  <1>. HIDE DEF state
  <1>4. ASSUME e.recovering
        PROVE  Progress(e, e)
    <2>1. e.state # "Active"
      BY <1>1, <1>4 DEF RunOK
    <2>. QED  BY <1>1, <2>1 DEF Progress
  <1>5. Progress(e, [e EXCEPT !.state = "Failed"]) /\ Progress(e, [e EXCEPT !.state = "Completed"])
        /\ Progress(e, [e EXCEPT !.state = "Holding"])
        /\ Progress(e, [e EXCEPT !.state = "Returning", !.recovering = TRUE])
    BY <1>1, <1>3, EndedProgress
  <1>6. Progress(e, Recovering(e, state, s))
    BY <1>5 DEF Recovering
  <1>7. ~e.recovering /\ state # "Waiting" => Progress(e, Moved(m, state, s))
    BY <1>2, MovedProgress
  <1>8. Advanced(m, s) =
          IF u \in destroyed \cup s.hit \/ u \in dry \ Sustained
          THEN [e EXCEPT !.state = "Failed"]
          ELSE IF e.recovering
          THEN IF u \in s.arriving THEN [e EXCEPT !.state = "Completed"] ELSE e
          ELSE IF u \in s.waiting \/ state = "Waiting" THEN [e EXCEPT !.state = "Holding"]
          ELSE IF u \in Sustained /\ (state = "Returning" \/ e.task.kind = "return")
          THEN Recovering(e, state, s)
          ELSE Moved(m, state, s)
    BY DEF Advanced, state
  <1>. HIDE DEF e, u
  <1>9. Progress(e, Advanced(m, s))
    BY <1>4, <1>5, <1>6, <1>7, <1>8
  <1>. QED  BY <1>9 DEF e

LEMMA AfterProgress ==
    ASSUME IInv, NEW m \in Mission, NEW s, execution[m] # None
    PROVE  Progress(execution[m], After(m, s))
  <1>. DEFINE e == execution[m]
              g == IF Running(m) THEN Advanced(m, s) ELSE e
  <1>1. e \in Execution /\ RunOK(m, e, tick, tasking, achieved)
    BY RunFacts
  <1>2. Progress(e, g)
    <2>1. CASE Running(m)
      BY <2>1, AdvancedProgress
    <2>2. CASE ~Running(m)
      <3>1. e.state # "Active"
        <4>. SUFFICES ASSUME e.state = "Active"
                      PROVE  FALSE
          OBVIOUS
        <4>1. e.task.start <= tick /\ e.task.start \in Nat
          BY <1>1, ExecutionFacts, TaskFacts DEF RunOK, InWindow
        <4>2. Now >= e.task.start
          BY <4>1, NowFacts, BoundFacts DEF IInv, FlightOK
        <4>. QED  BY <2>2, <4>2 DEF Running, Final
      <3>. QED  BY <1>1, <2>2, <3>1 DEF Progress
    <2>. QED  BY <2>1, <2>2
  <1>3. g \in Execution
    BY <1>2 DEF Progress
  <1>4. After(m, s) = [g EXCEPT !.silent = Silent(g)]
    BY DEF After
  <1>. HIDE DEF g
  <1>5. Silent(g) \in 0..LostAfter
    BY <1>3, ExecutionFacts, BoundFacts DEF Silent
  <1>6. /\ After(m, s) \in Execution /\ After(m, s).task = g.task
        /\ After(m, s).revision = g.revision /\ After(m, s).state = g.state
        /\ After(m, s).recovering = g.recovering /\ After(m, s).fired = g.fired
    BY <1>3, <1>4, <1>5 DEF Execution
  <1>. QED  BY <1>2, <1>6 DEF Progress

LEMMA SituationFacts ==
    ASSUME IInv, NEW s \in Situation
    PROVE  s.hit \subseteq Unit /\ s.drying \subseteq Unit
  <1>1. Flying \subseteq Unit
    BY RunFacts, ExecutionFacts DEF Flying, Running
  <1>. QED  BY <1>1 DEF Situation

\* The missions that release a weapon in situation s.
Firing(s) == {m \in Mission : /\ execution[m] # None
                              /\ After(m, s).fired /\ ~execution[m].fired}

\* Frame, without its local names.
LEMMA FrameFacts ==
    ASSUME IInv, NEW s \in Situation, Frame(s)
    PROVE  /\ tick' = Now
           /\ execution' = [m \in Mission |-> After(m, s)]
           /\ \A m \in Mission : execution[m] = None => execution'[m] = None
           /\ \A m \in Mission : execution[m] # None =>
                 Progress(execution[m], execution'[m]) /\ execution'[m] # None
           /\ ammunition' = [u \in Unit |->
                 IF u \in {execution[m].task.unit : m \in Firing(s)}
                 THEN ammunition[u] - 1 ELSE ammunition[u]]
           /\ shots' = [u \in Unit |->
                 shots[u] + Cardinality({m \in Firing(s) : execution[m].task.unit = u})]
           /\ released' = [m \in Mission |-> released[m] + IF m \in Firing(s) THEN 1 ELSE 0]
           /\ destroyed' = destroyed \cup s.hit /\ dry' = dry \cup s.drying
           /\ achieved' = achieved \cup {m \in Mission : execution'[m] # None
                                                         /\ execution'[m].state = "Completed"}
           /\ network' = network \cup ReportTick
           /\ UNCHANGED <<staff, received, inbox, tasking, completions>>
  <1>1. execution' = [m \in Mission |-> After(m, s)]
    BY DEF Frame
  <1>2. \A m \in Mission : execution[m] = None => execution'[m] = None /\ After(m, s) = None
    BY <1>1 DEF After
  <1>3. \A m \in Mission : execution[m] # None =>
          Progress(execution[m], execution'[m]) /\ execution'[m] # None
    BY <1>1, AfterProgress, ExecutionFacts DEF Progress
  <1>4. Firing(s) = {m \in Mission : After(m, s) # None /\ After(m, s).fired /\ ~execution[m].fired}
    BY <1>1, <1>2, <1>3 DEF Firing
  <1>5. Firing(s) = {m \in Mission :
          [n \in Mission |-> After(n, s)][m] # None /\ [n \in Mission |-> After(n, s)][m].fired
          /\ ~execution[m].fired}
    BY <1>4
  <1>6. achieved' = achieved \cup {m \in Mission : execution'[m] # None
                                                  /\ execution'[m].state = "Completed"}
    BY <1>1 DEF Frame
  <1>7. /\ ammunition' = [u \in Unit |->
             IF u \in {execution[m].task.unit : m \in Firing(s)}
             THEN ammunition[u] - 1 ELSE ammunition[u]]
        /\ shots' = [u \in Unit |->
             shots[u] + Cardinality({m \in Firing(s) : execution[m].task.unit = u})]
        /\ released' = [m \in Mission |-> released[m] + IF m \in Firing(s) THEN 1 ELSE 0]
    BY <1>5 DEF Frame
  <1>. QED  BY <1>1, <1>2, <1>3, <1>6, <1>7 DEF Frame

LEMMA ReportTickMail ==
    ASSUME IInv, NEW done, NEW msg \in ReportTick,
           \A m \in Mission : execution'[m] # None /\ execution'[m].state = "Completed"
                => m \in done
    PROVE  MailOK(msg, done)
  <1>1. PICK r \in Role : received[r] # None /\ msg \in Heartbeats(r) \cup Reports(r)
    BY DEF ReportTick
  <1>2. CASE msg \in Heartbeats(r)
    <2>1. PICK u \in Unit : r \in Controller
              /\ msg = [kind |-> "heartbeat", unit |-> u, controller |-> r]
      BY <1>2 DEF Heartbeats
    <2>2. \A kind \in {"clearance", "heartbeat"} :
              MailOK([kind |-> kind, unit |-> u, controller |-> r], done)
      BY <2>1, UnitMail
    <2>. QED  BY <2>1, <2>2
  <1>3. CASE msg \in Reports(r)
    <2>1. PICK m \in Mission, n \in Mission :
              /\ execution'[m] # None /\ Telling(execution'[m].state)
              /\ msg = [kind |-> "report",
                        to |-> Operator[Tasks[received[r].course][n].unit], mission |-> m]
              /\ n \in Ordered(received[r].course) /\ received[r] # None
      <3>1. PICK m \in {n \in Mission : /\ execution'[n] # None /\ execution'[n].task.unit = At[r]
                               /\ At[r] \notin destroyed' /\ Telling(execution'[n].state)},
                 to \in {Operator[Tasks[received[r].course][n].unit] :
                            n \in Ordered(received[r].course)} \ {r} :
                 msg = [kind |-> "report", to |-> to, mission |-> m]
        BY <1>3 DEF Reports
      <3>2. received[r] # None
        BY <1>1
      <3>. QED  BY <3>1, <3>2 DEF Ordered
    <2>2. Operator[Tasks[received[r].course][n].unit] \in Role
      <3>1. received[r].course \in Course
        BY <2>1, ReceivedFacts, IssuedFacts
      <3>. QED  BY <2>1, <3>1, CourseFacts, RolesAndCourses DEF Ordered
    <2>3. m \in done
      BY <2>1 DEF Telling
    <2>. QED  BY <2>1, <2>2, <2>3, ReportMail
  <1>. QED  BY <1>1, <1>2, <1>3

LEMMA FrameOK ==
    ASSUME IInv, NEW s \in Situation, Frame(s)
    PROVE  IInv' /\ Continues
  <1>1. ASSUME NEW m \in Mission, execution[m] # None
        PROVE  /\ execution'[m] \in Execution /\ execution'[m] # None
               /\ RunOK(m, execution'[m], tick', tasking', achieved')
               /\ execution'[m].state \notin Final => execution[m].state \notin Final
               /\ execution'[m].task = execution[m].task
               /\ execution'[m].fired <=> execution[m].fired \/ m \in Firing(s)
    <2>1. Progress(execution[m], execution'[m]) /\ execution'[m] # None
          /\ execution'[m] = After(m, s)
      BY <1>1, FrameFacts
    <2>2. RunOK(m, execution[m], tick, tasking, achieved)
      BY <1>1, RunFacts
    <2>3. tick' = Now /\ tasking' = tasking /\ achieved \subseteq achieved'
          /\ (execution'[m].state = "Completed" => m \in achieved')
      BY <2>1, FrameFacts
    <2>4. RunOK(m, execution'[m], tick', tasking', achieved')
      BY <2>1, <2>2, <2>3 DEF Progress, RunOK
    <2>. QED  BY <1>1, <2>1, <2>4 DEF Progress, Firing
  <1>2. \A m \in Mission : execution[m] = None => execution'[m] = None /\ m \notin Firing(s)
    BY FrameFacts DEF Firing
  <1>3. Continues
    BY <1>1, <1>2 DEF Continues
  <1>4. Runs'
    BY <1>1, <1>2 DEF Runs
  <1>5. FlightOK'
    <2>1. execution' = [m \in Mission |-> After(m, s)] /\ tick' = Now
          /\ UNCHANGED <<tasking, completions>>
      BY FrameFacts
    <2>2. execution' \in [Mission -> Execution \cup {None}]
      BY <1>1, <1>2, <2>1
    <2>3. achieved \subseteq achieved' /\ achieved' \subseteq Mission
      BY FrameFacts DEF IInv, FlightOK
    <2>. QED  BY <2>1, <2>2, <2>3, NowFacts DEF IInv, FlightOK
  <1>6. Counted'
    <2>1. released' = [m \in Mission |-> released[m] + IF m \in Firing(s) THEN 1 ELSE 0]
      BY FrameFacts
    <2>2. ASSUME NEW m \in Mission
          PROVE  released'[m] = IF execution'[m] # None /\ execution'[m].fired THEN 1 ELSE 0
      <3>1. released[m] = IF execution[m] # None /\ execution[m].fired THEN 1 ELSE 0
        BY DEF IInv, Counted, Fired
      <3>2. m \in Firing(s) => execution[m] # None /\ ~execution[m].fired
        BY DEF Firing
      <3>. QED  BY <1>1, <1>2, <2>1, <3>1, <3>2
    <2>. QED  BY <2>2 DEF Counted, Fired
  <1>7. CraftOK'
    <2>1. ASSUME NEW m \in Firing(s)
          PROVE  ammunition[execution[m].task.unit] > 0
      BY FrameFacts DEF Firing, Progress
    <2>2. ammunition' \in [Unit -> Nat]
      <3>1. ammunition \in [Unit -> Nat]
        BY DEF IInv, CraftOK
      <3>2. \A u \in {execution[m].task.unit : m \in Firing(s)} : ammunition[u] > 0
        BY <2>1
      <3>3. ammunition' = [u \in Unit |->
                 IF u \in {execution[m].task.unit : m \in Firing(s)}
                 THEN ammunition[u] - 1 ELSE ammunition[u]]
        BY FrameFacts
      <3>. QED  BY <3>1, <3>2, <3>3
    <2>3. shots' \in [Unit -> Nat]
      <3>1. ASSUME NEW u \in Unit
            PROVE  Cardinality({m \in Firing(s) : execution[m].task.unit = u}) \in Nat
        <4>1. IsFiniteSet(Mission)
          BY CampaignAssumption
        <4>2. {m \in Firing(s) : execution[m].task.unit = u} \subseteq Mission
          BY DEF Firing
        <4>3. IsFiniteSet({m \in Firing(s) : execution[m].task.unit = u})
          BY <4>1, <4>2, FS_Subset
        <4>. QED  BY <4>3, FS_CardinalityType
      <3>2. shots' = [u \in Unit |->
                 shots[u] + Cardinality({m \in Firing(s) : execution[m].task.unit = u})]
        BY FrameFacts
      <3>3. shots \in [Unit -> Nat]
        BY DEF IInv, CraftOK
      <3>. QED  BY <3>1, <3>2, <3>3
    <2>4. released' \in [Mission -> Nat]
      <3>1. released' = [m \in Mission |-> released[m] + IF m \in Firing(s) THEN 1 ELSE 0]
        BY FrameFacts
      <3>. QED  BY <3>1 DEF IInv, CraftOK
    <2>5. destroyed' \subseteq Unit /\ dry' \subseteq Unit
      BY FrameFacts, SituationFacts DEF IInv, CraftOK
    <2>. QED  BY <2>2, <2>3, <2>4, <2>5 DEF CraftOK
  <1>8. Mail'
    <2>1. \A m \in Mission : execution'[m] # None /\ execution'[m].state = "Completed"
                => m \in achieved'
      BY FrameFacts
    <2>2. PICK done : done = achieved'
      OBVIOUS
    <2>3. \A msg \in ReportTick : MailOK(msg, done)
      BY <2>1, <2>2, ReportTickMail
    <2>4. \A msg \in network : MailOK(msg, done)
      <3>1. achieved \subseteq done
        BY <2>2, FrameFacts
      <3>. QED  BY <3>1 DEF IInv, Mail, MailOK
    <2>. QED  BY <2>2, <2>3, <2>4, FrameFacts DEF Mail
  <1>9. StaffOK' /\ InboxOK'
    BY FrameFacts DEF IInv, StaffOK, InboxOK, staff
  <1>. QED  BY <1>3, <1>4, <1>5, <1>6, <1>7, <1>8, <1>9 DEF IInv

--------------------------------------------------------------------------------
(* The inductive invariant.                                                 *)

LEMMA InitIInv == Init => IInv
  <1>. SUFFICES ASSUME Init
                PROVE  IInv
    OBVIOUS
  <1>1. StaffOK /\ InboxOK /\ Mail
    BY DEF Init, StaffOK, InboxOK, Mail
  <1>2. CraftOK
    <2>1. Load \in [Unit -> Nat]
      BY CampaignAssumption
    <2>. QED  BY <2>1 DEF Init, CraftOK
  <1>3. FlightOK
    BY BoundFacts DEF Init, FlightOK
  <1>4. Runs /\ Counted
    BY DEF Init, Runs, Counted, Fired
  <1>. QED  BY <1>1, <1>2, <1>3, <1>4 DEF IInv

LEMMA StepIInv == IInv /\ [Next]_vars => IInv' /\ (Continues \/ Retasks)
  <1>. SUFFICES ASSUME IInv, [Next]_vars
                PROVE  IInv' /\ (Continues \/ Retasks)
    OBVIOUS
  <1>1. CASE Staff
    BY <1>1, SaveOK, ProposeOK, AdoptProposalOK, PublishOK, PublishFailsOK, CancelMissionOK
       DEF Staff
  <1>2. CASE Control
    BY <1>2, GrantClearanceOK, HandoffOK, TacticalMoveOK, EngageOK DEF Control
  <1>3. CASE Deliver
    BY <1>3, DeliverOK
  <1>4. CASE \E s \in Situation : Frame(s)
    BY <1>4, FrameOK
  <1>5. CASE UNCHANGED vars
    <2>1. UNCHANGED <<tick, tasking, achieved, released, execution, completions>>
      BY <1>5 DEF vars
    <2>2. FlightOK' /\ Runs' /\ Counted' /\ Continues
      BY <2>1, SameRuns
    <2>3. StaffOK' /\ InboxOK' /\ Mail' /\ CraftOK'
      BY <1>5 DEF vars, IInv, StaffOK, InboxOK, Mail, CraftOK
    <2>. QED  BY <2>2, <2>3 DEF IInv
  <1>. QED  BY <1>1, <1>2, <1>3, <1>4, <1>5 DEF Next

LEMMA Invariance == Spec => []IInv
  BY InitIInv, StepIInv, PTL DEF Spec

--------------------------------------------------------------------------------
(* Types, and what comes first.                                             *)

\* Every variable keeps its type, for any side, plan and bounds.
THEOREM TypeCorrect == Spec => []TypeOK
  <1>1. IInv => TypeOK
    <2>. SUFFICES ASSUME IInv
                  PROVE  TypeOK
      OBVIOUS
    <2>1. {drafts, received, proposals} \subseteq [Role -> Plan \cup {None}]
          /\ published \subseteq Plan
      BY IssuedFacts DEF IInv, StaffOK
    <2>2. network \subseteq Message
      BY DEF IInv, Mail, MailOK
    <2>3. completions \in [Unit -> SUBSET Mission]
      BY DEF IInv, FlightOK
    <2>. QED  BY <2>1, <2>2, <2>3 DEF IInv, InboxOK, CraftOK, FlightOK, TypeOK
  <1>. QED  BY <1>1, Invariance, PTL

\* No revision, report or handoff lets a mission go active before each mission
\* it waits for was completed.
THEOREM DependenciesHold == Spec => []DependenciesComeFirst
  <1>1. IInv => DependenciesComeFirst
    BY RunFacts DEF DependenciesComeFirst, Active, RunOK
  <1>. QED  BY <1>1, Invariance, PTL

\* A mission releases at most one weapon, however often it is given out again.
THEOREM OneWeaponHolds == Spec => []OneWeaponPerMission
  <1>1. IInv => OneWeaponPerMission
    BY DEF IInv, Counted, OneWeaponPerMission
  <1>. QED  BY <1>1, Invariance, PTL

--------------------------------------------------------------------------------
(* The windows of an aircraft.                                              *)

Apart(s, t) == s.end <= t.start \/ t.end <= s.start

Live(m) == execution[m] # None /\ execution[m].state \notin Final

\* What a unit may still fly does not overlap.
Room == \A m, n \in Mission :
    m # n /\ Live(m) /\ Live(n) /\ execution[m].task.unit = execution[n].task.unit
        => Apart(execution[m].task, execution[n].task)

LEMMA RoomContinues ==
    ASSUME Room, Continues
    PROVE  Room'
  BY DEF Room, Continues, Live

\* What is still to be flown after a unit took a revision: what was to be flown
\* before, of the unit only if the revision has another fly it, and what it says.
LEMMA RetaskedFacts ==
    ASSUME IInv, NEW m \in Mission, NEW u \in Unit, NEW plan \in Issued,
           tasking[u] < plan.revision, Tasked(u, plan, m) # None,
           Tasked(u, plan, m).state \notin Final
    PROVE  LET f   == Tasked(u, plan, m)
               new == Tasks[plan.course][m]
           IN  \/ /\ Live(m) /\ f.task = execution[m].task
                  /\ f.task.unit = u => new # None /\ new.unit # u
               \/ new # None /\ f.task = new /\ new.unit = u
  <1>. DEFINE f   == Tasked(u, plan, m)
              old == execution[m]
              new == Tasks[plan.course][m]
  <1>1. old # None => old \in Execution /\ old.revision <= tasking[old.task.unit]
    BY RunFacts DEF RunOK
  <1>2. CASE new = None
    <2>1. CASE old # None /\ old.task.unit = u
      <3>1. f = [old EXCEPT !.state = "Cancelled"]
        BY <1>2, <2>1 DEF Tasked
      <3>2. f.state = "Cancelled"
        BY <1>1, <2>1, <3>1 DEF Execution
      <3>. QED  BY <3>2 DEF Final
    <2>2. CASE ~(old # None /\ old.task.unit = u)
      <3>1. f = old
        BY <1>2, <2>2 DEF Tasked
      <3>. QED  BY <2>2, <3>1 DEF Live
    <2>. QED  BY <2>1, <2>2
  <1>3. CASE new # None /\ new.unit # u
    <2>1. f = old
      BY <1>3 DEF Tasked
    <2>. QED  BY <1>3, <2>1 DEF Live
  <1>4. CASE new # None /\ new.unit = u /\ old # None /\ old.revision >= plan.revision
    <2>1. f = old
      BY <1>4 DEF Tasked
    <2>2. old.task.unit # u
      <3>1. old.revision \in Nat /\ plan.revision \in Nat /\ tasking[u] \in Nat
        BY <1>1, <1>4, ExecutionFacts, IssuedFacts DEF IInv, FlightOK
      <3>. QED  BY <1>1, <1>4, <3>1
    <2>. QED  BY <2>1, <2>2 DEF Live
  <1>5. CASE new # None /\ new.unit = u /\ ~(old # None /\ old.revision >= plan.revision)
    <2>1. CASE old # None /\ old.task = new
      <3>1. f = [old EXCEPT !.revision = plan.revision]
        BY <1>5, <2>1 DEF Tasked
      <3>2. f.task = old.task
        BY <1>1, <2>1, <3>1 DEF Execution
      <3>. QED  BY <1>5, <2>1, <3>2
    <2>2. CASE ~(old # None /\ old.task = new)
      <3>1. f = Fresh(m, plan)
        BY <1>5, <2>2 DEF Tasked
      <3>. QED  BY <1>5, <3>1 DEF Fresh
    <2>. QED  BY <2>1, <2>2
  <1>. QED  BY <1>2, <1>3, <1>4, <1>5

LEMMA RoomRetasks ==
    ASSUME IInv, MovesLeaveRoom, Room, Retasks
    PROVE  Room'
  <1>1. PICK u \in Unit, plan \in Issued : tasking[u] < plan.revision /\ TakeTasking(u, plan)
    BY DEF Retasks
  <1>. DEFINE c == plan.course
  <1>2. c \in Course /\ plan.revision \in Nat /\ tasking[u] \in Nat
    BY IssuedFacts DEF IInv, FlightOK
  <1>3. \A m \in Mission : execution'[m] = Tasked(u, plan, m)
    BY <1>1, <1>2 DEF TakeTasking
  <1>. HIDE DEF c
  <1>. DEFINE old(m) == /\ Live(m) /\ execution'[m].task = execution[m].task
                        /\ execution'[m].task.unit = u => Tasks[c][m] # None /\ Tasks[c][m].unit # u
              new(m) == /\ Tasks[c][m] # None /\ execution'[m].task = Tasks[c][m]
                        /\ Tasks[c][m].unit = u
  <1>4. ASSUME NEW m \in Mission, execution'[m] # None, execution'[m].state \notin Final
        PROVE  old(m) \/ new(m)
    BY <1>1, <1>3, <1>4, RetaskedFacts DEF c
  <1>5. ASSUME NEW m \in Mission, NEW n \in Mission, m # n, old(m), new(n),
               execution'[m].task.unit = execution'[n].task.unit
        PROVE  Apart(execution'[m].task, execution'[n].task)
    <2>1. PICK d \in Course : execution[m].task = Tasks[d][m]
      BY <1>5, RunFacts DEF Live, RunOK
    <2>2. Tasks[d][m] # None
      BY <1>5, <2>1, RunFacts, ExecutionFacts, TaskFacts DEF Live
    <2>3. Tasks[d][m].unit = Tasks[c][n].unit /\ Tasks[c][m] # None
          /\ Tasks[c][m].unit # Tasks[d][m].unit
      BY <1>5, <2>1
    <2>4. \/ Tasks[d][m].end <= Tasks[c][n].start
          \/ Tasks[c][n].end <= Tasks[d][m].start
      BY <1>2, <1>5, <2>2, <2>3 DEF MovesLeaveRoom
    <2>. QED  BY <1>5, <2>1, <2>4 DEF Apart
  <1>6. ASSUME NEW m \in Mission, NEW n \in Mission, m # n, old(m), old(n),
               execution'[m].task.unit = execution'[n].task.unit
        PROVE  Apart(execution'[m].task, execution'[n].task)
    BY <1>6 DEF Room
  <1>7. ASSUME NEW m \in Mission, NEW n \in Mission, m # n, new(m), new(n)
        PROVE  Apart(execution'[m].task, execution'[n].task)
    <2>1. m \in Ordered(c) /\ n \in Ordered(c) \ {m} /\ ValidCourse(c)
      BY <1>2, <1>7, CourseAssumption DEF Ordered
    <2>2. \/ Tasks[c][n].end <= Tasks[c][m].start
          \/ Tasks[c][m].end <= Tasks[c][n].start
      BY <1>7, <2>1 DEF ValidCourse
    <2>. QED  BY <1>7, <2>2 DEF Apart
  <1>. HIDE DEF old, new
  <1>8. \A s, t : Apart(s, t) => Apart(t, s)
    BY DEF Apart
  <1>. SUFFICES ASSUME NEW m \in Mission, NEW n \in Mission, m # n, Live(m)', Live(n)',
                       execution'[m].task.unit = execution'[n].task.unit
                PROVE  Apart(execution'[m].task, execution'[n].task)
    BY DEF Room
  <1>9. (old(m) \/ new(m)) /\ (old(n) \/ new(n))
    BY <1>4 DEF Live
  <1>. QED  BY <1>5, <1>6, <1>7, <1>8, <1>9

LEMMA RoomNext == MovesLeaveRoom /\ IInv /\ Room /\ [Next]_vars => Room'
  BY StepIInv, RoomContinues, RoomRetasks

\* Two missions of a unit never have their windows open together.
LEMMA OneInWindow ==
    ASSUME IInv, Room, NEW m \in Mission, NEW n \in Mission, Live(m), Live(n),
           execution[m].task.unit = execution[n].task.unit, NEW now \in Int,
           InWindow(execution[m].task, now), InWindow(execution[n].task, now)
    PROVE  m = n
  <1>. SUFFICES ASSUME m # n
                PROVE  FALSE
    OBVIOUS
  <1>1. Apart(execution[m].task, execution[n].task)
    BY DEF Room
  <1>2. execution[m].task \in Task /\ execution[n].task \in Task
    BY RunFacts, ExecutionFacts DEF Live
  <1>3. /\ execution[m].task.start \in Nat /\ execution[m].task.end \in Nat
        /\ execution[n].task.start \in Nat /\ execution[n].task.end \in Nat
    BY <1>2, TaskFacts
  <1>. QED  BY <1>1, <1>3 DEF Apart, InWindow

LEMMA OneActive ==
    ASSUME IInv, Room
    PROVE  OneActivePerUnit
  <1>. SUFFICES ASSUME NEW m \in Mission, NEW n \in Mission, Active(m), Active(n),
                       execution[m].task.unit = execution[n].task.unit
                PROVE  m = n
    BY DEF OneActivePerUnit
  <1>1. Live(m) /\ Live(n)
    BY DEF Active, Live, Final
  <1>2. InWindow(execution[m].task, tick) /\ InWindow(execution[n].task, tick)
    BY RunFacts DEF Active, RunOK
  <1>3. tick \in Int
    BY BoundFacts DEF IInv, FlightOK
  <1>. QED  BY <1>1, <1>2, <1>3, OneInWindow

\* Of the missions of a unit one fires in a frame, and it pays.
LEMMA FramePays ==
    ASSUME IInv, Room, EveryWeaponIsPaid, NEW s \in Situation, Frame(s)
    PROVE  EveryWeaponIsPaid'
  <1>. SUFFICES ASSUME NEW u \in Unit
                PROVE  shots'[u] + ammunition'[u] = Load[u]
    BY DEF EveryWeaponIsPaid
  <1>. DEFINE mine == {m \in Firing(s) : execution[m].task.unit = u}
  <1>1. /\ shots'[u] = shots[u] + Cardinality(mine)
        /\ ammunition'[u] = IF mine # {} THEN ammunition[u] - 1 ELSE ammunition[u]
    BY FrameFacts DEF IInv, CraftOK
  <1>2. shots[u] \in Nat /\ ammunition[u] \in Nat /\ shots[u] + ammunition[u] = Load[u]
    BY DEF IInv, CraftOK, EveryWeaponIsPaid
  <1>3. ASSUME NEW m \in mine
        PROVE  /\ m \in Mission /\ execution[m].task.unit = u
               /\ Live(m) /\ InWindow(execution[m].task, Now)
    <2>1. m \in Mission /\ execution[m] # None /\ After(m, s).fired /\ ~execution[m].fired
          /\ execution[m].task.unit = u
      BY <1>3 DEF Firing
    <2>2. Progress(execution[m], After(m, s))
      BY <2>1, AfterProgress
    <2>. QED  BY <2>1, <2>2 DEF Progress, Live
  <1>. HIDE DEF mine
  <1>4. CASE mine = {}
    BY <1>1, <1>2, <1>4, FS_EmptySet
  <1>5. CASE mine # {}
    <2>1. PICK m : m \in mine
      BY <1>5
    <2>2. Now \in Int
      BY NowFacts, BoundFacts
    <2>3. \A n \in mine : n = m
      BY <1>3, <2>1, <2>2, OneInWindow
    <2>4. mine = {m}
      BY <2>1, <2>3
    <2>5. Cardinality(mine) = 1
      BY <2>4, FS_Singleton
    <2>. QED  BY <1>1, <1>2, <1>5, <2>5
  <1>. QED  BY <1>4, <1>5

LEMMA PaidNext == IInv /\ Room /\ EveryWeaponIsPaid /\ [Next]_vars => EveryWeaponIsPaid'
  <1>. SUFFICES ASSUME IInv, Room, EveryWeaponIsPaid, [Next]_vars
                PROVE  EveryWeaponIsPaid'
    OBVIOUS
  <1>1. CASE UNCHANGED <<shots, ammunition>>
    BY <1>1 DEF EveryWeaponIsPaid
  <1>2. CASE Staff \/ Deliver \/ UNCHANGED vars
    BY <1>1, <1>2 DEF Staff, Save, Propose, AdoptProposal, Publish, PublishFails, CancelMission,
                      Deliver, vars, craft
  <1>3. CASE Control
    <2>1. ASSUME NEW u \in Unit, Engage(u)
          PROVE  EveryWeaponIsPaid'
      <3>1. ammunition \in [Unit -> Nat] /\ shots \in [Unit -> Nat]
        BY DEF IInv, CraftOK
      <3>. QED  BY <2>1, <3>1 DEF Engage, EveryWeaponIsPaid
    <2>2. CASE \/ \E r \in Role, u \in Unit : GrantClearance(r, u)
               \/ \E h \in Handoff : OfferHandoff(h) \/ AcceptHandoff(h)
               \/ \E u \in Unit : TacticalMove(u)
      BY <1>1, <2>2 DEF GrantClearance, OfferHandoff, AcceptHandoff, TacticalMove, craft
    <2>. QED  BY <1>3, <2>1, <2>2 DEF Control
  <1>4. CASE \E s \in Situation : Frame(s)
    BY <1>4, FramePays
  <1>. QED  BY <1>2, <1>3, <1>4 DEF Next

\* Where no revision moves a mission away from an aircraft to give it another in
\* the same window, a mission fires once, every weapon is paid for, and no two
\* missions of an aircraft are active together.
THEOREM WeaponsAreAccountedForHolds ==
    ASSUME MovesLeaveRoom
    PROVE  Spec => []WeaponsAreAccountedFor
  <1>1. Init => Room /\ EveryWeaponIsPaid
    <2>1. Load \in [Unit -> Nat]
      BY CampaignAssumption
    <2>. QED  BY <2>1 DEF Init, Room, Live, EveryWeaponIsPaid
  <1>2. IInv /\ Room /\ EveryWeaponIsPaid /\ [Next]_vars => Room' /\ EveryWeaponIsPaid'
    BY RoomNext, PaidNext
  <1>3. IInv /\ Room /\ EveryWeaponIsPaid => WeaponsAreAccountedFor
    BY OneActive DEF WeaponsAreAccountedFor, IInv, Counted, OneWeaponPerMission
  <1>. QED  BY <1>1, <1>2, <1>3, Invariance, PTL DEF Spec

--------------------------------------------------------------------------------
(* Handoffs.                                                                *)

Handoffs == {"offer", "accept", "notice"}

\* Handoff message msg is addressed to whom it concerns, and tells the truth.
TrueNotice(msg, box) ==
    /\ msg.kind = "offer" => msg.to = Transfer[msg.handoff].to
    /\ msg.kind = "accept" => msg.to = Operator[Transfer[msg.handoff].unit]
    /\ msg.kind = "notice" =>
           /\ msg.to \in {Transfer[msg.handoff].from, Transfer[msg.handoff].to}
           /\ box[Operator[Transfer[msg.handoff].unit]][msg.handoff] = "Delivered"

TrueNotices == \A msg \in network : TrueNotice(msg, inbox)

\* No handoff message is sent and no inbox changes.
Quiet ==
    /\ UNCHANGED inbox
    /\ \A msg \in network' \ network : msg.kind \notin Handoffs

LEMMA QuietHandoffs ==
    ASSUME TrueNotices, HandedOverAtTheAircraft, Quiet
    PROVE  TrueNotices' /\ HandedOverAtTheAircraft'
  BY DEF TrueNotices, TrueNotice, HandedOverAtTheAircraft, Quiet, Handoffs

LEMMA StaffQuiet ==
    ASSUME Staff
    PROVE  Quiet
  <1>1. ASSUME NEW r \in Role, NEW c \in Course, Save(r, c)
        PROVE  Quiet
    BY <1>1 DEF Save, Quiet
  <1>2. ASSUME NEW r \in Role, Propose(r)
        PROVE  Quiet
    BY <1>2 DEF Propose, Send, Quiet, Handoffs
  <1>3. ASSUME NEW r \in Role, AdoptProposal(r)
        PROVE  Quiet
    BY <1>3 DEF AdoptProposal, Quiet
  <1>4. ASSUME NEW c \in Course, Publish(c)
        PROVE  Quiet
    BY <1>4 DEF Publish, Send, Publication, Quiet, Handoffs
  <1>5. ASSUME NEW c \in Course, NEW n \in 1..(Len(Recipients) - 1), PublishFails(c, n)
        PROVE  Quiet
    BY <1>5 DEF PublishFails, Send, Publication, Quiet, Handoffs
  <1>6. ASSUME NEW r \in Role, NEW m \in Mission, CancelMission(r, m)
        PROVE  Quiet
    BY <1>6 DEF CancelMission, Send, Quiet, Handoffs
  <1>. QED  BY <1>1, <1>2, <1>3, <1>4, <1>5, <1>6 DEF Staff

LEMMA FrameQuiet ==
    ASSUME NEW s \in Situation, Frame(s)
    PROVE  Quiet
  <1>1. UNCHANGED inbox /\ network' = network \cup ReportTick
    BY DEF Frame
  <1>2. ASSUME NEW msg \in ReportTick
        PROVE  msg.kind \notin Handoffs
    <2>1. PICK r \in Role : msg \in Heartbeats(r) \cup Reports(r)
      BY DEF ReportTick
    <2>. QED  BY <2>1 DEF Heartbeats, Reports, Handoffs
  <1>. QED  BY <1>1, <1>2 DEF Quiet

\* An inbox that changes for one role and one handoff.
LEMMA InboxFacts ==
    ASSUME InboxOK, NEW r \in Role, NEW h \in Handoff, NEW x,
           inbox' = [inbox EXCEPT ![r][h] = x]
    PROVE  /\ inbox'[r][h] = x
           /\ \A q \in Role, g \in Handoff : q # r \/ g # h => inbox'[q][g] = inbox[q][g]
  BY DEF InboxOK

\* A controller's entry is not the operator's.
LEMMA ControllerInbox ==
    ASSUME IInv, OperatorApart, TrueNotices, HandedOverAtTheAircraft, NEW h \in Handoff,
           NEW r \in {Transfer[h].from, Transfer[h].to}, NEW x,
           inbox' = [inbox EXCEPT ![r][h] = x],
           x = "Delivered" => inbox[Operator[Transfer[h].unit]][h] = "Delivered",
           \A msg \in network' \ network : TrueNotice(msg, inbox), Mail'
    PROVE  TrueNotices' /\ HandedOverAtTheAircraft'
  <1>1. r \in Role /\ \A g \in Handoff : Operator[Transfer[g].unit] \in Role
    BY TransferFacts
  <1>2. /\ inbox'[r][h] = x
        /\ \A q \in Role, g \in Handoff : q # r \/ g # h => inbox'[q][g] = inbox[q][g]
    <2>1. InboxOK
      BY DEF IInv
    <2>2. r \in Role
      BY <1>1
    <2>. QED  BY <2>1, <2>2 DEF InboxOK
  <1>3. \A g \in Handoff : inbox'[Operator[Transfer[g].unit]][g] = inbox[Operator[Transfer[g].unit]][g]
    BY <1>1, <1>2 DEF OperatorApart
  <1>4. HandedOverAtTheAircraft'
    BY <1>2, <1>3 DEF HandedOverAtTheAircraft
  <1>5. ASSUME NEW msg \in network'
        PROVE  TrueNotice(msg, inbox')
    <2>1. TrueNotice(msg, inbox)
      BY DEF TrueNotices
    <2>2. PICK done : MailOK(msg, done)
      BY DEF Mail
    <2>3. msg.kind = "notice" => msg.handoff \in Handoff
      BY <2>2, MessageFacts
    <2>. QED  BY <1>3, <2>1, <2>3 DEF TrueNotice
  <1>. QED  BY <1>4, <1>5 DEF TrueNotices

LEMMA HandoffsNext ==
    ASSUME IInv, IInv', OperatorApart, TrueNotices, HandedOverAtTheAircraft, [Next]_vars
    PROVE  TrueNotices' /\ HandedOverAtTheAircraft'
  <1>. USE DEF IInv
  <1>1. CASE Staff
    BY <1>1, StaffQuiet, QuietHandoffs
  <1>2. CASE \E s \in Situation : Frame(s)
    BY <1>2, FrameQuiet, QuietHandoffs
  <1>3. CASE UNCHANGED vars
    BY <1>3, QuietHandoffs DEF vars, Quiet
  <1>4. CASE Control
    <2>1. ASSUME NEW r \in Role, NEW u \in Unit, GrantClearance(r, u)
          PROVE  Quiet
      BY <2>1 DEF GrantClearance, Send, Quiet, Handoffs
    <2>2. ASSUME NEW u \in Unit, TacticalMove(u) \/ Engage(u)
          PROVE  Quiet
      BY <2>2 DEF TacticalMove, Engage, Quiet
    <2>3. ASSUME NEW h \in Handoff, OfferHandoff(h)
          PROVE  TrueNotices' /\ HandedOverAtTheAircraft'
      <3>1. PICK r \in {Transfer[h].from, Transfer[h].to}, x \in {"Offered", "Accepted"} :
              x = "Offered" /\ inbox' = [inbox EXCEPT ![r][h] = x]
        BY <2>3 DEF OfferHandoff
      <3>2. \A msg \in network' \ network : TrueNotice(msg, inbox)
        BY <2>3 DEF OfferHandoff, Send, Offer, TrueNotice
      <3>. QED  BY <3>1, <3>2, ControllerInbox
    <2>4. ASSUME NEW h \in Handoff, AcceptHandoff(h)
          PROVE  TrueNotices' /\ HandedOverAtTheAircraft'
      <3>1. PICK r \in {Transfer[h].from, Transfer[h].to}, x \in {"Offered", "Accepted"} :
              x = "Accepted" /\ inbox' = [inbox EXCEPT ![r][h] = x]
        BY <2>4 DEF AcceptHandoff, Accepted
      <3>2. \A msg \in network' \ network : TrueNotice(msg, inbox)
        BY <2>4 DEF AcceptHandoff, Send, Accept, TrueNotice
      <3>. QED  BY <3>1, <3>2, ControllerInbox
    <2>. QED  BY <1>4, <2>1, <2>2, <2>3, <2>4, QuietHandoffs DEF Control
  <1>5. CASE Deliver
    <2>1. PICK msg \in network :
            \/ ReceivePublication(msg) \/ ReceiveProposal(msg) \/ ReceiveCancel(msg)
            \/ ReceiveClearance(msg) \/ ReceiveHeartbeat(msg)
            \/ ReceiveHandoff(msg) \/ ReceiveAcceptance(msg) \/ ReceiveReport(msg)
      BY <1>5 DEF Deliver
    <2>2. MailOK(msg, achieved) /\ TrueNotice(msg, inbox)
      BY DEF Mail, TrueNotices
    <2>3. CASE \/ ReceivePublication(msg) \/ ReceiveProposal(msg) \/ ReceiveCancel(msg)
               \/ ReceiveClearance(msg) \/ ReceiveHeartbeat(msg) \/ ReceiveReport(msg)
      <3>1. Quiet
        BY <2>3 DEF ReceivePublication, ReceiveProposal, ReceiveCancel, ReceiveClearance,
                    ReceiveHeartbeat, ReceiveReport, Quiet
      <3>. QED  BY <3>1, QuietHandoffs
    <2>4. CASE ReceiveHandoff(msg)
      <3>. DEFINE h == msg.handoff
                  x == IF msg.kind = "offer" THEN "Offered" ELSE "Delivered"
      <3>1. /\ msg.kind \in {"offer", "notice"} /\ inbox' = [inbox EXCEPT ![msg.to][h] = x]
            /\ network' = network \ {msg}
        BY <2>4 DEF ReceiveHandoff
      <3>2. h \in Handoff /\ msg.to \in {Transfer[h].from, Transfer[h].to}
        BY <2>2, <3>1, MessageFacts DEF TrueNotice
      <3>3. x = "Delivered" => inbox[Operator[Transfer[h].unit]][h] = "Delivered"
        BY <2>2, <3>1 DEF TrueNotice
      <3>. HIDE DEF h, x
      <3>. QED  BY <3>1, <3>2, <3>3, ControllerInbox
    <2>5. CASE ReceiveAcceptance(msg)
      <3>. DEFINE h == msg.handoff
                  op == Operator[Transfer[h].unit]
                  new == {Notice(h, r) : r \in {Transfer[h].from, Transfer[h].to}}
      <3>1. h \in Handoff /\ msg.to = op /\ op \in Role
        BY <2>2, <2>5, MessageFacts, TransferFacts DEF ReceiveAcceptance, TrueNotice
      <3>2. CASE received[msg.to] = None
        <4>1. Quiet
          BY <2>5, <3>2 DEF ReceiveAcceptance, Quiet
        <4>. QED  BY <4>1, QuietHandoffs
      <3>3. CASE received[msg.to] # None
        <4>1. /\ inbox' = [inbox EXCEPT ![op][h] = "Delivered"]
              /\ network' = (network \ {msg}) \cup new
          BY <2>5, <3>1, <3>3 DEF ReceiveAcceptance
        <4>2. /\ inbox'[op][h] = "Delivered"
              /\ \A q \in Role, g \in Handoff : q # op \/ g # h => inbox'[q][g] = inbox[q][g]
          BY <3>1, <4>1, InboxFacts
        <4>3. \A g \in Handoff :
                  inbox[Operator[Transfer[g].unit]][g] = "Delivered"
                      => inbox'[Operator[Transfer[g].unit]][g] = "Delivered"
          BY <4>2, TransferFacts
        <4>4. HandedOverAtTheAircraft'
          <5>. SUFFICES ASSUME NEW q \in Role, NEW g \in Handoff, inbox'[q][g] = "Delivered"
                        PROVE  inbox'[Operator[Transfer[g].unit]][g] = "Delivered"
            BY DEF HandedOverAtTheAircraft
          <5>1. CASE q = op /\ g = h
            BY <4>2, <5>1
          <5>2. CASE ~(q = op /\ g = h)
            BY <4>2, <4>3, <5>2 DEF HandedOverAtTheAircraft
          <5>. QED  BY <5>1, <5>2
        <4>5. ASSUME NEW n \in new
              PROVE  TrueNotice(n, inbox')
          BY <4>2 DEF Notice, TrueNotice
        <4>6. ASSUME NEW n \in network
              PROVE  TrueNotice(n, inbox')
          <5>1. TrueNotice(n, inbox) /\ (n.kind = "notice" => n.handoff \in Handoff)
            BY MessageFacts DEF TrueNotices, Mail
          <5>. QED  BY <4>3, <5>1 DEF TrueNotice
        <4>. HIDE DEF new
        <4>7. TrueNotices'
          BY <4>1, <4>5, <4>6 DEF TrueNotices
        <4>. QED  BY <4>4, <4>7
      <3>. QED  BY <3>2, <3>3
    <2>. QED  BY <2>1, <2>3, <2>4, <2>5
  <1>. QED  BY <1>1, <1>2, <1>3, <1>4, <1>5 DEF Next

\* Where the operator of an aircraft controls no sector it is handed between,
\* nobody is told of a completed handoff before the aircraft took it, in whatever
\* order offers, acceptances and notices arrive, and however often it is offered.
THEOREM HandedOverHolds ==
    ASSUME OperatorApart
    PROVE  Spec => []HandedOverAtTheAircraft
  <1>1. Init => TrueNotices /\ HandedOverAtTheAircraft
    <2>1. None # "Delivered"
      BY NoneAssumption
    <2>. QED  BY <2>1 DEF Init, TrueNotices, HandedOverAtTheAircraft
  <1>2. IInv /\ IInv' /\ TrueNotices /\ HandedOverAtTheAircraft /\ [Next]_vars
          => TrueNotices' /\ HandedOverAtTheAircraft'
    BY HandoffsNext
  <1>. QED  BY <1>1, <1>2, Invariance, PTL DEF Spec

================================================================================
