------------------------------ MODULE FieldProofs ------------------------------
(***************************************************************************)
(* Theorems about what happens in the field.  What is known of targets: by *)
(* a weapon in flight (TargetUpdates), for every set of units, contacts,   *)
(* links and commands, any number of datagrams and any losses among them;  *)
(* and by the platforms of a side (SensorFusion), for every set of         *)
(* platforms, links and subscriptions, every expiry, pace and limit of     *)
(* evidence, and any number of sightings.  And what sustains the units     *)
(* (Logistics), for every set of units, facilities and goods, every        *)
(* capacity, rate and duration, and any number of orders and hits.         *)
(***************************************************************************)
EXTENDS TargetUpdates, SensorFusion, Logistics, FiniteSetTheorems, TLAPS

(* A weapon in flight.                                                      *)

\* Nothing is under way to a weapon that was not launched.
Unlaunched == weapon.phase = "none" => Updates = {} /\ Assignments = {}

\* Whoever sends updates under a revision was assigned under it.
Assigned ==
    \A u \in Updates, a \in Assignments : u.revision = a.revision => u.from = a.provider

Protocol == OneProviderPerRevision /\ NumbersGoOn /\ Unlaunched /\ Assigned

\* Nobody knows of a contact anything newer than the unit whose sensors saw it.
Own(held, o) == held[o[1]][o]

Sourced ==
    /\ \A o \in Origin : Own(tracks, o) <= clock
    /\ \A u \in Unit, o \in Origin : tracks[u][o] <= Own(tracks, o)
    /\ designated # None => designated.observed <= Own(tracks, designated.origin)
    /\ \A d \in air : d.kind \in {"report", "update"} => d.observed <= Own(tracks, d.origin)

IInv == TypeOK /\ Protocol /\ Sourced /\ EstimateFromItsSource

--------------------------------------------------------------------------------
(* Types of what is in the air.                                             *)

LEMMA KindOfDatagram ==
    ASSUME NEW d \in Datagram
    PROVE  /\ d.kind = "report" =>
                d \in [kind : {"report"}, from : Unit, to : Unit, expires : Time,
                       origin : Origin, observed : Time]
           /\ d.kind = "update" =>
                d \in [kind : {"update"}, from : Provider, to : {Weapon}, expires : Time,
                       revision : Nat, sequence : Nat, origin : Origin,
                       observed : Time, until : Time, retarget : BOOLEAN]
           /\ d.kind = "assignment" =>
                d \in [kind : {"assignment"}, from : {Launcher}, to : {Weapon},
                       expires : Time, provider : Provider, revision : Nat]
           /\ d.kind = "control" =>
                d \in [kind : {"control"}, from : {Launcher}, to : Unit, expires : Time,
                       command : Command, n : Nat]
           /\ d.kind = "status" =>
                d \in [kind : {"status"}, from : {Weapon} \cup Unit, to : Unit,
                       expires : Time, provider : Provider, accepted : Nat, at : Time]
  BY DEF Datagram

LEMMA ConfigurationFacts ==
    /\ Provider \subseteq Unit /\ Launcher \in Unit /\ Initial \in Provider
    /\ Handoff \in BOOLEAN /\ Retargets \in BOOLEAN /\ Telemetry \in BOOLEAN
    /\ Subscriptions \subseteq Unit \X Unit
  BY TargetUpdatesAssumption DEF ValidConfiguration

LEMMA TimeFacts ==
    ASSUME TypeOK
    PROVE  /\ clock \in Time /\ clock + Lifetime \in Time /\ clock + MaxAge \in Time
           /\ 0 \in Time /\ Time \subseteq Nat
  BY TargetUpdatesAssumption DEF TypeOK, Time

LEMMA ReportType ==
    ASSUME TypeOK, NEW u \in Unit, NEW p \in Unit, NEW o \in Origin
    PROVE  Report(u, p, o) \in Datagram
  <1>1. tracks[u][o] \in Time
    BY DEF TypeOK
  <1>. QED  BY <1>1, TimeFacts DEF Report, Datagram

LEMMA UpdateType ==
    ASSUME TypeOK, NEW o \in Origin, NEW t \in Time, NEW r \in BOOLEAN
    PROVE  Update(o, t, r) \in Datagram
  <1>1. sender.provider \in Provider /\ sender.revision \in Nat /\ sender.sequence + 1 \in Nat
    BY DEF TypeOK
  <1>. QED  BY <1>1, TimeFacts DEF Update, Datagram

LEMMA AssignmentType ==
    ASSUME TypeOK, NEW p \in Provider, NEW r \in Nat
    PROVE  Assignment(p, r) \in Datagram
  BY TimeFacts DEF Assignment, Datagram

LEMMA ControlType ==
    ASSUME TypeOK, NEW u \in Unit, NEW c \in Command
    PROVE  Control(u, c) \in Datagram
  BY TimeFacts DEF Control, Datagram, TypeOK

LEMMA StatusType ==
    ASSUME TypeOK, NEW p \in Provider
    PROVE  Status(p) \in Datagram
  <1>1. p \in Unit /\ weapon.accepted \in Nat
    BY ConfigurationFacts DEF TypeOK
  <1>. QED  BY <1>1, TimeFacts DEF Status, Datagram

--------------------------------------------------------------------------------
(* Type correctness.                                                        *)

LEMMA TypeInit == Init => TypeOK
  BY TargetUpdatesAssumption, ConfigurationFacts DEF Init, TypeOK, Time

\* However many datagrams are sent at once, their number is counted.
LEMMA SendsType ==
    ASSUME TypeOK, NEW others, NEW S, IsFiniteSet(S), Sends(others, S),
           \A d \in others \cup S : d \in Datagram
    PROVE  sent' \in Nat /\ \A d \in air' : d \in Datagram
  <1>1. Cardinality(S) \in Nat
    BY FS_CardinalityType
  <1>2. sent \in Nat
    BY DEF TypeOK
  <1>. QED  BY <1>1, <1>2 DEF Sends

LEMMA SendsOneType ==
    ASSUME TypeOK, NEW others \in SUBSET air, NEW d \in Datagram, Sends(others, {d})
    PROVE  sent' \in Nat /\ \A e \in air' : e \in Datagram
  <1>1. IsFiniteSet({d})
    BY FS_Singleton
  <1>2. \A e \in others \cup {d} : e \in Datagram
    BY DEF TypeOK
  <1>. QED  BY <1>1, <1>2, SendsType

\* A routine or ordered update.
LEMMA MakeType ==
    ASSUME TypeOK, NEW others \in SUBSET air, NEW o \in Origin, NEW r \in BOOLEAN,
           Make(others, o, r)
    PROVE  /\ \A d \in air' : d \in Datagram
           /\ sender' \in [provider : Provider, revision : Nat, sequence : Nat,
                           observed : Time]
           /\ sent' \in Nat
  <1>1. sender.provider \in Unit
    BY ConfigurationFacts DEF TypeOK
  <1>2. tracks[sender.provider][o] \in Time
    BY <1>1 DEF TypeOK
  <1>3. sender' \in [provider : Provider, revision : Nat, sequence : Nat, observed : Time]
    <2>1. sender.sequence + 1 \in Nat /\ sender \in
              [provider : Provider, revision : Nat, sequence : Nat, observed : Time]
      BY DEF TypeOK
    <2>. QED  BY <1>2, <2>1 DEF Make
  <1>4. Update(o, tracks[sender.provider][o], r) \in Datagram
    BY <1>2, UpdateType
  <1>. QED  BY <1>3, <1>4, SendsOneType DEF Make

LEMMA ReassignType ==
    ASSUME TypeOK, NEW others \in SUBSET air, NEW p \in Provider, Reassign(others, p)
    PROVE  /\ \A d \in air' : d \in Datagram
           /\ sender' \in [provider : Provider, revision : Nat, sequence : Nat,
                           observed : Time]
           /\ sent' \in Nat
  <1>1. sender.revision + 1 \in Nat /\ sender \in
            [provider : Provider, revision : Nat, sequence : Nat, observed : Time]
    BY DEF TypeOK
  <1>2. Assignment(p, sender.revision + 1) \in Datagram
    BY <1>1, AssignmentType
  <1>. QED  BY <1>1, <1>2, SendsOneType DEF Reassign

\* What a command demands and names.
LEMMA CommandFacts ==
    ASSUME NEW c \in Command
    PROVE  /\ c.do \in {"assign", "subscribe", "update", "retarget"}
           /\ c.do = "assign" => c.provider \in Provider
           /\ c.do = "subscribe" => c.source \in Unit /\ c.provider \in Provider
           /\ c.do \in {"update", "retarget"} => c.origin \in Origin
  BY DEF Command

LEMMA RecipientType ==
    ASSUME TypeOK, NEW c \in Command
    PROVE  Recipient(c) \in Unit
  <1>1. sender.provider \in Unit
    BY ConfigurationFacts DEF TypeOK
  <1>. QED  BY <1>1, CommandFacts, ConfigurationFacts DEF Recipient

LEMMA ExecuteType ==
    ASSUME TypeOK, NEW others \in SUBSET air, NEW c \in Command, Execute(others, c)
    PROVE  /\ \A d \in air' : d \in Datagram
           /\ sender' \in [provider : Provider, revision : Nat, sequence : Nat,
                           observed : Time]
           /\ sent' \in Nat
           /\ subscribed' \subseteq Unit \X Unit
  <1>1. CASE c.do = "assign" /\ Reassign(others, c.provider) /\ UNCHANGED subscribed
    BY <1>1, CommandFacts, ReassignType DEF TypeOK
  <1>2. CASE /\ c.do \in {"update", "retarget"}
             /\ Make(others, c.origin, c.do = "retarget") /\ UNCHANGED subscribed
    <2>1. (c.do = "retarget") \in BOOLEAN
      OBVIOUS
    <2>. QED  BY <1>2, <2>1, CommandFacts, MakeType DEF TypeOK
  <1>3. CASE /\ c.do = "subscribe" /\ air' = others /\ UNCHANGED <<sender, sent>>
             /\ subscribed' = subscribed \cup {<<c.source, c.provider>>}
    BY <1>3, CommandFacts, ConfigurationFacts DEF TypeOK
  <1>. QED  BY <1>1, <1>2, <1>3 DEF Execute

\* A unit reports what its own sensors see now: finitely many tracks.
LEMMA ReportsFacts ==
    ASSUME TypeOK, NEW u \in Unit, NEW p \in Unit
    PROVE  LET S == {Report(u, p, origin) : origin \in Current(u)}
           IN  IsFiniteSet(S) /\ \A d \in S : d \in Datagram
  <1>. DEFINE f == [o \in Current(u) |-> Report(u, p, o)]
  <1>. DEFINE S == {Report(u, p, origin) : origin \in Current(u)}
  <1>1. IsFiniteSet({u} \X Contact)
    BY FS_Singleton, FS_Product, TargetUpdatesAssumption
  <1>2. Current(u) \subseteq {u} \X Contact
    BY DEF Current, Origin
  <1>3. IsFiniteSet(Current(u))
    BY <1>1, <1>2, FS_Subset
  <1>4. f \in Surjection(Current(u), S)
    BY DEF Surjection
  <1>5. IsFiniteSet(S)
    BY <1>3, <1>4, FS_Surjection
  <1>6. \A o \in Current(u) : Report(u, p, o) \in Datagram
    BY ReportType DEF Current
  <1>. QED  BY <1>5, <1>6

LEMMA TypeNext == TypeOK /\ [Next]_vars => TypeOK'
  <1>. SUFFICES ASSUME TypeOK, [Next]_vars
                PROVE  TypeOK'
    OBVIOUS
  <1>. USE ConfigurationFacts
  <1>1. ASSUME NEW u \in Unit, NEW o \in Origin, Designate(u, o)
        PROVE  TypeOK'
    <2>1. tracks[u][o] \in Time
      BY DEF TypeOK
    <2>. QED  BY <1>1, <2>1 DEF Designate, TypeOK
  <1>2. ASSUME Launch
        PROVE  TypeOK'
    <2>1. PICK t \in Targeted :
             /\ weapon' = [phase |-> "flying", provider |-> Initial, revision |-> 1,
                           accepted |-> 0, origin |-> t.origin, observed |-> t.observed]
             /\ sender' = [provider |-> Initial, revision |-> 1, sequence |-> 0,
                           observed |-> t.observed]
      BY <1>2 DEF Launch
    <2>2. t.origin \in Origin /\ t.observed \in Time
      <3>1. CASE designated # None
        BY <3>1, <2>1 DEF Targeted, TypeOK
      <3>2. CASE designated = None
        <4>1. PICK o \in Origin : t = [origin |-> o, observed |-> tracks[Launcher][o]]
          BY <3>2, <2>1 DEF Targeted
        <4>. QED  BY <4>1 DEF TypeOK
      <3>. QED  BY <3>1, <3>2
    <2>3. /\ weapon' \in [phase : {"none", "flying", "over"},
                   provider : Provider, revision : Nat, accepted : Nat,
                   origin : Origin \cup {None}, observed : Time]
          /\ weapon'.origin \in Origin
          /\ sender' \in [provider : Provider, revision : Nat, sequence : Nat,
                          observed : Time]
      BY <2>1, <2>2
    <2>. QED  BY <1>2, <2>3 DEF Launch, TypeOK
  <1>3. ASSUME NEW u \in Unit, NEW c \in Contact, Observe(u, c)
        PROVE  TypeOK'
    <2>1. clock \in Time /\ <<u, c>> \in Origin
      BY TimeFacts DEF Origin
    <2>2. tracks' \in [Unit -> [Origin -> Time]]
      BY <1>3, <2>1 DEF Observe, TypeOK
    <2>. QED  BY <1>3, <2>2 DEF Observe, TypeOK
  <1>4. ASSUME Finish
        PROVE  TypeOK'
    BY <1>4 DEF Finish, Active, TypeOK
  <1>5. ASSUME Telemeter
        PROVE  TypeOK'
    <2>1. Status(weapon.provider) \in Datagram
      BY StatusType DEF TypeOK
    <2>2. sent' \in Nat /\ \A d \in air' : d \in Datagram
      BY <1>5, <2>1, SendsOneType DEF Telemeter
    <2>. QED  BY <1>5, <2>2 DEF Telemeter, TypeOK
  <1>6. ASSUME NEW u \in Unit, Destroy(u)
        PROVE  TypeOK'
    BY <1>6 DEF Destroy, TypeOK
  <1>7. ASSUME Tick
        PROVE  TypeOK'
    BY <1>7, TargetUpdatesAssumption DEF Tick, TypeOK
  <1>8. ASSUME RoutineUpdate
        PROVE  TypeOK'
    <2>1. weapon.origin \in Origin
      BY <1>8 DEF RoutineUpdate, Active, TypeOK
    <2>. QED  BY <1>8, <2>1, MakeType DEF RoutineUpdate, TypeOK
  <1>9. ASSUME NEW u \in Unit, NEW p \in Unit, SendReports(u, p)
        PROVE  TypeOK'
    <2>. DEFINE S == {Report(u, p, origin) : origin \in Current(u)}
    <2>1. IsFiniteSet(S) /\ \A d \in S : d \in Datagram
      BY ReportsFacts
    <2>2. sent' \in Nat /\ \A d \in air' : d \in Datagram
      BY <1>9, <2>1, SendsType DEF SendReports, TypeOK
    <2>. QED  BY <1>9, <2>2 DEF SendReports, TypeOK
  <1>10. ASSUME NEW c \in Command, Order(c)
         PROVE  TypeOK'
    <2>1. CASE Recipient(c) = Launcher
      BY <1>10, <2>1, ExecuteType DEF Order, TypeOK
    <2>2. CASE Recipient(c) # Launcher
      <3>1. Control(Recipient(c), c) \in Datagram
        BY RecipientType, ControlType
      <3>2. sent' \in Nat /\ \A d \in air' : d \in Datagram
        BY <1>10, <2>2, <3>1, SendsOneType DEF Order
      <3>. QED  BY <1>10, <2>2, <3>2 DEF Order, TypeOK
    <2>. QED  BY <2>1, <2>2
  <1>11. ASSUME NEW d \in air, Lose(d)
         PROVE  TypeOK'
    BY <1>11 DEF Lose, TypeOK
  <1>12. ASSUME NEW d \in air, ReceiveReport(d)
         PROVE  TypeOK'
    <2>1. d \in [kind : {"report"}, from : Unit, to : Unit, expires : Time,
                 origin : Origin, observed : Time]
      BY <1>12, KindOfDatagram DEF ReceiveReport, Arrives, TypeOK
    <2>2. tracks' \in [Unit -> [Origin -> Time]]
      <3>1. [tracks EXCEPT ![d.to][d.origin] = d.observed] \in [Unit -> [Origin -> Time]]
        BY <2>1 DEF TypeOK
      <3>. QED  BY <1>12, <3>1 DEF ReceiveReport, TypeOK
    <2>. QED  BY <1>12, <2>2 DEF ReceiveReport, TypeOK
  <1>13. ASSUME NEW d \in air, ReceiveUpdate(d)
         PROVE  TypeOK'
    <2>1. d \in [kind : {"update"}, from : Provider, to : {Weapon}, expires : Time,
                 revision : Nat, sequence : Nat, origin : Origin, observed : Time,
                 until : Time, retarget : BOOLEAN]
      BY <1>13, KindOfDatagram DEF ReceiveUpdate, Arrives, TypeOK
    <2>2. CASE Accepts(d)
      <3>1. weapon' = [weapon EXCEPT !.origin = d.origin, !.observed = d.observed,
                                     !.accepted = d.sequence]
        BY <1>13, <2>2 DEF ReceiveUpdate
      <3>2. /\ weapon' \in [phase : {"none", "flying", "over"},
                   provider : Provider, revision : Nat, accepted : Nat,
                   origin : Origin \cup {None}, observed : Time]
            /\ weapon'.origin \in Origin
        BY <2>1, <3>1 DEF TypeOK
      <3>. QED  BY <1>13, <3>2 DEF ReceiveUpdate, TypeOK
    <2>3. CASE ~Accepts(d)
      BY <1>13, <2>3 DEF ReceiveUpdate, TypeOK
    <2>. QED  BY <2>2, <2>3
  <1>14. ASSUME NEW d \in air, ReceiveAssignment(d)
         PROVE  TypeOK'
    <2>1. d \in [kind : {"assignment"}, from : {Launcher}, to : {Weapon},
                 expires : Time, provider : Provider, revision : Nat]
      BY <1>14, KindOfDatagram DEF ReceiveAssignment, Arrives, TypeOK
    <2>2. CASE Takes(d)
      <3>1. weapon' = [weapon EXCEPT !.provider = d.provider, !.revision = d.revision]
        BY <1>14, <2>2 DEF ReceiveAssignment
      <3>2. /\ weapon' \in [phase : {"none", "flying", "over"},
                   provider : Provider, revision : Nat, accepted : Nat,
                   origin : Origin \cup {None}, observed : Time]
            /\ weapon'.phase = weapon.phase /\ weapon'.origin = weapon.origin
        BY <2>1, <3>1 DEF TypeOK
      <3>. QED  BY <1>14, <3>2 DEF ReceiveAssignment, TypeOK
    <2>3. CASE ~Takes(d)
      BY <1>14, <2>3 DEF ReceiveAssignment, TypeOK
    <2>. QED  BY <2>2, <2>3
  <1>15. ASSUME NEW d \in air, ReceiveControl(d)
         PROVE  TypeOK'
    <2>1. d.command \in Command
      BY <1>15, KindOfDatagram DEF ReceiveControl, Arrives, TypeOK
    <2>2. CASE Executable(d.to, d.command)
      BY <1>15, <2>1, <2>2, ExecuteType DEF ReceiveControl, TypeOK
    <2>3. CASE ~Executable(d.to, d.command)
      BY <1>15, <2>3 DEF ReceiveControl, TypeOK
    <2>. QED  BY <2>2, <2>3
  <1>16. ASSUME NEW d \in air, ReceiveStatus(d)
         PROVE  TypeOK'
    <2>1. d \in [kind : {"status"}, from : {Weapon} \cup Unit, to : Unit,
                 expires : Time, provider : Provider, accepted : Nat, at : Time]
      BY <1>16, KindOfDatagram DEF ReceiveStatus, Arrives, TypeOK
    <2>2. view' \in [Unit -> [at : Time, provider : Provider, accepted : Nat] \cup {None}]
      BY <1>16, <2>1 DEF ReceiveStatus, TypeOK
    <2>3. sent' \in Nat /\ \A e \in air' : e \in Datagram
      <3>1. CASE d.to = weapon.provider /\ d.to # Launcher
        <4>. DEFINE passed == [d EXCEPT !.from = d.to, !.to = Launcher,
                                        !.expires = clock + Lifetime]
        <4>1. passed \in [kind : {"status"}, from : {Weapon} \cup Unit, to : Unit,
                 expires : Time, provider : Provider, accepted : Nat, at : Time]
          BY <2>1, TimeFacts
        <4>2. passed \in Datagram
          BY <4>1 DEF Datagram
        <4>3. Sends(air \ {d}, {passed})
          BY <1>16, <3>1 DEF ReceiveStatus
        <4>. HIDE DEF passed
        <4>. QED  BY <4>2, <4>3, SendsOneType
      <3>2. CASE ~(d.to = weapon.provider /\ d.to # Launcher)
        BY <1>16, <3>2 DEF ReceiveStatus, TypeOK
      <3>. QED  BY <3>1, <3>2
    <2>. QED  BY <1>16, <2>2, <2>3 DEF ReceiveStatus, TypeOK
  <1>17. CASE UNCHANGED vars
    BY <1>17 DEF vars, TypeOK
  <1>. QED  BY <1>1, <1>2, <1>3, <1>4, <1>5, <1>6, <1>7, <1>8, <1>9, <1>10, <1>11,
               <1>12, <1>13, <1>14, <1>15, <1>16, <1>17 DEF Next

--------------------------------------------------------------------------------
(* The protocol: revisions and numbers.                                     *)

LEMMA UpdateFacts ==
    ASSUME TypeOK, NEW d \in Updates
    PROVE  d \in air /\ d.revision \in Nat /\ d.sequence \in Nat /\ d.from \in Provider
           /\ d.origin \in Origin /\ d.observed \in Time
  BY KindOfDatagram DEF Updates, TypeOK

LEMMA AssignmentFacts ==
    ASSUME TypeOK, NEW d \in Assignments
    PROVE  d \in air /\ d.revision \in Nat /\ d.provider \in Provider
  BY KindOfDatagram DEF Assignments, TypeOK

LEMMA Numbers ==
    ASSUME TypeOK
    PROVE  /\ weapon.revision \in Nat /\ weapon.accepted \in Nat
           /\ sender.revision \in Nat /\ sender.sequence \in Nat
           /\ sender.provider \in Provider /\ weapon.provider \in Provider
           /\ sender.provider \in Unit
  BY ConfigurationFacts DEF TypeOK

LEMMA ProtocolInit == Init => Protocol
  BY DEF Init, Protocol, OneProviderPerRevision, NumbersGoOn, Unlaunched, Assigned,
         Updates, Assignments

\* What neither sends updates or assignments nor changes what the two sides hold of
\* the protocol keeps it, whatever is lost.
LEMMA Quiet ==
    ASSUME Protocol, UNCHANGED sender, Updates' \subseteq Updates,
           Assignments' \subseteq Assignments,
           weapon'.provider = weapon.provider, weapon'.revision = weapon.revision,
           weapon'.accepted = weapon.accepted,
           weapon'.phase = "none" => weapon.phase = "none"
    PROVE  Protocol'
  <1>1. OneProviderPerRevision'
    BY DEF Protocol, OneProviderPerRevision
  <1>2. NumbersGoOn'
    BY DEF Protocol, NumbersGoOn
  <1>3. Unlaunched' /\ Assigned'
    BY DEF Protocol, Unlaunched, Assigned
  <1>. QED  BY <1>1, <1>2, <1>3 DEF Protocol

\* Sending what is neither leaves both as they are.
LEMMA SendsOther ==
    ASSUME NEW others \in SUBSET air, NEW S, Sends(others, S),
           \A d \in S : d.kind # "update" /\ d.kind # "assignment"
    PROVE  Updates' \subseteq Updates /\ Assignments' \subseteq Assignments
  BY DEF Sends, Updates, Assignments

\* The provider in charge sends the next update.
LEMMA MakeProtocol ==
    ASSUME TypeOK, Protocol, Active, UNCHANGED weapon,
           NEW others \in SUBSET air, NEW o, NEW r, Make(others, o, r)
    PROVE  Protocol'
  <1>. DEFINE new == Update(o, tracks[sender.provider][o], r)
  <1>1. /\ new.kind = "update" /\ new.from = sender.provider
        /\ new.revision = sender.revision /\ new.sequence = sender.sequence + 1
    BY DEF Update
  <1>2. air' = others \cup {new}
    BY DEF Make, Sends
  <1>. HIDE DEF new
  <1>3. /\ sender'.provider = sender.provider /\ sender'.revision = sender.revision
        /\ sender'.sequence = sender.sequence + 1
    BY DEF Make, TypeOK
  <1>4. Updates' \subseteq Updates \cup {new} /\ Assignments' \subseteq Assignments
    BY <1>1, <1>2 DEF Updates, Assignments
  <1>5. OneProviderPerRevision'
    BY <1>1, <1>3, <1>4, Numbers DEF Protocol, OneProviderPerRevision
  <1>6. NumbersGoOn'
    <2>1. \A d \in Updates : d.sequence \in Nat /\ d.sequence <= sender.sequence
      BY UpdateFacts DEF Protocol, NumbersGoOn
    <2>2. weapon.accepted' <= sender.sequence'
      BY <1>3, Numbers DEF Protocol, NumbersGoOn
    <2>3. \A d \in Updates' : d.sequence <= sender.sequence'
      BY <1>1, <1>3, <1>4, <2>1, Numbers
    <2>4. ASSUME NEW d \in Updates', NEW e \in Updates', d.sequence = e.sequence
          PROVE  d = e
      <3>1. CASE d \in Updates /\ e \in Updates
        BY <2>4, <3>1 DEF Protocol, NumbersGoOn
      <3>2. CASE d = new /\ e = new
        BY <3>2
      <3>3. CASE \/ d = new /\ e \in Updates
                 \/ e = new /\ d \in Updates
        BY <1>1, <2>1, <2>4, <3>3, Numbers
      <3>. QED  BY <1>4, <3>1, <3>2, <3>3
    <2>. QED  BY <2>2, <2>3, <2>4 DEF NumbersGoOn
  <1>7. Unlaunched'
    BY DEF Active, Unlaunched
  <1>8. Assigned'
    <2>1. \A a \in Assignments : a.revision = sender.revision => a.provider = sender.provider
      BY DEF Protocol, OneProviderPerRevision
    <2>. QED  BY <1>1, <1>4, <2>1 DEF Protocol, Assigned
  <1>. QED  BY <1>5, <1>6, <1>7, <1>8 DEF Protocol

\* A handoff takes a revision that nobody has used.
LEMMA ReassignProtocol ==
    ASSUME TypeOK, Protocol, Active, UNCHANGED weapon,
           NEW others \in SUBSET air, NEW p, Reassign(others, p)
    PROVE  Protocol'
  <1>. DEFINE new == Assignment(p, sender.revision + 1)
  <1>1. new.kind = "assignment" /\ new.provider = p /\ new.revision = sender.revision + 1
    BY DEF Assignment
  <1>2. air' = others \cup {new}
    BY DEF Reassign, Sends
  <1>. HIDE DEF new
  <1>3. /\ sender'.provider = p /\ sender'.revision = sender.revision + 1
        /\ sender'.sequence = sender.sequence
    BY DEF Reassign, TypeOK
  <1>4. Updates' \subseteq Updates /\ Assignments' \subseteq Assignments \cup {new}
    BY <1>1, <1>2 DEF Updates, Assignments
  <1>5. /\ \A d \in Updates : d.revision \in Nat /\ d.revision <= sender.revision
        /\ \A d \in Assignments : d.revision \in Nat /\ d.revision <= sender.revision
        /\ weapon.revision <= sender.revision
    BY UpdateFacts, AssignmentFacts DEF Protocol, OneProviderPerRevision
  <1>6. OneProviderPerRevision'
    <2>1. weapon'.revision <= sender'.revision /\ weapon'.revision # sender'.revision
      BY <1>3, <1>5, Numbers
    <2>2. ASSUME NEW d \in Updates'
          PROVE  /\ d.revision <= sender'.revision /\ d.revision # sender'.revision
                 /\ d.revision = weapon'.revision => d.from = weapon'.provider
      BY <1>3, <1>4, <1>5, Numbers DEF Protocol, OneProviderPerRevision
    <2>3. ASSUME NEW d \in Assignments'
          PROVE  /\ d.revision <= sender'.revision
                 /\ d.revision = sender'.revision => d.provider = sender'.provider
                 /\ d.revision = weapon'.revision => d.provider = weapon'.provider
                 /\ \A e \in Assignments' : d.revision = e.revision => d.provider = e.provider
      <3>1. CASE d = new
        BY <1>1, <1>3, <1>4, <1>5, <3>1, Numbers
      <3>2. CASE d \in Assignments
        BY <1>1, <1>3, <1>4, <1>5, <3>2, Numbers DEF Protocol, OneProviderPerRevision
      <3>. QED  BY <1>4, <3>1, <3>2
    <2>. QED  BY <2>1, <2>2, <2>3 DEF OneProviderPerRevision
  <1>7. NumbersGoOn'
    BY <1>3, <1>4 DEF Protocol, NumbersGoOn
  <1>8. Unlaunched'
    BY DEF Active, Unlaunched
  <1>9. Assigned'
    BY <1>1, <1>4, <1>5, Numbers DEF Protocol, Assigned
  <1>. QED  BY <1>6, <1>7, <1>8, <1>9 DEF Protocol

LEMMA ExecuteProtocol ==
    ASSUME TypeOK, Protocol, Active, UNCHANGED weapon,
           NEW others \in SUBSET air, NEW c, Execute(others, c)
    PROVE  Protocol'
  <1>1. CASE Reassign(others, c.provider)
    BY <1>1, ReassignProtocol
  <1>2. CASE Make(others, c.origin, c.do = "retarget")
    BY <1>2, MakeProtocol
  <1>3. CASE air' = others /\ UNCHANGED sender
    BY <1>3, Quiet DEF Updates, Assignments
  <1>. QED  BY <1>1, <1>2, <1>3 DEF Execute

LEMMA ProtocolNext == TypeOK /\ Protocol /\ [Next]_vars => Protocol'
  <1>. SUFFICES ASSUME TypeOK, Protocol, [Next]_vars
                PROVE  Protocol'
    OBVIOUS
  <1>1. ASSUME NEW u, NEW o, Designate(u, o)
        PROVE  Protocol'
    BY <1>1, Quiet DEF Designate, Updates, Assignments
  <1>2. ASSUME Launch
        PROVE  Protocol'
    <2>1. /\ weapon'.phase = "flying" /\ weapon'.provider = Initial
          /\ weapon'.revision = 1 /\ weapon'.accepted = 0
          /\ sender'.provider = Initial /\ sender'.revision = 1 /\ sender'.sequence = 0
      BY <1>2 DEF Launch
    <2>2. Updates' = {} /\ Assignments' = {}
      BY <1>2 DEF Launch, Protocol, Unlaunched, Updates, Assignments
    <2>. QED  BY <2>1, <2>2 DEF Protocol, OneProviderPerRevision, NumbersGoOn,
                                Unlaunched, Assigned
  <1>3. ASSUME NEW u, NEW c, Observe(u, c)
        PROVE  Protocol'
    BY <1>3, Quiet DEF Observe, Updates, Assignments
  <1>4. ASSUME Finish
        PROVE  Protocol'
    BY <1>4, Quiet DEF Finish, Updates, Assignments, TypeOK
  <1>5. ASSUME Telemeter
        PROVE  Protocol'
    BY <1>5, SendsOther, Quiet DEF Telemeter, Status
  <1>6. ASSUME NEW u, Destroy(u)
        PROVE  Protocol'
    BY <1>6, Quiet DEF Destroy, Updates, Assignments
  <1>7. ASSUME Tick
        PROVE  Protocol'
    BY <1>7, Quiet DEF Tick, Updates, Assignments
  <1>8. ASSUME RoutineUpdate
        PROVE  Protocol'
    BY <1>8, MakeProtocol DEF RoutineUpdate
  <1>9. ASSUME NEW u, NEW p, SendReports(u, p)
        PROVE  Protocol'
    BY <1>9, SendsOther, Quiet DEF SendReports, Report
  <1>10. ASSUME NEW c \in Command, Order(c)
         PROVE  Protocol'
    <2>1. CASE Recipient(c) = Launcher
      BY <1>10, <2>1, ExecuteProtocol DEF Order, Valid
    <2>2. CASE Recipient(c) # Launcher
      BY <1>10, <2>2, SendsOther, Quiet DEF Order, Control
    <2>. QED  BY <2>1, <2>2
  <1>11. ASSUME NEW d \in air, Lose(d)
         PROVE  Protocol'
    BY <1>11, Quiet DEF Lose, Updates, Assignments
  <1>12. ASSUME NEW d \in air, ReceiveReport(d)
         PROVE  Protocol'
    BY <1>12, Quiet DEF ReceiveReport, Updates, Assignments
  <1>13. ASSUME NEW d \in air, ReceiveUpdate(d)
         PROVE  Protocol'
    <2>1. Updates' \subseteq Updates /\ Assignments' \subseteq Assignments /\ UNCHANGED sender
      BY <1>13 DEF ReceiveUpdate, Updates, Assignments
    <2>2. CASE Accepts(d)
      <3>1. /\ weapon'.phase = weapon.phase /\ weapon'.provider = weapon.provider
            /\ weapon'.revision = weapon.revision /\ weapon'.accepted = d.sequence
        BY <1>13, <2>2 DEF ReceiveUpdate, TypeOK
      <3>2. d.sequence <= sender.sequence
        BY <1>13 DEF ReceiveUpdate, Arrives, Updates, Protocol, NumbersGoOn
      <3>3. OneProviderPerRevision'
        BY <2>1, <3>1 DEF Protocol, OneProviderPerRevision
      <3>4. NumbersGoOn'
        BY <2>1, <3>1, <3>2 DEF Protocol, NumbersGoOn
      <3>5. Unlaunched' /\ Assigned'
        BY <2>1, <3>1 DEF Protocol, Unlaunched, Assigned
      <3>. QED  BY <3>3, <3>4, <3>5 DEF Protocol
    <2>3. CASE ~Accepts(d)
      BY <1>13, <2>1, <2>3, Quiet DEF ReceiveUpdate
    <2>. QED  BY <2>2, <2>3
  <1>14. ASSUME NEW d \in air, ReceiveAssignment(d)
         PROVE  Protocol'
    <2>1. Updates' \subseteq Updates /\ Assignments' \subseteq Assignments /\ UNCHANGED sender
      BY <1>14 DEF ReceiveAssignment, Updates, Assignments
    <2>2. CASE Takes(d)
      <3>1. /\ weapon'.phase = weapon.phase /\ weapon'.provider = d.provider
            /\ weapon'.revision = d.revision /\ weapon'.accepted = weapon.accepted
        BY <1>14, <2>2 DEF ReceiveAssignment, TypeOK
      <3>2. d \in Assignments
        BY <1>14 DEF ReceiveAssignment, Arrives, Assignments
      <3>3. OneProviderPerRevision'
        BY <2>1, <3>1, <3>2 DEF Protocol, OneProviderPerRevision, Assigned
      <3>4. NumbersGoOn'
        BY <2>1, <3>1 DEF Protocol, NumbersGoOn
      <3>5. Unlaunched' /\ Assigned'
        BY <2>1, <3>1 DEF Protocol, Unlaunched, Assigned
      <3>. QED  BY <3>3, <3>4, <3>5 DEF Protocol
    <2>3. CASE ~Takes(d)
      BY <1>14, <2>1, <2>3, Quiet DEF ReceiveAssignment
    <2>. QED  BY <2>2, <2>3
  <1>15. ASSUME NEW d \in air, ReceiveControl(d)
         PROVE  Protocol'
    <2>1. CASE Executable(d.to, d.command)
      BY <1>15, <2>1, ExecuteProtocol DEF ReceiveControl, Executable, Valid
    <2>2. CASE ~Executable(d.to, d.command)
      BY <1>15, <2>2, Quiet DEF ReceiveControl, Updates, Assignments
    <2>. QED  BY <2>1, <2>2
  <1>16. ASSUME NEW d \in air, ReceiveStatus(d)
         PROVE  Protocol'
    <2>. DEFINE passed == [d EXCEPT !.from = d.to, !.to = Launcher,
                                    !.expires = clock + Lifetime]
    <2>1. passed.kind = "status"
      BY <1>16, KindOfDatagram DEF ReceiveStatus, Arrives, TypeOK
    <2>2. CASE Sends(air \ {d}, {passed})
      <3>. HIDE DEF passed
      <3>. QED  BY <1>16, <2>1, <2>2, SendsOther, Quiet DEF ReceiveStatus
    <2>3. CASE air' = air \ {d}
      BY <1>16, <2>3, Quiet DEF ReceiveStatus, Updates, Assignments
    <2>. QED  BY <1>16, <2>2, <2>3 DEF ReceiveStatus
  <1>17. CASE UNCHANGED vars
    BY <1>17, Quiet DEF vars, Updates, Assignments
  <1>. QED  BY <1>1, <1>2, <1>3, <1>4, <1>5, <1>6, <1>7, <1>8, <1>9, <1>10, <1>11,
               <1>12, <1>13, <1>14, <1>15, <1>16, <1>17 DEF Next

--------------------------------------------------------------------------------
(* Sources: what guides the weapon was observed by whom it is said to be.   *)

LEMMA OwnType ==
    ASSUME TypeOK, NEW o \in Origin
    PROVE  /\ o[1] \in Unit /\ o[2] \in Contact /\ o = <<o[1], o[2]>>
           /\ Own(tracks, o) \in Nat /\ \A u \in Unit : tracks[u][o] \in Nat
  <1>1. o[1] \in Unit /\ o[2] \in Contact /\ o = <<o[1], o[2]>>
    BY DEF Origin
  <1>. QED  BY <1>1, TimeFacts DEF Own, TypeOK

Guided == Sourced /\ EstimateFromItsSource

LEMMA GuidedInit == Init => Guided
  <1>. SUFFICES ASSUME Init
                PROVE  Guided
    OBVIOUS
  <1>1. \A o \in Origin : o[1] \in Unit
    BY DEF Origin
  <1>2. \A u \in Unit, o \in Origin : tracks[u][o] = 0
    BY DEF Init
  <1>. QED  BY <1>1, <1>2 DEF Init, Guided, Sourced, EstimateFromItsSource, Own

\* Nothing that carries an observation is new, and the tracks and the estimate stay.
LEMMA Unmoved ==
    ASSUME TypeOK, Guided, UNCHANGED <<tracks, designated>>,
           clock' = clock \/ clock' = clock + 1,
           \A d \in air' : d.kind \in {"report", "update"} =>
               d \in air \/ (d.origin \in Origin /\ d.observed <= Own(tracks, d.origin)),
           weapon'.origin = weapon.origin, weapon'.observed = weapon.observed,
           weapon'.phase # "none" => weapon.phase # "none"
    PROVE  Guided'
  <1>1. \A o : Own(tracks', o) = Own(tracks, o)
    BY DEF Own
  <1>2. \A o \in Origin : Own(tracks', o) <= clock'
    <2>1. ASSUME NEW o \in Origin
          PROVE  Own(tracks', o) <= clock'
      <3>1. Own(tracks, o) <= clock /\ Own(tracks, o) \in Nat /\ clock \in Nat
        BY OwnType, TimeFacts DEF Guided, Sourced
      <3>. QED  BY <1>1, <3>1
    <2>. QED  BY <2>1
  <1>3. \A u \in Unit, o \in Origin : tracks'[u][o] <= Own(tracks', o)
    BY <1>1 DEF Guided, Sourced
  <1>4. designated' # None => designated'.observed <= Own(tracks', designated'.origin)
    BY DEF Guided, Sourced, Own
  <1>5. \A d \in air' : d.kind \in {"report", "update"} => d.observed <= Own(tracks', d.origin)
    BY <1>1 DEF Guided, Sourced
  <1>6. EstimateFromItsSource'
    BY DEF Guided, EstimateFromItsSource
  <1>7. Sourced'
    BY <1>2, <1>3, <1>4, <1>5 DEF Sourced
  <1>. QED  BY <1>6, <1>7 DEF Guided

LEMMA MakeGuided ==
    ASSUME TypeOK, Guided, UNCHANGED <<tracks, designated, clock, weapon>>,
           NEW others \in SUBSET air, NEW o \in Origin, NEW r, Make(others, o, r)
    PROVE  Guided'
  <1>. DEFINE new == Update(o, tracks[sender.provider][o], r)
  <1>1. new.origin = o /\ new.observed <= Own(tracks, o)
    BY Numbers DEF Update, Guided, Sourced
  <1>. HIDE DEF new
  <1>2. air' = others \cup {new}
    BY DEF Make, Sends, new
  <1>. QED  BY <1>1, <1>2, Unmoved, TimeFacts

LEMMA ReassignGuided ==
    ASSUME TypeOK, Guided, UNCHANGED <<tracks, designated, clock, weapon>>,
           NEW others \in SUBSET air, NEW p, Reassign(others, p)
    PROVE  Guided'
  <1>1. \A d \in air' : d \in air \/ d.kind = "assignment"
    BY DEF Reassign, Sends, Assignment
  <1>. QED  BY <1>1, Unmoved, TimeFacts

LEMMA ExecuteGuided ==
    ASSUME TypeOK, Guided, UNCHANGED <<tracks, designated, clock, weapon>>,
           NEW others \in SUBSET air, NEW c \in Command, Execute(others, c)
    PROVE  Guided'
  <1>1. CASE Reassign(others, c.provider)
    BY <1>1, ReassignGuided
  <1>2. CASE c.do \in {"update", "retarget"} /\ Make(others, c.origin, c.do = "retarget")
    BY <1>2, CommandFacts, MakeGuided
  <1>3. CASE air' = others
    BY <1>3, Unmoved, TimeFacts
  <1>. QED  BY <1>1, <1>2, <1>3 DEF Execute

LEMMA GuidedNext == TypeOK /\ Guided /\ [Next]_vars => Guided'
  <1>. SUFFICES ASSUME TypeOK, Guided, [Next]_vars
                PROVE  Guided'
    OBVIOUS
  <1>0. clock \in Nat
    BY TimeFacts
  <1>1. ASSUME NEW u \in Unit, NEW o \in Origin, Designate(u, o)
        PROVE  Guided'
    <2>1. designated' = [origin |-> o, observed |-> tracks[u][o]] /\ tracks[u][o] <= Own(tracks, o)
      BY <1>1 DEF Designate, Guided, Sourced
    <2>. QED  BY <1>1, <2>1 DEF Designate, Guided, Sourced, EstimateFromItsSource, Own
  <1>2. ASSUME Launch
        PROVE  Guided'
    <2>1. PICK t \in Targeted :
             weapon' = [phase |-> "flying", provider |-> Initial, revision |-> 1,
                        accepted |-> 0, origin |-> t.origin, observed |-> t.observed]
      BY <1>2 DEF Launch
    <2>2. t.observed <= Own(tracks, t.origin)
      <3>1. CASE designated # None
        BY <3>1 DEF Targeted, Guided, Sourced
      <3>2. CASE designated = None
        <4>1. PICK o \in Origin : t = [origin |-> o, observed |-> tracks[Launcher][o]]
          BY <3>2, <2>1 DEF Targeted
        <4>. QED  BY <4>1, ConfigurationFacts DEF Guided, Sourced
      <3>. QED  BY <3>1, <3>2
    <2>3. EstimateFromItsSource'
      BY <1>2, <2>1, <2>2 DEF Launch, EstimateFromItsSource, Own
    <2>4. Sourced'
      BY <1>2 DEF Launch, Guided, Sourced, Own
    <2>. QED  BY <2>3, <2>4 DEF Guided
  <1>3. ASSUME NEW u \in Unit, NEW c \in Contact, Observe(u, c)
        PROVE  Guided'
    <2>1. <<u, c>> \in Origin
      BY DEF Origin
    <2>2. \A v \in Unit, o \in Origin :
              tracks'[v][o] = IF v = u /\ o = <<u, c>> THEN clock ELSE tracks[v][o]
      BY <1>3, <2>1 DEF Observe, TypeOK
    <2>3. \A o \in Origin : Own(tracks', o) = IF o = <<u, c>> THEN clock ELSE Own(tracks, o)
      BY <2>2, OwnType DEF Own
    <2>4. \A o \in Origin : Own(tracks', o) <= clock /\ Own(tracks, o) <= Own(tracks', o) /\ Own(tracks', o) \in Nat
                            /\ Own(tracks, o) \in Nat
      BY <1>0, <2>3, OwnType DEF Guided, Sourced
    <2>5. \A v \in Unit, o \in Origin : tracks'[v][o] <= Own(tracks', o)
      <3>1. ASSUME NEW v \in Unit, NEW o \in Origin
            PROVE  tracks'[v][o] <= Own(tracks', o)
        <4>1. tracks[v][o] <= Own(tracks, o) /\ tracks[v][o] \in Nat
          BY OwnType DEF Guided, Sourced
        <4>. QED  BY <1>0, <2>2, <2>3, <2>4, <4>1
      <3>. QED  BY <3>1
    <2>6. designated' # None => designated'.observed <= Own(tracks', designated'.origin)
      <3>1. designated # None => designated.origin \in Origin /\ designated.observed \in Nat
        BY TimeFacts DEF TypeOK
      <3>2. designated # None => designated.observed <= Own(tracks', designated.origin)
        BY <2>4, <3>1 DEF Guided, Sourced
      <3>. QED  BY <1>3, <3>2 DEF Observe
    <2>7. \A d \in air' : d.kind \in {"report", "update"} => d.observed <= Own(tracks', d.origin)
      <3>1. ASSUME NEW d \in air, d.kind \in {"report", "update"}
            PROVE  d.observed <= Own(tracks', d.origin)
        <4>1. d.origin \in Origin /\ d.observed \in Nat
          BY <3>1, KindOfDatagram, TimeFacts DEF TypeOK
        <4>. QED  BY <2>4, <3>1, <4>1 DEF Guided, Sourced
      <3>. QED  BY <1>3, <3>1 DEF Observe
    <2>8. EstimateFromItsSource'
      <3>1. weapon.phase # "none" => weapon.origin \in Origin /\ weapon.observed \in Nat
        BY TimeFacts DEF TypeOK
      <3>2. weapon.phase # "none" => weapon.observed <= Own(tracks', weapon.origin)
        BY <2>4, <3>1 DEF Guided, EstimateFromItsSource, Own
      <3>. QED  BY <1>3, <3>2 DEF Observe, EstimateFromItsSource, Own
    <2>9. Sourced'
      BY <1>3, <2>4, <2>5, <2>6, <2>7 DEF Observe, Sourced
    <2>. QED  BY <2>8, <2>9 DEF Guided
  <1>4. ASSUME Finish
        PROVE  Guided'
    BY <1>0, <1>4, Unmoved DEF Finish, Active, TypeOK
  <1>5. ASSUME Telemeter
        PROVE  Guided'
    BY <1>0, <1>5, Unmoved DEF Telemeter, Sends, Status
  <1>6. ASSUME NEW u, Destroy(u)
        PROVE  Guided'
    BY <1>0, <1>6, Unmoved DEF Destroy
  <1>7. ASSUME Tick
        PROVE  Guided'
    BY <1>0, <1>7, Unmoved DEF Tick
  <1>8. ASSUME RoutineUpdate
        PROVE  Guided'
    <2>1. weapon.origin \in Origin
      BY <1>8 DEF RoutineUpdate, Active, TypeOK
    <2>. QED  BY <1>8, <2>1, MakeGuided DEF RoutineUpdate
  <1>9. ASSUME NEW u \in Unit, NEW p, SendReports(u, p)
        PROVE  Guided'
    <2>1. ASSUME NEW d \in air', d \notin air
          PROVE  d.origin \in Origin /\ d.observed <= Own(tracks, d.origin)
      <3>1. PICK o \in Current(u) : d = Report(u, p, o)
        BY <1>9, <2>1 DEF SendReports, Sends
      <3>. QED  BY <3>1 DEF Current, Report, Guided, Sourced
    <2>. QED  BY <1>0, <1>9, <2>1, Unmoved DEF SendReports
  <1>10. ASSUME NEW c \in Command, Order(c)
         PROVE  Guided'
    <2>1. CASE Recipient(c) = Launcher
      BY <1>10, <2>1, ExecuteGuided DEF Order
    <2>2. CASE Recipient(c) # Launcher
      BY <1>0, <1>10, <2>2, Unmoved DEF Order, Control, Sends
    <2>. QED  BY <2>1, <2>2
  <1>11. ASSUME NEW d \in air, Lose(d)
         PROVE  Guided'
    BY <1>0, <1>11, Unmoved DEF Lose
  <1>12. ASSUME NEW d \in air, ReceiveReport(d)
         PROVE  Guided'
    <2>1. d.to \in Unit /\ d.origin \in Origin /\ d.observed \in Nat
          /\ d.observed <= Own(tracks, d.origin)
      BY <1>12, KindOfDatagram, TimeFacts DEF ReceiveReport, Arrives, TypeOK, Guided, Sourced
    <2>2. \A u \in Unit, o \in Origin :
              tracks'[u][o] = IF u = d.to /\ o = d.origin /\ d.observed > tracks[u][o]
                              THEN d.observed ELSE tracks[u][o]
      BY <1>12, <2>1 DEF ReceiveReport, TypeOK
    <2>3. \A o \in Origin : Own(tracks', o) = Own(tracks, o)
      BY <2>1, <2>2, OwnType DEF Own
    <2>4. \A u \in Unit, o \in Origin : tracks'[u][o] <= Own(tracks', o)
      BY <2>1, <2>2, <2>3 DEF Guided, Sourced
    <2>5. \A o \in Origin : Own(tracks', o) <= clock'
      BY <1>12, <2>3 DEF ReceiveReport, Guided, Sourced
    <2>6. designated' # None => designated'.observed <= Own(tracks', designated'.origin)
      BY <1>12, <2>3 DEF ReceiveReport, Guided, Sourced, TypeOK
    <2>7. \A e \in air' : e.kind \in {"report", "update"} => e.observed <= Own(tracks', e.origin)
      <3>1. ASSUME NEW e \in air, e.kind \in {"report", "update"}
            PROVE  e.observed <= Own(tracks', e.origin)
        <4>1. e.origin \in Origin
          BY <3>1, KindOfDatagram DEF TypeOK
        <4>. QED  BY <2>3, <3>1, <4>1 DEF Guided, Sourced
      <3>. QED  BY <1>12, <3>1 DEF ReceiveReport
    <2>8. EstimateFromItsSource'
      <3>1. weapon.phase # "none" => weapon.observed <= Own(tracks', weapon.origin)
        BY <2>3 DEF Guided, EstimateFromItsSource, Own, TypeOK
      <3>. QED  BY <1>12, <3>1 DEF ReceiveReport, EstimateFromItsSource, Own
    <2>9. Sourced'
      BY <2>4, <2>5, <2>6, <2>7 DEF Sourced
    <2>. QED  BY <2>8, <2>9 DEF Guided
  <1>13. ASSUME NEW d \in air, ReceiveUpdate(d)
         PROVE  Guided'
    <2>1. CASE Accepts(d)
      <3>1. weapon'.origin = d.origin /\ weapon'.observed = d.observed
        BY <1>13, <2>1 DEF ReceiveUpdate, TypeOK
      <3>2. d.observed <= Own(tracks, d.origin)
        BY <1>13 DEF ReceiveUpdate, Arrives, Guided, Sourced
      <3>3. EstimateFromItsSource'
        BY <1>13, <3>1, <3>2 DEF ReceiveUpdate, EstimateFromItsSource, Own
      <3>4. Sourced'
        BY <1>13 DEF ReceiveUpdate, Guided, Sourced, Own
      <3>. QED  BY <3>3, <3>4 DEF Guided
    <2>2. CASE ~Accepts(d)
      BY <1>0, <1>13, <2>2, Unmoved DEF ReceiveUpdate
    <2>. QED  BY <2>1, <2>2
  <1>14. ASSUME NEW d \in air, ReceiveAssignment(d)
         PROVE  Guided'
    <2>1. /\ weapon'.origin = weapon.origin /\ weapon'.observed = weapon.observed
          /\ weapon'.phase = weapon.phase
      BY <1>14 DEF ReceiveAssignment, TypeOK
    <2>. QED  BY <1>0, <1>14, <2>1, Unmoved DEF ReceiveAssignment
  <1>15. ASSUME NEW d \in air, ReceiveControl(d)
         PROVE  Guided'
    <2>1. d.command \in Command
      BY <1>15, KindOfDatagram DEF ReceiveControl, Arrives, TypeOK
    <2>2. CASE Executable(d.to, d.command)
      BY <1>15, <2>1, <2>2, ExecuteGuided DEF ReceiveControl
    <2>3. CASE ~Executable(d.to, d.command)
      BY <1>0, <1>15, <2>3, Unmoved DEF ReceiveControl
    <2>. QED  BY <2>2, <2>3
  <1>16. ASSUME NEW d \in air, ReceiveStatus(d)
         PROVE  Guided'
    <2>. DEFINE passed == [d EXCEPT !.from = d.to, !.to = Launcher,
                                    !.expires = clock + Lifetime]
    <2>1. passed.kind = "status"
      BY <1>16, KindOfDatagram DEF ReceiveStatus, Arrives, TypeOK
    <2>2. CASE Sends(air \ {d}, {passed})
      <3>. HIDE DEF passed
      <3>. QED  BY <1>0, <1>16, <2>1, <2>2, Unmoved DEF ReceiveStatus, Sends
    <2>3. CASE air' = air \ {d}
      BY <1>0, <1>16, <2>3, Unmoved DEF ReceiveStatus
    <2>. QED  BY <1>16, <2>2, <2>3 DEF ReceiveStatus
  <1>17. CASE UNCHANGED vars
    BY <1>0, <1>17, Unmoved DEF vars
  <1>. QED  BY <1>1, <1>2, <1>3, <1>4, <1>5, <1>6, <1>7, <1>8, <1>9, <1>10, <1>11,
               <1>12, <1>13, <1>14, <1>15, <1>16, <1>17 DEF Next

--------------------------------------------------------------------------------
(* The theorems.                                                            *)

LEMMA Invariance == Spec => []IInv
  <1>1. Init => IInv
    BY TypeInit, ProtocolInit, GuidedInit DEF IInv, Guided
  <1>2. IInv /\ [Next]_vars => IInv'
    BY TypeNext, ProtocolNext, GuidedNext DEF IInv, Guided
  <1>. QED  BY <1>1, <1>2, PTL DEF Spec

\* The state of a flight and everything under way to it stay what they are declared
\* to be.
THEOREM TypeCorrect == Spec => []TypeOK
  BY Invariance, PTL DEF IInv

\* For any handoffs, losses and delays: a revision names one provider, to the weapon,
\* to the sending side and in every assignment and update under way.
THEOREM RevisionsNameProviders == Spec => []OneProviderPerRevision
  BY Invariance, PTL DEF IInv, Protocol

\* No handoff makes a number of an update come back.
THEOREM NumbersNeverReturn == Spec => []NumbersGoOn
  BY Invariance, PTL DEF IInv, Protocol

\* What guides the weapon was observed by the unit it is said to come from, however
\* it was reported, handed over and retargeted.
THEOREM EstimatesAreObserved == Spec => []EstimateFromItsSource
  BY Invariance, PTL DEF IInv

--------------------------------------------------------------------------------
(* What platforms know.  A platform's part of the Runtime is well formed    *)
(* (Part) and changes with what it hears as Grown says: what was seen stays *)
(* seen, and a watermark only rises, to a fresh time, and only for a fix or *)
(* a report with a sighting that was not seen.  With what is remembered of  *)
(* the sources (Remembered) and of own fixes (OwnSeen) that gives all three *)
(* properties.                                                              *)

\* A sighting that is on record at tick t.
Made(o, t) ==
    /\ DOMAIN o = {"by", "of", "at", "kind"}
    /\ o.by \in Platform /\ o.at \in Nat /\ o.at <= t /\ o.kind \in {"fix", "bearing"}
Record(ss, t) == IsFiniteSet(ss) /\ \A o \in ss : Made(o, t)

\* A measurement or an estimate that sightings in ss are behind.
Earned(c, ss, t) ==
    /\ c.obs \subseteq ss /\ c.made \subseteq ss
    /\ c.observed \in Nat /\ c.observed <= t
    /\ \E o \in c.made : o.at = c.observed

IsMeasurement(c) ==
    /\ c = [id |-> c.id, obs |-> c.obs, made |-> c.made, observed |-> c.observed,
            estimated |-> c.estimated]
    /\ c.estimated \in Nat
IsEstimate(e) ==
    /\ e = [id |-> e.id, obs |-> e.obs, made |-> e.made, observed |-> e.observed,
            predicted |-> e.predicted, local |-> e.local]
    /\ e.predicted \in Nat
IsPart(r) == r = [tracks |-> r.tracks, heads |-> r.heads, seen |-> r.seen,
                  bearings |-> r.bearings, next |-> r.next]

\* The ids of sightings, of estimates and of fixes are apart.
Named(i, ss) == i \in ss \/ DOMAIN i = {"at", "n"} \/ DOMAIN i = {"fix", "of"}

OwnTracks(u, r, ss, t) ==
    /\ IsFiniteSet(r.tracks)
    /\ \A e \in r.tracks :
           /\ IsEstimate(e) /\ Earned(e, ss, t)
           /\ e.id = [at |-> u, n |-> e.id.n] /\ e.id.n \in Nat /\ e.id.n < r.next
    /\ \A e, f \in r.tracks : e.id = f.id => e = f

Memory(r, ss, t) ==
    /\ \A i \in DOMAIN r.heads : r.heads[i] \in Nat /\ r.heads[i] <= t /\ Named(i, ss)
    /\ DOMAIN r.seen \subseteq ss
    /\ \A o \in DOMAIN r.seen : r.seen[o] \in Nat /\ r.seen[o] <= t

Part(u, r, ss, t) ==
    /\ IsPart(r) /\ r.next \in Nat
    /\ OwnTracks(u, r, ss, t)
    /\ Memory(r, ss, t)
    /\ r.bearings \subseteq {o \in ss : o.kind = "bearing"}

\* Why the watermark of i moved: a fix, or an item with a sighting that r had not seen.
Moved(i, r, items) ==
    \/ DOMAIN i = {"fix", "of"}
    \/ \E c \in items : c.id = i /\ ~ IsBearing(c) /\ ~ c.obs \subseteq DOMAIN r.seen

\* What the items make of r: watermarks stay or rise, and what was seen stays seen.
Grown(r, q, items) ==
    /\ DOMAIN r.heads \subseteq DOMAIN q.heads
    /\ \A i \in DOMAIN q.heads :
           \/ i \in DOMAIN r.heads /\ q.heads[i] = r.heads[i]
           \/ /\ Fresh(q.heads[i]) /\ q.heads[i] <= tick
              /\ i \in DOMAIN r.heads => q.heads[i] > r.heads[i]
              /\ Moved(i, r, items)
    /\ DOMAIN r.seen \subseteq DOMAIN q.seen
    /\ \A o \in DOMAIN r.seen : q.seen[o] = r.seen[o]

--------------------------------------------------------------------------------
LEMMA LeastElement ==
    ASSUME NEW S, S \subseteq Nat, S # {}
    PROVE  \E n \in S : \A m \in S : n <= m
<1> DEFINE R == OpToRel(<, Nat)
<1>1. IsWellFoundedOn(R, Nat)
  BY NatLessThanWellFounded
<1>2. \A m, k \in Nat : m < k => <<m, k>> \in R
  BY DEF OpToRel
<1> HIDE DEF R
<1>3. PICK n \in S : \A m \in S : ~ (<<m, n>> \in R)
  BY <1>1, WFMin
<1>4. ASSUME NEW m \in S PROVE n <= m
  <2>1. m \in Nat /\ n \in Nat
    OBVIOUS
  <2>2. ~ (m < n)
    BY <1>2, <1>3, <2>1
  <2> QED BY <2>1, <2>2
<1> QED BY <1>4

\* A set of numbers with a bound has a greatest one.
LEMMA Greatest ==
    ASSUME NEW S, NEW t \in Nat, \A n \in S : n \in Nat /\ n <= t, S # {}
    PROVE  Max(S) \in S /\ \A n \in S : n <= Max(S)
  <1>. DEFINE D == {t - n : n \in S}
  <1>1. D \subseteq Nat /\ D # {}
    OBVIOUS
  <1>2. PICK d \in D : \A m \in D : d <= m
    BY <1>1, LeastElement
  <1>3. PICK n \in S : d = t - n
    OBVIOUS
  <1>4. \A m \in S : n >= m
    BY <1>2, <1>3
  <1>5. \E x \in S : \A y \in S : x >= y
    BY <1>4
  <1>6. Max(S) \in S /\ \A y \in S : Max(S) >= y
    BY <1>5 DEF Max
  <1>. QED  BY <1>6

\* The latest of some sightings.
LEMMA Latest ==
    ASSUME NEW S, NEW t \in Nat, \A o \in S : o.at \in Nat /\ o.at <= t, S # {}
    PROVE  \E o \in S : \A p \in S : p.at <= o.at
  <1>. DEFINE T == {o.at : o \in S}
  <1>1. \A n \in T : n \in Nat /\ n <= t
    OBVIOUS
  <1>2. T # {}
    OBVIOUS
  <1>3. Max(T) \in T /\ \A n \in T : n <= Max(T)
    BY <1>1, <1>2, Greatest
  <1>. QED  BY <1>3
\* Of some sightings with a least time, one that none is later than.
LEMMA LastHeard ==
    ASSUME NEW r, NEW t \in Nat, NEW S,
           \A o \in S : o.at \in Nat /\ o.at <= t,
           \A o \in DOMAIN r.seen : r.seen[o] \in Nat /\ r.seen[o] <= t,
           S # {}
    PROVE  \E o \in S : \A p \in S : ~ Later(r, p, o)
  <1>. DEFINE when(o) == IF o \in DOMAIN r.seen THEN r.seen[o] ELSE -1
              W == {when(o) + 1 : o \in S}
  <1>1. \A n \in W : n \in Nat /\ n <= t + 1
    OBVIOUS
  <1>2. W # {}
    OBVIOUS
  <1>3. Max(W) \in W /\ \A n \in W : n <= Max(W)
    BY <1>1, <1>2, t + 1 \in Nat, Greatest
  <1>4. PICK m \in S : \A p \in S : when(p) + 1 <= when(m) + 1
    BY <1>3
  <1>5. \A p \in S : when(p) \in Int
    OBVIOUS
  <1>. DEFINE L == {o \in S : when(o) = when(m)}
  <1>6. PICK o \in L : \A p \in L : p.at <= o.at
    <2>1. L # {} /\ \A p \in L : p.at \in Nat /\ p.at <= t
      OBVIOUS
    <2>. HIDE DEF L
    <2>. QED  BY <2>1, Latest
  <1>7. ASSUME NEW p \in S PROVE ~ Later(r, p, o)
    <2>1. when(p) <= when(o)
      BY <1>4, <1>5
    <2>2. when(p) = when(o) => p.at <= o.at
      BY <1>6
    <2>3. Later(r, p, o) <=> (when(p) > when(o) \/ (when(p) = when(o) /\ p.at > o.at))
      BY DEF Later
    <2>4. when(p) \in Int /\ when(o) \in Int /\ p.at \in Nat /\ o.at \in Nat
      BY <1>5
    <2>. HIDE DEF when
    <2>. QED  BY <2>1, <2>2, <2>3, <2>4
  <1>. QED  BY <1>7

\* Of finitely many sightings some n are heard of last.
LEMMA NewestExists ==
    ASSUME NEW r, NEW t \in Nat, NEW S, IsFiniteSet(S),
           \A o \in S : o.at \in Nat /\ o.at <= t,
           \A o \in DOMAIN r.seen : r.seen[o] \in Nat /\ r.seen[o] <= t,
           NEW n \in Nat, n <= Cardinality(S)
    PROVE  \E part \in kSubset(n, S) : \A o \in part, p \in S \ part : ~ Later(r, p, o)
  <1>. DEFINE Suits(k) == \E part \in kSubset(k, S) :
                            \A o \in part, p \in S \ part : ~ Later(r, p, o)
              Odd == {k \in 0..n : ~ Suits(k)}
  <1>1. SUFFICES ASSUME Odd # {} PROVE FALSE
    OBVIOUS
  <1>2. PICK k \in Odd : \A m \in Odd : k <= m
    BY <1>1, LeastElement, Odd \subseteq Nat
  <1>3. k # 0
    <2>1. {} \in kSubset(0, S)
      BY FS_EmptySet DEF kSubset
    <2>2. Suits(0)
      BY <2>1
    <2>3. 0 \notin Odd
      BY <2>2
    <2>. QED  BY <2>3
  <1>4. k - 1 \in 0..n /\ Suits(k - 1)
    <2>0. k \in 0..n
      OBVIOUS
    <2>1. k - 1 \in 0..n /\ ~ k <= k - 1
      BY <2>0, <1>3
    <2>2. k - 1 \notin Odd
      BY <1>2, <2>1
    <2>. QED  BY <2>1, <2>2
  <1>5. PICK part \in kSubset(k - 1, S) : \A o \in part, p \in S \ part : ~ Later(r, p, o)
    BY <1>4
  <1>6. part \subseteq S /\ Cardinality(part) = k - 1 /\ IsFiniteSet(part)
    BY <1>5, FS_Subset DEF kSubset
  <1>7. S \ part # {}
    <2>1. Cardinality(S) \in Nat /\ k \in 1..n
      BY <1>3, FS_CardinalityType
    <2>2. k - 1 # Cardinality(S)
      BY <2>1
    <2>3. part # S
      BY <2>2, <1>6
    <2>. QED  BY <2>3, <1>6
  <1>8. PICK m \in S \ part : \A p \in S \ part : ~ Later(r, p, m)
    <2>1. \A o \in S \ part : o.at \in Nat /\ o.at <= t
      OBVIOUS
    <2>. QED  BY <1>7, <2>1, LastHeard
  <1>9. part \cup {m} \in kSubset(k, S)
    <2>1. Cardinality(part \cup {m}) = k - 1 + 1
      BY <1>6, FS_AddElement
    <2>. QED  BY <2>1, <1>6 DEF kSubset
  <1>10. \A o \in part \cup {m}, p \in S \ (part \cup {m}) : ~ Later(r, p, o)
    BY <1>5, <1>8
  <1>11. Suits(k)
    BY <1>9, <1>10
  <1>. QED  BY <1>11

\* What is kept or sent as evidence is some of it.
LEMMA NewestIsPart ==
    ASSUME NEW r, NEW t \in Nat, NEW S, IsFiniteSet(S),
           \A o \in S : o.at \in Nat /\ o.at <= t,
           \A o \in DOMAIN r.seen : r.seen[o] \in Nat /\ r.seen[o] <= t,
           NEW n \in Nat
    PROVE  Newest(r, S, n) \subseteq S
  <1>1. CASE Cardinality(S) <= n
    BY <1>1 DEF Newest
  <1>2. CASE ~ Cardinality(S) <= n
    <2>1. n <= Cardinality(S)
      BY <1>2, FS_CardinalityType
    <2>2. \E part \in kSubset(n, S) : \A o \in part, p \in S \ part : ~ Later(r, p, o)
      BY <2>1, NewestExists
    <2>3. Newest(r, S, n) = CHOOSE part \in kSubset(n, S) :
                                \A o \in part, p \in S \ part : ~ Later(r, p, o)
      BY <1>2 DEF Newest
    <2>4. Newest(r, S, n) \in kSubset(n, S)
      BY <2>2, <2>3
    <2>. QED  BY <2>4 DEF kSubset
  <1>. QED  BY <1>1, <1>2

\* A measurement that can be received, at the present tick.
Receivable(c, ss) == IsMeasurement(c) /\ Earned(c, ss, tick) /\ Named(c.id, ss)

\* What taking a measurement does to the memory of r.
LEMMA TakenMemory ==
    ASSUME tick \in Nat, NEW r, NEW ss, IsPart(r), Memory(r, ss, tick),
           NEW c, Receivable(c, ss), NEW local \in BOOLEAN, IsNews(r, c, local),
           local => c.id \notin DOMAIN r.heads,
           NEW q, q.heads = Taken(r, c).heads, q.seen = Taken(r, c).seen
    PROVE  Memory(q, ss, tick) /\ Grown(r, q, {c})
  <1>1. /\ q.heads = Noting(r.heads, c.id, c.observed)
        /\ q.seen = [o \in DOMAIN r.seen \cup c.obs |->
                       IF o \in DOMAIN r.seen THEN r.seen[o] ELSE c.observed]
    BY DEF Taken, IsPart
  <1>2. /\ c.obs \subseteq ss /\ c.observed \in Nat /\ c.observed <= tick /\ Named(c.id, ss)
        /\ Fresh(c.observed) /\ ~ c.obs \subseteq DOMAIN r.seen
        /\ c.id \in DOMAIN r.heads => r.heads[c.id] < c.observed
    BY DEF Receivable, Earned, IsNews
  <1>3. /\ DOMAIN q.heads = DOMAIN r.heads \cup {c.id}
        /\ \A i \in DOMAIN q.heads : q.heads[i] = IF i = c.id THEN c.observed ELSE r.heads[i]
    BY <1>1 DEF Noting
  <1>4. /\ DOMAIN q.seen = DOMAIN r.seen \cup c.obs
        /\ \A o \in DOMAIN q.seen : q.seen[o] = IF o \in DOMAIN r.seen THEN r.seen[o]
                                                ELSE c.observed
    BY <1>1
  <1>5. ~ IsBearing(c)
    BY DEF Receivable, IsMeasurement, IsBearing
  <1>6. Memory(q, ss, tick)
    BY <1>2, <1>3, <1>4 DEF Memory
  <1>7. Moved(c.id, r, {c})
    BY <1>2, <1>5 DEF Moved
  <1>8. Grown(r, q, {c})
    <2>1. ASSUME NEW i \in DOMAIN q.heads
          PROVE  \/ i \in DOMAIN r.heads /\ q.heads[i] = r.heads[i]
                 \/ /\ Fresh(q.heads[i]) /\ q.heads[i] <= tick
                    /\ i \in DOMAIN r.heads => q.heads[i] > r.heads[i]
                    /\ Moved(i, r, {c})
      <3>1. CASE i = c.id
        <4>1. q.heads[i] = c.observed
          BY <1>3, <3>1
        <4>2. i \in DOMAIN r.heads => r.heads[i] \in Nat
          BY DEF Memory
        <4>. QED  BY <1>2, <1>7, <3>1, <4>1, <4>2
      <3>2. CASE i # c.id
        BY <1>3, <3>2
      <3>. QED  BY <3>1, <3>2
    <2>. QED  BY <1>3, <1>4, <2>1 DEF Grown
  <1>. QED  BY <1>6, <1>8

LEMMA ReceivedPart ==
    ASSUME FusionAssumption, tick \in Nat, NEW ss, Record(ss, tick),
           NEW u, NEW r, Part(u, r, ss, tick),
           NEW c, Receivable(c, ss), NEW local \in BOOLEAN,
           local => c.id \notin DOMAIN r.heads,
           NEW q \in Received(u, r, c, local)
    PROVE  Part(u, q, ss, tick) /\ Grown(r, q, {c})
  <1>. DEFINE T == Taken(r, c)
  <1>1. CASE ~ IsNews(r, c, local)
    <2>1. q = r
      BY <1>1 DEF Received
    <2>2. Grown(r, r, {c})
      BY DEF Grown
    <2>. QED  BY <2>1, <2>2
  <1>2. CASE IsNews(r, c, local)
    <2>1. /\ IsPart(r) /\ r.next \in Nat /\ OwnTracks(u, r, ss, tick) /\ Memory(r, ss, tick)
          /\ r.bearings \subseteq {o \in ss : o.kind = "bearing"}
      BY DEF Part
    <2>2. T = [tracks |-> r.tracks, heads |-> T.heads, seen |-> T.seen,
               bearings |-> r.bearings, next |-> r.next]
      <3>. DEFINE H == Noting(r.heads, c.id, c.observed)
                  S == [o \in DOMAIN r.seen \cup c.obs |->
                           IF o \in DOMAIN r.seen THEN r.seen[o] ELSE c.observed]
      <3>1. T = [r EXCEPT !.heads = H, !.seen = S]
        BY DEF Taken
      <3>. HIDE DEF H, S, T
      <3>2. T = [tracks |-> r.tracks, heads |-> H, seen |-> S,
                 bearings |-> r.bearings, next |-> r.next]
        BY <2>1, <3>1 DEF IsPart
      <3>. QED  BY <3>2
    <2>3. Memory(T, ss, tick)
      BY <1>2, <2>1, TakenMemory
    <2>4. Kept \in Nat
      BY DEF FusionAssumption
    <2>. HIDE DEF T
    <2>5. CASE q = Opened(r, c, local, u)
      <3>. DEFINE new == [id |-> [at |-> u, n |-> r.next], obs |-> c.obs, made |-> c.made,
                          observed |-> c.observed, predicted |-> c.estimated,
                          local |-> IF local THEN tick ELSE 0]
      <3>0. q = [T EXCEPT !.next = T.next + 1, !.tracks = T.tracks \cup {new}]
        BY <2>5 DEF Opened, T
      <3>. HIDE DEF new
      <3>1. q = [tracks |-> r.tracks \cup {new}, heads |-> T.heads, seen |-> T.seen,
                 bearings |-> r.bearings, next |-> r.next + 1]
        <4>1. T.tracks = r.tracks /\ T.bearings = r.bearings /\ T.next = r.next
          BY <2>2
        <4>. QED  BY <2>2, <3>0, <4>1
      <3>2. /\ IsEstimate(new) /\ Earned(new, ss, tick)
            /\ new.id = [at |-> u, n |-> r.next]
        BY DEF new, IsEstimate, Earned, Receivable, IsMeasurement
      <3>3. OwnTracks(u, q, ss, tick)
        <4>1. IsFiniteSet(q.tracks)
          BY <2>1, <3>1, FS_AddElement DEF OwnTracks
        <4>2. ASSUME NEW e \in q.tracks
              PROVE  /\ IsEstimate(e) /\ Earned(e, ss, tick)
                     /\ e.id = [at |-> u, n |-> e.id.n] /\ e.id.n \in Nat /\ e.id.n < q.next
          <5>1. CASE e \in r.tracks
            <6>1. e.id = [at |-> u, n |-> e.id.n] /\ e.id.n \in Nat /\ e.id.n < r.next
              BY <2>1, <5>1 DEF OwnTracks
            <6>2. e.id.n < q.next
              BY <2>1, <3>1, <6>1
            <6>. QED  BY <2>1, <5>1, <6>1, <6>2 DEF OwnTracks
          <5>2. CASE e = new
            <6>1. r.next < q.next
              BY <2>1, <3>1
            <6>. QED  BY <2>1, <3>2, <5>2, <6>1
          <5>. QED  BY <3>1, <5>1, <5>2
        <4>3. ASSUME NEW e \in r.tracks PROVE e.id # new.id
          <5>1. e.id.n \in Nat /\ e.id.n < r.next
            BY <2>1 DEF OwnTracks
          <5>2. new.id.n = r.next
            BY <3>2
          <5>. QED  BY <2>1, <5>1, <5>2
        <4>4. ASSUME NEW e \in q.tracks, NEW f \in q.tracks, e.id = f.id PROVE e = f
          BY <2>1, <3>1, <4>3, <4>4 DEF OwnTracks
        <4>. QED  BY <4>1, <4>2, <4>4 DEF OwnTracks
      <3>4. q.heads = T.heads /\ q.seen = T.seen
        BY <3>1
      <3>5. Memory(q, ss, tick) /\ Grown(r, q, {c})
        BY <1>2, <2>1, <3>4, TakenMemory DEF T
      <3>6. IsPart(q) /\ q.next \in Nat /\ q.bearings = r.bearings
        BY <2>1, <3>1 DEF IsPart
      <3>. QED  BY <2>1, <3>3, <3>5, <3>6 DEF Part
    <2>6. ASSUME NEW e \in Candidates(r, c), q = Fused(r, c, local, e)
          PROVE  Part(u, q, ss, tick) /\ Grown(r, q, {c})
      <3>. DEFINE obs == Newest(T, e.obs \cup c.obs, Kept)
                  new == [e EXCEPT !.obs = obs, !.made = @ \cup c.made,
                                   !.observed = c.observed, !.predicted = c.estimated,
                                   !.local = IF local THEN tick ELSE @]
      <3>0. q = [T EXCEPT !.tracks = (T.tracks \ {e}) \cup {new}]
        BY <2>6 DEF Fused, T
      <3>. HIDE DEF new
      <3>1. q = [tracks |-> (r.tracks \ {e}) \cup {new}, heads |-> T.heads, seen |-> T.seen,
                 bearings |-> r.bearings, next |-> r.next]
        <4>1. T.tracks = r.tracks /\ T.bearings = r.bearings /\ T.next = r.next
          BY <2>2
        <4>. QED  BY <2>2, <3>0, <4>1
      <3>2. e \in r.tracks /\ IsEstimate(e) /\ Earned(e, ss, tick)
        BY <2>1 DEF Candidates, OwnTracks
      <3>3. obs \subseteq e.obs \cup c.obs
        <4>1. e.obs \cup c.obs \subseteq ss
          BY <3>2 DEF Earned, Receivable
        <4>2. IsFiniteSet(e.obs \cup c.obs)
          BY <4>1, FS_Subset DEF Record
        <4>3. \A o \in e.obs \cup c.obs : o.at \in Nat /\ o.at <= tick
          BY <4>1 DEF Record, Made
        <4>4. \A o \in DOMAIN T.seen : T.seen[o] \in Nat /\ T.seen[o] <= tick
          BY <2>3 DEF Memory
        <4>. QED  BY <2>4, <4>2, <4>3, <4>4, NewestIsPart
      <3>. HIDE DEF obs
      <3>4. /\ new = [id |-> e.id, obs |-> obs, made |-> e.made \cup c.made,
                      observed |-> c.observed, predicted |-> c.estimated,
                      local |-> new.local]
            /\ new.id = e.id
        <4>1. new = [e EXCEPT !.obs = obs, !.made = e.made \cup c.made,
                              !.observed = c.observed, !.predicted = c.estimated,
                              !.local = IF local THEN tick ELSE e.local]
          BY DEF new
        <4>2. e = [id |-> e.id, obs |-> e.obs, made |-> e.made, observed |-> e.observed,
                   predicted |-> e.predicted, local |-> e.local]
          BY <3>2 DEF IsEstimate
        <4>. QED  BY <4>1, <4>2
      <3>5. IsEstimate(new)
        BY <3>4 DEF IsEstimate, Receivable, IsMeasurement
      <3>6. Earned(new, ss, tick)
        BY <3>2, <3>3, <3>4 DEF Earned, Receivable
      <3>7. OwnTracks(u, q, ss, tick)
        <4>1. IsFiniteSet(q.tracks)
          BY <2>1, <3>1, FS_AddElement, FS_RemoveElement DEF OwnTracks
        <4>2. ASSUME NEW f \in q.tracks
              PROVE  /\ IsEstimate(f) /\ Earned(f, ss, tick)
                     /\ f.id = [at |-> u, n |-> f.id.n] /\ f.id.n \in Nat /\ f.id.n < q.next
          BY <2>1, <3>1, <3>2, <3>4, <3>5, <3>6 DEF OwnTracks
        <4>3. ASSUME NEW f \in q.tracks, NEW g \in q.tracks, f.id = g.id PROVE f = g
          BY <2>1, <3>1, <3>2, <3>4, <4>3 DEF OwnTracks
        <4>. QED  BY <4>1, <4>2, <4>3 DEF OwnTracks
      <3>8. q.heads = T.heads /\ q.seen = T.seen
        BY <3>1
      <3>9. Memory(q, ss, tick) /\ Grown(r, q, {c})
        BY <1>2, <2>1, <3>8, TakenMemory DEF T
      <3>10. IsPart(q) /\ q.next \in Nat /\ q.bearings = r.bearings
        BY <2>1, <3>1 DEF IsPart
      <3>. QED  BY <2>1, <3>7, <3>9, <3>10 DEF Part
    <2>. QED  BY <1>2, <2>5, <2>6 DEF Received
  <1>. QED  BY <1>1, <1>2

\* A fix is made of bearings on record, as late as the latest of them.
LEMMA FixReceivable ==
    ASSUME tick \in Nat, NEW ss, Record(ss, tick), NEW b \in ss, NEW list, list \subseteq ss,
           NEW far,
           \A s \in far : \E o \in list : o.by = s /\ o.at - b.at \in (-Together)..Together
    PROVE  /\ Receivable(Fix(b, far, list), ss)
           /\ DOMAIN Fix(b, far, list).id = {"fix", "of"}
           /\ ~ IsBearing(Fix(b, far, list))
  <1>. DEFINE usable(s) == {o \in list : o.by = s /\ o.at - b.at \in (-Together)..Together}
              pick(s) == CHOOSE o \in usable(s) : \A p \in usable(s) : p.at <= o.at
              contributors == {b} \cup {pick(s) : s \in far}
              ats == {o.at : o \in contributors}
              c == Fix(b, far, list)
  <1>1. ASSUME NEW s \in far PROVE pick(s) \in list
    <2>1. \A o \in usable(s) : o.at \in Nat /\ o.at <= tick
      BY DEF Record, Made
    <2>2. usable(s) # {}
      OBVIOUS
    <2>3. \E o \in usable(s) : \A p \in usable(s) : p.at <= o.at
      <3>. HIDE DEF usable
      <3>. QED  BY <2>1, <2>2, Latest
    <2>4. pick(s) \in usable(s)
      <3>. HIDE DEF usable
      <3>. QED  BY <2>3
    <2>. QED  BY <2>4
  <1>2. c = [id |-> [fix |-> b, of |-> contributors], obs |-> contributors,
             made |-> contributors, observed |-> Max(ats), estimated |-> Max(ats)]
    BY DEF Fix
  <1>. HIDE DEF pick, c
  <1>3. contributors \subseteq ss /\ contributors # {}
    BY <1>1
  <1>. HIDE DEF contributors
  <1>4. /\ \A n \in ats : n \in Nat /\ n <= tick
        /\ ats # {}
    BY <1>3 DEF Record, Made
  <1>5. Max(ats) \in ats
    <2>. HIDE DEF ats
    <2>. QED  BY <1>4, Greatest
  <1>6. PICK o \in contributors : o.at = Max(ats)
    BY <1>5
  <1>7. Max(ats) \in Nat /\ Max(ats) <= tick
    BY <1>4, <1>5
  <1>. HIDE DEF ats
  <1>8. /\ c.id = [fix |-> b, of |-> contributors] /\ c.obs = contributors
        /\ c.made = contributors /\ c.observed = Max(ats) /\ c.estimated = Max(ats)
        /\ DOMAIN c = {"id", "obs", "made", "observed", "estimated"}
    BY <1>2
  <1>9. IsMeasurement(c)
    BY <1>2, <1>7, <1>8 DEF IsMeasurement
  <1>10. Earned(c, ss, tick)
    BY <1>3, <1>6, <1>7, <1>8 DEF Earned
  <1>11. DOMAIN c.id = {"fix", "of"}
    BY <1>8
  <1>12. ~ IsBearing(c)
    BY <1>8 DEF IsBearing
  <1>. QED  BY <1>9, <1>10, <1>11, <1>12 DEF c, Receivable, Named

LEMMA ReceivedBearingPart ==
    ASSUME FusionAssumption, tick \in Nat, NEW ss, Record(ss, tick),
           NEW u, NEW r, Part(u, r, ss, tick),
           NEW b \in ss, b.kind = "bearing",
           NEW q \in ReceivedBearing(u, r, b), NEW items
    PROVE  Part(u, q, ss, tick) /\ Grown(r, q, items)
  <1>. DEFINE heard == [r EXCEPT !.bearings = @ \cup {b}]
              sources == {o.by : o \in {p \in r.bearings :
                              p.by # b.by /\ p.at - b.at \in (-Together)..Together}}
  <1>1. /\ IsPart(r) /\ r.next \in Nat /\ OwnTracks(u, r, ss, tick) /\ Memory(r, ss, tick)
        /\ r.bearings \subseteq {o \in ss : o.kind = "bearing"}
    BY DEF Part
  <1>2. heard = [tracks |-> r.tracks, heads |-> r.heads, seen |-> r.seen,
                 bearings |-> r.bearings \cup {b}, next |-> r.next]
    BY <1>1 DEF IsPart
  <1>3. q \in {r, heard} \/ \E far \in SUBSET sources :
                                q \in Received(u, heard, Fix(b, far, heard.bearings), FALSE)
    BY DEF ReceivedBearing
  <1>. HIDE DEF heard
  <1>4. /\ heard.tracks = r.tracks /\ heard.heads = r.heads /\ heard.seen = r.seen
        /\ heard.bearings = r.bearings \cup {b} /\ heard.next = r.next /\ IsPart(heard)
    BY <1>2 DEF IsPart
  <1>5. Part(u, heard, ss, tick)
    BY <1>1, <1>4 DEF Part, OwnTracks, Memory
  <1>6. Grown(r, r, items) /\ Grown(r, heard, items)
    BY <1>4 DEF Grown
  <1>7. ASSUME NEW far \in SUBSET sources,
               q \in Received(u, heard, Fix(b, far, heard.bearings), FALSE)
        PROVE  Part(u, q, ss, tick) /\ Grown(r, q, items)
    <2>. DEFINE c == Fix(b, far, heard.bearings)
    <2>1. heard.bearings \subseteq ss
      BY <1>1, <1>4
    <2>2. \A s \in far : \E o \in heard.bearings :
              o.by = s /\ o.at - b.at \in (-Together)..Together
      BY <1>4
    <2>3. Receivable(c, ss) /\ DOMAIN c.id = {"fix", "of"}
      BY <2>1, <2>2, FixReceivable
    <2>. HIDE DEF c
    <2>4. q \in Received(u, heard, c, FALSE)
      BY <1>7 DEF c
    <2>5. Part(u, q, ss, tick) /\ Grown(heard, q, {c})
      BY <1>5, <2>3, <2>4, ReceivedPart
    <2>6. \A i : Moved(i, heard, {c}) => Moved(i, r, items)
      BY <2>3 DEF Moved
    <2>7. Grown(r, q, items)
      BY <1>4, <2>5, <2>6 DEF Grown
    <2>. QED  BY <2>5, <2>7
  <1>. QED  BY <1>3, <1>5, <1>6, <1>7

LEMMA GrownOnwards ==
    ASSUME NEW u, NEW ss, NEW t, NEW r, NEW s, NEW q, NEW A, NEW B, tick \in Nat,
           Part(u, r, ss, t), Part(u, s, ss, t), Part(u, q, ss, t),
           Grown(r, s, A), Grown(s, q, B)
    PROVE  Grown(r, q, A \cup B)
  <1>1. /\ \A i \in DOMAIN r.heads : r.heads[i] \in Nat
        /\ \A i \in DOMAIN s.heads : s.heads[i] \in Nat
        /\ \A i \in DOMAIN q.heads : q.heads[i] \in Nat
    BY DEF Part, Memory
  <1>2. /\ DOMAIN r.seen \subseteq DOMAIN q.seen /\ DOMAIN r.heads \subseteq DOMAIN q.heads
        /\ \A o \in DOMAIN r.seen : q.seen[o] = r.seen[o]
        /\ DOMAIN r.seen \subseteq DOMAIN s.seen /\ DOMAIN r.heads \subseteq DOMAIN s.heads
    BY DEF Grown
  <1>3. ASSUME NEW i \in DOMAIN q.heads
        PROVE  \/ i \in DOMAIN r.heads /\ q.heads[i] = r.heads[i]
               \/ /\ Fresh(q.heads[i]) /\ q.heads[i] <= tick
                  /\ i \in DOMAIN r.heads => q.heads[i] > r.heads[i]
                  /\ Moved(i, r, A \cup B)
    <2>1. Moved(i, s, B) => Moved(i, r, A \cup B)
      BY <1>2 DEF Moved
    <2>2. Moved(i, r, A) => Moved(i, r, A \cup B)
      BY DEF Moved
    <2>3. CASE i \in DOMAIN s.heads /\ q.heads[i] = s.heads[i]
      BY <2>2, <2>3 DEF Grown
    <2>4. CASE ~ (i \in DOMAIN s.heads /\ q.heads[i] = s.heads[i])
      <3>1. /\ Fresh(q.heads[i]) /\ q.heads[i] <= tick
            /\ i \in DOMAIN s.heads => q.heads[i] > s.heads[i]
            /\ Moved(i, s, B)
        BY <2>4 DEF Grown
      <3>2. i \in DOMAIN r.heads => i \in DOMAIN s.heads /\ s.heads[i] >= r.heads[i]
        BY <1>1, <1>2 DEF Grown
      <3>3. i \in DOMAIN r.heads => q.heads[i] > r.heads[i]
        BY <1>1, <3>1, <3>2
      <3>. QED  BY <2>1, <3>1, <3>3
    <2>. QED  BY <2>3, <2>4
  <1>. QED  BY <1>2, <1>3 DEF Grown

\* The states that listing some items may lead to are defined for every set of them.
Leads(f, u, from, items) ==
    f = [done \in SUBSET items |->
            IF done = {} THEN from
            ELSE UNION {UNION {Heard(u, r, i) : r \in f[done \ {i}]} : i \in done}]

LEMMA AfterDefined ==
    ASSUME NEW u, NEW from, NEW items, IsFiniteSet(items)
    PROVE  \E f : Leads(f, u, from, items) /\ After(u, from, items) = f[items]
  <1>. DEFINE Step(f, d) == IF d = {} THEN from
                            ELSE UNION {UNION {Heard(u, r, i) : r \in f[d \ {i}]} : i \in d}
              Within(n) == {d \in SUBSET items : Cardinality(d) <= n}
              Solves(f, n) == f = [d \in Within(n) |-> Step(f, d)]
              Odd == {n \in Nat : ~ \E f : Solves(f, n)}
  <1>1. ASSUME NEW n \in Nat, NEW f, Solves(f, n)
        PROVE  \E g : Solves(g, n + 1)
    <2>. DEFINE g == [d \in Within(n + 1) |-> Step(f, d)]
    <2>1. ASSUME NEW d \in Within(n + 1), NEW i \in d
          PROVE  d \ {i} \in Within(n) /\ d \ {i} \in Within(n + 1)
      <3>1. IsFiniteSet(d) /\ d \subseteq items
        BY FS_Subset
      <3>2. Cardinality(d) \in Nat /\ Cardinality(d \ {i}) = Cardinality(d) - 1
        BY <3>1, FS_RemoveElement, FS_CardinalityType
      <3>3. Cardinality(d \ {i}) <= n /\ Cardinality(d \ {i}) <= n + 1
        BY <3>2
      <3>. QED  BY <3>1, <3>3
    <2>2. ASSUME NEW d \in Within(n + 1), NEW i \in d PROVE g[d \ {i}] = f[d \ {i}]
      <3>1. g[d \ {i}] = Step(f, d \ {i})
        BY <2>1
      <3>2. f[d \ {i}] = Step(f, d \ {i})
        <4>. HIDE DEF Step, Within
        <4>1. f = [e \in Within(n) |-> Step(f, e)]
          BY <1>1
        <4>. QED  BY <2>1, <4>1
      <3>. QED  BY <3>1, <3>2
    <2>3. ASSUME NEW d \in Within(n + 1) PROVE Step(g, d) = Step(f, d)
      <3>. HIDE DEF g, Within
      <3>1. \A i \in d : UNION {Heard(u, r, i) : r \in g[d \ {i}]}
                         = UNION {Heard(u, r, i) : r \in f[d \ {i}]}
        BY <2>2
      <3>2. {UNION {Heard(u, r, i) : r \in g[d \ {i}]} : i \in d}
            = {UNION {Heard(u, r, i) : r \in f[d \ {i}]} : i \in d}
        BY <3>1
      <3>. QED  BY <3>2
    <2>4. Solves(g, n + 1)
      <3>1. g = [d \in Within(n + 1) |-> Step(f, d)]
        OBVIOUS
      <3>. HIDE DEF g, Step, Within
      <3>2. [d \in Within(n + 1) |-> Step(f, d)] = [d \in Within(n + 1) |-> Step(g, d)]
        BY <2>3
      <3>. QED  BY <3>1, <3>2
    <2>. QED  BY <2>4
  <1>2. \E f : Solves(f, 0)
    <2>. DEFINE f == [d \in Within(0) |-> from]
    <2>1. ASSUME NEW d \in Within(0) PROVE d = {}
      <3>1. IsFiniteSet(d)
        BY FS_Subset
      <3>2. Cardinality(d) = 0
        BY <3>1, FS_CardinalityType
      <3>. QED  BY <3>1, <3>2, FS_EmptySet
    <2>2. \A d \in Within(0) : Step(f, d) = from
      BY <2>1
    <2>. HIDE DEF Within, Step
    <2>3. f = [d \in Within(0) |-> Step(f, d)]
      BY <2>2
    <2>. QED  BY <2>3
  <1>3. Odd = {}
    <2>1. SUFFICES ASSUME Odd # {} PROVE FALSE
      OBVIOUS
    <2>. HIDE DEF Solves
    <2>2. PICK n \in Odd : \A m \in Odd : n <= m
      BY <2>1, LeastElement, Odd \subseteq Nat
    <2>3. n \in Nat /\ n # 0
      BY <1>2
    <2>4. n - 1 \in Nat /\ ~ n <= n - 1
      BY <2>3
    <2>5. PICK f : Solves(f, n - 1)
      BY <2>2, <2>4
    <2>6. \E g : Solves(g, (n - 1) + 1)
      BY <1>1, <2>4, <2>5
    <2>7. (n - 1) + 1 = n
      BY <2>3
    <2>. QED  BY <2>6, <2>7
  <1>. DEFINE N == Cardinality(items)
              IsAfter(f) == f = [done \in SUBSET items |-> Step(f, done)]
  <1>4. Within(N) = SUBSET items
    <2>1. ASSUME NEW d \in SUBSET items PROVE Cardinality(d) <= N
      BY FS_Subset
    <2>. QED  BY <2>1
  <1>5. \E f : IsAfter(f)
    <2>1. N \in Nat
      BY FS_CardinalityType
    <2>2. PICK f : Solves(f, N)
      <3>. HIDE DEF Solves, N
      <3>. QED  BY <1>3, <2>1
    <2>. HIDE DEF Step, Within, N
    <2>. QED  BY <1>4, <2>2
  <1>6. After(u, from, items) = (CHOOSE f : IsAfter(f))[items]
    BY DEF After
  <1>. HIDE DEF IsAfter
  <1>7. IsAfter(CHOOSE f : IsAfter(f))
    BY <1>5
  <1>8. PICK f : f = CHOOSE g : IsAfter(g)
    OBVIOUS
  <1>9. IsAfter(f) /\ After(u, from, items) = f[items]
    BY <1>6, <1>7, <1>8
  <1>10. Leads(f, u, from, items)
    BY <1>9 DEF IsAfter, Leads
  <1>. QED  BY <1>9, <1>10

\* What a report may list: bearings that are on record and measurements.
Listed(i, ss) ==
    IF IsBearing(i) THEN i \in ss /\ i.kind = "bearing" ELSE Receivable(i, ss)

LEMMA HeardPart ==
    ASSUME FusionAssumption, tick \in Nat, NEW ss, Record(ss, tick),
           NEW u, NEW r, Part(u, r, ss, tick),
           NEW i, Listed(i, ss), NEW q \in Heard(u, r, i)
    PROVE  Part(u, q, ss, tick) /\ Grown(r, q, {i})
  <1>1. CASE IsBearing(i)
    <2>1. q \in ReceivedBearing(u, r, i)
      BY <1>1 DEF Heard
    <2>2. i \in ss /\ i.kind = "bearing"
      BY <1>1 DEF Listed
    <2>. QED  BY <2>1, <2>2, ReceivedBearingPart
  <1>2. CASE ~ IsBearing(i)
    <2>1. q \in Received(u, r, i, FALSE)
      BY <1>2 DEF Heard
    <2>2. Receivable(i, ss)
      BY <1>2 DEF Listed
    <2>. QED  BY <2>1, <2>2, ReceivedPart
  <1>. QED  BY <1>1, <1>2

\* Whatever the order of the items, a part of the Runtime stays one.
LEMMA AfterGrown ==
    ASSUME FusionAssumption, tick \in Nat, NEW ss, Record(ss, tick),
           NEW u, NEW from, \A r \in from : Part(u, r, ss, tick),
           NEW items, IsFiniteSet(items), \A i \in items : Listed(i, ss),
           NEW q \in After(u, from, items)
    PROVE  Part(u, q, ss, tick) /\ \E r \in from : Grown(r, q, items)
  <1>0. PICK f : Leads(f, u, from, items) /\ After(u, from, items) = f[items]
    BY AfterDefined
  <1>1. /\ After(u, from, items) = f[items]
        /\ f = [done \in SUBSET items |->
                   IF done = {} THEN from
                   ELSE UNION {UNION {Heard(u, r, i) : r \in f[done \ {i}]} : i \in done}]
    BY <1>0 DEF Leads
  <1>. DEFINE Suits(d) == \A s \in f[d] : /\ Part(u, s, ss, tick)
                                         /\ \E r \in from : Grown(r, s, d)
              Odd == {d \in SUBSET items : ~ Suits(d)}
              Sizes == {Cardinality(d) : d \in Odd}
  <1>2. Sizes \subseteq Nat
    <2>1. \A d \in SUBSET items : Cardinality(d) \in Nat
      BY FS_Subset, FS_CardinalityType
    <2>. HIDE DEF Suits
    <2>. QED  BY <2>1
  <1>3. Odd = {}
    <2>1. SUFFICES ASSUME Odd # {} PROVE FALSE
      OBVIOUS
    <2>2. PICK n \in Sizes : \A m \in Sizes : n <= m
      <3>1. Sizes # {}
        BY <2>1
      <3>. HIDE DEF Sizes
      <3>. QED  BY <3>1, <1>2, LeastElement
    <2>3. PICK d \in Odd : n = Cardinality(d)
      BY <2>2
    <2>4. d \in SUBSET items /\ IsFiniteSet(d) /\ n \in Nat
      BY <1>2, FS_Subset
    <2>5. ASSUME NEW i \in d PROVE Suits(d \ {i})
      <3>1. Cardinality(d \ {i}) = n - 1
        BY <2>3, <2>4, FS_RemoveElement
      <3>2. ~ n <= n - 1
        BY <2>4
      <3>3. d \ {i} \notin Odd
        BY <2>2, <3>1, <3>2
      <3>4. d \ {i} \in SUBSET items
        BY <2>4
      <3>. HIDE DEF Suits
      <3>. QED  BY <3>3, <3>4
    <2>6. ASSUME NEW s \in f[d]
          PROVE  Part(u, s, ss, tick) /\ \E r \in from : Grown(r, s, d)
      <3>1. CASE d = {}
        <4>1. f[d] = from
          BY <1>1, <2>4, <3>1
        <4>2. Grown(s, s, d)
          BY DEF Grown
        <4>. QED  BY <4>1, <4>2
      <3>2. CASE d # {}
        <4>1. f[d] = UNION {UNION {Heard(u, r, i) : r \in f[d \ {i}]} : i \in d}
          BY <1>1, <2>4, <3>2
        <4>2. PICK i \in d : \E r \in f[d \ {i}] : s \in Heard(u, r, i)
          BY <4>1
        <4>3. PICK p \in f[d \ {i}] : s \in Heard(u, p, i)
          BY <4>2
        <4>4. Part(u, p, ss, tick) /\ \E r \in from : Grown(r, p, d \ {i})
          BY <2>5
        <4>5. Listed(i, ss)
          BY <2>4
        <4>6. Part(u, s, ss, tick) /\ Grown(p, s, {i})
          BY <4>3, <4>4, <4>5, HeardPart
        <4>7. PICK r \in from : Grown(r, p, d \ {i})
          BY <4>4
        <4>8. Grown(r, s, (d \ {i}) \cup {i})
          BY <4>4, <4>6, <4>7, GrownOnwards
        <4>9. (d \ {i}) \cup {i} = d
          OBVIOUS
        <4>. QED  BY <4>6, <4>8, <4>9
      <3>. QED  BY <3>1, <3>2
    <2>7. Suits(d)
      BY <2>6
    <2>. QED  BY <2>7
  <1>4. Suits(items)
    <2>1. items \notin Odd /\ items \in SUBSET items
      BY <1>3
    <2>. HIDE DEF Suits
    <2>. QED  BY <2>1
  <1>5. q \in f[items]
    BY <1>1
  <1>. QED  BY <1>4, <1>5

--------------------------------------------------------------------------------
Known ==
    /\ known = [u \in Platform |-> known[u]]
    /\ \A u \in Platform : Part(u, known[u], sightings, tick)

\* A report on the way: what it lists is on record, and its estimates have ids apart.
OnRecord(m, ss, t) ==
    /\ m.from \in Platform /\ m.to \in Platform
    /\ IsFiniteSet(m.tracks) /\ IsFiniteSet(m.bearings)
    /\ \A c \in m.tracks :
           IsMeasurement(c) /\ Earned(c, ss, t) /\ DOMAIN c.id = {"at", "n"}
    /\ \A c, d \in m.tracks : c.id = d.id => c = d
    /\ \A b \in m.bearings : b \in ss /\ b.kind = "bearing"

\* What is remembered of a source is the newest of it there was, and what is no longer
\* remembered has expired.
Remembered(r, newest) ==
    /\ DOMAIN r.heads \subseteq DOMAIN newest
    /\ \A i \in DOMAIN newest :
           /\ newest[i] \in Nat
           /\ IF i \in DOMAIN r.heads THEN newest[i] = r.heads[i] ELSE tick - newest[i] > Expiry

\* A platform has seen its own fixes for as long as they are fresh.
OwnSeen(u, r, ss) ==
    \A o \in ss : o.by = u /\ o.kind = "fix" /\ Fresh(o.at) =>
        o \in DOMAIN r.seen /\ r.seen[o] = o.at

\* The inductive invariant.
FusionInv ==
    /\ tick \in Nat /\ Record(sightings, tick) /\ links \subseteq Platform \X Platform
    /\ Known
    /\ \A m \in wire : OnRecord(m, sightings, tick)
    /\ latest = [u \in Platform |-> latest[u]]
    /\ \A u \in Platform :
           /\ Remembered(known[u], latest[u])
           /\ OwnSeen(u, known[u], sightings)

LEMMA PartLater ==
    ASSUME NEW u, NEW r, NEW ss, NEW t \in Nat, Part(u, r, ss, t),
           NEW ss2, ss \subseteq ss2, NEW t2 \in Nat, t <= t2
    PROVE  Part(u, r, ss2, t2)
  <1>1. \A i : Named(i, ss) => Named(i, ss2)
    BY DEF Named
  <1>2. \A n \in Nat : n <= t => n <= t2
    OBVIOUS
  <1>3. \A c : Earned(c, ss, t) => Earned(c, ss2, t2)
    BY <1>2 DEF Earned
  <1>4. OwnTracks(u, r, ss2, t2)
    BY <1>3 DEF Part, OwnTracks
  <1>5. Memory(r, ss2, t2)
    BY <1>1, <1>2 DEF Part, Memory
  <1>. QED  BY <1>4, <1>5 DEF Part

LEMMA OnRecordLater ==
    ASSUME NEW m, NEW ss, NEW t \in Nat, OnRecord(m, ss, t),
           NEW ss2, ss \subseteq ss2, NEW t2 \in Nat, t <= t2
    PROVE  OnRecord(m, ss2, t2)
  <1>1. \A n \in Nat : n <= t => n <= t2
    OBVIOUS
  <1>2. \A c : Earned(c, ss, t) => Earned(c, ss2, t2)
    BY <1>1 DEF Earned
  <1>. QED  BY <1>2 DEF OnRecord

LEMMA LearnRemembered ==
    ASSUME NEW u, NEW ss, NEW r, NEW q, NEW items, tick \in Nat, FusionAssumption,
           Part(u, r, ss, tick), Part(u, q, ss, tick), Grown(r, q, items),
           NEW newest, Remembered(r, newest), NEW newer,
           newer = [i \in DOMAIN newest \cup DOMAIN q.heads |->
                       Max({newest[j] : j \in DOMAIN newest \cap {i}}
                           \cup {q.heads[j] : j \in DOMAIN q.heads \cap {i}})]
    PROVE  /\ Remembered(q, newer)
           /\ \A i \in DOMAIN q.heads \cap DOMAIN newest :
                 \/ i \in DOMAIN r.heads /\ q.heads[i] = r.heads[i]
                 \/ q.heads[i] > newest[i]
  <1>0. Expiry \in Nat
    BY DEF FusionAssumption
  <1>1. /\ \A i \in DOMAIN r.heads : r.heads[i] \in Nat
        /\ \A i \in DOMAIN q.heads : q.heads[i] \in Nat
    BY DEF Part, Memory
  <1>2. ASSUME NEW i \in DOMAIN q.heads, i \in DOMAIN newest
        PROVE  \/ i \in DOMAIN r.heads /\ q.heads[i] = r.heads[i] /\ newest[i] = q.heads[i]
               \/ q.heads[i] > newest[i]
    <2>1. CASE i \in DOMAIN r.heads
      <3>1. newest[i] = r.heads[i]
        BY <1>2, <2>1 DEF Remembered
      <3>. QED  BY <2>1, <3>1 DEF Grown
    <2>2. CASE i \notin DOMAIN r.heads
      <3>1. tick - newest[i] > Expiry /\ newest[i] \in Nat
        BY <1>2, <2>2 DEF Remembered
      <3>2. tick - q.heads[i] <= Expiry
        BY <2>2 DEF Grown, Fresh
      <3>. QED  BY <1>0, <1>1, <3>1, <3>2
    <2>. QED  BY <2>1, <2>2
  <1>3. DOMAIN newer = DOMAIN newest \cup DOMAIN q.heads
    OBVIOUS
  <1>4. ASSUME NEW i \in DOMAIN newer
        PROVE  /\ newer[i] \in Nat
               /\ IF i \in DOMAIN q.heads THEN newer[i] = q.heads[i]
                                          ELSE tick - newer[i] > Expiry
    <2>1. newer[i] = Max({newest[j] : j \in DOMAIN newest \cap {i}}
                         \cup {q.heads[j] : j \in DOMAIN q.heads \cap {i}})
      OBVIOUS
    <2>2. CASE i \in DOMAIN q.heads
      <3>. DEFINE S == {newest[j] : j \in DOMAIN newest \cap {i}}
                       \cup {q.heads[j] : j \in DOMAIN q.heads \cap {i}}
      <3>1. \A n \in S : n \in Nat /\ n <= q.heads[i]
        BY <1>1, <1>2, <2>2 DEF Remembered
      <3>2. q.heads[i] \in S /\ q.heads[i] \in Nat
        BY <1>1, <2>2
      <3>. HIDE DEF S
      <3>3. Max(S) \in S /\ \A n \in S : n <= Max(S)
        BY <3>1, <3>2, Greatest
      <3>4. Max(S) = q.heads[i]
        BY <3>1, <3>2, <3>3
      <3>. QED  BY <2>1, <2>2, <3>2, <3>4 DEF S
    <2>3. CASE i \notin DOMAIN q.heads
      <3>1. i \in DOMAIN newest /\ i \notin DOMAIN r.heads
        BY <2>3 DEF Grown
      <3>2. newest[i] \in Nat /\ tick - newest[i] > Expiry
        BY <3>1 DEF Remembered
      <3>3. newer[i] = Max({newest[i]})
        <4>1. {newest[j] : j \in DOMAIN newest \cap {i}} = {newest[i]}
          BY <3>1
        <4>2. {q.heads[j] : j \in DOMAIN q.heads \cap {i}} = {}
          BY <2>3
        <4>. QED  BY <2>1, <4>1, <4>2
      <3>4. Max({newest[i]}) \in {newest[i]}
        BY <3>2, Greatest
      <3>. QED  BY <2>3, <3>2, <3>3, <3>4
    <2>. QED  BY <2>2, <2>3
  <1>. QED  BY <1>2, <1>3, <1>4 DEF Remembered

LEMMA PrunedPart ==
    ASSUME FusionAssumption, tick \in Nat, NEW u, NEW r, NEW ss, Part(u, r, ss, tick),
           NEW newest, Remembered(r, newest), NEW t, t = tick + 1, NEW q, q = Pruned(r, t)
    PROVE  /\ Part(u, q, ss, t)
           /\ DOMAIN q.heads = {i \in DOMAIN r.heads : t - r.heads[i] <= Expiry}
           /\ \A i \in DOMAIN q.heads : q.heads[i] = r.heads[i]
           /\ DOMAIN q.seen = {o \in DOMAIN r.seen : t - r.seen[o] <= Expiry}
           /\ \A o \in DOMAIN q.seen : q.seen[o] = r.seen[o]
           /\ \A i \in DOMAIN newest \ DOMAIN q.heads : t - newest[i] > Expiry
  <1>. DEFINE H == Restrict(r.heads, {i \in DOMAIN r.heads : t - r.heads[i] <= Expiry})
              S == Restrict(r.seen, {o \in DOMAIN r.seen : t - r.seen[o] <= Expiry})
              T == {e \in r.tracks : t - e.observed <= Expiry}
              B == {b \in r.bearings : t - b.at <= BearingExpiry}
  <1>0. Expiry \in Nat
    BY DEF FusionAssumption
  <1>1. /\ IsPart(r) /\ r.next \in Nat /\ OwnTracks(u, r, ss, tick) /\ Memory(r, ss, tick)
        /\ r.bearings \subseteq {o \in ss : o.kind = "bearing"}
    BY DEF Part
  <1>2. q = [r EXCEPT !.heads = H, !.seen = S, !.tracks = T, !.bearings = B]
    <2>1. Pruned(r, t) = [r EXCEPT !.heads = H, !.seen = S, !.tracks = T, !.bearings = B]
      BY DEF Pruned
    <2>. QED  BY <2>1
  <1>3. /\ DOMAIN H = {i \in DOMAIN r.heads : t - r.heads[i] <= Expiry}
        /\ \A i \in DOMAIN H : H[i] = r.heads[i]
        /\ DOMAIN S = {o \in DOMAIN r.seen : t - r.seen[o] <= Expiry}
        /\ \A o \in DOMAIN S : S[o] = r.seen[o]
    BY DEF Restrict
  <1>4. T \subseteq r.tracks /\ B \subseteq r.bearings
    OBVIOUS
  <1>. HIDE DEF H, S, T, B
  <1>5. q = [tracks |-> T, heads |-> H, seen |-> S, bearings |-> B, next |-> r.next]
    BY <1>1, <1>2 DEF IsPart
  <1>6. /\ q.tracks = T /\ q.heads = H /\ q.seen = S /\ q.bearings = B /\ q.next = r.next
        /\ IsPart(q)
    BY <1>5 DEF IsPart
  <1>7. Memory(q, ss, tick)
    BY <1>1, <1>3, <1>6 DEF Memory
  <1>8. OwnTracks(u, q, ss, tick)
    BY <1>1, <1>4, <1>6, FS_Subset DEF OwnTracks
  <1>9. Part(u, q, ss, tick)
    BY <1>1, <1>4, <1>6, <1>7, <1>8 DEF Part
  <1>10. Part(u, q, ss, t)
    BY <1>9, PartLater
  <1>11. ASSUME NEW i \in DOMAIN newest \ DOMAIN q.heads
         PROVE  t - newest[i] > Expiry
    <2>1. newest[i] \in Nat
      BY DEF Remembered
    <2>2. CASE i \in DOMAIN r.heads
      <3>1. newest[i] = r.heads[i] /\ ~ t - r.heads[i] <= Expiry
        BY <1>3, <1>6, <2>2 DEF Remembered
      <3>. QED  BY <1>0, <2>1, <3>1
    <2>3. CASE i \notin DOMAIN r.heads
      <3>1. tick - newest[i] > Expiry
        BY <2>3 DEF Remembered
      <3>. QED  BY <1>0, <2>1, <3>1
    <2>. QED  BY <2>2, <2>3
  <1>. QED  BY <1>3, <1>6, <1>10, <1>11

LEMMA RemainsSeen ==
    ASSUME NEW u, NEW r, NEW q, NEW ss, NEW items, OwnSeen(u, r, ss), Grown(r, q, items)
    PROVE  OwnSeen(u, q, ss)
  BY DEF OwnSeen, Grown

\* A step that tells nobody anything.
LEMMA ToldNobody ==
    ASSUME FusionInv, UNCHANGED <<links, tick, sightings, known, latest>>,
           \A m \in wire' : m \in wire \/ OnRecord(m, sightings, tick)
    PROVE  FusionInv'
  <1>1. (tick \in Nat /\ Record(sightings, tick) /\ links \subseteq Platform \X Platform)'
    BY DEF FusionInv
  <1>2. Known'
    BY DEF FusionInv, Known
  <1>3. (\A m \in wire : OnRecord(m, sightings, tick))'
    BY DEF FusionInv
  <1>4. (latest = [u \in Platform |-> latest[u]])'
    BY DEF FusionInv
  <1>5. (\A u \in Platform : Remembered(known[u], latest[u]) /\ OwnSeen(u, known[u], sightings))'
    BY DEF FusionInv, Remembered, OwnSeen, Fresh
  <1>. QED  BY <1>1, <1>2, <1>3, <1>4, <1>5 DEF FusionInv

\* A step in which u learns something.
LEMMA LearnInv ==
    ASSUME FusionAssumption, FusionInv, NEW u \in Platform, NEW r, NEW items, Learn(u, r),
           UNCHANGED <<links, tick>>, wire' \subseteq wire,
           NEW ss, sightings' = ss, sightings \subseteq ss, Record(ss, tick),
           Part(u, r, ss, tick), Grown(known[u], r, items),
           \A v \in Platform \ {u} : OwnSeen(v, known[v], ss), OwnSeen(u, r, ss)
    PROVE  /\ FusionInv'
           /\ known'[u] = r /\ \A v \in Platform \ {u} : known'[v] = known[v]
           /\ \A i \in DOMAIN r.heads \cap DOMAIN latest[u] :
                 \/ i \in DOMAIN known[u].heads /\ r.heads[i] = known[u].heads[i]
                 \/ r.heads[i] > latest[u][i]
  <1>. DEFINE newer == [i \in DOMAIN latest[u] \cup DOMAIN r.heads |->
                       Max({latest[u][j] : j \in DOMAIN latest[u] \cap {i}}
                           \cup {r.heads[j] : j \in DOMAIN r.heads \cap {i}})]
  <1>1. /\ known = [v \in Platform |-> known[v]] /\ latest = [v \in Platform |-> latest[v]]
        /\ tick \in Nat
    BY DEF FusionInv, Known
  <1>2. /\ known' = [v \in Platform |-> IF v = u THEN r ELSE known[v]]
        /\ latest' = [v \in Platform |-> IF v = u THEN newer ELSE latest[v]]
    BY <1>1 DEF Learn
  <1>. HIDE DEF newer
  <1>3. /\ known'[u] = r /\ \A v \in Platform \ {u} : known'[v] = known[v]
        /\ latest'[u] = newer /\ \A v \in Platform \ {u} : latest'[v] = latest[v]
        /\ known' = [v \in Platform |-> known'[v]] /\ latest' = [v \in Platform |-> latest'[v]]
    BY <1>2
  <1>4. Part(u, known[u], ss, tick)
    BY <1>1, PartLater DEF FusionInv, Known
  <1>5. /\ Remembered(r, newer)
        /\ \A i \in DOMAIN r.heads \cap DOMAIN latest[u] :
                 \/ i \in DOMAIN known[u].heads /\ r.heads[i] = known[u].heads[i]
                 \/ r.heads[i] > latest[u][i]
    <2>1. Remembered(known[u], latest[u])
      BY DEF FusionInv
    <2>. QED  BY <1>1, <1>4, <2>1, LearnRemembered DEF newer
  <1>6. ASSUME NEW v \in Platform PROVE Part(v, known'[v], ss, tick)
    <2>1. CASE v = u
      BY <1>3, <2>1
    <2>2. CASE v # u
      BY <1>1, <1>3, <2>2, PartLater DEF FusionInv, Known
    <2>. QED  BY <2>1, <2>2
  <1>7. ASSUME NEW v \in Platform
        PROVE  Remembered(known'[v], latest'[v]) /\ OwnSeen(v, known'[v], ss)
    <2>1. CASE v = u
      BY <1>3, <1>5, <2>1
    <2>2. CASE v # u
      BY <1>3, <2>2 DEF FusionInv
    <2>. QED  BY <2>1, <2>2
  <1>8. \A m \in wire' : OnRecord(m, ss, tick)
    BY <1>1, OnRecordLater DEF FusionInv
  <1>9. FusionInv'
    <2>1. (tick \in Nat)' /\ Record(sightings, tick)' /\ (links \subseteq Platform \X Platform)'
      BY <1>1 DEF FusionInv
    <2>2. Known'
      BY <1>3, <1>6 DEF Known
    <2>3. (\A m \in wire : OnRecord(m, sightings, tick))'
      BY <1>8
    <2>4. (\A v \in Platform : Remembered(known[v], latest[v]) /\ OwnSeen(v, known[v], sightings))'
      BY <1>7 DEF Remembered, OwnSeen, Fresh
    <2>. QED  BY <1>3, <2>1, <2>2, <2>3, <2>4 DEF FusionInv
  <1>. QED  BY <1>3, <1>5, <1>9

LEMMA FusionInitInv ==
    ASSUME FusionAssumption, FusionInit
    PROVE  FusionInv
  <1>1. tick = 0 /\ sightings = {} /\ wire = {} /\ links \in Links
    BY DEF FusionInit
  <1>2. Record(sightings, tick) /\ links \subseteq Platform \X Platform
    BY <1>1, FS_EmptySet DEF Record, FusionAssumption
  <1>3. /\ known = [u \in Platform |-> known[u]] /\ latest = [u \in Platform |-> latest[u]]
        /\ \A u \in Platform : known[u] = Ignorant /\ DOMAIN latest[u] = {}
    BY DEF FusionInit
  <1>4. /\ Ignorant.tracks = {} /\ DOMAIN Ignorant.heads = {} /\ DOMAIN Ignorant.seen = {}
        /\ Ignorant.bearings = {} /\ Ignorant.next = 1 /\ IsPart(Ignorant)
    BY DEF Ignorant, IsPart
  <1>5. ASSUME NEW u PROVE Part(u, Ignorant, sightings, tick)
    BY <1>4, FS_EmptySet DEF Part, OwnTracks, Memory
  <1>6. ASSUME NEW u \in Platform
        PROVE  Remembered(known[u], latest[u]) /\ OwnSeen(u, known[u], sightings)
    BY <1>1, <1>3, <1>4 DEF Remembered, OwnSeen
  <1>. QED  BY <1>1, <1>2, <1>3, <1>5, <1>6 DEF FusionInv, Known

LEMMA BeginInv ==
    ASSUME FusionAssumption, FusionInv, Begin
    PROVE  /\ FusionInv'
           /\ \A u \in Platform : \A i \in DOMAIN known'[u].heads :
                 i \in DOMAIN known[u].heads /\ known'[u].heads[i] = known[u].heads[i]
  <1>1. /\ tick \in Nat /\ Record(sightings, tick) /\ links \subseteq Platform \X Platform
        /\ \A u \in Platform : Part(u, known[u], sightings, tick)
        /\ \A m \in wire : OnRecord(m, sightings, tick)
        /\ \A u \in Platform : Remembered(known[u], latest[u]) /\ OwnSeen(u, known[u], sightings)
    BY DEF FusionInv, Known
  <1>2. PICK t : t = tick + 1
    OBVIOUS
  <1>3. /\ tick' = t /\ t \in Nat /\ tick <= t
        /\ UNCHANGED <<links, sightings, wire, latest>>
        /\ known' = [u \in Platform |-> Pruned(known[u], t)]
    BY <1>1, <1>2 DEF Begin
  <1>4. \A u \in Platform : known'[u] = Pruned(known[u], t)
    BY <1>3
  <1>5. ASSUME NEW u \in Platform
        PROVE  /\ Part(u, known'[u], sightings, t)
               /\ \A i \in DOMAIN known'[u].heads :
                     i \in DOMAIN known[u].heads /\ known'[u].heads[i] = known[u].heads[i]
               /\ DOMAIN known'[u].seen = {o \in DOMAIN known[u].seen :
                                              t - known[u].seen[o] <= Expiry}
               /\ \A o \in DOMAIN known'[u].seen : known'[u].seen[o] = known[u].seen[o]
               /\ \A i \in DOMAIN latest[u] \ DOMAIN known'[u].heads : t - latest[u][i] > Expiry
    <2>1. PICK q : q = Pruned(known[u], t)
      OBVIOUS
    <2>2. /\ Part(u, q, sightings, t)
          /\ DOMAIN q.heads = {i \in DOMAIN known[u].heads : t - known[u].heads[i] <= Expiry}
          /\ \A i \in DOMAIN q.heads : q.heads[i] = known[u].heads[i]
          /\ DOMAIN q.seen = {o \in DOMAIN known[u].seen : t - known[u].seen[o] <= Expiry}
          /\ \A o \in DOMAIN q.seen : q.seen[o] = known[u].seen[o]
          /\ \A i \in DOMAIN latest[u] \ DOMAIN q.heads : t - latest[u][i] > Expiry
      <3>1. Part(u, known[u], sightings, tick) /\ Remembered(known[u], latest[u]) /\ tick \in Nat
        BY <1>1
      <3>. QED  BY <1>2, <2>1, <3>1, PrunedPart
    <2>3. known'[u] = q
      BY <1>4, <2>1
    <2>. QED  BY <2>2, <2>3
  <1>6. ASSUME NEW u \in Platform
        PROVE  (Remembered(known[u], latest[u]))'
    <2>1. ASSUME NEW i \in DOMAIN latest[u], i \in DOMAIN known'[u].heads
          PROVE  latest[u][i] = known'[u].heads[i]
      BY <1>1, <1>5, <2>1 DEF Remembered
    <2>2. DOMAIN known'[u].heads \subseteq DOMAIN latest[u]
      BY <1>1, <1>5 DEF Remembered
    <2>3. \A i \in DOMAIN latest[u] : latest[u][i] \in Nat
      BY <1>1 DEF Remembered
    <2>. QED  BY <1>3, <1>5, <2>1, <2>2, <2>3 DEF Remembered
  <1>7. ASSUME NEW u \in Platform
        PROVE  (OwnSeen(u, known[u], sightings))'
    <2>1. SUFFICES ASSUME NEW o \in sightings, o.by = u, o.kind = "fix", t - o.at <= Expiry
                   PROVE  o \in DOMAIN known'[u].seen /\ known'[u].seen[o] = o.at
      BY <1>3 DEF OwnSeen, Fresh
    <2>2. o.at \in Nat /\ Expiry \in Nat
      BY <1>1 DEF Record, Made, FusionAssumption
    <2>3. tick - o.at <= Expiry
      BY <1>1, <1>2, <2>1, <2>2
    <2>4. o \in DOMAIN known[u].seen /\ known[u].seen[o] = o.at
      BY <1>1, <2>1, <2>3 DEF OwnSeen, Fresh
    <2>. QED  BY <1>5, <2>1, <2>4
  <1>8. Record(sightings, t)
    <2>1. \A n \in Nat : n <= tick => n <= t
      BY <1>1, <1>2
    <2>. QED  BY <1>1, <2>1 DEF Record, Made
  <1>9. \A m \in wire : OnRecord(m, sightings, t)
    BY <1>1, <1>3, OnRecordLater
  <1>10. Known'
    BY <1>3, <1>4, <1>5 DEF Known
  <1>11. (latest = [u \in Platform |-> latest[u]])'
    BY <1>3 DEF FusionInv
  <1>12. (tick \in Nat /\ Record(sightings, tick) /\ links \subseteq Platform \X Platform)'
    BY <1>1, <1>3, <1>8
  <1>13. (\A m \in wire : OnRecord(m, sightings, tick))'
    BY <1>3, <1>9
  <1>14. FusionInv'
    BY <1>6, <1>7, <1>10, <1>11, <1>12, <1>13 DEF FusionInv
  <1>. QED  BY <1>5, <1>14

\* What a step may do to the watermarks, by OlderNeverReplacesNewer.
HeadsRise ==
    \A u \in Platform : \A i \in DOMAIN known'[u].heads \cap DOMAIN latest[u] :
        \/ i \in DOMAIN known[u].heads /\ known'[u].heads[i] = known[u].heads[i]
        \/ known'[u].heads[i] > latest[u][i]

\* A platform that learns nothing keeps its watermarks.
LEMMA OneRises ==
    ASSUME FusionInv, NEW u, NEW r, known'[u] = r,
           \A v \in Platform \ {u} : known'[v] = known[v],
           \A i \in DOMAIN r.heads \cap DOMAIN latest[u] :
                 \/ i \in DOMAIN known[u].heads /\ r.heads[i] = known[u].heads[i]
                 \/ r.heads[i] > latest[u][i]
    PROVE  HeadsRise
  <1>1. ASSUME NEW v \in Platform, NEW i \in DOMAIN known'[v].heads \cap DOMAIN latest[v]
        PROVE  \/ i \in DOMAIN known[v].heads /\ known'[v].heads[i] = known[v].heads[i]
               \/ known'[v].heads[i] > latest[v][i]
    <2>1. CASE v = u
      BY <2>1
    <2>2. CASE v # u
      BY <2>2
    <2>. QED  BY <2>1, <2>2
  <1>. QED  BY <1>1 DEF HeadsRise

LEMMA SenseInv ==
    ASSUME FusionAssumption, FusionInv, NEW u \in Platform, NEW x, NEW kind \in {"fix", "bearing"},
           Sense(u, x, kind)
    PROVE  FusionInv' /\ HeadsRise
  <1>. DEFINE o == [by |-> u, of |-> x, at |-> tick, kind |-> kind]
              c == [id |-> o, obs |-> {o}, made |-> {o}, observed |-> tick, estimated |-> tick]
              ss == sightings \cup {o}
  <1>1. /\ tick \in Nat /\ Record(sightings, tick) /\ Expiry \in Nat
        /\ \A v \in Platform : Part(v, known[v], sightings, tick)
        /\ \A v \in Platform : OwnSeen(v, known[v], sightings)
    BY DEF FusionInv, Known, FusionAssumption
  <1>2. /\ o \notin sightings /\ sightings' = ss
        /\ UNCHANGED <<links, tick, wire>>
    BY DEF Sense
  <1>3. /\ o.by = u /\ o.at = tick /\ o.kind = kind /\ DOMAIN o = {"by", "of", "at", "kind"}
        /\ c.id = o /\ c.obs = {o} /\ c.made = {o} /\ c.observed = tick
    OBVIOUS
  <1>4. Receivable(c, ss)
    <2>1. IsMeasurement(c)
      BY <1>1 DEF IsMeasurement
    <2>2. Earned(c, ss, tick)
      <3>1. o \in {o} /\ o.at = c.observed /\ {o} \subseteq ss /\ c.observed \in Nat
            /\ c.observed <= tick
        BY <1>1, <1>3
      <3>. HIDE DEF o, c, ss
      <3>. QED  BY <1>3, <3>1 DEF Earned
    <2>3. Named(c.id, ss)
      BY <1>3 DEF Named
    <2>. QED  BY <2>1, <2>2, <2>3 DEF Receivable
  <1>5. PICK r : /\ Learn(u, r)
                 /\ r \in IF kind = "fix" THEN Received(u, known[u], c, TRUE)
                          ELSE ReceivedBearing(u, known[u], o)
    BY DEF Sense
  <1>. HIDE DEF o, c
  <1>6. Record(ss, tick)
    BY <1>1, <1>3, FS_AddElement DEF Record, Made
  <1>7. Part(u, known[u], ss, tick)
    BY <1>1, PartLater
  <1>8. o \notin DOMAIN known[u].heads /\ o \notin DOMAIN known[u].seen
        /\ \A e \in known[u].tracks : o \notin e.obs
    <2>1. Part(u, known[u], sightings, tick)
      BY <1>1
    <2>2. \A e \in known[u].tracks : e.obs \subseteq sightings
      BY <2>1 DEF Part, OwnTracks, Earned
    <2>3. DOMAIN known[u].seen \subseteq sightings
      BY <2>1 DEF Part, Memory
    <2>4. ~ Named(o, sightings)
      <3>1. "by" \in DOMAIN o /\ "by" \notin {"at", "n"} /\ "by" \notin {"fix", "of"}
        BY <1>3
      <3>. QED  BY <1>2, <3>1 DEF Named
    <2>5. \A i \in DOMAIN known[u].heads : Named(i, sightings)
      BY <2>1 DEF Part, Memory
    <2>. QED  BY <1>2, <2>2, <2>3, <2>4, <2>5
  <1>9. Part(u, r, ss, tick) /\ Grown(known[u], r, {c})
    <2>1. CASE kind = "fix"
      <3>1. r \in Received(u, known[u], c, TRUE)
        BY <1>5, <2>1
      <3>2. c.id \notin DOMAIN known[u].heads
        BY <1>3, <1>8
      <3>. QED  BY <1>1, <1>4, <1>6, <1>7, <3>1, <3>2, ReceivedPart
    <2>2. CASE kind = "bearing"
      <3>1. r \in ReceivedBearing(u, known[u], o) /\ o \in ss /\ o.kind = "bearing"
        BY <1>3, <1>5, <2>2
      <3>. QED  BY <1>1, <1>6, <1>7, <3>1, ReceivedBearingPart
    <2>. QED  BY <2>1, <2>2
  <1>10. ASSUME kind = "fix" PROVE o \in DOMAIN r.seen /\ r.seen[o] = tick
    <2>1. IsNews(known[u], c, TRUE)
      <3>1. tick - tick <= Expiry /\ tick <= tick
        BY <1>1
      <3>. QED  BY <1>3, <1>8, <3>1 DEF IsNews, Fresh, c
    <2>2. r \in {Opened(known[u], c, TRUE, u)}
                \cup {Fused(known[u], c, TRUE, e) : e \in Candidates(known[u], c)}
      BY <1>5, <1>10, <2>1 DEF Received
    <2>. DEFINE T == Taken(known[u], c)
    <2>3. /\ IsPart(known[u]) /\ "seen" \in DOMAIN T
          /\ T.seen = [p \in DOMAIN known[u].seen \cup c.obs |->
                          IF p \in DOMAIN known[u].seen THEN known[u].seen[p] ELSE c.observed]
      <3>1. IsPart(known[u])
        BY <1>7 DEF Part
      <3>. QED  BY <3>1 DEF Taken, IsPart
    <2>4. r.seen = T.seen
      <3>. HIDE DEF T
      <3>1. ASSUME r = Opened(known[u], c, TRUE, u) PROVE r.seen = T.seen
        BY <2>3, <3>1 DEF Opened, T
      <3>2. ASSUME NEW e, r = Fused(known[u], c, TRUE, e) PROVE r.seen = T.seen
        BY <2>3, <3>2 DEF Fused, T
      <3>. QED  BY <2>2, <3>1, <3>2
    <2>5. o \in DOMAIN T.seen /\ T.seen[o] = tick
      BY <1>3, <1>8, <2>3
    <2>. QED  BY <2>4, <2>5
  <1>11. OwnSeen(u, r, ss)
    <2>1. OwnSeen(u, r, sightings)
      BY <1>1, <1>9, RemainsSeen
    <2>. QED  BY <1>3, <1>10, <2>1 DEF OwnSeen
  <1>12. \A v \in Platform \ {u} : OwnSeen(v, known[v], ss)
    BY <1>1, <1>3 DEF OwnSeen
  <1>13. /\ FusionInv' /\ known'[u] = r
         /\ \A v \in Platform \ {u} : known'[v] = known[v]
         /\ \A i \in DOMAIN r.heads \cap DOMAIN latest[u] :
                 \/ i \in DOMAIN known[u].heads /\ r.heads[i] = known[u].heads[i]
                 \/ r.heads[i] > latest[u][i]
    <2>1. PICK s : s = ss
      OBVIOUS
    <2>2. sightings' = s /\ sightings \subseteq s /\ wire' \subseteq wire
      BY <1>2, <2>1
    <2>3. /\ Record(s, tick) /\ Part(u, r, s, tick) /\ OwnSeen(u, r, s)
          /\ \A v \in Platform \ {u} : OwnSeen(v, known[v], s)
      BY <1>6, <1>9, <1>11, <1>12, <2>1
    <2>4. UNCHANGED <<links, tick>> /\ Learn(u, r) /\ Grown(known[u], r, {c})
      BY <1>2, <1>5, <1>9
    <2>. HIDE DEF ss
    <2>. QED  BY <2>2, <2>3, <2>4, LearnInv
  <1>. QED  BY <1>13, OneRises

LEMMA DeliverInv ==
    ASSUME FusionAssumption, FusionInv, NEW m \in wire, Deliver(m)
    PROVE  /\ FusionInv' /\ HeadsRise
           /\ wire \ wire' = {m}
           /\ Grown(known[m.to], known'[m.to], m.bearings \cup m.tracks)
  <1>. DEFINE u == m.to
              k == known[u]
  <1>1. /\ tick \in Nat /\ Record(sightings, tick) /\ u \in Platform
        /\ Part(u, k, sightings, tick) /\ OnRecord(m, sightings, tick)
        /\ \A v \in Platform : OwnSeen(v, known[v], sightings)
    BY DEF FusionInv, Known, OnRecord
  <1>2. PICK r \in After(u, After(u, {k}, m.bearings), m.tracks) : Learn(u, r)
    BY DEF Deliver
  <1>3. UNCHANGED <<links, tick, sightings>> /\ wire' = wire \ {m}
    BY DEF Deliver
  <1>. HIDE DEF u, k
  <1>4. \A b \in m.bearings : Listed(b, sightings)
    <2>1. ASSUME NEW b \in m.bearings PROVE Listed(b, sightings)
      <3>1. b \in sightings /\ b.kind = "bearing"
        BY <1>1 DEF OnRecord
      <3>2. IsBearing(b)
        BY <1>1, <3>1 DEF Record, Made, IsBearing
      <3>. QED  BY <3>1, <3>2 DEF Listed
    <2>. QED  BY <2>1
  <1>5. \A c \in m.tracks : Listed(c, sightings)
    <2>1. ASSUME NEW c \in m.tracks PROVE Listed(c, sightings)
      <3>1. IsMeasurement(c) /\ Earned(c, sightings, tick) /\ DOMAIN c.id = {"at", "n"}
        BY <1>1 DEF OnRecord
      <3>2. ~ IsBearing(c)
        BY <3>1 DEF IsMeasurement, IsBearing
      <3>3. Receivable(c, sightings)
        BY <3>1 DEF Receivable, Named
      <3>. QED  BY <3>2, <3>3 DEF Listed
    <2>. QED  BY <2>1
  <1>6. IsFiniteSet(m.bearings) /\ IsFiniteSet(m.tracks)
    BY <1>1 DEF OnRecord
  <1>. DEFINE middle == After(u, {k}, m.bearings)
  <1>7. \A s \in middle : Part(u, s, sightings, tick) /\ Grown(k, s, m.bearings)
    <2>1. \A s \in {k} : Part(u, s, sightings, tick)
      BY <1>1
    <2>2. \A s \in middle : Part(u, s, sightings, tick) /\ \E p \in {k} : Grown(p, s, m.bearings)
      BY <1>1, <1>4, <1>6, <2>1, AfterGrown
    <2>. QED  BY <2>2
  <1>. HIDE DEF middle
  <1>8. Part(u, r, sightings, tick) /\ \E s \in middle : Grown(s, r, m.tracks)
    <2>1. r \in After(u, middle, m.tracks)
      BY <1>2 DEF middle
    <2>2. \A s \in middle : Part(u, s, sightings, tick)
      BY <1>7
    <2>. QED  BY <1>1, <1>5, <1>6, <2>1, <2>2, AfterGrown
  <1>9. Grown(k, r, m.bearings \cup m.tracks)
    <2>1. PICK s \in middle : Grown(s, r, m.tracks)
      BY <1>8
    <2>. QED  BY <1>1, <1>7, <1>8, <2>1, GrownOnwards
  <1>10. OwnSeen(u, r, sightings)
    BY <1>1, <1>9, RemainsSeen DEF k
  <1>11. /\ FusionInv' /\ known'[u] = r
         /\ \A v \in Platform \ {u} : known'[v] = known[v]
         /\ \A i \in DOMAIN r.heads \cap DOMAIN latest[u] :
                 \/ i \in DOMAIN known[u].heads /\ r.heads[i] = known[u].heads[i]
                 \/ r.heads[i] > latest[u][i]
    <2>1. PICK s : s = sightings
      OBVIOUS
    <2>2. sightings' = s /\ sightings \subseteq s /\ wire' \subseteq wire
      BY <1>3, <2>1
    <2>3. Grown(known[u], r, m.bearings \cup m.tracks)
      BY <1>9 DEF k
    <2>4. /\ Record(s, tick) /\ Part(u, r, s, tick) /\ OwnSeen(u, r, s)
          /\ \A v \in Platform \ {u} : OwnSeen(v, known[v], s)
      BY <1>1, <1>8, <1>10, <2>1
    <2>5. UNCHANGED <<links, tick>> /\ Learn(u, r) /\ u \in Platform
      BY <1>1, <1>2, <1>3
    <2>. QED  BY <2>2, <2>3, <2>4, <2>5, LearnInv
  <1>12. HeadsRise
    BY <1>11, OneRises
  <1>13. wire \ wire' = {m}
    BY <1>3
  <1>. QED  BY <1>9, <1>11, <1>12, <1>13 DEF u, k

\* What a platform reports of its estimates.
LEMMA ReportedTracks ==
    ASSUME FusionAssumption, FusionInv, NEW u \in Platform
    PROVE  /\ IsFiniteSet(TracksFor(u))
           /\ \A c \in TracksFor(u) :
                 IsMeasurement(c) /\ Earned(c, sightings, tick) /\ DOMAIN c.id = {"at", "n"}
           /\ \A c, d \in TracksFor(u) : c.id = d.id => c = d
  <1>. DEFINE r == known[u]
              S == {e \in r.tracks : Fresh(e.observed)}
              rep(e) == AsReport(r, e)
  <1>1. tick \in Nat /\ Record(sightings, tick) /\ Part(u, r, sightings, tick) /\ Sent \in Nat
    BY DEF FusionInv, Known, FusionAssumption
  <1>. HIDE DEF r
  <1>2. TracksFor(u) = {rep(e) : e \in S}
    BY DEF TracksFor, r
  <1>3. ASSUME NEW e \in r.tracks
        PROVE  /\ IsMeasurement(rep(e)) /\ Earned(rep(e), sightings, tick)
               /\ DOMAIN rep(e).id = {"at", "n"} /\ rep(e).id = e.id
    <2>1. IsEstimate(e) /\ Earned(e, sightings, tick) /\ e.id = [at |-> u, n |-> e.id.n]
      BY <1>1 DEF Part, OwnTracks
    <2>. DEFINE obs == Newest(r, e.obs, Sent)
    <2>2. obs \subseteq e.obs
      <3>1. IsFiniteSet(e.obs) /\ \A o \in e.obs : o.at \in Nat /\ o.at <= tick
        BY <1>1, <2>1, FS_Subset DEF Earned, Record, Made
      <3>2. \A o \in DOMAIN r.seen : r.seen[o] \in Nat /\ r.seen[o] <= tick
        BY <1>1 DEF Part, Memory
      <3>. QED  BY <1>1, <3>1, <3>2, NewestIsPart
    <2>3. rep(e) = [id |-> e.id, obs |-> obs, made |-> e.made, observed |-> e.observed,
                    estimated |-> tick]
      BY DEF AsReport
    <2>. HIDE DEF obs, rep
    <2>4. /\ rep(e).id = e.id /\ rep(e).obs = obs /\ rep(e).made = e.made
          /\ rep(e).observed = e.observed /\ rep(e).estimated = tick
      BY <2>3
    <2>5. IsMeasurement(rep(e))
      BY <1>1, <2>3, <2>4 DEF IsMeasurement
    <2>6. Earned(rep(e), sightings, tick)
      BY <2>1, <2>2, <2>4 DEF Earned
    <2>7. DOMAIN e.id = {"at", "n"}
      BY <2>1
    <2>. QED  BY <2>4, <2>5, <2>6, <2>7
  <1>4. IsFiniteSet(TracksFor(u))
    <2>1. IsFiniteSet(S)
      BY <1>1, FS_Subset DEF Part, OwnTracks
    <2>. HIDE DEF S, rep
    <2>. DEFINE f == [e \in S |-> rep(e)]
                T == {rep(e) : e \in S}
    <2>2. f \in [S -> T] /\ \A t \in T : \E e \in S : f[e] = t
      OBVIOUS
    <2>3. f \in Surjection(S, T)
      BY <2>2 DEF Surjection
    <2>4. IsFiniteSet(T)
      BY <2>1, <2>3, FS_Surjection
    <2>. QED  BY <1>2, <2>4
  <1>5. \A e, f \in r.tracks : e.id = f.id => e = f
    BY <1>1 DEF Part, OwnTracks
  <1>. HIDE DEF rep
  <1>6. ASSUME NEW c \in TracksFor(u), NEW d \in TracksFor(u), c.id = d.id PROVE c = d
    <2>1. PICK e \in r.tracks : c = rep(e)
      BY <1>2
    <2>2. PICK f \in r.tracks : d = rep(f)
      BY <1>2
    <2>3. e.id = f.id
      BY <1>3, <1>6, <2>1, <2>2
    <2>. QED  BY <1>5, <2>1, <2>2, <2>3
  <1>7. \A c \in TracksFor(u) :
            IsMeasurement(c) /\ Earned(c, sightings, tick) /\ DOMAIN c.id = {"at", "n"}
    BY <1>2, <1>3
  <1>. QED  BY <1>4, <1>6, <1>7

LEMMA ReportedBearings ==
    ASSUME FusionAssumption, FusionInv, NEW u \in Platform
    PROVE  /\ IsFiniteSet(CurrentBearings(u))
           /\ \A b \in CurrentBearings(u) : b \in sightings /\ b.kind = "bearing"
  <1>1. Part(u, known[u], sightings, tick) /\ IsFiniteSet(sightings)
    BY DEF FusionInv, Known, Record
  <1>2. CurrentBearings(u) \subseteq {o \in sightings : o.kind = "bearing"}
    BY <1>1 DEF CurrentBearings, Part
  <1>3. CurrentBearings(u) \subseteq sightings
    BY <1>2
  <1>. QED  BY <1>1, <1>2, <1>3, FS_Subset

LEMMA BroadcastInv ==
    ASSUME FusionAssumption, FusionInv, Broadcast
    PROVE  FusionInv'
  <1>1. UNCHANGED <<links, tick, sightings, known, latest>>
    BY DEF Broadcast
  <1>2. ASSUME NEW p \in links PROVE OnRecord(LinkReport(p), sightings, tick)
    <2>1. p[1] \in Platform /\ p[2] \in Platform
      BY DEF FusionInv
    <2>2. /\ LinkReport(p).from = p[1] /\ LinkReport(p).to = p[2]
          /\ LinkReport(p).tracks = TracksFor(p[1])
          /\ LinkReport(p).bearings = CurrentBearings(p[1])
      BY DEF LinkReport
    <2>. QED  BY <2>1, <2>2, ReportedTracks, ReportedBearings DEF OnRecord
  <1>3. \A m \in wire' : m \in wire \/ \E p \in links : m = LinkReport(p)
    BY DEF Broadcast
  <1>4. \A m \in wire' : m \in wire \/ OnRecord(m, sightings, tick)
    BY <1>2, <1>3
  <1>. QED  BY <1>1, <1>4, ToldNobody

LEMMA NoteOnRecord ==
    ASSUME FusionAssumption, FusionInv, NEW p \in Route, NEW a, NEW d \in Due(p, a)
    PROVE  OnRecord(d.note, sightings, tick)
  <1>1. p[1] \in Platform /\ p[2] \in Platform
    BY DEF FusionAssumption
  <1>2. /\ IsFiniteSet({})
        /\ \A c : IsFiniteSet({c})
    BY FS_EmptySet, FS_AddElement
  <1>3. ASSUME NEW ts, NEW bs, NEW w,
               ts = {} \/ \E c \in TracksFor(p[1]) : ts = {c},
               bs = {} \/ \E b \in CurrentBearings(p[1]) : bs = {b}
        PROVE  OnRecord(Note(p, ts, bs, w), sightings, tick)
    <2>1. /\ Note(p, ts, bs, w).from = p[1]
          /\ Note(p, ts, bs, w).to = p[2]
          /\ Note(p, ts, bs, w).tracks = ts
          /\ Note(p, ts, bs, w).bearings = bs
      BY DEF Note
    <2>2. IsFiniteSet(ts) /\ IsFiniteSet(bs)
      BY <1>2, <1>3
    <2>3. ts \subseteq TracksFor(p[1]) /\ bs \subseteq CurrentBearings(p[1])
      BY <1>3
    <2>. QED  BY <1>1, <2>1, <2>2, <2>3, ReportedTracks, ReportedBearings DEF OnRecord
  <1>4. CurrentTracks(p[1]) \subseteq TracksFor(p[1])
    BY DEF CurrentTracks
  <1>5. \/ \E c \in CurrentTracks(p[1]) : d = [key |-> c.id, note |-> Note(p, {c}, {}, FALSE)]
        \/ d = [key |-> [air |-> p[1]], note |-> Note(p, {}, {}, TRUE)]
        \/ \E b \in CurrentBearings(p[1]) : d = [key |-> b, note |-> Note(p, {}, {b}, FALSE)]
    BY DEF Due
  <1>6. \/ \E c \in CurrentTracks(p[1]) : d.note = Note(p, {c}, {}, FALSE)
        \/ d.note = Note(p, {}, {}, TRUE)
        \/ \E b \in CurrentBearings(p[1]) : d.note = Note(p, {}, {b}, FALSE)
    <2>1. ASSUME NEW k, NEW n, d = [key |-> k, note |-> n] PROVE d.note = n
      BY <2>1
    <2>. QED  BY <1>5, <2>1
  <1>. QED  BY <1>3, <1>4, <1>6

LEMMA ServeInv ==
    ASSUME FusionAssumption, FusionInv, SendCurrentReports
    PROVE  FusionInv'
  <1>1. UNCHANGED <<links, tick, sightings, known, latest>>
    BY DEF SendCurrentReports
  <1>2. \A m \in wire' : m \in wire \/ \E p \in Route : \E a : \E d \in Due(p, a) : m = d.note
    <2>. DEFINE recent(p) ==
                  Restrict(attempts[p], {k \in DOMAIN attempts[p] : Fresh(attempts[p][k])})
                due == [p \in Route |-> IF links # {} \/ Pending(p) THEN {} ELSE Due(p, recent(p))]
    <2>1. PICK out \in SUBSET UNION {{d.note : d \in due[p]} : p \in Route} : wire' = wire \cup out
      BY DEF SendCurrentReports
    <2>2. \A p \in Route : due[p] \subseteq Due(p, recent(p))
      OBVIOUS
    <2>. HIDE DEF due, recent
    <2>3. ASSUME NEW m \in out
          PROVE  \E p \in Route : \E d \in Due(p, recent(p)) : m = d.note
      BY <2>1, <2>2
    <2>. QED  BY <2>1, <2>3
  <1>3. \A m \in wire' : m \in wire \/ OnRecord(m, sightings, tick)
    BY <1>2, NoteOnRecord
  <1>. QED  BY <1>1, <1>3, ToldNobody

LEMMA FusionInvStep ==
    ASSUME FusionAssumption, FusionInv, [FusionNext]_fusionVars
    PROVE  FusionInv' /\ HeadsRise
  <1>1. ASSUME known' = known PROVE HeadsRise
    BY <1>1 DEF HeadsRise
  <1>2. CASE Begin
    <2>1. HeadsRise
      BY <1>2, BeginInv DEF HeadsRise
    <2>. QED  BY <1>2, <2>1, BeginInv
  <1>3. ASSUME NEW u \in Platform, NEW x \in Target, Detect(u, x) PROVE FusionInv' /\ HeadsRise
    BY <1>3, SenseInv DEF Detect
  <1>4. ASSUME NEW u \in Platform, NEW x \in Target, TakeBearing(u, x)
        PROVE  FusionInv' /\ HeadsRise
    BY <1>4, SenseInv DEF TakeBearing
  <1>5. ASSUME NEW m \in wire, Deliver(m) PROVE FusionInv' /\ HeadsRise
    BY <1>5, DeliverInv
  <1>6. ASSUME NEW m \in wire, LoseReport(m) PROVE FusionInv' /\ HeadsRise
    <2>1. UNCHANGED <<links, tick, sightings, known, latest>> /\ wire' \subseteq wire
      BY <1>6 DEF LoseReport
    <2>. QED  BY <1>1, <2>1, ToldNobody
  <1>7. ASSUME NEW p \in unsettled, Settle(p) PROVE FusionInv' /\ HeadsRise
    <2>1. UNCHANGED <<links, tick, sightings, known, latest, wire>>
      BY <1>7 DEF Settle
    <2>. QED  BY <1>1, <2>1, ToldNobody
  <1>8. CASE Broadcast
    <2>1. known' = known
      BY <1>8 DEF Broadcast
    <2>. QED  BY <1>1, <1>8, <2>1, BroadcastInv
  <1>9. CASE SendCurrentReports
    <2>1. known' = known
      BY <1>9 DEF SendCurrentReports
    <2>. QED  BY <1>1, <1>9, <2>1, ServeInv
  <1>10. CASE UNCHANGED fusionVars
    <2>1. UNCHANGED <<links, tick, sightings, known, latest, wire>>
      BY <1>10 DEF fusionVars
    <2>. QED  BY <1>1, <2>1, ToldNobody
  <1>. QED  BY <1>2, <1>3, <1>4, <1>5, <1>6, <1>7, <1>8, <1>9, <1>10 DEF FusionNext

LEMMA FusionInvAlways == FusionSpec => []FusionInv
  <1>1. FusionInit => FusionInv
    BY FusionAssumption, FusionInitInv
  <1>2. FusionInv /\ [FusionNext]_fusionVars => FusionInv'
    BY FusionAssumption, FusionInvStep
  <1>. QED  BY <1>1, <1>2, PTL DEF FusionSpec

\* FreshnessIsEarned: nothing a platform knows of or reports looks seen later than a
\* sighting it was made of, however often it was relayed, predicted and fused.
THEOREM FreshnessIsEarnedHolds == FusionSpec => []FreshnessIsEarned
  <1>1. FusionInv => FreshnessIsEarned
    <2>1. SUFFICES ASSUME FusionInv PROVE FreshnessIsEarned
      OBVIOUS
    <2>2. ASSUME NEW c, Earned(c, sightings, tick)
          PROVE  \E o \in c.made \cap sightings : o.at = c.observed
      BY <2>2 DEF Earned
    <2>3. ASSUME NEW u \in Platform, NEW e \in known[u].tracks
          PROVE  Earned(e, sightings, tick)
      BY <2>1 DEF FusionInv, Known, Part, OwnTracks
    <2>4. ASSUME NEW m \in wire, NEW c \in m.tracks PROVE Earned(c, sightings, tick)
      BY <2>1 DEF FusionInv, OnRecord
    <2>. QED  BY <2>2, <2>3, <2>4 DEF FreshnessIsEarned
  <1>. QED  BY <1>1, FusionInvAlways, PTL

\* OlderNeverReplacesNewer: the watermark of a source is only ever replaced by a later
\* one than any before it, even when it was dropped in between.
THEOREM OlderNeverReplacesNewerHolds == FusionSpec => OlderNeverReplacesNewer
  <1>1. FusionInv /\ [FusionNext]_fusionVars => HeadsRise
    BY FusionAssumption, FusionInvStep
  <1>2. HeadsRise <=>
          \A u \in Platform : \A i \in DOMAIN known'[u].heads \cap DOMAIN latest[u] :
              \/ i \in DOMAIN known[u].heads /\ known'[u].heads[i] = known[u].heads[i]
              \/ known'[u].heads[i] > latest[u][i]
    BY DEF HeadsRise
  <1>. QED  BY <1>1, <1>2, FusionInvAlways, PTL DEF FusionSpec, OlderNeverReplacesNewer

\* What a delivery makes of a report of nothing but its recipient's own fixes.
NoNews ==
    \A m \in wire \ wire' : \A c \in m.tracks :
        (\A o \in c.obs : o.by = m.to /\ o.kind = "fix" /\ Fresh(o.at)) =>
            (c.id \in DOMAIN known'[m.to].heads =>
                /\ c.id \in DOMAIN known[m.to].heads
                /\ known'[m.to].heads[c.id] = known[m.to].heads[c.id])

LEMMA NoNewsStep ==
    ASSUME FusionAssumption, FusionInv, [FusionNext]_fusionVars
    PROVE  NoNews
  <1>1. CASE known' = known
    BY <1>1 DEF NoNews
  <1>2. CASE wire \ wire' = {}
    BY <1>2 DEF NoNews
  <1>3. ASSUME NEW d \in wire, Deliver(d) PROVE NoNews
    <2>. DEFINE u == d.to
                items == d.bearings \cup d.tracks
    <2>1. wire \ wire' = {d} /\ Grown(known[u], known'[u], items)
      BY <1>3, DeliverInv
    <2>2. OnRecord(d, sightings, tick) /\ u \in Platform /\ OwnSeen(u, known[u], sightings)
      BY DEF FusionInv, OnRecord
    <2>3. ASSUME NEW c \in d.tracks,
                 \A o \in c.obs : o.by = u /\ o.kind = "fix" /\ Fresh(o.at),
                 c.id \in DOMAIN known'[u].heads
          PROVE  /\ c.id \in DOMAIN known[u].heads
                 /\ known'[u].heads[c.id] = known[u].heads[c.id]
      <3>1. c.obs \subseteq DOMAIN known[u].seen
        <4>1. c.obs \subseteq sightings
          BY <2>2 DEF OnRecord, Earned
        <4>. QED  BY <2>2, <2>3, <4>1 DEF OwnSeen
      <3>2. DOMAIN c.id = {"at", "n"}
        BY <2>2 DEF OnRecord
      <3>3. ASSUME Moved(c.id, known[u], items) PROVE FALSE
        <4>1. "at" \notin {"fix", "of"}
          OBVIOUS
        <4>2. DOMAIN c.id # {"fix", "of"}
          BY <3>2, <4>1
        <4>3. PICK e \in items : /\ e.id = c.id /\ ~ IsBearing(e)
                                 /\ ~ e.obs \subseteq DOMAIN known[u].seen
          BY <3>3, <4>2 DEF Moved
        <4>4. \A b \in d.bearings : IsBearing(b)
          BY <2>2 DEF OnRecord, FusionInv, Record, Made, IsBearing
        <4>5. e = c
          BY <2>2, <4>3, <4>4 DEF OnRecord
        <4>. QED  BY <3>1, <4>3, <4>5
      <3>. QED  BY <2>1, <2>3, <3>3 DEF Grown
    <2>. QED  BY <2>1, <2>3 DEF NoNews
  <1>4. ASSUME NEW u \in Platform, NEW x, Detect(u, x) \/ TakeBearing(u, x)
        PROVE  wire \ wire' = {}
    BY <1>4 DEF Detect, TakeBearing, Sense
  <1>5. \/ Begin \/ Broadcast \/ SendCurrentReports => wire \ wire' = {}
    BY DEF Begin, Broadcast, SendCurrentReports
  <1>6. ASSUME NEW m, LoseReport(m) \/ Settle(m) PROVE known' = known
    BY <1>6 DEF LoseReport, Settle
  <1>7. UNCHANGED fusionVars => known' = known
    BY DEF fusionVars
  <1>. QED  BY <1>1, <1>2, <1>3, <1>4, <1>5, <1>6, <1>7 DEF FusionNext

\* OwnSightingsAreNoNews: a report made of nothing but the recipient's own fresh fixes
\* does not move the watermark of its source when it comes back.
THEOREM OwnSightingsAreNoNewsHolds == FusionSpec => OwnSightingsAreNoNews
  <1>1. FusionInv /\ [FusionNext]_fusionVars => NoNews
    BY FusionAssumption, NoNewsStep
  <1>2. NoNews <=>
          \A m \in wire \ wire' : \A c \in m.tracks :
              (\A o \in c.obs : o.by = m.to /\ o.kind = "fix" /\ Fresh(o.at)) =>
                  (c.id \in DOMAIN known'[m.to].heads =>
                      /\ c.id \in DOMAIN known[m.to].heads
                      /\ known'[m.to].heads[c.id] = known[m.to].heads[c.id])
    BY DEF NoNews
  <1>. QED  BY <1>1, <1>2, FusionInvAlways, PTL DEF FusionSpec, OwnSightingsAreNoNews

--------------------------------------------------------------------------------
(* Supply: sums over finite sets.                                           *)

\* Totals(h, f, S): h gives every part of S the sum of f over it.
Totals(h, f, S) ==
    h = [d \in SUBSET S |-> IF d = {} THEN 0
                            ELSE LET x == CHOOSE x \in d : TRUE IN f[x] + h[d \ {x}]]

\* What holds of a set when it holds of the set without any one element holds
\* of every finite set.
LEMMA EverySubset ==
    ASSUME NEW S, IsFiniteSet(S), NEW A,
           \A d \in SUBSET S : (\A x \in d : d \ {x} \in A) => d \in A
    PROVE  \A d \in SUBSET S : d \in A
  <1>. DEFINE Odd == (SUBSET S) \ A
              Sizes == {Cardinality(d) : d \in Odd}
  <1>1. \A d \in SUBSET S : IsFiniteSet(d) /\ Cardinality(d) \in Nat
    BY FS_Subset, FS_CardinalityType
  <1>2. SUFFICES ASSUME Odd # {} PROVE FALSE
    OBVIOUS
  <1>3. Sizes \subseteq Nat /\ Sizes # {}
    BY <1>1, <1>2
  <1>4. PICK n \in Sizes : \A m \in Sizes : n <= m
    <2>. HIDE DEF Sizes
    <2>. QED  BY <1>3, LeastElement
  <1>5. PICK d \in Odd : n = Cardinality(d)
    BY <1>4
  <1>6. PICK x \in d : d \ {x} \notin A
    BY <1>5
  <1>7. IsFiniteSet(d) /\ n \in Nat
    BY <1>1, <1>5
  <1>8. Cardinality(d \ {x}) = n - 1
    BY <1>5, <1>6, <1>7, FS_RemoveElement
  <1>9. d \ {x} \in Odd
    BY <1>5, <1>6
  <1>10. n <= n - 1
    BY <1>4, <1>8, <1>9
  <1>. QED  BY <1>7, <1>10

\* Two such functions give the same sums.
LEMMA TotalsAgree ==
    ASSUME NEW S, IsFiniteSet(S), NEW R, NEW f, NEW e, NEW h, NEW k,
           Totals(h, f, S), Totals(k, e, R), \A x \in S : f[x] = e[x]
    PROVE  \A d \in SUBSET S : d \subseteq R => h[d] = k[d]
  <1>. DEFINE A == {d \in SUBSET S : d \subseteq R => h[d] = k[d]}
  <1>1. ASSUME NEW d \in SUBSET S, \A x \in d : d \ {x} \in A, d \subseteq R
        PROVE  h[d] = k[d]
    <2>1. CASE d = {}
      BY <1>1, <2>1 DEF Totals
    <2>2. CASE d # {}
      <3>. DEFINE x == CHOOSE x \in d : TRUE
      <3>1. x \in d
        BY <2>2
      <3>2. h[d] = f[x] + h[d \ {x}] /\ k[d] = e[x] + k[d \ {x}]
        BY <1>1, <2>2 DEF Totals
      <3>3. h[d \ {x}] = k[d \ {x}]
        BY <1>1, <3>1
      <3>. QED  BY <3>1, <3>2, <3>3
    <2>. QED  BY <2>1, <2>2
  <1>2. \A d \in SUBSET S : (\A x \in d : d \ {x} \in A) => d \in A
    BY <1>1
  <1>. HIDE DEF A
  <1>3. \A d \in SUBSET S : d \in A
    BY <1>2, EverySubset
  <1>. QED  BY <1>3 DEF A

\* There is one for every finite set, and Total is what it gives the set.
LEMMA TotalsExist ==
    ASSUME NEW f, NEW S, IsFiniteSet(S)
    PROVE  \E h : Totals(h, f, S)
  <1>. DEFINE Step(h, d) == IF d = {} THEN 0
                            ELSE LET x == CHOOSE x \in d : TRUE IN f[x] + h[d \ {x}]
              Within(n) == {d \in SUBSET S : Cardinality(d) <= n}
              Solves(h, n) == h = [d \in Within(n) |-> Step(h, d)]
              Odd == {n \in Nat : ~ \E h : Solves(h, n)}
  <1>1. ASSUME NEW n \in Nat, NEW h, Solves(h, n)
        PROVE  \E k : Solves(k, n + 1)
    <2>. DEFINE k == [d \in Within(n + 1) |-> Step(h, d)]
    <2>1. ASSUME NEW d \in Within(n + 1), NEW x \in d
          PROVE  d \ {x} \in Within(n) /\ d \ {x} \in Within(n + 1)
      <3>1. IsFiniteSet(d) /\ d \subseteq S
        BY FS_Subset
      <3>2. Cardinality(d) \in Nat /\ Cardinality(d \ {x}) = Cardinality(d) - 1
        BY <3>1, FS_RemoveElement, FS_CardinalityType
      <3>3. Cardinality(d \ {x}) <= n /\ Cardinality(d \ {x}) <= n + 1
        BY <3>2
      <3>. QED  BY <3>1, <3>3
    <2>2. ASSUME NEW d \in Within(n + 1), NEW x \in d PROVE k[d \ {x}] = h[d \ {x}]
      <3>1. k[d \ {x}] = Step(h, d \ {x})
        BY <2>1
      <3>2. h[d \ {x}] = Step(h, d \ {x})
        <4>. HIDE DEF Step, Within
        <4>1. h = [e \in Within(n) |-> Step(h, e)]
          BY <1>1
        <4>. QED  BY <2>1, <4>1
      <3>. QED  BY <3>1, <3>2
    <2>3. ASSUME NEW d \in Within(n + 1) PROVE Step(k, d) = Step(h, d)
      <3>. HIDE DEF k, Within
      <3>1. CASE d = {}
        BY <3>1
      <3>2. CASE d # {}
        <4>1. (CHOOSE x \in d : TRUE) \in d
          BY <3>2
        <4>. QED  BY <2>2, <3>2, <4>1
      <3>. QED  BY <3>1, <3>2
    <2>4. Solves(k, n + 1)
      <3>1. k = [d \in Within(n + 1) |-> Step(h, d)]
        OBVIOUS
      <3>. HIDE DEF k, Step, Within
      <3>2. [d \in Within(n + 1) |-> Step(h, d)] = [d \in Within(n + 1) |-> Step(k, d)]
        BY <2>3
      <3>. QED  BY <3>1, <3>2
    <2>. QED  BY <2>4
  <1>2. \E h : Solves(h, 0)
    <2>. DEFINE h == [d \in Within(0) |-> 0]
    <2>1. ASSUME NEW d \in Within(0) PROVE d = {}
      <3>1. IsFiniteSet(d)
        BY FS_Subset
      <3>2. Cardinality(d) = 0
        BY <3>1, FS_CardinalityType
      <3>. QED  BY <3>1, <3>2, FS_EmptySet
    <2>2. \A d \in Within(0) : Step(h, d) = 0
      BY <2>1
    <2>. HIDE DEF Within, Step
    <2>3. h = [d \in Within(0) |-> Step(h, d)]
      BY <2>2
    <2>. QED  BY <2>3
  <1>3. Odd = {}
    <2>1. SUFFICES ASSUME Odd # {} PROVE FALSE
      OBVIOUS
    <2>. HIDE DEF Solves
    <2>2. PICK n \in Odd : \A m \in Odd : n <= m
      BY <2>1, LeastElement, Odd \subseteq Nat
    <2>3. n \in Nat /\ n # 0
      BY <1>2
    <2>4. n - 1 \in Nat /\ ~ n <= n - 1
      BY <2>3
    <2>5. PICK h : Solves(h, n - 1)
      BY <2>2, <2>4
    <2>6. \E k : Solves(k, (n - 1) + 1)
      BY <1>1, <2>4, <2>5
    <2>7. (n - 1) + 1 = n
      BY <2>3
    <2>. QED  BY <2>6, <2>7
  <1>4. Cardinality(S) \in Nat
    BY FS_CardinalityType
  <1>5. PICK h : Solves(h, Cardinality(S))
    <2>. HIDE DEF Solves
    <2>. QED  BY <1>3, <1>4
  <1>6. Within(Cardinality(S)) = SUBSET S
    <2>1. ASSUME NEW d \in SUBSET S PROVE Cardinality(d) <= Cardinality(S)
      BY FS_Subset
    <2>. QED  BY <2>1
  <1>7. h = [d \in SUBSET S |-> Step(h, d)]
    <2>. HIDE DEF Within, Step
    <2>. QED  BY <1>5, <1>6
  <1>. QED  BY <1>7 DEF Totals
\* What Total is, by such a function.
LEMMA TotalOf ==
    ASSUME NEW f, NEW S, IsFiniteSet(S), NEW h, Totals(h, f, S)
    PROVE  \A d \in SUBSET S : Total(f, d) = h[d]
  <1>. SUFFICES ASSUME NEW d \in SUBSET S PROVE Total(f, d) = h[d]
    OBVIOUS
  <1>0. IsFiniteSet(d)
    BY FS_Subset
  <1>1. Total(f, d) = (CHOOSE k : Totals(k, f, d))[d]
    BY DEF Total, MapThenSumSet, MapThenFoldSet, Totals
  <1>2. PICK k : Totals(k, f, d) /\ Total(f, d) = k[d]
    <2>1. \E k : Totals(k, f, d)
      BY <1>0, TotalsExist
    <2>. QED  BY <1>1, <2>1
  <1>3. k[d] = h[d]
    BY <1>0, <1>2, TotalsAgree
  <1>. QED  BY <1>2, <1>3

\* A sum of numbers is a number, and any element can be taken out of it.
LEMMA TotalType ==
    ASSUME NEW f, NEW S, IsFiniteSet(S), \A x \in S : f[x] \in Nat
    PROVE  Total(f, S) \in Nat
  <1>1. PICK h : Totals(h, f, S)
    BY TotalsExist
  <1>. DEFINE A == {d \in SUBSET S : h[d] \in Nat}
  <1>2. ASSUME NEW d \in SUBSET S, \A x \in d : d \ {x} \in A PROVE d \in A
    <2>1. CASE d = {}
      BY <1>1, <2>1 DEF Totals
    <2>2. CASE d # {}
      <3>1. PICK x \in d : h[d] = f[x] + h[d \ {x}]
        <4>1. (CHOOSE x \in d : TRUE) \in d
          BY <2>2
        <4>. QED  BY <1>1, <2>2, <4>1 DEF Totals
      <3>2. h[d \ {x}] \in Nat /\ f[x] \in Nat
        BY <1>2
      <3>. QED  BY <3>1, <3>2
    <2>. QED  BY <2>1, <2>2
  <1>3. \A d \in SUBSET S : (\A x \in d : d \ {x} \in A) => d \in A
    BY <1>2
  <1>. HIDE DEF A
  <1>4. \A d \in SUBSET S : d \in A
    BY <1>3, EverySubset
  <1>5. S \in A
    BY <1>4
  <1>. QED  BY <1>1, <1>5, TotalOf DEF A

LEMMA TotalSplit ==
    ASSUME NEW f, NEW S, IsFiniteSet(S), \A x \in S : f[x] \in Nat, NEW y \in S
    PROVE  Total(f, S) = f[y] + Total(f, S \ {y})
  <1>1. PICK h : Totals(h, f, S)
    BY TotalsExist
  <1>2. \A d \in SUBSET S : h[d] \in Nat
    <2>1. \A d \in SUBSET S : IsFiniteSet(d)
      BY FS_Subset
    <2>2. \A d \in SUBSET S : Total(f, d) \in Nat
      BY <2>1, TotalType
    <2>3. \A d \in SUBSET S : Total(f, d) = h[d]
      BY <1>1, TotalOf
    <2>. QED  BY <2>2, <2>3
  <1>. DEFINE A == {d \in SUBSET S : \A x \in d : h[d] = f[x] + h[d \ {x}]}
  <1>3. ASSUME NEW d \in SUBSET S, \A x \in d : d \ {x} \in A, NEW x \in d
        PROVE  h[d] = f[x] + h[d \ {x}]
    <2>. DEFINE c == CHOOSE z \in d : TRUE
    <2>1. c \in d /\ h[d] = f[c] + h[d \ {c}]
      BY <1>1, <1>3 DEF Totals
    <2>2. CASE x = c
      BY <2>1, <2>2
    <2>3. CASE x # c
      <3>. HIDE DEF c
      <3>1. h[d \ {c}] = f[x] + h[(d \ {c}) \ {x}]
        BY <1>3, <2>1, <2>3
      <3>2. h[d \ {x}] = f[c] + h[(d \ {x}) \ {c}]
        BY <1>3, <2>1, <2>3
      <3>3. (d \ {c}) \ {x} = (d \ {x}) \ {c}
        OBVIOUS
      <3>4. f[x] \in Nat /\ f[c] \in Nat /\ h[(d \ {x}) \ {c}] \in Nat
        BY <1>2, <2>1
      <3>5. h[d] = f[c] + (f[x] + h[(d \ {x}) \ {c}])
        BY <2>1, <3>1, <3>3
      <3>6. f[c] + (f[x] + h[(d \ {x}) \ {c}]) = f[x] + (f[c] + h[(d \ {x}) \ {c}])
        BY <3>4
      <3>. QED  BY <3>2, <3>5, <3>6
    <2>. QED  BY <2>2, <2>3
  <1>4. \A d \in SUBSET S : (\A x \in d : d \ {x} \in A) => d \in A
    BY <1>3
  <1>. HIDE DEF A
  <1>5. \A d \in SUBSET S : d \in A
    BY <1>4, EverySubset
  <1>6. h[S] = f[y] + h[S \ {y}]
    BY <1>5 DEF A
  <1>7. Total(f, S) = h[S] /\ Total(f, S \ {y}) = h[S \ {y}]
    BY <1>1, TotalOf
  <1>. QED  BY <1>6, <1>7

\* Equal numbers have equal sums.
LEMMA TotalSame ==
    ASSUME NEW f, NEW e, NEW S, IsFiniteSet(S), \A x \in S : e[x] = f[x]
    PROVE  Total(e, S) = Total(f, S)
  <1>1. PICK h, k : Totals(h, f, S) /\ Totals(k, e, S)
    BY TotalsExist
  <1>2. h[S] = k[S]
    BY <1>1, TotalsAgree
  <1>. QED  BY <1>1, <1>2, TotalOf

\* Numbers that are not greater have no greater sum.
LEMMA TotalMonotone ==
    ASSUME NEW f, NEW e, NEW S, IsFiniteSet(S),
           \A x \in S : f[x] \in Nat /\ e[x] \in Nat /\ e[x] <= f[x]
    PROVE  Total(e, S) <= Total(f, S)
  <1>. DEFINE A == {d \in SUBSET S : Total(e, d) <= Total(f, d)}
  <1>1. \A d \in SUBSET S : Total(e, d) \in Nat /\ Total(f, d) \in Nat
    BY TotalType, FS_Subset
  <1>2. ASSUME NEW d \in SUBSET S, \A x \in d : d \ {x} \in A PROVE d \in A
    <2>0. IsFiniteSet(d)
      BY FS_Subset
    <2>1. CASE d = {}
      <3>1. Total(e, d) = Total(f, d)
        BY <2>0, <2>1, TotalSame
      <3>. QED  BY <1>1, <3>1
    <2>2. CASE d # {}
      <3>1. PICK x \in d : TRUE
        BY <2>2
      <3>2. Total(e, d) = e[x] + Total(e, d \ {x}) /\ Total(f, d) = f[x] + Total(f, d \ {x})
        BY <2>0, TotalSplit
      <3>3. /\ Total(e, d \ {x}) <= Total(f, d \ {x}) /\ e[x] <= f[x]
            /\ e[x] \in Nat /\ f[x] \in Nat
            /\ Total(e, d \ {x}) \in Nat /\ Total(f, d \ {x}) \in Nat
        BY <1>1, <1>2
      <3>4. e[x] + Total(e, d \ {x}) <= f[x] + Total(f, d \ {x})
        BY <3>3
      <3>. QED  BY <3>2, <3>4
    <2>. QED  BY <2>1, <2>2
  <1>3. \A d \in SUBSET S : (\A x \in d : d \ {x} \in A) => d \in A
    BY <1>2
  <1>. HIDE DEF A
  <1>4. \A d \in SUBSET S : d \in A
    BY <1>3, EverySubset
  <1>5. S \in A
    BY <1>4
  <1>. QED  BY <1>5 DEF A

\* Where one number is more by a at most and no other one is more, the sum is
\* more by a at most.
LEMMA TotalAtMost ==
    ASSUME NEW f, NEW e, NEW S, IsFiniteSet(S), NEW y \in S, NEW a \in Int,
           \A x \in S : f[x] \in Nat /\ e[x] \in Nat,
           \A x \in S \ {y} : e[x] <= f[x],
           e[y] <= f[y] + a
    PROVE  Total(e, S) <= Total(f, S) + a
  <1>. DEFINE R == S \ {y}
  <1>0. IsFiniteSet(R)
    BY FS_Subset
  <1>1. Total(e, S) = e[y] + Total(e, R) /\ Total(f, S) = f[y] + Total(f, R)
    BY TotalSplit
  <1>2. Total(e, R) \in Nat /\ Total(f, R) \in Nat
    BY <1>0, TotalType
  <1>3. Total(e, R) <= Total(f, R)
    BY <1>0, TotalMonotone
  <1>4. e[y] \in Nat /\ f[y] \in Nat
    OBVIOUS
  <1>. HIDE DEF R
  <1>. QED  BY <1>1, <1>2, <1>3, <1>4

\* Where one number changes, the sum changes by as much.
LEMMA TotalChanged ==
    ASSUME NEW f, NEW e, NEW S, IsFiniteSet(S), NEW y \in S,
           \A x \in S : f[x] \in Nat /\ e[x] \in Nat,
           \A x \in S \ {y} : e[x] = f[x]
    PROVE  Total(e, S) + f[y] = Total(f, S) + e[y]
  <1>. DEFINE R == S \ {y}
  <1>0. IsFiniteSet(R)
    BY FS_Subset
  <1>1. Total(e, S) = e[y] + Total(e, R) /\ Total(f, S) = f[y] + Total(f, R)
    BY TotalSplit
  <1>2. Total(e, R) \in Nat /\ Total(f, R) \in Nat
    BY <1>0, TotalType
  <1>3. Total(e, R) = Total(f, R)
    BY <1>0, TotalSame
  <1>4. e[y] \in Nat /\ f[y] \in Nat
    OBVIOUS
  <1>. HIDE DEF R
  <1>. QED  BY <1>1, <1>2, <1>3, <1>4

--------------------------------------------------------------------------------
(* Units in the field.                                                      *)

\* Sane(u, r): r is a state unit u may be in, by itself.  A unit that is
\* immobilized has no fuel.
Sane(u, r) ==
    /\ r \in Runtime
    /\ r.phase \in Berthed \cup {"Returning", "Approach", "Replenishing"} => r.at # Nil
    /\ r.phase \in Receiving => r.partner \in Units \ {u} /\ r.asked # Nil
    /\ \A g \in Good : r.store[g] <= Full[u][g]
    /\ r.phase = "Immobilized" => u \notin Air /\ r.store["fuel"] = 0

\* What the task of a unit in state r holds reserved at f, and what is aboard.
PartOf(r, f, g) == IF r.task # Nil /\ r.task.source = f THEN r.task.left[g] ELSE 0
AboardOf(r, g)  == r.cargo[g] + r.store[g]
Held(f, g)      == stock[f][g] + Reserved(f)[g]

\* The frame and what it keeps count of.
FrameOK ==
    /\ destroyed \subseteq AnyUnit \cup Facility
    /\ stage \in {"idle", "guide", "serve", "settle"}
    /\ todo \subseteq Units
    /\ used \in [Facility \cup AnyUnit -> [move : Nat, service : Nat, pump : Nat]]
    /\ orders \in 0..MaxOrders /\ hits \in 0..MaxHits

\* No two receivers have one station of one donor.
StationsApart ==
    \A u, v \in Units :
        /\ u # v
        /\ unit[u].partner # Nil /\ unit[u].partner = unit[v].partner
        /\ unit[u].asked = unit[v].asked
        /\ unit[u].station # Nil
        => unit[u].station # unit[v].station

WithinBerths == Provisioned => \A f \in Facility : Occupied(f) <= Parking[f]

\* The inductive invariant.
FieldInv ==
    /\ Units \in Fleet
    /\ unit = [v \in Units |-> unit[v]] /\ \A v \in Units : Sane(v, unit[v])
    /\ stock \in [Facility -> Goods]
    /\ FrameOK
    /\ \A f \in Facility, g \in Good : Held(f, g) <= Capacity[f][g]
    /\ WithinBerths
    /\ StationsApart

NoGain == \A g \in Good : Existing(g)' <= Existing(g)

\* Whoever is berthed in s was berthed there in r; whoever has a station of a
\* donor in s had it in r.
BerthKept(r, s)   == s.phase \in Berthed => r.phase \in Berthed /\ s.at = r.at
StationKept(r, s) ==
    \/ s.partner = Nil \/ s.station = Nil
    \/ s.partner = r.partner /\ s.asked = r.asked /\ s.station = r.station

NoMore(r, s) == \A g \in Good : s.cargo[g] <= r.cargo[g] /\ s.store[g] <= r.store[g]

\* What the invariant and the configuration say of units, facilities and goods.
LEMMA FieldFacts ==
    ASSUME LogisticsAssumption, FieldInv
    PROVE  /\ IsFiniteSet(Units) /\ IsFiniteSet(Facility)
           /\ \A v \in Units : unit[v] \in Runtime
           /\ \A v \in Units, g \in Good : /\ unit[v].store[g] \in Nat
                                           /\ unit[v].cargo[g] \in Nat
                                           /\ Full[v][g] \in Nat
           /\ Units \subseteq AnyUnit
  <1>1. IsFiniteSet(Units) /\ IsFiniteSet(Facility) /\ Units \subseteq AnyUnit
    BY DEF LogisticsAssumption, FieldInv, AnyUnit
  <1>2. \A v \in Units : unit[v] \in Runtime
    BY DEF FieldInv, Sane
  <1>3. \A v \in Units : unit[v].store \in Goods /\ unit[v].cargo \in Goods
    BY <1>2 DEF Runtime
  <1>4. \A v \in Units : Full[v] \in Goods
    BY <1>1 DEF LogisticsAssumption
  <1>. QED  BY <1>1, <1>2, <1>3, <1>4 DEF Goods

\* A part of what a task reserves is a number.
LEMMA PartType ==
    ASSUME NEW r \in Runtime, NEW f, NEW g \in Good
    PROVE  PartOf(r, f, g) \in Nat
  BY DEF Runtime, CargoTask, Goods, PartOf

\* Reservations as a sum of parts.
LEMMA ReservedIs ==
    ASSUME NEW f, NEW g \in Good
    PROVE  Reserved(f)[g] = Total([v \in Units |-> PartOf(unit[v], f, g)], Units)
  BY DEF Reserved, PartOf

LEMMA ReservedType ==
    ASSUME IsFiniteSet(Units), \A v \in Units : unit[v] \in Runtime, NEW f, NEW g \in Good
    PROVE  Reserved(f)[g] \in Nat
  <1>. DEFINE p == [v \in Units |-> PartOf(unit[v], f, g)]
  <1>1. \A v \in Units : p[v] \in Nat
    BY PartType
  <1>. HIDE DEF p
  <1>2. Total(p, Units) \in Nat
    BY <1>1, TotalType
  <1>. QED  BY <1>2, ReservedIs DEF p

\* Where the task of one unit changes, so does what is reserved.
LEMMA ReservedMoved ==
    ASSUME IsFiniteSet(Units), Units' = Units,
           \A v \in Units : unit[v] \in Runtime /\ unit'[v] \in Runtime,
           NEW u \in Units, \A v \in Units \ {u} : unit'[v].task = unit[v].task
    PROVE  \A f \in Facility, g \in Good :
               Reserved(f)'[g] + PartOf(unit[u], f, g)
               = Reserved(f)[g] + PartOf(unit'[u], f, g)
  <1>. SUFFICES ASSUME NEW f \in Facility, NEW g \in Good
                PROVE  Reserved(f)'[g] + PartOf(unit[u], f, g)
                       = Reserved(f)[g] + PartOf(unit'[u], f, g)
    OBVIOUS
  <1>. DEFINE p == [v \in Units |-> PartOf(unit[v], f, g)]
              q == [v \in Units |-> PartOf(unit'[v], f, g)]
  <1>1. Reserved(f)'[g] = Total(q, Units)
    BY DEF Reserved, PartOf
  <1>2. \A v \in Units : p[v] \in Nat /\ q[v] \in Nat
    BY PartType
  <1>3. \A v \in Units \ {u} : q[v] = p[v]
    BY DEF PartOf
  <1>4. p[u] = PartOf(unit[u], f, g) /\ q[u] = PartOf(unit'[u], f, g)
    OBVIOUS
  <1>5. Reserved(f)[g] = Total(p, Units)
    BY ReservedIs
  <1>. HIDE DEF p, q
  <1>6. Total(q, Units) + p[u] = Total(p, Units) + q[u]
    BY <1>2, <1>3, TotalChanged
  <1>. QED  BY <1>1, <1>4, <1>5, <1>6

\* Where no task changes, no reservation does.
LEMMA ReservedKept ==
    ASSUME IsFiniteSet(Units), Units' = Units,
           \A v \in Units : unit'[v].task = unit[v].task
    PROVE  \A f \in Facility, g \in Good : Reserved(f)'[g] = Reserved(f)[g]
  <1>. SUFFICES ASSUME NEW f \in Facility, NEW g \in Good
                PROVE  Reserved(f)'[g] = Reserved(f)[g]
    OBVIOUS
  <1>. DEFINE p == [v \in Units |-> PartOf(unit[v], f, g)]
              q == [v \in Units |-> PartOf(unit'[v], f, g)]
  <1>1. Reserved(f)'[g] = Total(q, Units)
    BY DEF Reserved, PartOf
  <1>3. \A v \in Units : q[v] = p[v]
    BY DEF PartOf
  <1>5. Reserved(f)[g] = Total(p, Units)
    BY ReservedIs
  <1>. HIDE DEF p, q
  <1>. QED  BY <1>1, <1>3, <1>5, TotalSame

\* Berths are not taken by those who keep theirs.
LEMMA BerthsHold ==
    ASSUME IsFiniteSet(Units), Units' = Units,
           \A v \in Units : BerthKept(unit[v], unit'[v]), NEW f
    PROVE  Occupied(f)' <= Occupied(f) /\ Occupied(f) \in Nat /\ Occupied(f)' \in Nat
  <1>. DEFINE A == {v \in Units : unit[v].at = f /\ Phase(v) \in Berthed}
              B == {v \in Units : unit'[v].at = f /\ unit'[v].phase \in Berthed}
  <1>1. B \subseteq A /\ A \subseteq Units
    BY DEF BerthKept, Phase
  <1>2. Occupied(f) = Cardinality(A) /\ Occupied(f)' = Cardinality(B)
    BY DEF Occupied, Phase
  <1>3. IsFiniteSet(A) /\ IsFiniteSet(B)
    <2>. HIDE DEF A, B
    <2>. QED  BY <1>1, FS_Subset
  <1>. HIDE DEF A, B
  <1>. QED  BY <1>1, <1>2, <1>3, FS_Subset, FS_CardinalityType

\* Stations stay apart when nobody gets one.
LEMMA StationsHold ==
    ASSUME StationsApart, Units' = Units,
           \A v \in Units : StationKept(unit[v], unit'[v])
    PROVE  StationsApart'
  BY DEF StationsApart, StationKept

\* Nothing is gained when nothing grows.
LEMMA NothingGrows ==
    ASSUME IsFiniteSet(Units), IsFiniteSet(Facility), Units' = Units,
           \A f \in Facility, g \in Good :
               Held(f, g) \in Nat /\ Held(f, g)' \in Nat /\ Held(f, g)' <= Held(f, g),
           \A v \in Units, g \in Good :
               /\ AboardOf(unit[v], g) \in Nat /\ AboardOf(unit'[v], g) \in Nat
               /\ AboardOf(unit'[v], g) <= AboardOf(unit[v], g)
    PROVE  NoGain
  <1>. SUFFICES ASSUME NEW g \in Good PROVE Existing(g)' <= Existing(g)
    BY DEF NoGain
  <1>. DEFINE h == [f \in Facility |-> Held(f, g)]
              k == [f \in Facility |-> Held(f, g)']
              p == [v \in Units |-> AboardOf(unit[v], g)]
              q == [v \in Units |-> AboardOf(unit'[v], g)]
  <1>1. /\ Existing(g) = Total(h, Facility) + Total(p, Units)
        /\ Existing(g)' = Total(k, Facility) + Total(q, Units)
    BY DEF Existing, Held, AboardOf
  <1>2. \A f \in Facility : h[f] \in Nat /\ k[f] \in Nat /\ k[f] <= h[f]
    OBVIOUS
  <1>3. \A v \in Units : p[v] \in Nat /\ q[v] \in Nat /\ q[v] <= p[v]
    OBVIOUS
  <1>. HIDE DEF h, k, p, q
  <1>4. Total(k, Facility) <= Total(h, Facility) /\ Total(q, Units) <= Total(p, Units)
    BY <1>2, <1>3, TotalMonotone
  <1>5. /\ Total(k, Facility) \in Nat /\ Total(h, Facility) \in Nat
        /\ Total(q, Units) \in Nat /\ Total(p, Units) \in Nat
    BY <1>2, <1>3, TotalType
  <1>. QED  BY <1>1, <1>4, <1>5

\* Nothing is gained when what one unit takes is missing at one facility, or
\* the other way round.
LEMMA GoodsMove ==
    ASSUME IsFiniteSet(Units), IsFiniteSet(Facility), Units' = Units,
           NEW d \in Facility, NEW u \in Units, NEW a, \A g \in Good : a[g] \in Int,
           \A f \in Facility, g \in Good :
               /\ Held(f, g) \in Nat /\ Held(f, g)' \in Nat
               /\ f # d => Held(f, g)' <= Held(f, g),
           \A g \in Good : Held(d, g)' <= Held(d, g) - a[g],
           \A v \in Units, g \in Good :
               /\ AboardOf(unit[v], g) \in Nat /\ AboardOf(unit'[v], g) \in Nat
               /\ v # u => AboardOf(unit'[v], g) <= AboardOf(unit[v], g),
           \A g \in Good : AboardOf(unit'[u], g) <= AboardOf(unit[u], g) + a[g]
    PROVE  NoGain
  <1>. SUFFICES ASSUME NEW g \in Good PROVE Existing(g)' <= Existing(g)
    BY DEF NoGain
  <1>. DEFINE h == [f \in Facility |-> Held(f, g)]
              k == [f \in Facility |-> Held(f, g)']
              p == [v \in Units |-> AboardOf(unit[v], g)]
              q == [v \in Units |-> AboardOf(unit'[v], g)]
  <1>1. /\ Existing(g) = Total(h, Facility) + Total(p, Units)
        /\ Existing(g)' = Total(k, Facility) + Total(q, Units)
    BY DEF Existing, Held, AboardOf
  <1>2. \A f \in Facility : h[f] \in Nat /\ k[f] \in Nat
    OBVIOUS
  <1>3. \A f \in Facility \ {d} : k[f] <= h[f]
    OBVIOUS
  <1>4. \A v \in Units : p[v] \in Nat /\ q[v] \in Nat
    OBVIOUS
  <1>5. \A v \in Units \ {u} : q[v] <= p[v]
    OBVIOUS
  <1>6. PICK b, c \in Int : b = 0 - a[g] /\ c = a[g]
    OBVIOUS
  <1>7. k[d] <= h[d] + b /\ q[u] <= p[u] + c
    BY <1>6
  <1>. HIDE DEF h, k, p, q
  <1>8. Total(k, Facility) <= Total(h, Facility) + b
    BY <1>2, <1>3, <1>7, TotalAtMost
  <1>9. Total(q, Units) <= Total(p, Units) + c
    BY <1>4, <1>5, <1>7, TotalAtMost
  <1>10. /\ Total(k, Facility) \in Nat /\ Total(h, Facility) \in Nat
         /\ Total(q, Units) \in Nat /\ Total(p, Units) \in Nat
    BY <1>2, <1>4, TotalType
  <1>. QED  BY <1>1, <1>6, <1>8, <1>9, <1>10

--------------------------------------------------------------------------------
\* Calm(v, r, s): s is a state of v, without a berth, a station or goods that
\* r has not.
Calm(v, r, s) == Sane(v, s) /\ BerthKept(r, s) /\ StationKept(r, s) /\ NoMore(r, s)

LEMMA CalmAboard ==
    ASSUME NEW v, NEW r \in Runtime, NEW s \in Runtime, NoMore(r, s)
    PROVE  \A g \in Good : /\ AboardOf(r, g) \in Nat /\ AboardOf(s, g) \in Nat
                           /\ AboardOf(s, g) <= AboardOf(r, g)
  BY DEF Runtime, Goods, NoMore, AboardOf

\* Before and after a step, stock and reservations are numbers.
LEMMA HeldType ==
    ASSUME LogisticsAssumption, FieldInv, Units' = Units,
           \A v \in Units : Sane(v, unit'[v]), stock' \in [Facility -> Goods]
    PROVE  \A f \in Facility, g \in Good :
               /\ stock[f][g] \in Nat /\ stock'[f][g] \in Nat
               /\ Reserved(f)[g] \in Nat /\ Reserved(f)'[g] \in Nat
               /\ Held(f, g) \in Nat /\ Held(f, g)' \in Nat
  <1>1. IsFiniteSet(Units)
    BY FieldFacts
  <1>2. ASSUME NEW f \in Facility, NEW g \in Good
        PROVE  Reserved(f)[g] \in Nat /\ Reserved(f)'[g] \in Nat
    <2>1. \A v \in Units : unit[v] \in Runtime
      BY FieldFacts
    <2>2. Reserved(f)[g] \in Nat
      BY <1>1, <2>1, ReservedType
    <2>. DEFINE q == [v \in Units |-> PartOf(unit'[v], f, g)]
    <2>3. Reserved(f)'[g] = Total(q, Units)
      BY DEF Reserved, PartOf
    <2>4. \A v \in Units : q[v] \in Nat
      BY PartType DEF Sane
    <2>. HIDE DEF q
    <2>. QED  BY <1>1, <2>2, <2>3, <2>4, TotalType
  <1>3. ASSUME NEW f \in Facility, NEW g \in Good
        PROVE  stock[f][g] \in Nat /\ stock'[f][g] \in Nat
    BY DEF FieldInv, Goods
  <1>4. ASSUME NEW f \in Facility, NEW g \in Good
        PROVE  Held(f, g) = stock[f][g] + Reserved(f)[g] /\ Held(f, g)' = stock'[f][g] + Reserved(f)'[g]
    BY DEF Held
  <1>. QED  BY <1>2, <1>3, <1>4

\* What a step has to keep.
LEMMA Keeping ==
    ASSUME LogisticsAssumption, FieldInv, FrameOK', Units' = Units,
           unit' = [v \in Units |-> unit'[v]], \A v \in Units : Sane(v, unit'[v]),
           stock' \in [Facility -> Goods],
           \A f \in Facility, g \in Good : Held(f, g)' <= Capacity[f][g],
           WithinBerths', StationsApart'
    PROVE  FieldInv'
  <1>1. \A v \in Units' : Sane(v, unit[v])'
    BY DEF Sane
  <1>2. Units' \in Fleet
    BY DEF FieldInv
  <1>. QED  BY <1>1, <1>2 DEF FieldInv

LEMMA BerthsAndStationsHold ==
    ASSUME LogisticsAssumption, FieldInv, Units' = Units,
           \A v \in Units : BerthKept(unit[v], unit'[v]) /\ StationKept(unit[v], unit'[v])
    PROVE  WithinBerths' /\ StationsApart'
  <1>1. IsFiniteSet(Units)
    BY FieldFacts
  <1>2. ASSUME Provisioned, NEW f \in Facility PROVE Occupied(f)' <= Parking[f]
    <2>1. Occupied(f)' <= Occupied(f) /\ Occupied(f) \in Nat /\ Occupied(f)' \in Nat
      BY <1>1, BerthsHold
    <2>2. Occupied(f) <= Parking[f] /\ Parking[f] \in Nat
      BY <1>2 DEF FieldInv, WithinBerths, LogisticsAssumption
    <2>. QED  BY <2>1, <2>2
  <1>3. StationsApart'
    BY StationsHold DEF FieldInv
  <1>4. WithinBerths'
    BY <1>2 DEF WithinBerths
  <1>. QED  BY <1>3, <1>4

\* A step that changes no task and no stock.
LEMMA QuietStep ==
    ASSUME LogisticsAssumption, FieldInv, FrameOK', Units' = Units,
           unit' = [v \in Units |-> unit'[v]],
           \A v \in Units : Calm(v, unit[v], unit'[v]) /\ unit'[v].task = unit[v].task,
           stock' = stock
    PROVE  FieldInv' /\ NoGain
  <1>1. IsFiniteSet(Units) /\ IsFiniteSet(Facility) /\ \A v \in Units : unit[v] \in Runtime
    BY FieldFacts
  <1>2. \A v \in Units : Sane(v, unit'[v])
    BY DEF Calm
  <1>3. stock' \in [Facility -> Goods]
    BY DEF FieldInv
  <1>4. \A f \in Facility, g \in Good : Held(f, g) \in Nat /\ Held(f, g)' \in Nat
    BY <1>2, <1>3, HeldType
  <1>5. \A f \in Facility, g \in Good : Held(f, g)' = Held(f, g)
    BY <1>1, ReservedKept DEF Held
  <1>6. \A f \in Facility, g \in Good : Held(f, g)' <= Capacity[f][g]
    BY <1>5 DEF FieldInv
  <1>7. FieldInv'
    <2>1. WithinBerths' /\ StationsApart'
      BY BerthsAndStationsHold DEF Calm
    <2>. QED  BY <1>2, <1>3, <1>6, <2>1, Keeping
  <1>8. \A v \in Units, g \in Good :
            /\ AboardOf(unit[v], g) \in Nat /\ AboardOf(unit'[v], g) \in Nat
            /\ AboardOf(unit'[v], g) <= AboardOf(unit[v], g)
    BY <1>1, <1>2, CalmAboard DEF Calm, Sane
  <1>9. \A f \in Facility, g \in Good : Held(f, g)' <= Held(f, g)
    BY <1>4, <1>5
  <1>10. NoGain
    BY <1>1, <1>4, <1>8, <1>9, NothingGrows
  <1>. QED  BY <1>7, <1>10

LEMMA Balance ==
    ASSUME NEW a \in Nat, NEW b \in Nat, NEW c \in Nat, NEW e \in Nat,
           NEW p \in Nat, NEW q \in Nat, b + q = a + p, e + p = c + q
    PROVE  b + e = a + c
  OBVIOUS

LEMMA HeldBalance ==
    ASSUME NEW f, NEW g, NEW u,
           stock[f][g] \in Nat, stock'[f][g] \in Nat,
           Reserved(f)[g] \in Nat, Reserved(f)'[g] \in Nat,
           PartOf(unit[u], f, g) \in Nat, PartOf(unit'[u], f, g) \in Nat,
           stock'[f][g] + PartOf(unit'[u], f, g) = stock[f][g] + PartOf(unit[u], f, g),
           Reserved(f)'[g] + PartOf(unit[u], f, g) = Reserved(f)[g] + PartOf(unit'[u], f, g)
    PROVE  Held(f, g)' = Held(f, g)
  BY Balance DEF Held

\* What is reserved for u changes, and the stock by as much.
Offset(u) ==
    \A f \in Facility, g \in Good :
        stock'[f][g] + PartOf(unit'[u], f, g) = stock[f][g] + PartOf(unit[u], f, g)

LEMMA BalancedStep ==
    ASSUME LogisticsAssumption, FieldInv, FrameOK', Units' = Units,
           unit' = [v \in Units |-> unit'[v]],
           \A v \in Units : Calm(v, unit[v], unit'[v]),
           NEW u \in Units, \A v \in Units \ {u} : unit'[v].task = unit[v].task,
           stock' \in [Facility -> Goods], Offset(u)
    PROVE  FieldInv' /\ NoGain
  <1>1. IsFiniteSet(Units) /\ IsFiniteSet(Facility) /\ \A v \in Units : unit[v] \in Runtime
    BY FieldFacts
  <1>2. \A v \in Units : Sane(v, unit'[v]) /\ unit'[v] \in Runtime
    BY DEF Calm, Sane
  <1>4. \A f \in Facility, g \in Good :
            /\ Held(f, g) \in Nat /\ Held(f, g)' \in Nat
            /\ stock[f][g] \in Nat /\ stock'[f][g] \in Nat /\ Reserved(f)[g] \in Nat /\ Reserved(f)'[g] \in Nat
    BY <1>2, HeldType
  <1>5. ASSUME NEW f \in Facility, NEW g \in Good PROVE Held(f, g)' = Held(f, g)
    <2>1. Reserved(f)'[g] + PartOf(unit[u], f, g) = Reserved(f)[g] + PartOf(unit'[u], f, g)
      <3>1. \A v \in Units : unit[v] \in Runtime /\ unit'[v] \in Runtime
        BY <1>1, <1>2
      <3>2. \A c \in Facility, h \in Good :
                Reserved(c)'[h] + PartOf(unit[u], c, h) = Reserved(c)[h] + PartOf(unit'[u], c, h)
        BY <1>1, <3>1, ReservedMoved
      <3>. QED  BY <3>2
    <2>2. stock'[f][g] + PartOf(unit'[u], f, g) = stock[f][g] + PartOf(unit[u], f, g)
      BY DEF Offset
    <2>3. PartOf(unit[u], f, g) \in Nat /\ PartOf(unit'[u], f, g) \in Nat
      BY <1>1, <1>2, PartType
    <2>4. /\ stock[f][g] \in Nat /\ stock'[f][g] \in Nat
          /\ Reserved(f)[g] \in Nat /\ Reserved(f)'[g] \in Nat
      BY <1>4
    <2>. QED  BY <2>1, <2>2, <2>3, <2>4, HeldBalance
  <1>6. \A f \in Facility, g \in Good : Held(f, g)' <= Capacity[f][g]
    BY <1>5 DEF FieldInv
  <1>7. FieldInv'
    <2>1. WithinBerths' /\ StationsApart'
      BY BerthsAndStationsHold DEF Calm
    <2>. QED  BY <1>2, <1>6, <2>1, Keeping
  <1>8. \A v \in Units, g \in Good :
            /\ AboardOf(unit[v], g) \in Nat /\ AboardOf(unit'[v], g) \in Nat
            /\ AboardOf(unit'[v], g) <= AboardOf(unit[v], g)
    BY <1>1, <1>2, CalmAboard DEF Calm
  <1>9. \A f \in Facility, g \in Good : Held(f, g)' <= Held(f, g)
    BY <1>4, <1>5
  <1>10. NoGain
    BY <1>1, <1>4, <1>8, <1>9, NothingGrows
  <1>. QED  BY <1>7, <1>10

\* A step in which u gives up its task.
LEMMA GiveUpStep ==
    ASSUME LogisticsAssumption, FieldInv, FrameOK', Units' = Units,
           unit' = [v \in Units |-> unit'[v]],
           \A v \in Units : Calm(v, unit[v], unit'[v]),
           NEW u \in Units, \A v \in Units \ {u} : unit'[v].task = unit[v].task,
           unit'[u].task = Nil,
           stock' = Returned(u)
    PROVE  FieldInv' /\ NoGain
  <1>1. IsFiniteSet(Units) /\ IsFiniteSet(Facility) /\ \A v \in Units : unit[v] \in Runtime
    BY FieldFacts
  <1>3. /\ stock' \in [Facility -> Goods]
        /\ \A f \in Facility, g \in Good :
               stock'[f][g] = stock[f][g] + PartOf(unit[u], f, g)
    <2>1. stock \in [Facility -> Goods]
      BY DEF FieldInv
    <2>2. CASE unit[u].task = Nil
      BY <2>1, <2>2 DEF Returned, PartOf, Goods
    <2>3. CASE unit[u].task # Nil
      <3>1. unit[u].task \in CargoTask
        BY <1>1, <2>3 DEF Runtime
      <3>. DEFINE d == unit[u].task.source
      <3>2. stock' = [stock EXCEPT ![d] = Plus(stock[d], unit[u].task.left)]
        BY <2>3 DEF Returned
      <3>3. d \in Facility /\ unit[u].task.left \in Goods
        BY <3>1 DEF CargoTask
      <3>4. Plus(stock[d], unit[u].task.left) \in Goods
        BY <2>1, <3>3 DEF Plus, Goods
      <3>5. \A g \in Good : Plus(stock[d], unit[u].task.left)[g] = stock[d][g] + unit[u].task.left[g]
        BY DEF Plus
      <3>6. \A f \in Facility : stock'[f] = IF f = d THEN Plus(stock[d], unit[u].task.left)
                                           ELSE stock[f]
        BY <2>1, <3>2
      <3>7. stock' \in [Facility -> Goods]
        BY <2>1, <3>2, <3>3, <3>4
      <3>8. \A f \in Facility, g \in Good : stock[f][g] + 0 = stock[f][g]
        BY <2>1 DEF Goods
      <3>. QED  BY <2>3, <3>5, <3>6, <3>7, <3>8 DEF PartOf
    <2>. QED  BY <2>2, <2>3
  <1>4. Offset(u)
    <2>1. \A f, g : PartOf(unit'[u], f, g) = 0
      BY DEF PartOf
    <2>2. \A f \in Facility, g \in Good : stock'[f][g] \in Nat
      BY <1>3 DEF Goods
    <2>. QED  BY <1>3, <2>1, <2>2 DEF Offset
  <1>. QED  BY <1>3, <1>4, BalancedStep

\* Any other step: u, at the facility d, has more goods by a, or less.
LEMMA TransferStep ==
    ASSUME LogisticsAssumption, FieldInv, FrameOK', Units' = Units,
           unit' = [v \in Units |-> unit'[v]],
           NEW u \in Units,
           \A v \in Units \ {u} : unit'[v] = unit[v],
           Sane(u, unit'[u]), BerthKept(unit[u], unit'[u]), StationKept(unit[u], unit'[u]),
           stock' \in [Facility -> Goods],
           NEW d \in Facility, NEW a, \A g \in Good : a[g] \in Int,
           \A g \in Good : AboardOf(unit'[u], g) <= AboardOf(unit[u], g) + a[g],
           \A f \in Facility, g \in Good :
               Held(f, g)' <= IF f = d THEN Held(f, g) - a[g] ELSE Held(f, g),
           \A g \in Good : Held(d, g)' <= Capacity[d][g]
    PROVE  FieldInv' /\ NoGain
  <1>1. IsFiniteSet(Units) /\ IsFiniteSet(Facility) /\ \A v \in Units : unit[v] \in Runtime
    BY FieldFacts
  <1>2. \A v \in Units : Sane(v, unit'[v])
    BY DEF FieldInv
  <1>3. \A v \in Units : BerthKept(unit[v], unit'[v]) /\ StationKept(unit[v], unit'[v])
    BY DEF BerthKept, StationKept
  <1>4. \A f \in Facility, g \in Good : Held(f, g) \in Nat /\ Held(f, g)' \in Nat
    BY <1>2, HeldType
  <1>5. ASSUME NEW f \in Facility, NEW g \in Good PROVE Held(f, g)' <= Capacity[f][g]
    <2>1. CASE f = d
      BY <2>1
    <2>2. CASE f # d
      <3>1. Held(f, g)' <= Held(f, g) /\ Held(f, g) <= Capacity[f][g]
        BY <2>2 DEF FieldInv
      <3>2. Capacity[f][g] \in Nat
        BY DEF LogisticsAssumption, Goods
      <3>. QED  BY <1>4, <3>1, <3>2
    <2>. QED  BY <2>1, <2>2
  <1>6. FieldInv'
    <2>1. WithinBerths' /\ StationsApart'
      BY <1>3, BerthsAndStationsHold
    <2>. QED  BY <1>2, <1>5, <2>1, Keeping
  <1>7. \A v \in Units, g \in Good :
            /\ AboardOf(unit[v], g) \in Nat /\ AboardOf(unit'[v], g) \in Nat
            /\ v # u => AboardOf(unit'[v], g) <= AboardOf(unit[v], g)
    <2>1. \A v \in Units, g \in Good :
              AboardOf(unit[v], g) \in Nat /\ AboardOf(unit'[v], g) \in Nat
      BY <1>1, <1>2 DEF AboardOf, Sane, Runtime, Goods
    <2>. QED  BY <2>1
  <1>8. /\ \A f \in Facility, g \in Good : f # d => Held(f, g)' <= Held(f, g)
        /\ \A g \in Good : Held(d, g)' <= Held(d, g) - a[g]
    OBVIOUS
  <1>9. NoGain
    BY <1>1, <1>4, <1>7, <1>8, GoodsMove
  <1>. QED  BY <1>6, <1>9

--------------------------------------------------------------------------------
(* The actions.                                                             *)

LEMMA CalmSelf ==
    ASSUME FieldInv, NEW v \in Units
    PROVE  Calm(v, unit[v], unit[v])
  <1>1. unit[v] \in Runtime /\ Sane(v, unit[v])
    BY DEF FieldInv, Sane
  <1>2. NoMore(unit[v], unit[v])
    BY <1>1 DEF NoMore, Runtime, Goods
  <1>. QED  BY <1>1, <1>2 DEF Calm, BerthKept, StationKept

\* A state of v that differs in its phase, facility, partner, support and
\* counters, and keeps its station if it has a partner.
LEMMA CalmChange ==
    ASSUME NEW v, NEW r, NEW s \in Runtime, Sane(v, r),
           s.store = r.store, s.cargo = r.cargo,
           s.phase \in Berthed => r.phase \in Berthed /\ s.at = r.at,
           s.phase \in Berthed \cup {"Returning", "Approach", "Replenishing"} => s.at # Nil,
           s.phase \in Receiving => s.partner \in Units \ {v} /\ s.asked # Nil,
           s.phase = "Immobilized" => r.phase = "Immobilized",
           StationKept(r, s)
    PROVE  Calm(v, r, s)
  <1>1. Sane(v, s)
    BY DEF Sane
  <1>2. NoMore(r, s)
    BY DEF NoMore, Runtime, Goods
  <1>. QED  BY <1>1, <1>2 DEF Calm, BerthKept

LEMMA PartedFacts ==
    ASSUME FieldInv, NEW u \in Units
    PROVE  /\ DOMAIN Parted(u) = Units /\ Parted(u) = [v \in Units |-> Parted(u)[v]]
           /\ Parted(u)[u] = [unit[u] EXCEPT !.task = Nil]
           /\ \A v \in Units \ {u} : /\ Calm(v, unit[v], Parted(u)[v])
                                     /\ Parted(u)[v].task = unit[v].task
  <1>1. /\ DOMAIN Parted(u) = Units /\ Parted(u) = [v \in Units |-> Parted(u)[v]]
        /\ Parted(u)[u] = [unit[u] EXCEPT !.task = Nil]
    BY DEF Parted
  <1>2. ASSUME NEW v \in Units \ {u}
        PROVE  Calm(v, unit[v], Parted(u)[v]) /\ Parted(u)[v].task = unit[v].task
    <2>1. CASE unit[v].partner = u
      <3>1. PICK s : s = [unit[v] EXCEPT !.phase = "Disconnecting", !.timer = 0]
        OBVIOUS
      <3>2. Parted(u)[v] = s
        BY <2>1, <3>1 DEF Parted
      <3>3. unit[v] \in Runtime /\ Sane(v, unit[v])
        BY DEF FieldInv, Sane
      <3>4. /\ s \in Runtime /\ s.phase = "Disconnecting"
            /\ s.store = unit[v].store /\ s.cargo = unit[v].cargo
            /\ s.task = unit[v].task
            /\ s.partner = unit[v].partner /\ s.asked = unit[v].asked
            /\ s.station = unit[v].station
        BY <3>1, <3>3 DEF Runtime, Phases
      <3>5. StationKept(unit[v], s)
        BY <3>4 DEF StationKept
      <3>6. Calm(v, unit[v], s)
        BY <3>3, <3>4, <3>5, CalmChange DEF Berthed, Receiving
      <3>. QED  BY <3>2, <3>4, <3>6
    <2>2. CASE unit[v].partner # u
      <3>1. Parted(u)[v] = unit[v]
        BY <2>2 DEF Parted
      <3>. QED  BY <3>1, CalmSelf
    <2>. QED  BY <2>1, <2>2
  <1>. QED  BY <1>1, <1>2

\* A step in which only u changes, by itself and without a task more or less.
LEMMA OneCalm ==
    ASSUME LogisticsAssumption, FieldInv, FrameOK', NEW u \in Units, NEW s,
           unit' = [unit EXCEPT ![u] = s], stock' = stock,
           Calm(u, unit[u], s), s.task = unit[u].task
    PROVE  FieldInv' /\ NoGain
  <1>1. /\ Units' = Units /\ unit' = [v \in Units |-> unit'[v]]
        /\ unit'[u] = s /\ \A v \in Units \ {u} : unit'[v] = unit[v]
    <2>1. unit = [v \in Units |-> unit[v]]
      BY DEF FieldInv
    <2>2. DOMAIN unit' = DOMAIN unit
      BY <2>1
    <2>. QED  BY <2>1, <2>2 DEF Units
  <1>2. ASSUME NEW v \in Units
        PROVE  Calm(v, unit[v], unit'[v]) /\ unit'[v].task = unit[v].task
    BY <1>1, CalmSelf
  <1>. QED  BY <1>1, <1>2, QuietStep

\* A step in which u parts and is in state s then.
LEMMA Parting ==
    ASSUME LogisticsAssumption, FieldInv, FrameOK', NEW u \in Units, NEW s,
           unit' = [Parted(u) EXCEPT ![u] = s], stock' = Returned(u),
           Calm(u, unit[u], s), s.task = Nil
    PROVE  FieldInv' /\ NoGain
  <1>1. /\ Units' = Units /\ unit' = [v \in Units |-> unit'[v]]
        /\ unit'[u] = s /\ \A v \in Units \ {u} : unit'[v] = Parted(u)[v]
    BY PartedFacts DEF Units
  <1>2. \A v \in Units : Calm(v, unit[v], unit'[v])
    BY <1>1, PartedFacts
  <1>3. ASSUME NEW v \in Units \ {u} PROVE unit'[v].task = unit[v].task
    <2>1. unit'[v] = Parted(u)[v]
      BY <1>1
    <2>2. Parted(u)[v].task = unit[v].task
      BY PartedFacts
    <2>. QED  BY <2>1, <2>2
  <1>4. unit'[u].task = Nil
    BY <1>1
  <1>. QED  BY <1>1, <1>2, <1>3, <1>4, GiveUpStep

LEMMA RuntimeOf ==
    ASSUME FieldInv, NEW u \in Units
    PROVE  unit[u] \in Runtime /\ Sane(u, unit[u])
  BY DEF FieldInv, Sane

LEMMA ReturnStep ==
    ASSUME LogisticsAssumption, FieldInv, FrameOK', NEW u \in Units, NEW f \in Facility,
           Return(u, f)
    PROVE  FieldInv' /\ NoGain
  <1>1. PICK r : r = [unit[u] EXCEPT !.task = Nil]
    OBVIOUS
  <1>2. PICK s : s = [r EXCEPT !.phase = "Returning", !.at = f, !.partner = Nil,
                               !.timer = 0, !.support = Nil]
    OBVIOUS
  <1>3. unit' = [Parted(u) EXCEPT ![u] = s] /\ stock' = Returned(u)
    <2>1. Parted(u)[u] = r
      BY <1>1, PartedFacts
    <2>2. unit' = [Parted(u) EXCEPT ![u].phase = "Returning", ![u].at = f,
                       ![u].partner = Nil, ![u].timer = 0, ![u].support = Nil]
      BY DEF Return
    <2>3. unit' = [Parted(u) EXCEPT ![u] = [Parted(u)[u] EXCEPT !.phase = "Returning", !.at = f, !.partner = Nil,
                               !.timer = 0, !.support = Nil]]
      BY <2>2, PartedFacts
    <2>. QED  BY <1>2, <2>1, <2>3 DEF Return
  <1>4. unit[u] \in Runtime /\ Sane(u, unit[u])
    BY RuntimeOf
  <1>5. r \in Runtime /\ r.store = unit[u].store /\ r.cargo = unit[u].cargo /\ r.task = Nil
    BY <1>1, <1>4 DEF Runtime
  <1>6. /\ s \in Runtime /\ s.store = r.store /\ s.cargo = r.cargo /\ s.task = Nil
        /\ s.phase = "Returning" /\ s.at = f /\ s.partner = Nil
    <2>1. /\ s.phase = "Returning" /\ s.at = f /\ s.partner = Nil /\ s.timer = 0
          /\ s.support = Nil /\ s.task = r.task /\ s.store = r.store /\ s.cargo = r.cargo
      BY <1>2, <1>5 DEF Runtime
    <2>2. "Returning" \in Phases
      BY DEF Phases
    <2>3. s \in Runtime
      BY <1>2, <1>5, <2>2, ZenonT(40) DEF Runtime
    <2>. QED  BY <1>5, <2>1, <2>3
  <1>7. StationKept(unit[u], s)
    BY <1>6 DEF StationKept
  <1>8. f # Nil
    BY DEF LogisticsAssumption
  <1>9. Calm(u, unit[u], s)
    BY <1>4, <1>5, <1>6, <1>7, <1>8, CalmChange DEF Berthed, Receiving
  <1>. QED  BY <1>3, <1>6, <1>9, Parting

LEMMA NothingMoves ==
    ASSUME LogisticsAssumption, FieldInv, FrameOK', unit' = unit, stock' = stock
    PROVE  FieldInv' /\ NoGain
  <1>1. Units' = Units /\ unit' = [v \in Units |-> unit'[v]]
    <2>1. Units' = Units
      BY DEF Units
    <2>. QED  BY <2>1 DEF FieldInv
  <1>2. \A v \in Units : Calm(v, unit[v], unit'[v]) /\ unit'[v].task = unit[v].task
    BY CalmSelf
  <1>. QED  BY <1>1, <1>2, QuietStep

LEMMA SupportStep ==
    ASSUME LogisticsAssumption, FieldInv, FrameOK', NEW u \in Units, NEW i \in Interface,
           Support(u, i)
    PROVE  FieldInv' /\ NoGain
  <1>1. PICK s : s = [unit[u] EXCEPT !.support = i]
    OBVIOUS
  <1>2. unit' = [unit EXCEPT ![u] = s] /\ stock' = stock
    BY <1>1 DEF Support
  <1>3. unit[u] \in Runtime /\ Sane(u, unit[u])
    BY RuntimeOf
  <1>5. s \in Runtime
    BY <1>1, <1>3 DEF Runtime
  <1>6. /\ s.phase = unit[u].phase /\ s.at = unit[u].at
        /\ s.store = unit[u].store /\ s.cargo = unit[u].cargo /\ s.task = unit[u].task
        /\ s.partner = unit[u].partner /\ s.asked = unit[u].asked
        /\ s.station = unit[u].station
    BY <1>1, <1>3 DEF Runtime
  <1>7. unit[u].phase = "Deployed"
    BY DEF Support, Phase
  <1>9. Calm(u, unit[u], s)
    BY <1>3, <1>5, <1>6, <1>7, CalmChange DEF Berthed, Receiving, StationKept
  <1>. QED  BY <1>2, <1>6, <1>9, OneCalm

LEMMA RefuelStep ==
    ASSUME LogisticsAssumption, FieldInv, FrameOK', NEW u \in Units, NEW d \in Units,
           NEW i \in Interface, NEW amount \in Nat, Refuel(u, d, i, amount)
    PROVE  FieldInv' /\ NoGain
  <1>1. PICK s : s = [unit[u] EXCEPT !.phase = "Rendezvous", !.partner = d, !.due = amount,
                                     !.asked = i, !.station = Nil, !.timer = 0]
    OBVIOUS
  <1>2. unit' = [unit EXCEPT ![u] = s] /\ stock' = stock
    BY <1>1 DEF Refuel, FieldInv
  <1>3. unit[u] \in Runtime /\ Sane(u, unit[u]) /\ d \in AnyUnit
    BY RuntimeOf, FieldFacts
  <1>4. "Rendezvous" \in Phases
    BY DEF Phases
  <1>5. s \in Runtime
    BY <1>1, <1>3, <1>4 DEF Runtime
  <1>6. /\ s.phase = "Rendezvous" /\ s.partner = d /\ s.asked = i /\ s.station = Nil
        /\ s.store = unit[u].store /\ s.cargo = unit[u].cargo /\ s.task = unit[u].task
    BY <1>1, <1>3 DEF Runtime
  <1>7. u # d /\ i # Nil
    BY DEF Refuel, LogisticsAssumption
  <1>9. Calm(u, unit[u], s)
    BY <1>3, <1>5, <1>6, <1>7, CalmChange DEF Berthed, Receiving, StationKept
  <1>. QED  BY <1>2, <1>6, <1>9, OneCalm

LEMMA ImmobilizeStep ==
    ASSUME LogisticsAssumption, FieldInv, FrameOK', NEW u \in Units, Immobilize(u)
    PROVE  FieldInv' /\ NoGain
  <1>1. PICK s : s = [unit[u] EXCEPT !.phase = "Immobilized"]
    OBVIOUS
  <1>2. unit' = [unit EXCEPT ![u] = s] /\ stock' = stock
    BY <1>1 DEF Immobilize
  <1>3. unit[u] \in Runtime /\ Sane(u, unit[u])
    BY RuntimeOf
  <1>4. "Immobilized" \in Phases
    BY DEF Phases
  <1>5. s \in Runtime
    BY <1>1, <1>3, <1>4 DEF Runtime
  <1>6. /\ s.phase = "Immobilized"
        /\ s.store = unit[u].store /\ s.cargo = unit[u].cargo /\ s.task = unit[u].task
        /\ s.partner = unit[u].partner /\ s.asked = unit[u].asked
        /\ s.station = unit[u].station
    BY <1>1, <1>3 DEF Runtime
  <1>7. u \notin Air /\ unit[u].store["fuel"] = 0
    BY DEF Immobilize, RunDry
  <1>8. Sane(u, s)
    BY <1>3, <1>5, <1>6, <1>7 DEF Sane, Berthed, Receiving
  <1>9. NoMore(unit[u], s)
    BY <1>3, <1>6 DEF NoMore, Runtime, Goods
  <1>10. Calm(u, unit[u], s)
    BY <1>6, <1>8, <1>9 DEF Calm, BerthKept, StationKept, Berthed
  <1>. QED  BY <1>2, <1>6, <1>10, OneCalm

\* Less in store, and nothing else.
LEMMA LessInStore ==
    ASSUME NEW v, NEW r \in Runtime, NEW s \in Runtime, Sane(v, r),
           \A g \in Good : s.store[g] <= r.store[g] /\ Full[v][g] \in Nat,
           s.cargo = r.cargo, s.phase = r.phase, s.at = r.at, s.partner = r.partner,
           s.asked = r.asked, s.station = r.station, r.store["fuel"] = 0 => s.store["fuel"] = 0
    PROVE  Calm(v, r, s)
  <1>1. NoMore(r, s)
    BY DEF NoMore, Runtime, Goods
  <1>2. \A g \in Good : s.store[g] <= Full[v][g]
    <2>1. \A g \in Good : r.store[g] <= Full[v][g] /\ r.store[g] \in Nat /\ s.store[g] \in Nat
      BY DEF Sane, Runtime, Goods
    <2>. QED  BY <2>1
  <1>3. Sane(v, s)
    BY <1>2 DEF Sane
  <1>. QED  BY <1>1, <1>3 DEF Calm, BerthKept, StationKept

LEMMA WearStep ==
    ASSUME LogisticsAssumption, FieldInv, FrameOK', NEW u \in Units, NEW g \in Good,
           Wear(u, g)
    PROVE  FieldInv' /\ NoGain
  <1>1. PICK t : t = [unit[u].store EXCEPT ![g] = unit[u].store[g] - 1]
    OBVIOUS
  <1>2. PICK s : s = [unit[u] EXCEPT !.store = t]
    OBVIOUS
  <1>3. unit[u] \in Runtime /\ Sane(u, unit[u])
    BY RuntimeOf
  <1>4. unit[u].store \in Goods /\ unit[u].store[g] > 0 /\ g # "fuel"
    BY <1>3 DEF Runtime, Wear
  <1>5. t \in Goods /\ \A x \in Good : t[x] <= unit[u].store[x]
    BY <1>1, <1>4 DEF Goods
  <1>6. unit' = [unit EXCEPT ![u] = s] /\ stock' = stock
    BY <1>1, <1>2, <1>3 DEF Wear, Hit, Runtime, Goods
  <1>7. s \in Runtime
    BY <1>2, <1>3, <1>5 DEF Runtime
  <1>8. /\ s.phase = unit[u].phase /\ s.at = unit[u].at
        /\ s.store = t /\ s.cargo = unit[u].cargo /\ s.task = unit[u].task
        /\ s.partner = unit[u].partner /\ s.asked = unit[u].asked
        /\ s.station = unit[u].station
    BY <1>2, <1>3 DEF Runtime
  <1>9. t["fuel"] = unit[u].store["fuel"]
    BY <1>1, <1>4 DEF LogisticsAssumption, Goods
  <1>10. \A x \in Good : s.store[x] <= unit[u].store[x] /\ Full[u][x] \in Nat
    BY <1>5, <1>8, FieldFacts
  <1>11. Calm(u, unit[u], s)
    BY <1>3, <1>7, <1>8, <1>9, <1>10, LessInStore
  <1>. QED  BY <1>6, <1>8, <1>11, OneCalm

LEMMA LoseUnitStep ==
    ASSUME LogisticsAssumption, FieldInv, FrameOK', NEW u \in Units, LoseUnit(u)
    PROVE  FieldInv' /\ NoGain
  <1>1. PICK r : r = [unit[u] EXCEPT !.task = Nil]
    OBVIOUS
  <1>2. PICK s : s = [r EXCEPT !.phase = "Destroyed", !.cargo = Nothing]
    OBVIOUS
  <1>3. unit' = [Parted(u) EXCEPT ![u] = s] /\ stock' = Returned(u)
    <2>1. unit' = [Parted(u) EXCEPT ![u] = [Parted(u)[u] EXCEPT !.phase = "Destroyed",
                                                               !.cargo = Nothing]]
      BY PartedFacts DEF LoseUnit
    <2>. QED  BY <1>1, <1>2, <2>1, PartedFacts DEF LoseUnit
  <1>4. unit[u] \in Runtime /\ Sane(u, unit[u])
    BY RuntimeOf
  <1>5. /\ r \in Runtime /\ r.store = unit[u].store /\ r.task = Nil
        /\ r.partner = unit[u].partner /\ r.asked = unit[u].asked
        /\ r.station = unit[u].station
    BY <1>1, <1>4 DEF Runtime
  <1>6. "Destroyed" \in Phases /\ Nothing \in Goods
    BY DEF Phases, Nothing, Goods
  <1>7. s \in Runtime
    BY <1>2, <1>5, <1>6, ZenonT(40) DEF Runtime
  <1>8. /\ s.phase = "Destroyed" /\ s.cargo = Nothing /\ s.store = unit[u].store /\ s.task = Nil
        /\ s.partner = unit[u].partner /\ s.asked = unit[u].asked
        /\ s.station = unit[u].station
    BY <1>2, <1>5 DEF Runtime
  <1>9. Sane(u, s)
    BY <1>4, <1>7, <1>8 DEF Sane, Berthed, Receiving
  <1>10. NoMore(unit[u], s)
    BY <1>4, <1>8 DEF NoMore, Runtime, Goods, Nothing
  <1>11. Calm(u, unit[u], s)
    BY <1>8, <1>9, <1>10 DEF Calm, BerthKept, StationKept, Berthed
  <1>. QED  BY <1>3, <1>8, <1>11, Parting

\* A new phase, with the time in it starting over.
LEMMA NewPhase ==
    ASSUME NEW r, r \in Runtime, NEW p \in Phases
    PROVE  \E s \in Runtime :
               /\ s = [r EXCEPT !.phase = p, !.timer = 0]
               /\ s.phase = p /\ s.at = r.at
               /\ s.store = r.store /\ s.cargo = r.cargo /\ s.task = r.task
               /\ s.partner = r.partner /\ s.asked = r.asked /\ s.station = r.station
  <1>1. PICK s : s = [r EXCEPT !.phase = p, !.timer = 0]
    OBVIOUS
  <1>2. s \in Runtime
    BY <1>1 DEF Runtime
  <1>3. /\ s.phase = p /\ s.at = r.at
        /\ s.store = r.store /\ s.cargo = r.cargo /\ s.task = r.task
        /\ s.partner = r.partner /\ s.asked = r.asked /\ s.station = r.station
    BY <1>1 DEF Runtime
  <1>. QED  BY <1>1, <1>2, <1>3

LEMMA NewLeg ==
    ASSUME NEW r, r \in Runtime, NEW n \in 0..2
    PROVE  \E s \in Runtime :
               /\ s = [r EXCEPT !.leg = n, !.timer = 0]
               /\ s.phase = r.phase /\ s.at = r.at
               /\ s.store = r.store /\ s.cargo = r.cargo /\ s.task = r.task
               /\ s.partner = r.partner /\ s.asked = r.asked /\ s.station = r.station
  <1>1. PICK s : s = [r EXCEPT !.leg = n, !.timer = 0]
    OBVIOUS
  <1>2. s \in Runtime
    BY <1>1 DEF Runtime
  <1>3. /\ s.phase = r.phase /\ s.at = r.at
        /\ s.store = r.store /\ s.cargo = r.cargo /\ s.task = r.task
        /\ s.partner = r.partner /\ s.asked = r.asked /\ s.station = r.station
    BY <1>1 DEF Runtime
  <1>. QED  BY <1>1, <1>2, <1>3

\* What Cancel makes of a state.
LEMMA StoppedFacts ==
    ASSUME NEW u, NEW r, r \in Runtime
    PROVE  /\ Stopped(u, r) \in Runtime
           /\ Stopped(u, r).store = r.store /\ Stopped(u, r).cargo = r.cargo
           /\ Stopped(u, r).task = r.task /\ Stopped(u, r).partner = r.partner
           /\ Stopped(u, r).asked = r.asked /\ Stopped(u, r).station = r.station
           /\ \/ Stopped(u, r).phase = r.phase /\ Stopped(u, r).at = r.at
                 /\ r.phase \notin Receiving
              \/ Stopped(u, r).phase = "Disconnecting"
              \/ /\ Stopped(u, r).phase = "Queued" /\ r.phase \in Berthed
                 /\ Stopped(u, r).at = r.at
              \/ Stopped(u, r).phase = "Deployed"
  <1>. DEFINE Fine(t) ==
           /\ t \in Runtime
           /\ t.store = r.store /\ t.cargo = r.cargo
           /\ t.task = r.task /\ t.partner = r.partner
           /\ t.asked = r.asked /\ t.station = r.station
           /\ \/ t.phase = r.phase /\ t.at = r.at /\ r.phase \notin Receiving
              \/ t.phase = "Disconnecting"
              \/ t.phase = "Queued" /\ r.phase \in Berthed /\ t.at = r.at
              \/ t.phase = "Deployed"
  <1>0. {"Disconnecting", "Queued", "Deployed"} \subseteq Phases
    BY DEF Phases
  <1>1. ASSUME r.phase = "Replenishing" PROVE Fine([r EXCEPT !.leg = 2, !.timer = 0])
    <2>1. PICK t \in Runtime :
              /\ t = [r EXCEPT !.leg = 2, !.timer = 0]
              /\ t.phase = r.phase /\ t.at = r.at
              /\ t.store = r.store /\ t.cargo = r.cargo /\ t.task = r.task
              /\ t.partner = r.partner /\ t.asked = r.asked /\ t.station = r.station
      <3>1. 2 \in 0..2
        OBVIOUS
      <3>. QED  BY <3>1, NewLeg
    <2>2. Fine(t)
      BY <1>1, <2>1 DEF Receiving
    <2>. HIDE DEF Fine
    <2>. QED  BY <2>1, <2>2
  <1>2. Fine([r EXCEPT !.phase = "Disconnecting", !.timer = 0])
    <2>1. PICK t \in Runtime :
              /\ t = [r EXCEPT !.phase = "Disconnecting", !.timer = 0]
              /\ t.phase = "Disconnecting" /\ t.at = r.at
              /\ t.store = r.store /\ t.cargo = r.cargo /\ t.task = r.task
              /\ t.partner = r.partner /\ t.asked = r.asked /\ t.station = r.station
      BY <1>0, NewPhase
    <2>2. Fine(t)
      BY <2>1
    <2>. HIDE DEF Fine
    <2>. QED  BY <2>1, <2>2
  <1>3. ASSUME r.phase \in {"Loading", "Unloading", "Departing"}
        PROVE  Fine([r EXCEPT !.phase = "Queued", !.timer = 0])
    <2>1. PICK t \in Runtime :
              /\ t = [r EXCEPT !.phase = "Queued", !.timer = 0]
              /\ t.phase = "Queued" /\ t.at = r.at
              /\ t.store = r.store /\ t.cargo = r.cargo /\ t.task = r.task
              /\ t.partner = r.partner /\ t.asked = r.asked /\ t.station = r.station
      BY <1>0, NewPhase
    <2>2. Fine(t)
      BY <1>3, <2>1 DEF Berthed
    <2>. HIDE DEF Fine
    <2>. QED  BY <2>1, <2>2
  <1>4. Fine([r EXCEPT !.phase = "Deployed", !.at = Nil])
    <2>1. PICK t : t = [r EXCEPT !.phase = "Deployed", !.at = Nil]
      OBVIOUS
    <2>2. t \in Runtime
      BY <1>0, <2>1 DEF Runtime
    <2>3. Fine(t)
      BY <2>1, <2>2 DEF Runtime
    <2>. HIDE DEF Fine
    <2>. QED  BY <2>1, <2>3
  <1>5. ASSUME r.phase \notin {"Connecting", "Transferring", "Rendezvous"} PROVE Fine(r)
    BY <1>5 DEF Receiving
  <1>6. Fine(Stopped(u, r))
    <2>. HIDE DEF Fine
    <2>. QED  BY <1>1, <1>2, <1>3, <1>4, <1>5 DEF Stopped
  <1>. QED  BY <1>6

LEMMA CancelStep ==
    ASSUME LogisticsAssumption, FieldInv, FrameOK', NEW u \in Units, Cancel(u)
    PROVE  FieldInv' /\ NoGain
  <1>1. PICK r : r = [[unit[u] EXCEPT !.task = Nil] EXCEPT !.support = Nil]
    OBVIOUS
  <1>2. PICK s : s = Stopped(u, r)
    OBVIOUS
  <1>3. unit' = [Parted(u) EXCEPT ![u] = s] /\ stock' = Returned(u)
    <2>1. unit' = [Parted(u) EXCEPT ![u] = Stopped(u, [Parted(u)[u] EXCEPT !.support = Nil])]
      BY PartedFacts DEF Cancel
    <2>. QED  BY <1>1, <1>2, <2>1, PartedFacts DEF Cancel
  <1>4. unit[u] \in Runtime /\ Sane(u, unit[u])
    BY RuntimeOf
  <1>5. /\ r \in Runtime /\ r.store = unit[u].store /\ r.cargo = unit[u].cargo /\ r.task = Nil
        /\ r.partner = unit[u].partner /\ r.asked = unit[u].asked
        /\ r.station = unit[u].station /\ r.phase = unit[u].phase /\ r.at = unit[u].at
    BY <1>1, <1>4 DEF Runtime
  <1>6. /\ s \in Runtime /\ s.store = unit[u].store /\ s.cargo = unit[u].cargo /\ s.task = Nil
        /\ s.partner = unit[u].partner /\ s.asked = unit[u].asked
        /\ s.station = unit[u].station
    BY <1>2, <1>5, StoppedFacts
  <1>7. \/ s.phase = unit[u].phase /\ s.at = unit[u].at /\ unit[u].phase \notin Receiving
        \/ s.phase = "Disconnecting"
        \/ s.phase = "Queued" /\ unit[u].phase \in Berthed /\ s.at = unit[u].at
        \/ s.phase = "Deployed"
    BY <1>2, <1>5, StoppedFacts
  <1>8. StationKept(unit[u], s)
    BY <1>6 DEF StationKept
  <1>9. /\ s.phase \in Berthed => unit[u].phase \in Berthed /\ s.at = unit[u].at
        /\ s.phase \in Berthed \cup {"Returning", "Approach", "Replenishing"} => s.at # Nil
        /\ s.phase \in Receiving => s.partner \in Units \ {u} /\ s.asked # Nil
        /\ s.phase = "Immobilized" => unit[u].phase = "Immobilized"
    BY <1>4, <1>7 DEF Sane, Berthed, Receiving
  <1>10. Calm(u, unit[u], s)
    BY <1>4, <1>6, <1>8, <1>9, CalmChange
  <1>. QED  BY <1>3, <1>6, <1>10, Parting

LEMMA SettleLostStep ==
    ASSUME LogisticsAssumption, FieldInv, FrameOK', NEW u \in Units, SettleLost(u)
    PROVE  FieldInv' /\ NoGain
  <1>1. CASE Phase(u) \notin Lost
    BY <1>1, NothingMoves DEF SettleLost
  <1>2. CASE Phase(u) \in Lost
    <2>1. PICK s : s = [unit[u] EXCEPT !.task = Nil]
      OBVIOUS
    <2>2. unit' = Parted(u) /\ stock' = Returned(u)
      BY <1>2 DEF SettleLost
    <2>3. unit' = [Parted(u) EXCEPT ![u] = s]
      BY <2>1, <2>2, PartedFacts
    <2>4. unit[u] \in Runtime /\ Sane(u, unit[u])
      BY RuntimeOf
    <2>5. /\ s \in Runtime /\ s.store = unit[u].store /\ s.cargo = unit[u].cargo /\ s.task = Nil
          /\ s.partner = unit[u].partner /\ s.asked = unit[u].asked
          /\ s.station = unit[u].station /\ s.phase = unit[u].phase
      BY <2>1, <2>4 DEF Runtime
    <2>6. s.phase \notin Berthed \cup {"Returning", "Approach", "Replenishing", "Immobilized"} \cup Receiving
      BY <1>2, <2>5 DEF Lost, Phase, Berthed, Receiving
    <2>7. StationKept(unit[u], s)
      BY <2>5 DEF StationKept
    <2>8. Calm(u, unit[u], s)
      BY <2>4, <2>5, <2>6, <2>7, CalmChange
    <2>. QED  BY <2>2, <2>3, <2>5, <2>8, Parting
  <1>. QED  BY <1>1, <1>2

LEMMA ReturnOnReserveStep ==
    ASSUME LogisticsAssumption, FieldInv, FrameOK', NEW u \in Units, NEW f \in Facility,
           ReturnOnReserve(u, f)
    PROVE  FieldInv' /\ NoGain
  <1>1. PICK s : s = [unit[u] EXCEPT !.phase = "Returning", !.at = f, !.support = Nil]
    OBVIOUS
  <1>2. /\ unit' = [v \in Units |-> IF v = u THEN s ELSE Parted(u)[v]] /\ stock' = stock
    BY <1>1 DEF ReturnOnReserve
  <1>3. unit[u] \in Runtime /\ Sane(u, unit[u])
    BY RuntimeOf
  <1>4. "Returning" \in Phases /\ f # Nil
    BY DEF Phases, LogisticsAssumption
  <1>5. s \in Runtime
    BY <1>1, <1>3, <1>4 DEF Runtime
  <1>6. /\ s.phase = "Returning" /\ s.at = f
        /\ s.store = unit[u].store /\ s.cargo = unit[u].cargo /\ s.task = unit[u].task
        /\ s.partner = unit[u].partner /\ s.asked = unit[u].asked
        /\ s.station = unit[u].station
    BY <1>1, <1>3 DEF Runtime
  <1>7. Calm(u, unit[u], s)
    BY <1>3, <1>4, <1>5, <1>6, CalmChange DEF Berthed, Receiving, StationKept
  <1>8. /\ Units' = Units /\ unit' = [v \in Units |-> unit'[v]]
        /\ unit'[u] = s /\ \A v \in Units \ {u} : unit'[v] = Parted(u)[v]
    BY <1>2 DEF Units
  <1>9. ASSUME NEW v \in Units
        PROVE  Calm(v, unit[v], unit'[v]) /\ unit'[v].task = unit[v].task
    <2>1. CASE v = u
      BY <1>6, <1>7, <1>8, <2>1
    <2>2. CASE v # u
      <3>1. v \in Units \ {u} /\ unit'[v] = Parted(u)[v]
        BY <1>8, <2>2
      <3>2. Calm(v, unit[v], Parted(u)[v]) /\ Parted(u)[v].task = unit[v].task
        BY <3>1, PartedFacts
      <3>. QED  BY <3>1, <3>2
    <2>. QED  BY <2>1, <2>2
  <1>. QED  BY <1>2, <1>8, <1>9, QuietStep

LEMMA ComeAlongsideStep ==
    ASSUME LogisticsAssumption, FieldInv, FrameOK', NEW u \in Units, ComeAlongside(u)
    PROVE  FieldInv' /\ NoGain
  <1>0. PICK n \in 0..2 : n = 0
    OBVIOUS
  <1>1. PICK s : s = [unit[u] EXCEPT !.phase = "Replenishing", !.leg = n, !.timer = 0]
    OBVIOUS
  <1>2. unit' = [unit EXCEPT ![u] = s] /\ stock' = stock
    BY <1>0, <1>1 DEF ComeAlongside, FieldInv
  <1>3. unit[u] \in Runtime /\ Sane(u, unit[u])
    BY RuntimeOf
  <1>4. "Replenishing" \in Phases /\ unit[u].at # Nil
    BY <1>3 DEF Phases, ComeAlongside, Phase, Sane
  <1>5. s \in Runtime
    BY <1>1, <1>3, <1>4 DEF Runtime
  <1>6. /\ s.phase = "Replenishing" /\ s.at = unit[u].at
        /\ s.store = unit[u].store /\ s.cargo = unit[u].cargo /\ s.task = unit[u].task
        /\ s.partner = unit[u].partner /\ s.asked = unit[u].asked
        /\ s.station = unit[u].station
    BY <1>1, <1>3 DEF Runtime
  <1>7. Calm(u, unit[u], s)
    BY <1>3, <1>4, <1>5, <1>6, CalmChange DEF Berthed, Receiving, StationKept
  <1>. QED  BY <1>2, <1>6, <1>7, OneCalm

\* One tick more.
LEMMA Timed ==
    ASSUME NEW r, r \in Runtime
    PROVE  \E s \in Runtime :
               /\ s = [r EXCEPT !.timer = r.timer + 1]
               /\ s.phase = r.phase /\ s.at = r.at /\ s.timer = r.timer + 1
               /\ s.store = r.store /\ s.cargo = r.cargo /\ s.task = r.task
               /\ s.partner = r.partner /\ s.asked = r.asked /\ s.station = r.station
  <1>1. PICK n : n = r.timer + 1
    OBVIOUS
  <1>2. n \in Nat
    BY <1>1 DEF Runtime
  <1>3. PICK s : s = [r EXCEPT !.timer = n]
    OBVIOUS
  <1>4. s \in Runtime
    BY <1>2, <1>3 DEF Runtime
  <1>5. /\ s.phase = r.phase /\ s.at = r.at /\ s.timer = n
        /\ s.store = r.store /\ s.cargo = r.cargo /\ s.task = r.task
        /\ s.partner = r.partner /\ s.asked = r.asked /\ s.station = r.station
    BY <1>3 DEF Runtime
  <1>. QED  BY <1>1, <1>3, <1>4, <1>5

\* The unit deploys from where it is.
LEMMA LeavesBerth ==
    ASSUME NEW r, r \in Runtime
    PROVE  \E s \in Runtime :
               /\ s = [r EXCEPT !.phase = "Deployed", !.at = Nil, !.timer = 0]
               /\ s.phase = "Deployed"
               /\ s.store = r.store /\ s.cargo = r.cargo /\ s.task = r.task
               /\ s.partner = r.partner /\ s.asked = r.asked /\ s.station = r.station
  <1>1. PICK s : s = [r EXCEPT !.phase = "Deployed", !.at = Nil, !.timer = 0]
    OBVIOUS
  <1>2. "Deployed" \in Phases
    BY DEF Phases
  <1>3. s \in Runtime
    BY <1>1, <1>2 DEF Runtime
  <1>4. /\ s.phase = "Deployed"
        /\ s.store = r.store /\ s.cargo = r.cargo /\ s.task = r.task
        /\ s.partner = r.partner /\ s.asked = r.asked /\ s.station = r.station
    BY <1>1 DEF Runtime
  <1>. QED  BY <1>1, <1>3, <1>4

\* Waiting one tick more and deploying change nothing else.
LEMMA CalmTimed ==
    ASSUME NEW v, NEW r, r \in Runtime, Sane(v, r), NEW s,
           s = [r EXCEPT !.timer = r.timer + 1]
    PROVE  Calm(v, r, s) /\ s.task = r.task
  <1>1. /\ s \in Runtime /\ s.phase = r.phase /\ s.at = r.at
        /\ s.store = r.store /\ s.cargo = r.cargo /\ s.task = r.task
        /\ s.partner = r.partner /\ s.asked = r.asked /\ s.station = r.station
    BY Timed
  <1>2. StationKept(r, s)
    BY <1>1 DEF StationKept
  <1>3. /\ s.phase \in Berthed \cup {"Returning", "Approach", "Replenishing"} => s.at # Nil
        /\ s.phase \in Receiving => s.partner \in Units \ {v} /\ s.asked # Nil
    BY <1>1 DEF Sane
  <1>4. Calm(v, r, s)
    BY <1>1, <1>2, <1>3, CalmChange
  <1>. QED  BY <1>1, <1>4

LEMMA CalmDeployed ==
    ASSUME NEW v, NEW r, r \in Runtime, Sane(v, r), NEW s,
           s = [r EXCEPT !.phase = "Deployed", !.at = Nil, !.timer = 0]
    PROVE  Calm(v, r, s) /\ s.task = r.task
  <1>0. PICK x \in Runtime :
            /\ x = [r EXCEPT !.phase = "Deployed", !.at = Nil, !.timer = 0]
            /\ x.phase = "Deployed"
            /\ x.store = r.store /\ x.cargo = r.cargo /\ x.task = r.task
            /\ x.partner = r.partner /\ x.asked = r.asked /\ x.station = r.station
    BY LeavesBerth
  <1>1. /\ s \in Runtime /\ s.phase = "Deployed"
        /\ s.store = r.store /\ s.cargo = r.cargo /\ s.task = r.task
        /\ s.partner = r.partner /\ s.asked = r.asked /\ s.station = r.station
    <2>1. s = x
      BY <1>0
    <2>. QED  BY <1>0, <2>1
  <1>2. StationKept(r, s)
    BY <1>1 DEF StationKept
  <1>3. s.phase \notin Berthed \cup {"Returning", "Approach", "Replenishing", "Immobilized"} \cup Receiving
    BY <1>1 DEF Berthed, Receiving
  <1>4. Calm(v, r, s)
    BY <1>1, <1>2, <1>3, CalmChange
  <1>. QED  BY <1>1, <1>4

LEMMA LeaveStep ==
    ASSUME LogisticsAssumption, FieldInv, FrameOK', NEW u \in Units, Leave(u)
    PROVE  FieldInv' /\ NoGain
  <1>1. PICK s : s = IF unit[u].timer + 1 >= MoveTicks
                     THEN [unit[u] EXCEPT !.phase = "Deployed", !.at = Nil, !.timer = 0]
                     ELSE [unit[u] EXCEPT !.timer = unit[u].timer + 1]
    OBVIOUS
  <1>2. unit' = [unit EXCEPT ![u] = s] /\ stock' = stock
    <2>1. CASE unit[u].timer + 1 >= MoveTicks
      BY <1>1, <2>1 DEF Leave
    <2>2. CASE ~ (unit[u].timer + 1 >= MoveTicks)
      BY <1>1, <2>2 DEF Leave
    <2>. QED  BY <2>1, <2>2
  <1>3. unit[u] \in Runtime /\ Sane(u, unit[u])
    BY RuntimeOf
  <1>4. Calm(u, unit[u], s) /\ s.task = unit[u].task
    BY <1>1, <1>3, CalmTimed, CalmDeployed
  <1>. QED  BY <1>2, <1>4, OneCalm

LEMMA BreakOffStep ==
    ASSUME LogisticsAssumption, FieldInv, FrameOK', NEW u \in Units, BreakOff(u)
    PROVE  FieldInv' /\ NoGain
  <1>0. 2 \in 0..2
    OBVIOUS
  <1>1. PICK s \in Runtime :
            /\ s = [unit[u] EXCEPT !.leg = 2, !.timer = 0]
            /\ s.phase = unit[u].phase /\ s.at = unit[u].at
            /\ s.store = unit[u].store /\ s.cargo = unit[u].cargo /\ s.task = unit[u].task
            /\ s.partner = unit[u].partner /\ s.asked = unit[u].asked
            /\ s.station = unit[u].station
    BY <1>0, RuntimeOf, NewLeg
  <1>2. unit' = [unit EXCEPT ![u] = s] /\ stock' = stock
    BY <1>1 DEF BreakOff, FieldInv
  <1>3. unit[u] \in Runtime /\ Sane(u, unit[u])
    BY RuntimeOf
  <1>4. unit[u].phase = "Replenishing" /\ unit[u].at # Nil
    BY <1>3 DEF BreakOff, Phase, Sane
  <1>5. Calm(u, unit[u], s)
    BY <1>1, <1>3, <1>4, CalmChange DEF Berthed, Receiving, StationKept
  <1>. QED  BY <1>1, <1>2, <1>5, OneCalm

LEMMA SeparateStep ==
    ASSUME LogisticsAssumption, FieldInv, FrameOK', NEW u \in Units, Separate(u)
    PROVE  FieldInv' /\ NoGain
  <1>0. "Disconnecting" \in Phases
    BY DEF Phases
  <1>1. PICK s \in Runtime :
            /\ s = [unit[u] EXCEPT !.phase = "Disconnecting", !.timer = 0]
            /\ s.phase = "Disconnecting" /\ s.at = unit[u].at
            /\ s.store = unit[u].store /\ s.cargo = unit[u].cargo /\ s.task = unit[u].task
            /\ s.partner = unit[u].partner /\ s.asked = unit[u].asked
            /\ s.station = unit[u].station
    BY <1>0, RuntimeOf, NewPhase
  <1>2. unit' = [unit EXCEPT ![u] = s] /\ stock' = stock
    BY <1>1 DEF Separate, FieldInv
  <1>3. unit[u] \in Runtime /\ Sane(u, unit[u])
    BY RuntimeOf
  <1>5. Calm(u, unit[u], s)
    BY <1>1, <1>3, CalmChange DEF Berthed, Receiving, StationKept
  <1>. QED  BY <1>1, <1>2, <1>5, OneCalm

LEMMA DisconnectStep ==
    ASSUME LogisticsAssumption, FieldInv, FrameOK', NEW u \in Units, Disconnect(u)
    PROVE  FieldInv' /\ NoGain
  <1>1. PICK t : t = [unit[u] EXCEPT !.phase = "Deployed", !.partner = Nil,
                                     !.station = Nil, !.asked = Nil, !.timer = 0]
    OBVIOUS
  <1>2. PICK s : s = IF unit[u].timer + 1 >= DisconnectTicks THEN t
                     ELSE [unit[u] EXCEPT !.timer = unit[u].timer + 1]
    OBVIOUS
  <1>3. unit' = [unit EXCEPT ![u] = s] /\ stock' = stock
    <2>1. CASE unit[u].timer + 1 >= DisconnectTicks
      BY <1>1, <1>2, <2>1 DEF Disconnect
    <2>2. CASE ~ (unit[u].timer + 1 >= DisconnectTicks)
      BY <1>1, <1>2, <2>2 DEF Disconnect
    <2>. QED  BY <2>1, <2>2
  <1>4. unit[u] \in Runtime /\ Sane(u, unit[u])
    BY RuntimeOf
  <1>5. "Deployed" \in Phases
    BY DEF Phases
  <1>6. t \in Runtime
    BY <1>1, <1>4, <1>5 DEF Runtime
  <1>7. /\ t.phase = "Deployed" /\ t.partner = Nil
        /\ t.store = unit[u].store /\ t.cargo = unit[u].cargo /\ t.task = unit[u].task
    BY <1>1, <1>4 DEF Runtime
  <1>8. Calm(u, unit[u], t)
    BY <1>4, <1>6, <1>7, CalmChange DEF Berthed, Receiving, StationKept
  <1>9. Calm(u, unit[u], s) /\ s.task = unit[u].task
    <2>1. CASE s = t
      BY <1>7, <1>8, <2>1
    <2>2. CASE s = [unit[u] EXCEPT !.timer = unit[u].timer + 1]
      BY <1>4, <2>2, CalmTimed
    <2>. QED  BY <1>2, <2>1, <2>2
  <1>. QED  BY <1>3, <1>9, OneCalm

LEMMA OneOf ==
    ASSUME FieldInv, NEW u \in Units, NEW s, unit' = [unit EXCEPT ![u] = s]
    PROVE  /\ Units' = Units /\ unit' = [v \in Units |-> unit'[v]]
           /\ unit'[u] = s /\ \A v \in Units \ {u} : unit'[v] = unit[v]
  <1>1. unit = [v \in Units |-> unit[v]]
    BY DEF FieldInv
  <1>2. DOMAIN unit' = DOMAIN unit
    BY <1>1
  <1>. QED  BY <1>1, <1>2 DEF Units

\* A step in which only u changes, and may take a berth or a station.
LEMMA OneChanges ==
    ASSUME LogisticsAssumption, FieldInv, FrameOK', NEW u \in Units, NEW s,
           unit' = [unit EXCEPT ![u] = s], stock' = stock,
           Sane(u, s), NoMore(unit[u], s), s.task = unit[u].task,
           WithinBerths', StationsApart'
    PROVE  FieldInv' /\ NoGain
  <1>1. /\ Units' = Units /\ unit' = [v \in Units |-> unit'[v]]
        /\ unit'[u] = s /\ \A v \in Units \ {u} : unit'[v] = unit[v]
    BY OneOf
  <1>2. ASSUME NEW v \in Units
        PROVE  /\ Sane(v, unit'[v]) /\ NoMore(unit[v], unit'[v])
               /\ unit'[v].task = unit[v].task
               /\ unit[v] \in Runtime /\ unit'[v] \in Runtime
    <2>1. CASE v = u
      BY <1>1, <2>1, RuntimeOf DEF Sane
    <2>2. CASE v # u
      BY <1>1, <2>2, CalmSelf, RuntimeOf DEF Calm
    <2>. QED  BY <2>1, <2>2
  <1>3. IsFiniteSet(Units) /\ IsFiniteSet(Facility)
    BY FieldFacts
  <1>4. stock' \in [Facility -> Goods]
    BY DEF FieldInv
  <1>5. \A f \in Facility, g \in Good : Held(f, g) \in Nat /\ Held(f, g)' \in Nat
    BY <1>1, <1>2, <1>4, HeldType
  <1>6. \A f \in Facility, g \in Good : Held(f, g)' = Held(f, g)
    BY <1>1, <1>2, <1>3, ReservedKept DEF Held
  <1>7. \A f \in Facility, g \in Good : Held(f, g)' <= Capacity[f][g]
    BY <1>6 DEF FieldInv
  <1>8. FieldInv'
    BY <1>1, <1>2, <1>4, <1>7, Keeping
  <1>9. \A v \in Units, g \in Good :
            /\ AboardOf(unit[v], g) \in Nat /\ AboardOf(unit'[v], g) \in Nat
            /\ AboardOf(unit'[v], g) <= AboardOf(unit[v], g)
    BY <1>2, CalmAboard
  <1>10. \A f \in Facility, g \in Good : Held(f, g)' <= Held(f, g)
    BY <1>5, <1>6
  <1>11. NoGain
    BY <1>1, <1>3, <1>5, <1>9, <1>10, NothingGrows
  <1>. QED  BY <1>8, <1>11

LEMMA DepartStep ==
    ASSUME LogisticsAssumption, FieldInv, FrameOK', NEW u \in Units, Depart(u)
    PROVE  FieldInv' /\ NoGain
  <1>1. PICK s : s = [unit[u] EXCEPT !.phase = "Departing", !.timer = 0]
    OBVIOUS
  <1>2. unit' = [unit EXCEPT ![u] = s] /\ stock' = stock
    BY <1>1 DEF Depart, FieldInv
  <1>3. unit[u] \in Runtime /\ Sane(u, unit[u])
    BY RuntimeOf
  <1>4. "Departing" \in Phases
    BY DEF Phases
  <1>5. s \in Runtime
    BY <1>1, <1>3, <1>4 DEF Runtime
  <1>6. /\ s.phase = "Departing" /\ s.at = unit[u].at
        /\ s.store = unit[u].store /\ s.cargo = unit[u].cargo /\ s.task = unit[u].task
        /\ s.partner = unit[u].partner /\ s.asked = unit[u].asked
        /\ s.station = unit[u].station
    BY <1>1, <1>3 DEF Runtime
  <1>7. unit[u].phase \in {"Queued", "Servicing", "Ready", "Immobilized"} /\ unit[u].at # Nil
    BY DEF Depart, Phase
  <1>8. Provisioned => unit[u].phase # "Immobilized"
    <2>1. SUFFICES ASSUME Provisioned, unit[u].phase = "Immobilized" PROVE FALSE
      OBVIOUS
    <2>2. u \in AnyUnit \ Air /\ unit[u].store["fuel"] = 0
      BY <1>3, <2>1, FieldFacts DEF Sane
    <2>3. MinDeparture[u] > 0 /\ MinDeparture[u] \in Nat
      BY <2>1, <2>2 DEF Provisioned, DeparturesNeedFuel, LogisticsAssumption
    <2>4. unit[u].store["fuel"] >= MinDeparture[u]
      BY DEF Depart
    <2>. QED  BY <2>2, <2>3, <2>4
  <1>9. CASE unit[u].phase # "Immobilized"
    <2>1. Calm(u, unit[u], s)
      BY <1>3, <1>5, <1>6, <1>7, <1>9, CalmChange DEF Berthed, Receiving, StationKept
    <2>. QED  BY <1>2, <1>6, <2>1, OneCalm
  <1>10. CASE unit[u].phase = "Immobilized"
    <2>1. WithinBerths'
      BY <1>8, <1>10 DEF WithinBerths
    <2>2. /\ Units' = Units /\ unit'[u] = s
          /\ \A v \in Units \ {u} : unit'[v] = unit[v]
      BY <1>2, OneOf
    <2>3. \A v \in Units : StationKept(unit[v], unit'[v])
      BY <1>6, <2>2 DEF StationKept
    <2>4. StationsApart'
      BY <2>2, <2>3, StationsHold DEF FieldInv
    <2>5. Sane(u, s)
      BY <1>3, <1>5, <1>6, <1>7 DEF Sane, Berthed, Receiving
    <2>6. NoMore(unit[u], s)
      BY <1>3, <1>6 DEF NoMore, Runtime, Goods
    <2>. QED  BY <1>2, <1>6, <2>1, <2>4, <2>5, <2>6, OneChanges
  <1>. QED  BY <1>9, <1>10

\* Whoever recovers finds a berth.
LEMMA RecoverStep ==
    ASSUME LogisticsAssumption, FieldInv, FrameOK', NEW u \in Units, Recover(u)
    PROVE  FieldInv' /\ NoGain
  <1>1. PICK p : p = IF unit[u].timer + 1 >= MoveTicks THEN Arrived(unit[u]) ELSE "Approach"
    OBVIOUS
  <1>2. PICK n : n = IF unit[u].timer + 1 >= MoveTicks THEN 0 ELSE unit[u].timer + 1
    OBVIOUS
  <1>3. PICK s : s = [unit[u] EXCEPT !.phase = p, !.timer = n]
    OBVIOUS
  <1>4. unit' = [unit EXCEPT ![u] = s] /\ stock' = stock
    <2>1. CASE unit[u].timer + 1 >= MoveTicks
      BY <1>1, <1>2, <1>3, <2>1 DEF Recover
    <2>2. CASE ~ (unit[u].timer + 1 >= MoveTicks)
      BY <1>1, <1>2, <1>3, <2>2 DEF Recover
    <2>. QED  BY <2>1, <2>2
  <1>5. unit[u] \in Runtime /\ Sane(u, unit[u])
    BY RuntimeOf
  <1>6. p \in {"Loading", "Unloading", "Queued", "Approach"} /\ p \in Phases
    BY <1>1 DEF Arrived, Phases
  <1>7. n \in Nat
    BY <1>2, <1>5 DEF Runtime
  <1>8. s \in Runtime
    BY <1>3, <1>5, <1>6, <1>7 DEF Runtime
  <1>9. /\ s.phase = p /\ s.at = unit[u].at
        /\ s.store = unit[u].store /\ s.cargo = unit[u].cargo /\ s.task = unit[u].task
        /\ s.partner = unit[u].partner /\ s.asked = unit[u].asked
        /\ s.station = unit[u].station
    BY <1>3, <1>5 DEF Runtime
  <1>10. unit[u].phase \in {"Returning", "Approach"} /\ unit[u].at # Nil
    BY <1>5 DEF Recover, Phase, Sane
  <1>11. Sane(u, s)
    BY <1>5, <1>6, <1>8, <1>9, <1>10 DEF Sane, Receiving
  <1>12. NoMore(unit[u], s) /\ StationKept(unit[u], s)
    BY <1>5, <1>9 DEF NoMore, StationKept, Runtime, Goods
  <1>13. /\ Units' = Units /\ unit' = [v \in Units |-> unit'[v]]
         /\ unit'[u] = s /\ \A v \in Units \ {u} : unit'[v] = unit[v]
    BY <1>4, OneOf
  <1>14. \A v \in Units : StationKept(unit[v], unit'[v])
    BY <1>12, <1>13 DEF StationKept
  <1>15. IsFiniteSet(Units)
    BY FieldFacts
  <1>16. ASSUME Provisioned, NEW f \in Facility PROVE Occupied(f)' <= Parking[f]
    <2>. DEFINE A == {v \in Units : unit[v].at = f /\ Phase(v) \in Berthed}
                B == {v \in Units : unit'[v].at = f /\ unit'[v].phase \in Berthed}
    <2>1. Occupied(f) = Cardinality(A) /\ Occupied(f)' = Cardinality(B)
      BY <1>13 DEF Occupied, Phase
    <2>2. B \subseteq A \cup {u} /\ A \subseteq Units
      BY <1>13 DEF Phase
    <2>3. Parking[f] \in Nat /\ Cardinality(A) <= Parking[f]
      BY <1>16, <2>1 DEF FieldInv, WithinBerths, LogisticsAssumption
    <2>4. CASE unit[u].at = f
      <3>1. Cardinality(A) < Parking[f]
        BY <2>1, <2>4 DEF Recover, FindsBerth
      <3>. HIDE DEF A, B
      <3>2. IsFiniteSet(A) /\ Cardinality(A) \in Nat
        BY <1>15, <2>2, FS_Subset, FS_CardinalityType
      <3>3. IsFiniteSet(A \cup {u}) /\ Cardinality(A \cup {u}) <= Cardinality(A) + 1
        <4>1. /\ IsFiniteSet(A \cup {u})
              /\ Cardinality(A \cup {u}) = IF u \in A THEN Cardinality(A) ELSE Cardinality(A) + 1
          BY <3>2, FS_AddElement
        <4>. QED  BY <3>2, <4>1
      <3>4. Cardinality(B) <= Cardinality(A \cup {u}) /\ Cardinality(B) \in Nat
        BY <2>2, <3>3, FS_Subset, FS_CardinalityType
      <3>5. Cardinality(A \cup {u}) \in Nat
        BY <3>3, FS_CardinalityType
      <3>. QED  BY <2>1, <2>3, <3>1, <3>2, <3>3, <3>4, <3>5
    <2>5. CASE unit[u].at # f
      <3>1. B \subseteq A
        BY <1>9, <1>13, <2>5 DEF Phase
      <3>. HIDE DEF A, B
      <3>2. IsFiniteSet(A) /\ Cardinality(A) \in Nat
        BY <1>15, <2>2, FS_Subset, FS_CardinalityType
      <3>3. Cardinality(B) <= Cardinality(A) /\ Cardinality(B) \in Nat
        BY <3>1, <3>2, FS_Subset, FS_CardinalityType
      <3>. QED  BY <2>1, <2>3, <3>2, <3>3
    <2>. QED  BY <2>4, <2>5
  <1>17. StationsApart'
    BY <1>13, <1>14, StationsHold DEF FieldInv
  <1>20. WithinBerths'
    BY <1>16 DEF WithinBerths
  <1>. QED  BY <1>4, <1>9, <1>11, <1>12, <1>20, <1>17, OneChanges

\* A station that is given to u is one that none of the donor's receivers has.
LEMMA StationForFacts ==
    ASSUME LogisticsAssumption, FieldInv, NEW u \in Units,
           unit[u].station # Nil \/ FreeStations(u) # {}
    PROVE  /\ StationFor(u) \in Nat \cup {Nil}
           /\ unit[u].station # Nil => StationFor(u) = unit[u].station
           /\ unit[u].station = Nil /\ StationFor(u) # Nil =>
                  \A v \in Units \ {u} :
                      unit[v].partner = unit[u].partner => unit[v].station # StationFor(u)
  <1>1. CASE unit[u].station # Nil
    BY <1>1, RuntimeOf DEF StationFor, Runtime
  <1>2. CASE unit[u].station = Nil
    <2>1. FreeStations(u) \subseteq Nat /\ FreeStations(u) # {}
      BY <1>2 DEF FreeStations
    <2>2. \E n \in FreeStations(u) : \A m \in FreeStations(u) : n <= m
      BY <2>1, LeastElement
    <2>3. StationFor(u) \in FreeStations(u)
      BY <1>2, <2>2 DEF StationFor
    <2>4. StationFor(u) \notin TakenStations(u)
      BY <2>3 DEF FreeStations
    <2>5. ASSUME NEW v \in Units \ {u}, unit[v].partner = unit[u].partner,
                 StationFor(u) # Nil
          PROVE  unit[v].station # StationFor(u)
      BY <2>4, <2>5 DEF TakenStations, Donor
    <2>. QED  BY <1>2, <2>1, <2>3, <2>5
  <1>. QED  BY <1>1, <1>2

LEMMA ConnectStep ==
    ASSUME LogisticsAssumption, FieldInv, FrameOK', NEW u \in Units, Connect(u)
    PROVE  FieldInv' /\ NoGain
  <1>1. PICK n : n = IF Phase(u) = "Rendezvous" THEN 1 ELSE unit[u].timer + 1
    OBVIOUS
  <1>2. PICK p : p = IF n >= ConnectTicks THEN "Transferring" ELSE "Connecting"
    OBVIOUS
  <1>3. PICK t : t = IF n >= ConnectTicks THEN 0 ELSE n
    OBVIOUS
  <1>4. PICK s : s = [unit[u] EXCEPT !.phase = p, !.timer = t, !.station = StationFor(u)]
    OBVIOUS
  <1>5. unit' = [unit EXCEPT ![u] = s] /\ stock' = stock
    BY <1>1, <1>2, <1>3, <1>4 DEF Connect, FieldInv
  <1>6. unit[u] \in Runtime /\ Sane(u, unit[u])
    BY RuntimeOf
  <1>7. /\ StationFor(u) \in Nat \cup {Nil}
        /\ unit[u].station # Nil => StationFor(u) = unit[u].station
        /\ unit[u].station = Nil /\ StationFor(u) # Nil =>
               \A v \in Units \ {u} :
                   unit[v].partner = unit[u].partner => unit[v].station # StationFor(u)
    BY StationForFacts DEF Connect
  <1>8. p \in {"Transferring", "Connecting"} /\ p \in Phases
    BY <1>2 DEF Phases
  <1>9. t \in Nat
    BY <1>1, <1>3, <1>6 DEF Runtime
  <1>10. s \in Runtime
    BY <1>4, <1>6, <1>7, <1>8, <1>9 DEF Runtime
  <1>11. /\ s.phase = p /\ s.at = unit[u].at
         /\ s.store = unit[u].store /\ s.cargo = unit[u].cargo /\ s.task = unit[u].task
         /\ s.partner = unit[u].partner /\ s.asked = unit[u].asked
         /\ s.station = StationFor(u)
    BY <1>4, <1>6 DEF Runtime
  <1>12. unit[u].phase \in Receiving
    BY DEF Connect, Phase, Receiving
  <1>13. Sane(u, s)
    BY <1>6, <1>8, <1>10, <1>11, <1>12 DEF Sane, Berthed
  <1>14. NoMore(unit[u], s)
    BY <1>6, <1>11 DEF NoMore, Runtime, Goods
  <1>15. /\ Units' = Units /\ unit'[u] = s /\ \A v \in Units \ {u} : unit'[v] = unit[v]
    BY <1>5, OneOf
  <1>16. ASSUME Provisioned, NEW f \in Facility PROVE Occupied(f)' <= Parking[f]
    <2>1. \A v \in Units : BerthKept(unit[v], unit'[v])
      BY <1>8, <1>11, <1>15 DEF BerthKept, Berthed
    <2>2. Occupied(f)' <= Occupied(f) /\ Occupied(f) \in Nat /\ Occupied(f)' \in Nat
      BY <1>15, <2>1, BerthsHold, FieldFacts
    <2>3. Occupied(f) <= Parking[f] /\ Parking[f] \in Nat
      BY <1>16 DEF FieldInv, WithinBerths, LogisticsAssumption
    <2>. QED  BY <2>2, <2>3
  <1>17. StationsApart'
    <2>1. SUFFICES ASSUME NEW v \in Units, NEW w \in Units, v # w,
                          unit'[v].partner # Nil, unit'[v].partner = unit'[w].partner,
                          unit'[v].asked = unit'[w].asked, unit'[v].station # Nil
                   PROVE  unit'[v].station # unit'[w].station
      BY <1>15 DEF StationsApart
    <2>2. StationsApart
      BY DEF FieldInv
    <2>3. CASE v = u
      <3>1. /\ unit'[v] = s /\ unit'[w] = unit[w] /\ w \in Units \ {u}
            /\ unit[w].partner = unit[u].partner /\ unit[w].asked = unit[u].asked
            /\ unit[u].partner # Nil
        BY <1>11, <1>15, <2>1, <2>3
      <3>2. CASE unit[u].station = Nil
        BY <1>7, <1>11, <2>1, <3>1, <3>2
      <3>3. CASE unit[u].station # Nil
        <4>1. unit[u].station # unit[w].station
          BY <2>1, <2>2, <2>3, <3>1, <3>3 DEF StationsApart
        <4>. QED  BY <1>7, <1>11, <3>1, <3>3, <4>1
      <3>. QED  BY <3>2, <3>3
    <2>4. CASE w = u
      <3>1. /\ unit'[w] = s /\ unit'[v] = unit[v] /\ v \in Units \ {u}
            /\ unit[v].partner = unit[u].partner /\ unit[v].asked = unit[u].asked
            /\ unit[v].partner # Nil /\ unit[v].station # Nil
        BY <1>11, <1>15, <2>1, <2>4
      <3>2. CASE unit[u].station = Nil
        <4>1. CASE StationFor(u) = Nil
          BY <1>11, <3>1, <4>1
        <4>2. CASE StationFor(u) # Nil
          BY <1>7, <1>11, <3>1, <3>2, <4>2
        <4>. QED  BY <4>1, <4>2
      <3>3. CASE unit[u].station # Nil
        <4>1. unit[v].station # unit[u].station
          BY <2>1, <2>2, <2>4, <3>1 DEF StationsApart
        <4>. QED  BY <1>7, <1>11, <3>1, <3>3, <4>1
      <3>. QED  BY <3>2, <3>3
    <2>5. CASE v # u /\ w # u
      <3>1. unit'[v] = unit[v] /\ unit'[w] = unit[w]
        BY <1>15, <2>5
      <3>. QED  BY <2>1, <2>2, <3>1 DEF StationsApart
    <2>. QED  BY <2>3, <2>4, <2>5
  <1>20. WithinBerths'
    BY <1>16 DEF WithinBerths
  <1>. QED  BY <1>5, <1>11, <1>13, <1>14, <1>20, <1>17, OneChanges

LEMMA CargoStep ==
    ASSUME LogisticsAssumption, FieldInv, FrameOK', NEW u \in Units,
           NEW from \in Facility, NEW to \in Facility, NEW m \in Goods, Cargo(u, from, to, m)
    PROVE  FieldInv' /\ NoGain
  <1>1. PICK t : t = [source |-> from, destination |-> to, left |-> m]
    OBVIOUS
  <1>2. PICK r : r = [unit[u] EXCEPT !.task = Nil]
    OBVIOUS
  <1>3. PICK s : s = [r EXCEPT !.task = t, !.phase = "Returning", !.at = from, !.timer = 0,
                               !.support = Nil, !.partner = Nil]
    OBVIOUS
  <1>4. unit' = [Parted(u) EXCEPT ![u] = s]
    <2>1. Parted(u)[u] = r
      BY <1>2, PartedFacts
    <2>2. unit' = [Parted(u) EXCEPT ![u].task = t, ![u].phase = "Returning", ![u].at = from,
                       ![u].timer = 0, ![u].support = Nil, ![u].partner = Nil]
      BY <1>1 DEF Cargo
    <2>3. unit' = [Parted(u) EXCEPT ![u] =
                       [Parted(u)[u] EXCEPT !.task = t, !.phase = "Returning", !.at = from,
                            !.timer = 0, !.support = Nil, !.partner = Nil]]
      BY <2>2, PartedFacts
    <2>. QED  BY <1>3, <2>1, <2>3
  <1>5. unit[u] \in Runtime /\ Sane(u, unit[u])
    BY RuntimeOf
  <1>6. r \in Runtime /\ r.store = unit[u].store /\ r.cargo = unit[u].cargo
    BY <1>2, <1>5 DEF Runtime
  <1>7. t \in CargoTask \cup {Nil}
    BY <1>1 DEF CargoTask
  <1>8. "Returning" \in Phases /\ from # Nil
    BY DEF Phases, LogisticsAssumption
  <1>9. s \in Runtime
    BY <1>3, <1>6, <1>7, <1>8 DEF Runtime
  <1>10. /\ s.phase = "Returning" /\ s.at = from /\ s.partner = Nil /\ s.task = t
         /\ s.store = unit[u].store /\ s.cargo = unit[u].cargo
    BY <1>3, <1>6 DEF Runtime
  <1>11. Calm(u, unit[u], s)
    BY <1>5, <1>8, <1>9, <1>10, CalmChange DEF Berthed, Receiving, StationKept
  <1>12. /\ Units' = Units /\ unit' = [v \in Units |-> unit'[v]]
         /\ unit'[u] = s /\ \A v \in Units \ {u} : unit'[v] = Parted(u)[v]
    BY <1>4, PartedFacts DEF Units
  <1>13. ASSUME NEW v \in Units PROVE Calm(v, unit[v], unit'[v])
    <2>1. CASE v = u
      BY <1>11, <1>12, <2>1
    <2>2. CASE v # u
      <3>1. v \in Units \ {u} /\ unit'[v] = Parted(u)[v]
        BY <1>12, <2>2
      <3>2. Calm(v, unit[v], Parted(u)[v])
        BY <3>1, PartedFacts
      <3>. QED  BY <3>1, <3>2
    <2>. QED  BY <2>1, <2>2
  <1>14. ASSUME NEW v \in Units \ {u} PROVE unit'[v].task = unit[v].task
    <2>1. unit'[v] = Parted(u)[v]
      BY <1>12
    <2>2. Parted(u)[v].task = unit[v].task
      BY PartedFacts
    <2>. QED  BY <2>1, <2>2
  <1>15. stock' = [stock EXCEPT ![from] = Less(stock[from], m)]
    BY DEF Cargo
  <1>16. stock \in [Facility -> Goods]
    BY DEF FieldInv
  <1>17. Less(stock[from], m) \in Goods
    <2>1. \A g \in Good : m[g] <= stock[from][g] /\ m[g] \in Nat /\ stock[from][g] \in Nat
      BY <1>16 DEF Cargo, Goods
    <2>2. \A g \in Good : stock[from][g] - m[g] \in Nat
      BY <2>1
    <2>. QED  BY <2>2 DEF Less, Goods
  <1>18. stock' \in [Facility -> Goods]
    BY <1>15, <1>16, <1>17
  <1>19. Offset(u)
    <2>1. SUFFICES ASSUME NEW f \in Facility, NEW g \in Good
                   PROVE  stock'[f][g] + PartOf(s, f, g) = stock[f][g] + PartOf(unit[u], f, g)
      BY <1>12 DEF Offset
    <2>2. PartOf(unit[u], f, g) = 0
      BY DEF Cargo, PartOf
    <2>3. t # Nil
      BY <1>1 DEF LogisticsAssumption, CargoTask
    <2>4. PartOf(s, f, g) = IF f = from THEN m[g] ELSE 0
      BY <1>1, <1>10, <2>3 DEF PartOf
    <2>5. m[g] \in Nat /\ stock[f][g] \in Nat
      BY <1>16 DEF Goods
    <2>6. CASE f = from
      <3>1. stock'[f][g] = stock[f][g] - m[g]
        BY <1>15, <1>16, <2>6 DEF Less
      <3>. QED  BY <2>2, <2>4, <2>5, <2>6, <3>1
    <2>7. CASE f # from
      <3>1. stock'[f][g] = stock[f][g]
        BY <1>15, <1>16, <2>7
      <3>. QED  BY <2>2, <2>4, <2>7, <3>1
    <2>. QED  BY <2>6, <2>7
  <1>. QED  BY <1>12, <1>13, <1>14, <1>18, <1>19, BalancedStep

\* The stock of d becomes n, and u has not more by then than is missing.
LEMMA StockStep ==
    ASSUME LogisticsAssumption, FieldInv, FrameOK', NEW u \in Units, NEW s,
           unit' = [unit EXCEPT ![u] = s],
           Sane(u, s), BerthKept(unit[u], s), StationKept(unit[u], s), s.task = unit[u].task,
           NEW d \in Facility, NEW n \in Goods, stock' = [stock EXCEPT ![d] = n],
           \A g \in Good : AboardOf(s, g) + n[g] <= AboardOf(unit[u], g) + stock[d][g],
           \A g \in Good : n[g] + Reserved(d)[g] <= Capacity[d][g]
    PROVE  FieldInv' /\ NoGain
  <1>1. /\ Units' = Units /\ unit' = [v \in Units |-> unit'[v]]
        /\ unit'[u] = s /\ \A v \in Units \ {u} : unit'[v] = unit[v]
    BY OneOf
  <1>2. stock \in [Facility -> Goods] /\ stock' \in [Facility -> Goods]
    BY DEF FieldInv
  <1>3. ASSUME NEW v \in Units
        PROVE  Sane(v, unit'[v]) /\ unit'[v].task = unit[v].task
    BY <1>1 DEF FieldInv
  <1>4. \A f \in Facility, g \in Good :
            /\ stock[f][g] \in Nat /\ stock'[f][g] \in Nat
            /\ Reserved(f)[g] \in Nat /\ Reserved(f)'[g] \in Nat
            /\ Held(f, g) \in Nat /\ Held(f, g)' \in Nat
    BY <1>1, <1>2, <1>3, HeldType
  <1>5. \A f \in Facility, g \in Good : Reserved(f)'[g] = Reserved(f)[g]
    BY <1>1, <1>3, FieldFacts, ReservedKept
  <1>6. stock'[d] = n /\ \A f \in Facility \ {d} : stock'[f] = stock[f]
    BY <1>2
  <1>. DEFINE a == [g \in Good |-> stock[d][g] - n[g]]
  <1>7. ASSUME NEW g \in Good
        PROVE  /\ a[g] = stock[d][g] - n[g] /\ n[g] \in Nat /\ stock[d][g] \in Nat
               /\ a[g] \in Int
    BY <1>2 DEF Goods
  <1>. HIDE DEF a
  <1>8. ASSUME NEW g \in Good PROVE AboardOf(unit'[u], g) <= AboardOf(unit[u], g) + a[g]
    <2>1. AboardOf(s, g) \in Nat /\ AboardOf(unit[u], g) \in Nat
      BY RuntimeOf DEF Sane, AboardOf, Runtime, Goods
    <2>2. AboardOf(s, g) + n[g] <= AboardOf(unit[u], g) + stock[d][g]
      OBVIOUS
    <2>. QED  BY <1>1, <1>7, <2>1, <2>2
  <1>9. ASSUME NEW f \in Facility, NEW g \in Good
        PROVE  Held(f, g)' <= IF f = d THEN Held(f, g) - a[g] ELSE Held(f, g)
    <2>1. Held(f, g)' = stock'[f][g] + Reserved(f)[g] /\ Held(f, g) = stock[f][g] + Reserved(f)[g]
      BY <1>5 DEF Held
    <2>2. CASE f = d
      <3>1. stock'[f][g] = n[g]
        BY <1>6, <2>2
      <3>. QED  BY <1>4, <1>7, <2>1, <2>2, <3>1
    <2>3. CASE f # d
      <3>1. stock'[f][g] = stock[f][g]
        BY <1>6, <2>3
      <3>. QED  BY <1>4, <2>1, <2>3, <3>1
    <2>. QED  BY <2>2, <2>3
  <1>10. ASSUME NEW g \in Good PROVE Held(d, g)' <= Capacity[d][g]
    <2>1. Held(d, g)' = n[g] + Reserved(d)[g]
      BY <1>5, <1>6 DEF Held
    <2>. QED  BY <2>1
  <1>11. Sane(u, unit'[u]) /\ BerthKept(unit[u], unit'[u]) /\ StationKept(unit[u], unit'[u])
    BY <1>1
  <1>. QED  BY <1>1, <1>2, <1>7, <1>8, <1>9, <1>10, <1>11, TransferStep

\* What a pump moves.
LEMMA FlowFacts ==
    ASSUME LogisticsAssumption, NEW from \in Goods, NEW space, \A g \in Good : space[g] \in Int
    PROVE  /\ Flow(from, space) \in Goods
           /\ \A g \in Good : /\ Flow(from, space)[g] <= from[g]
                              /\ space[g] >= 0 => Flow(from, space)[g] <= space[g]
  <1>1. ASSUME NEW g \in Good
        PROVE  /\ Flow(from, space)[g] = Least(Rate, Least(from[g], Positive(space[g])))
               /\ Flow(from, space)[g] \in Nat /\ Flow(from, space)[g] <= from[g]
               /\ space[g] >= 0 => Flow(from, space)[g] <= space[g]
    <2>1. Flow(from, space)[g] = Least(Rate, Least(from[g], Positive(space[g])))
      BY DEF Flow
    <2>2. Rate \in Nat /\ from[g] \in Nat /\ space[g] \in Int
      BY DEF LogisticsAssumption, Goods
    <2>. QED  BY <2>1, <2>2 DEF Least, Positive
  <1>2. Flow(from, space) \in Goods
    BY <1>1 DEF Flow, Goods
  <1>. QED  BY <1>1, <1>2

\* There is room for what a facility has and has promised.
LEMMA SpaceFacts ==
    ASSUME LogisticsAssumption, FieldInv, NEW f \in Facility, NEW g \in Good
    PROVE  /\ Space(f)[g] = Capacity[f][g] - Reserved(f)[g] - stock[f][g]
           /\ Space(f)[g] \in Int /\ Space(f)[g] >= 0
           /\ Capacity[f][g] \in Nat /\ Reserved(f)[g] \in Nat /\ stock[f][g] \in Nat
  <1>1. Reserved(f)[g] \in Nat
    BY FieldFacts, ReservedType
  <1>2. Capacity[f][g] \in Nat /\ stock[f][g] \in Nat
    BY DEF LogisticsAssumption, FieldInv, Goods
  <1>3. stock[f][g] + Reserved(f)[g] <= Capacity[f][g]
    BY DEF FieldInv, Held
  <1>4. Space(f)[g] = Capacity[f][g] - Reserved(f)[g] - stock[f][g]
    BY DEF Space, Less
  <1>. QED  BY <1>1, <1>2, <1>3, <1>4

LEMMA LessGoods ==
    ASSUME NEW a \in Goods, NEW b \in Goods, \A g \in Good : b[g] <= a[g]
    PROVE  /\ Less(a, b) \in Goods
           /\ \A g \in Good : Less(a, b)[g] = a[g] - b[g]
  <1>1. \A g \in Good : a[g] - b[g] \in Nat
    BY DEF Goods
  <1>. QED  BY <1>1 DEF Less, Goods

LEMMA PlusGoods ==
    ASSUME NEW a \in Goods, NEW b \in Goods
    PROVE  /\ Plus(a, b) \in Goods
           /\ \A g \in Good : Plus(a, b)[g] = a[g] + b[g]
  <1>1. \A g \in Good : a[g] + b[g] \in Nat
    BY DEF Goods
  <1>. QED  BY <1>1 DEF Plus, Goods

\* Whoever is berthed or bound for a berth is so at a facility.
LEMMA AtFacility ==
    ASSUME FieldInv, NEW u \in Units,
           unit[u].phase \in Berthed \cup {"Returning", "Approach", "Replenishing"}
    PROVE  unit[u].at \in Facility /\ stock[unit[u].at] \in Goods
  <1>1. unit[u].at \in Facility
    BY RuntimeOf DEF Sane, Runtime
  <1>. QED  BY <1>1 DEF FieldInv

\* What can be put ashore at d.
LEMMA AshoreFacts ==
    ASSUME LogisticsAssumption, FieldInv, NEW u \in Units, NEW d \in Facility,
           NEW m, m = Flow(unit[u].cargo, Space(d))
    PROVE  /\ unit[u].cargo \in Goods /\ stock[d] \in Goods /\ m \in Goods
           /\ \A g \in Good : m[g] <= unit[u].cargo[g] /\ m[g] <= Space(d)[g]
           /\ Less(unit[u].cargo, m) \in Goods
           /\ \A g \in Good : Less(unit[u].cargo, m)[g] = unit[u].cargo[g] - m[g]
  <1>1. unit[u].cargo \in Goods /\ stock[d] \in Goods
    BY RuntimeOf DEF Runtime, FieldInv
  <1>2. \A g \in Good : Space(d)[g] \in Int /\ Space(d)[g] >= 0
    BY SpaceFacts
  <1>3. m \in Goods /\ \A g \in Good : m[g] <= unit[u].cargo[g] /\ m[g] <= Space(d)[g]
    BY <1>1, <1>2, FlowFacts
  <1>. QED  BY <1>1, <1>3, LessGoods

LEMMA AshoreStep ==
    ASSUME LogisticsAssumption, FieldInv, FrameOK', NEW u \in Units, NEW d \in Facility,
           NEW m, m = Flow(unit[u].cargo, Space(d)), NEW s,
           unit' = [unit EXCEPT ![u] = s], stock' = [stock EXCEPT ![d] = Plus(stock[d], m)],
           Sane(u, s), BerthKept(unit[u], s), StationKept(unit[u], s), s.task = unit[u].task,
           s.store = unit[u].store, s.cargo = Less(unit[u].cargo, m)
    PROVE  FieldInv' /\ NoGain
  <1>1. /\ unit[u].cargo \in Goods /\ stock[d] \in Goods /\ m \in Goods
        /\ \A g \in Good : m[g] <= unit[u].cargo[g] /\ m[g] <= Space(d)[g]
        /\ \A g \in Good : Less(unit[u].cargo, m)[g] = unit[u].cargo[g] - m[g]
    BY AshoreFacts
  <1>2. PICK n : n = Plus(stock[d], m)
    OBVIOUS
  <1>3. n \in Goods /\ \A g \in Good : n[g] = stock[d][g] + m[g]
    BY <1>1, <1>2, PlusGoods
  <1>4. unit[u].store \in Goods
    BY RuntimeOf DEF Runtime
  <1>5. ASSUME NEW g \in Good
        PROVE  /\ AboardOf(s, g) + n[g] <= AboardOf(unit[u], g) + stock[d][g]
               /\ n[g] + Reserved(d)[g] <= Capacity[d][g]
    <2>1. /\ AboardOf(s, g) = (unit[u].cargo[g] - m[g]) + unit[u].store[g]
          /\ AboardOf(unit[u], g) = unit[u].cargo[g] + unit[u].store[g]
      BY <1>1 DEF AboardOf
    <2>2. /\ unit[u].cargo[g] \in Nat /\ unit[u].store[g] \in Nat /\ m[g] \in Nat
          /\ stock[d][g] \in Nat
      BY <1>1, <1>4 DEF Goods
    <2>3. n[g] = stock[d][g] + m[g]
      BY <1>3
    <2>4. AboardOf(s, g) + n[g] <= AboardOf(unit[u], g) + stock[d][g]
      BY <2>1, <2>2, <2>3
    <2>5. /\ Space(d)[g] = Capacity[d][g] - Reserved(d)[g] - stock[d][g]
          /\ Capacity[d][g] \in Nat /\ Reserved(d)[g] \in Nat
      BY SpaceFacts
    <2>6. m[g] <= Space(d)[g]
      BY <1>1
    <2>7. n[g] + Reserved(d)[g] <= Capacity[d][g]
      BY <2>2, <2>3, <2>5, <2>6
    <2>. QED  BY <2>4, <2>7
  <1>. QED  BY <1>2, <1>3, <1>5, StockStep

LEMMA UnloadStep ==
    ASSUME LogisticsAssumption, FieldInv, FrameOK', NEW u \in Units, Unload(u)
    PROVE  FieldInv' /\ NoGain
  <1>1. PICK d : d = unit[u].at
    OBVIOUS
  <1>2. unit[u].phase = "Unloading" /\ d \in Facility
    BY <1>1, AtFacility DEF Unload, Phase, Berthed
  <1>3. PICK m : m = Flow(unit[u].cargo, Space(d))
    OBVIOUS
  <1>4. PICK c : c = Less(unit[u].cargo, m)
    OBVIOUS
  <1>5. PICK r : r = [unit[u] EXCEPT !.cargo = c]
    OBVIOUS
  <1>6. PICK s : s = IF Empty(c) THEN [r EXCEPT !.phase = "Queued"] ELSE r
    OBVIOUS
  <1>7. unit[u] \in Runtime /\ Sane(u, unit[u])
    BY RuntimeOf
  <1>8. c \in Goods
    BY <1>2, <1>3, <1>4, AshoreFacts
  <1>9. /\ r \in Runtime /\ r.cargo = c /\ r.phase = "Unloading" /\ r.at = unit[u].at
        /\ r.store = unit[u].store /\ r.task = unit[u].task
        /\ r.partner = unit[u].partner /\ r.asked = unit[u].asked
        /\ r.station = unit[u].station
    BY <1>2, <1>5, <1>7, <1>8 DEF Runtime
  <1>10. unit' = [unit EXCEPT ![u] = s] /\ stock' = [stock EXCEPT ![d] = Plus(stock[d], m)]
    BY <1>1, <1>3, <1>4, <1>5, <1>6, <1>9 DEF Unload
  <1>11. "Queued" \in Phases
    BY DEF Phases
  <1>12. s \in Runtime
    BY <1>6, <1>9, <1>11 DEF Runtime
  <1>13. /\ s.cargo = c /\ s.phase \in {"Unloading", "Queued"} /\ s.at = unit[u].at
         /\ s.store = unit[u].store /\ s.task = unit[u].task
         /\ s.partner = unit[u].partner /\ s.asked = unit[u].asked
         /\ s.station = unit[u].station
    BY <1>6, <1>9 DEF Runtime
  <1>14. Sane(u, s)
    BY <1>2, <1>7, <1>12, <1>13 DEF Sane, Berthed, Receiving
  <1>15. BerthKept(unit[u], s) /\ StationKept(unit[u], s)
    BY <1>2, <1>13 DEF BerthKept, StationKept, Berthed
  <1>. QED  BY <1>2, <1>3, <1>4, <1>10, <1>13, <1>14, <1>15, AshoreStep

LEMMA TurnaroundStep ==
    ASSUME LogisticsAssumption, FieldInv, FrameOK', NEW u \in Units, Turnaround(u)
    PROVE  FieldInv' /\ NoGain
  <1>1. PICK d : d = unit[u].at
    OBVIOUS
  <1>2. unit[u].phase \in {"Queued", "Servicing"} /\ d \in Facility /\ stock[d] \in Goods
    BY <1>1, AtFacility DEF Turnaround, Phase, Berthed
  <1>3. PICK m : m = Flow(stock[d], Room(u))
    OBVIOUS
  <1>4. PICK t : t = Plus(unit[u].store, m)
    OBVIOUS
  <1>5. PICK p : p = IF t = Full[u] THEN "Ready" ELSE "Servicing"
    OBVIOUS
  <1>6. PICK s : s = [unit[u] EXCEPT !.store = t, !.phase = p]
    OBVIOUS
  <1>7. unit[u] \in Runtime /\ Sane(u, unit[u])
    BY RuntimeOf
  <1>8. unit[u].store \in Goods /\ unit[u].cargo \in Goods
    BY <1>7 DEF Runtime
  <1>9. ASSUME NEW g \in Good
        PROVE  /\ Room(u)[g] = Full[u][g] - unit[u].store[g]
               /\ Full[u][g] \in Nat /\ unit[u].store[g] \in Nat
               /\ Room(u)[g] \in Int /\ Room(u)[g] >= 0
    <2>1. Room(u)[g] = Full[u][g] - unit[u].store[g]
      BY DEF Room, Less
    <2>2. Full[u][g] \in Nat /\ unit[u].store[g] \in Nat
      BY FieldFacts
    <2>3. unit[u].store[g] <= Full[u][g]
      BY <1>7 DEF Sane
    <2>. QED  BY <2>1, <2>2, <2>3
  <1>10. m \in Goods /\ \A g \in Good : m[g] <= stock[d][g] /\ m[g] <= Room(u)[g]
    BY <1>2, <1>3, <1>9, FlowFacts
  <1>11. t \in Goods /\ \A g \in Good : t[g] = unit[u].store[g] + m[g]
    BY <1>4, <1>8, <1>10, PlusGoods
  <1>12. PICK n : n = Less(stock[d], m)
    OBVIOUS
  <1>13. n \in Goods /\ \A g \in Good : n[g] = stock[d][g] - m[g]
    <2>1. \A g \in Good : m[g] <= stock[d][g]
      BY <1>10
    <2>2. m \in Goods /\ stock[d] \in Goods
      BY <1>2, <1>10
    <2>3. /\ Less(stock[d], m) \in Goods
          /\ \A g \in Good : Less(stock[d], m)[g] = stock[d][g] - m[g]
      BY <2>1, <2>2, LessGoods
    <2>. QED  BY <1>12, <2>3
  <1>14. stock' = [stock EXCEPT ![d] = n]
    BY <1>1, <1>3, <1>12 DEF Turnaround
  <1>15. unit' = [unit EXCEPT ![u] = s]
    <2>1. PICK r : r = [unit[u] EXCEPT !.store = t]
      OBVIOUS
    <2>2. r.store = t
      BY <1>7, <2>1 DEF Runtime
    <2>3. unit' = [unit EXCEPT ![u] = [r EXCEPT !.phase = p]]
      BY <1>1, <1>3, <1>4, <1>5, <2>1, <2>2 DEF Turnaround
    <2>4. [r EXCEPT !.phase = p] = s
      BY <1>6, <2>1
    <2>. QED  BY <2>3, <2>4
  <1>16. p \in {"Ready", "Servicing"} /\ p \in Phases
    BY <1>5 DEF Phases
  <1>17. s \in Runtime
    BY <1>6, <1>7, <1>11, <1>16 DEF Runtime
  <1>18. /\ s.store = t /\ s.phase = p /\ s.at = unit[u].at
         /\ s.cargo = unit[u].cargo /\ s.task = unit[u].task
         /\ s.partner = unit[u].partner /\ s.asked = unit[u].asked
         /\ s.station = unit[u].station
    BY <1>6, <1>7 DEF Runtime
  <1>19. \A g \in Good : t[g] <= Full[u][g]
    <2>1. ASSUME NEW g \in Good PROVE t[g] <= Full[u][g]
      <3>1. t[g] = unit[u].store[g] + m[g] /\ m[g] <= Room(u)[g] /\ m[g] \in Nat
        BY <1>10, <1>11 DEF Goods
      <3>2. Room(u)[g] = Full[u][g] - unit[u].store[g] /\ Full[u][g] \in Nat /\ unit[u].store[g] \in Nat
        BY <1>9
      <3>. QED  BY <3>1, <3>2
    <2>. QED  BY <2>1
  <1>20. Sane(u, s)
    BY <1>1, <1>2, <1>7, <1>16, <1>17, <1>18, <1>19 DEF Sane, Berthed, Receiving
  <1>21. BerthKept(unit[u], s) /\ StationKept(unit[u], s)
    BY <1>2, <1>18 DEF BerthKept, StationKept, Berthed
  <1>22. ASSUME NEW g \in Good
         PROVE  /\ AboardOf(s, g) + n[g] <= AboardOf(unit[u], g) + stock[d][g]
                /\ n[g] + Reserved(d)[g] <= Capacity[d][g]
    <2>1. /\ AboardOf(s, g) = unit[u].cargo[g] + (unit[u].store[g] + m[g])
          /\ AboardOf(unit[u], g) = unit[u].cargo[g] + unit[u].store[g]
      BY <1>11, <1>18 DEF AboardOf
    <2>2. /\ unit[u].cargo[g] \in Nat /\ unit[u].store[g] \in Nat /\ m[g] \in Nat
      BY <1>8, <1>10 DEF Goods
    <2>3. n[g] = stock[d][g] - m[g]
      BY <1>13
    <2>4. /\ Capacity[d][g] \in Nat /\ Reserved(d)[g] \in Nat /\ stock[d][g] \in Nat
      BY <1>2, SpaceFacts
    <2>5. stock[d][g] + Reserved(d)[g] <= Capacity[d][g]
      BY <1>2 DEF FieldInv, Held
    <2>6. AboardOf(s, g) + n[g] <= AboardOf(unit[u], g) + stock[d][g]
      BY <2>1, <2>2, <2>3, <2>4
    <2>7. n[g] + Reserved(d)[g] <= Capacity[d][g]
      BY <2>2, <2>3, <2>4, <2>5
    <2>. QED  BY <2>6, <2>7
  <1>. QED  BY <1>2, <1>13, <1>14, <1>15, <1>18, <1>20, <1>21, <1>22, StockStep

\* A unit that is the same but for its leg and its timer, or is deployed.
LEMMA Alike ==
    ASSUME NEW v, NEW r, NEW s \in Runtime, Sane(v, r),
           s.phase = "Deployed" \/ (s.phase = r.phase /\ s.at = r.at),
           s.store = r.store, s.cargo = r.cargo,
           s.partner = r.partner, s.asked = r.asked, s.station = r.station
    PROVE  Calm(v, r, s)
  <1>1. StationKept(r, s)
    BY DEF StationKept
  <1>2. CASE s.phase = "Deployed"
    BY <1>1, <1>2, CalmChange DEF Berthed, Receiving
  <1>3. CASE s.phase = r.phase /\ s.at = r.at
    <2>1. /\ s.phase \in Berthed \cup {"Returning", "Approach", "Replenishing"} => s.at # Nil
          /\ s.phase \in Receiving => s.partner \in Units \ {v} /\ s.asked # Nil
      BY <1>3 DEF Sane
    <2>. QED  BY <1>1, <1>3, <2>1, CalmChange
  <1>. QED  BY <1>2, <1>3

\* A ship alongside waits or connects; when it separates it waits or leaves.
LEMMA ConnectsAlongside ==
    ASSUME NEW t, t \in Runtime, NEW s, s = t \/ s = [t EXCEPT !.leg = 1, !.timer = 0]
    PROVE  /\ s \in Runtime /\ s.phase = t.phase /\ s.at = t.at
           /\ s.store = t.store /\ s.cargo = t.cargo /\ s.task = t.task
           /\ s.partner = t.partner /\ s.asked = t.asked /\ s.station = t.station
  <1>0. 1 \in 0..2
    OBVIOUS
  <1>2. CASE s = t
    BY <1>2
  <1>3. CASE s = [t EXCEPT !.leg = 1, !.timer = 0]
    <2>1. PICK x \in Runtime :
            /\ x = [t EXCEPT !.leg = 1, !.timer = 0]
            /\ x.phase = t.phase /\ x.at = t.at
            /\ x.store = t.store /\ x.cargo = t.cargo /\ x.task = t.task
            /\ x.partner = t.partner /\ x.asked = t.asked /\ x.station = t.station
      BY <1>0, NewLeg
    <2>2. s = x
      BY <1>3, <2>1
    <2>. QED  BY <2>1, <2>2
  <1>. QED  BY <1>2, <1>3

LEMMA SeparatesAlongside ==
    ASSUME NEW t, t \in Runtime, NEW s, s = t \/ s = [t EXCEPT !.phase = "Deployed", !.at = Nil, !.timer = 0]
    PROVE  /\ s \in Runtime /\ (s.phase = "Deployed" \/ (s.phase = t.phase /\ s.at = t.at))
           /\ s.store = t.store /\ s.cargo = t.cargo /\ s.task = t.task
           /\ s.partner = t.partner /\ s.asked = t.asked /\ s.station = t.station
  <1>2. CASE s = t
    BY <1>2
  <1>3. CASE s = [t EXCEPT !.phase = "Deployed", !.at = Nil, !.timer = 0]
    <2>1. PICK x \in Runtime :
            /\ x = [t EXCEPT !.phase = "Deployed", !.at = Nil, !.timer = 0]
            /\ x.phase = "Deployed"
            /\ x.store = t.store /\ x.cargo = t.cargo /\ x.task = t.task
            /\ x.partner = t.partner /\ x.asked = t.asked /\ x.station = t.station
      BY LeavesBerth
    <2>2. s = x
      BY <1>3, <2>1
    <2>. QED  BY <2>1, <2>2
  <1>. QED  BY <1>2, <1>3

LEMMA ReplenishStep ==
    ASSUME LogisticsAssumption, FieldInv, FrameOK', NEW u \in Units, NEW meets \in BOOLEAN,
           Replenish(u, meets)
    PROVE  FieldInv' /\ NoGain
  <1>1. PICK d : d = unit[u].at
    OBVIOUS
  <1>2. unit[u].phase = "Replenishing" /\ d \in Facility
    BY <1>1, AtFacility DEF Replenish, Phase
  <1>3. unit[u] \in Runtime /\ Sane(u, unit[u])
    BY RuntimeOf
  <1>4. PICK r : r = IF unit[u].leg < 2 /\ ~meets
                     THEN [unit[u] EXCEPT !.leg = 2, !.timer = 0] ELSE unit[u]
    OBVIOUS
  <1>5. /\ r \in Runtime /\ r.phase = unit[u].phase /\ r.at = unit[u].at
        /\ r.store = unit[u].store /\ r.cargo = unit[u].cargo /\ r.task = unit[u].task
        /\ r.partner = unit[u].partner /\ r.asked = unit[u].asked
        /\ r.station = unit[u].station
    <2>0. 2 \in 0..2
      OBVIOUS
    <2>1. CASE r = unit[u]
      BY <1>3, <2>1
    <2>2. CASE r = [unit[u] EXCEPT !.leg = 2, !.timer = 0]
      <3>1. PICK x \in Runtime :
                /\ x = [unit[u] EXCEPT !.leg = 2, !.timer = 0]
                /\ x.phase = unit[u].phase /\ x.at = unit[u].at
                /\ x.store = unit[u].store /\ x.cargo = unit[u].cargo /\ x.task = unit[u].task
                /\ x.partner = unit[u].partner /\ x.asked = unit[u].asked
                /\ x.station = unit[u].station
        BY <1>3, <2>0, NewLeg
      <3>2. r = x
        BY <2>2, <3>1
      <3>. QED  BY <3>1, <3>2
    <2>. QED  BY <1>4, <2>1, <2>2
  <1>51. r \in Runtime
    BY <1>5
  <1>6. PICK t \in Runtime :
            /\ t = [r EXCEPT !.timer = r.timer + 1]
            /\ t.phase = r.phase /\ t.at = r.at /\ t.timer = r.timer + 1
            /\ t.store = r.store /\ t.cargo = r.cargo /\ t.task = r.task
            /\ t.partner = r.partner /\ t.asked = r.asked /\ t.station = r.station
    BY <1>5, Timed
  <1>61. /\ t \in Runtime /\ t.phase = r.phase /\ t.at = r.at
         /\ t.store = r.store /\ t.cargo = r.cargo /\ t.task = r.task
         /\ t.partner = r.partner /\ t.asked = r.asked /\ t.station = r.station
    BY <1>6
  <1>7. PICK m : m = Flow(unit[u].cargo, Space(d))
    OBVIOUS
  <1>8. PICK c : c = Less(unit[u].cargo, m)
    OBVIOUS
  <1>9. \/ \E s : /\ s = t \/ s = [t EXCEPT !.leg = 1, !.timer = 0]
                  /\ unit' = [unit EXCEPT ![u] = s] /\ stock' = stock
        \/ \E s : /\ s = [r EXCEPT !.cargo = c, !.leg = 2, !.timer = 0]
                     \/ s = [r EXCEPT !.cargo = c]
                  /\ unit' = [unit EXCEPT ![u] = s]
                  /\ stock' = [stock EXCEPT ![d] = Plus(stock[d], m)]
        \/ \E s : /\ s = t \/ s = [t EXCEPT !.phase = "Deployed", !.at = Nil, !.timer = 0]
                  /\ unit' = [unit EXCEPT ![u] = s] /\ stock' = stock
    <2>1. \/ /\ unit' = [unit EXCEPT ![u] = IF t.timer >= ConnectTicks
                                            THEN [t EXCEPT !.leg = 1, !.timer = 0] ELSE t]
             /\ stock' = stock
          \/ /\ unit' = [unit EXCEPT ![u] =
                            IF Empty(c) THEN [r EXCEPT !.cargo = c, !.leg = 2, !.timer = 0]
                            ELSE [r EXCEPT !.cargo = c]]
             /\ stock' = [stock EXCEPT ![d] = Plus(stock[d], m)]
          \/ /\ unit' = [unit EXCEPT ![u] =
                            IF t.timer >= DisconnectTicks
                            THEN [t EXCEPT !.phase = "Deployed", !.at = Nil, !.timer = 0] ELSE t]
             /\ stock' = stock
      BY <1>1, <1>4, <1>5, <1>6, <1>7, <1>8 DEF Replenish
    <2>. QED  BY <2>1
  <1>10. CASE \E s : /\ s = t \/ s = [t EXCEPT !.leg = 1, !.timer = 0]
                     /\ unit' = [unit EXCEPT ![u] = s] /\ stock' = stock
    <2>1. PICK s : /\ s = t \/ s = [t EXCEPT !.leg = 1, !.timer = 0]
                   /\ unit' = [unit EXCEPT ![u] = s] /\ stock' = stock
      BY <1>10
    <2>2. /\ s \in Runtime /\ s.phase = t.phase /\ s.at = t.at
          /\ s.store = t.store /\ s.cargo = t.cargo /\ s.task = t.task
          /\ s.partner = t.partner /\ s.asked = t.asked /\ s.station = t.station
      BY <2>1, ConnectsAlongside
    <2>21. /\ s \in Runtime /\ s.phase = unit[u].phase /\ s.at = unit[u].at
           /\ s.store = unit[u].store /\ s.cargo = unit[u].cargo /\ s.task = unit[u].task
           /\ s.partner = unit[u].partner /\ s.asked = unit[u].asked
           /\ s.station = unit[u].station
      BY <1>5, <1>61, <2>2
    <2>3. Calm(u, unit[u], s)
      BY <1>3, <2>21, Alike
    <2>4. s.task = unit[u].task
      BY <2>21
    <2>. QED  BY <2>1, <2>3, <2>4, OneCalm
  <1>11. CASE \E s : /\ s = t \/ s = [t EXCEPT !.phase = "Deployed", !.at = Nil, !.timer = 0]
                     /\ unit' = [unit EXCEPT ![u] = s] /\ stock' = stock
    <2>1. PICK s : /\ s = t \/ s = [t EXCEPT !.phase = "Deployed", !.at = Nil, !.timer = 0]
                   /\ unit' = [unit EXCEPT ![u] = s] /\ stock' = stock
      BY <1>11
    <2>2. /\ s \in Runtime /\ (s.phase = "Deployed" \/ (s.phase = t.phase /\ s.at = t.at))
          /\ s.store = t.store /\ s.cargo = t.cargo /\ s.task = t.task
          /\ s.partner = t.partner /\ s.asked = t.asked /\ s.station = t.station
      BY <2>1, SeparatesAlongside
    <2>21. /\ s \in Runtime /\ (s.phase = "Deployed" \/ (s.phase = unit[u].phase /\ s.at = unit[u].at))
           /\ s.store = unit[u].store /\ s.cargo = unit[u].cargo /\ s.task = unit[u].task
           /\ s.partner = unit[u].partner /\ s.asked = unit[u].asked
           /\ s.station = unit[u].station
      BY <1>5, <1>61, <2>2
    <2>3. Calm(u, unit[u], s)
      BY <1>3, <2>21, Alike
    <2>4. s.task = unit[u].task
      BY <2>21
    <2>. QED  BY <2>1, <2>3, <2>4, OneCalm
  <1>12. CASE \E s : /\ s = [r EXCEPT !.cargo = c, !.leg = 2, !.timer = 0]
                        \/ s = [r EXCEPT !.cargo = c]
                     /\ unit' = [unit EXCEPT ![u] = s]
                     /\ stock' = [stock EXCEPT ![d] = Plus(stock[d], m)]
    <2>1. PICK s : /\ s = [r EXCEPT !.cargo = c, !.leg = 2, !.timer = 0]
                      \/ s = [r EXCEPT !.cargo = c]
                   /\ unit' = [unit EXCEPT ![u] = s]
                   /\ stock' = [stock EXCEPT ![d] = Plus(stock[d], m)]
      BY <1>12
    <2>11. s = [r EXCEPT !.cargo = c, !.leg = 2, !.timer = 0] \/ s = [r EXCEPT !.cargo = c]
      BY <2>1
    <2>2. c \in Goods
      BY <1>2, <1>7, <1>8, AshoreFacts
    <2>3. /\ s \in Runtime /\ s.phase = r.phase /\ s.at = r.at
          /\ s.store = r.store /\ s.cargo = c /\ s.task = r.task
          /\ s.partner = r.partner /\ s.asked = r.asked /\ s.station = r.station
      <3>0. 2 \in 0..2 /\ 0 \in Nat
        OBVIOUS
      <3>1. CASE s = [r EXCEPT !.cargo = c, !.leg = 2, !.timer = 0]
        BY <1>51, <2>2, <3>0, <3>1 DEF Runtime
      <3>2. CASE s = [r EXCEPT !.cargo = c]
        BY <1>51, <2>2, <3>2 DEF Runtime
      <3>. QED  BY <2>11, <3>1, <3>2
    <2>4. Sane(u, s)
      BY <1>3, <1>5, <2>3 DEF Sane
    <2>5. BerthKept(unit[u], s) /\ StationKept(unit[u], s)
      BY <1>5, <2>3 DEF BerthKept, StationKept
    <2>6. /\ s.task = unit[u].task /\ s.store = unit[u].store
          /\ s.cargo = Less(unit[u].cargo, m)
      BY <1>5, <1>8, <2>3
    <2>. QED  BY <1>2, <1>7, <2>1, <2>4, <2>5, <2>6, AshoreStep
  <1>. QED  BY <1>9, <1>10, <1>11, <1>12

LEMMA Lessened ==
    ASSUME NEW x \in Nat, NEW y \in Nat, NEW z \in Nat,
           NEW b \in Nat, NEW e \in Nat, NEW n \in Nat, e = b - n, x + b = y + e
    PROVE  z + x = (z + y) - n
  OBVIOUS

\* What is loaded comes out of what the task w has reserved: m of it moves from
\* the task of unit state r, which keeps k, into the hold of s.
Loads(r, s, w, m, k) ==
    /\ r.task = w /\ s.store = r.store
    /\ \A g \in Good : k[g] = w.left[g] - m[g] /\ m[g] <= w.left[g]
    /\ \A g \in Good : s.cargo[g] = r.cargo[g] + m[g]
    /\ \A f \in Facility, g \in Good : PartOf(s, f, g) = IF f = w.source THEN k[g] ELSE 0

LEMMA LoadMoves ==
    ASSUME LogisticsAssumption, FieldInv, FrameOK', NEW u \in Units,
           NEW w \in CargoTask, NEW m \in Goods, NEW k \in Goods,
           NEW s, unit' = [unit EXCEPT ![u] = s], stock' = stock,
           Sane(u, s), BerthKept(unit[u], s), StationKept(unit[u], s),
           Loads(unit[u], s, w, m, k)
    PROVE  FieldInv' /\ NoGain
  <1>1. /\ Units' = Units /\ unit' = [v \in Units |-> unit'[v]]
        /\ unit'[u] = s /\ \A v \in Units \ {u} : unit'[v] = unit[v]
    BY OneOf
  <1>2. PICK d : d = w.source
    OBVIOUS
  <1>3. d \in Facility /\ w.left \in Goods /\ w # Nil
    BY <1>2 DEF CargoTask, LogisticsAssumption
  <1>4. IsFiniteSet(Units) /\ \A v \in Units : unit[v] \in Runtime
    BY FieldFacts
  <1>5. \A v \in Units : Sane(v, unit'[v])
    BY <1>1 DEF FieldInv
  <1>6. stock' \in [Facility -> Goods]
    BY DEF FieldInv
  <1>7. ASSUME NEW f \in Facility, NEW g \in Good
        PROVE  /\ f # d => Held(f, g)' = Held(f, g)
               /\ f = d => Held(f, g)' = Held(f, g) - m[g]
    <2>1. /\ stock[f][g] \in Nat /\ stock'[f][g] = stock[f][g]
          /\ Reserved(f)[g] \in Nat /\ Reserved(f)'[g] \in Nat
      BY <1>1, <1>5, <1>6, HeldType
    <2>2. Reserved(f)'[g] + PartOf(unit[u], f, g) = Reserved(f)[g] + PartOf(unit'[u], f, g)
      <3>1. \A v \in Units : unit[v] \in Runtime /\ unit'[v] \in Runtime
        BY <1>4, <1>5 DEF Sane
      <3>2. \A v \in Units \ {u} : unit'[v].task = unit[v].task
        BY <1>1
      <3>. QED  BY <1>1, <1>4, <3>1, <3>2, ReservedMoved
    <2>3. PartOf(unit'[u], f, g) = IF f = d THEN k[g] ELSE 0
      BY <1>1, <1>2 DEF Loads
    <2>4. PartOf(unit[u], f, g) = IF f = d THEN w.left[g] ELSE 0
      BY <1>2, <1>3 DEF PartOf, Loads
    <2>5. k[g] = w.left[g] - m[g] /\ w.left[g] \in Nat /\ m[g] \in Nat
      BY <1>3 DEF Goods, Loads
    <2>6. Held(f, g) = stock[f][g] + Reserved(f)[g] /\ Held(f, g)' = stock'[f][g] + Reserved(f)'[g]
      BY DEF Held
    <2>7. CASE f = d
      <3>1. Reserved(f)'[g] + w.left[g] = Reserved(f)[g] + k[g]
        BY <2>2, <2>3, <2>4, <2>7
      <3>2. w.left[g] \in Nat /\ m[g] \in Nat /\ k[g] \in Nat /\ k[g] = w.left[g] - m[g]
        BY <2>5 DEF Goods
      <3>3. PICK x, y, z, b, e, n \in Nat :
                /\ x = Reserved(f)'[g] /\ y = Reserved(f)[g] /\ z = stock[f][g]
                /\ b = w.left[g] /\ e = k[g] /\ n = m[g]
        BY <2>1, <3>2
      <3>4. e = b - n /\ x + b = y + e
        BY <3>1, <3>2, <3>3
      <3>5. z + x = (z + y) - n
        BY <3>4, Lessened
      <3>6. Held(f, g)' = z + x /\ Held(f, g) = z + y
        BY <2>1, <2>6, <3>3
      <3>7. Held(f, g)' = Held(f, g) - m[g]
        BY <3>3, <3>5, <3>6
      <3>. QED  BY <2>7, <3>7
    <2>8. CASE f # d
      <3>1. Reserved(f)'[g] = Reserved(f)[g]
        BY <2>1, <2>2, <2>3, <2>4, <2>8
      <3>2. Held(f, g)' = Held(f, g)
        BY <2>1, <2>6, <3>1
      <3>. QED  BY <2>8, <3>2
    <2>. QED  BY <2>7, <2>8
  <1>8. \A f \in Facility, g \in Good : Held(f, g) \in Nat /\ Held(f, g)' \in Nat
    BY <1>1, <1>5, <1>6, HeldType
  <1>9. \A f \in Facility, g \in Good :
            Held(f, g)' <= IF f = d THEN Held(f, g) - m[g] ELSE Held(f, g)
    <2>1. ASSUME NEW f \in Facility, NEW g \in Good
          PROVE  Held(f, g)' <= IF f = d THEN Held(f, g) - m[g] ELSE Held(f, g)
      <3>1. Held(f, g) \in Nat /\ Held(f, g)' \in Nat
        BY <1>8
      <3>2. CASE f = d
        BY <1>7, <3>1, <3>2
      <3>3. CASE f # d
        BY <1>7, <3>1, <3>3
      <3>. QED  BY <3>2, <3>3
    <2>. QED  BY <2>1
  <1>10. ASSUME NEW g \in Good PROVE Held(d, g)' <= Capacity[d][g]
    <2>1. Held(d, g) <= Capacity[d][g] /\ Capacity[d][g] \in Nat
      BY <1>3 DEF FieldInv, LogisticsAssumption, Goods
    <2>2. Held(d, g)' = Held(d, g) - m[g] /\ m[g] \in Nat /\ Held(d, g) \in Nat
      BY <1>3, <1>7, <1>8 DEF Goods
    <2>. QED  BY <2>1, <2>2
  <1>11. ASSUME NEW g \in Good PROVE AboardOf(s, g) <= AboardOf(unit[u], g) + m[g]
    <2>1. AboardOf(s, g) = (unit[u].cargo[g] + m[g]) + unit[u].store[g]
      BY DEF AboardOf, Loads
    <2>2. AboardOf(unit[u], g) = unit[u].cargo[g] + unit[u].store[g]
      BY DEF AboardOf
    <2>3. unit[u].cargo[g] \in Nat /\ unit[u].store[g] \in Nat /\ m[g] \in Nat
      BY FieldFacts DEF Goods
    <2>. QED  BY <2>1, <2>2, <2>3
  <1>12. \A g \in Good : m[g] \in Int
    BY DEF Goods
  <1>13. \A g \in Good : AboardOf(unit'[u], g) <= AboardOf(unit[u], g) + m[g]
    BY <1>1, <1>11
  <1>14. Sane(u, unit'[u]) /\ BerthKept(unit[u], unit'[u]) /\ StationKept(unit[u], unit'[u])
    BY <1>1
  <1>. QED  BY <1>1, <1>3, <1>6, <1>9, <1>10, <1>12, <1>13, <1>14, TransferStep

LEMMA LoadStep ==
    ASSUME LogisticsAssumption, FieldInv, FrameOK', NEW u \in Units, Load(u)
    PROVE  FieldInv' /\ NoGain
  <1>0. unit[u] \in Runtime /\ Sane(u, unit[u])
    BY RuntimeOf
  <1>1. PICK w : w = unit[u].task
    OBVIOUS
  <1>2. w \in CargoTask /\ unit[u].phase = "Loading" /\ unit[u].at # Nil
    BY <1>0, <1>1 DEF Load, Phase, Runtime, Sane, Berthed
  <1>3. w.source \in Facility /\ w.destination \in Facility /\ w.left \in Goods /\ w # Nil
    BY <1>2 DEF CargoTask, LogisticsAssumption
  <1>4. PICK m : m = Flow(w.left, w.left)
    OBVIOUS
  <1>5. m \in Goods /\ \A g \in Good : m[g] <= w.left[g]
    <2>1. \A g \in Good : w.left[g] \in Int
      BY <1>3 DEF Goods
    <2>. QED  BY <1>3, <1>4, <2>1, FlowFacts
  <1>6. PICK k : k = Less(w.left, m)
    OBVIOUS
  <1>7. k \in Goods /\ \A g \in Good : k[g] = w.left[g] - m[g]
    <2>1. \A g \in Good : m[g] <= w.left[g]
      BY <1>5
    <2>2. m \in Goods /\ w.left \in Goods
      BY <1>3, <1>5
    <2>3. /\ Less(w.left, m) \in Goods
          /\ \A g \in Good : Less(w.left, m)[g] = w.left[g] - m[g]
      BY <2>1, <2>2, LessGoods
    <2>. QED  BY <1>6, <2>3
  <1>8. PICK c : c = Plus(unit[u].cargo, m)
    OBVIOUS
  <1>9. c \in Goods /\ \A g \in Good : c[g] = unit[u].cargo[g] + m[g]
    <2>1. unit[u].cargo \in Goods
      BY <1>0 DEF Runtime
    <2>. QED  BY <1>5, <1>8, <2>1, PlusGoods
  <1>10. PICK e : e = [w EXCEPT !.left = k]
    OBVIOUS
  <1>11. e \in CargoTask /\ e.source = w.source /\ e.left = k
    BY <1>2, <1>7, <1>10 DEF CargoTask
  <1>12. e # Nil
    BY <1>11 DEF LogisticsAssumption
  <1>13. PICK s : s = IF Empty(k)
                      THEN [unit[u] EXCEPT !.cargo = c, !.phase = "Returning",
                                           !.at = w.destination, !.timer = 0, !.task = Nil]
                      ELSE [unit[u] EXCEPT !.cargo = c, !.task = e]
    OBVIOUS
  <1>14. unit' = [unit EXCEPT ![u] = s] /\ stock' = stock
    <2>1. PICK r : r = [unit[u] EXCEPT !.cargo = c]
      OBVIOUS
    <2>2. r.task = w
      BY <1>0, <1>1, <2>1 DEF Runtime
    <2>3. /\ unit' = [unit EXCEPT ![u] =
                        IF Empty(k)
                        THEN [r EXCEPT !.phase = "Returning", !.at = r.task.destination,
                                       !.timer = 0, !.task = Nil]
                        ELSE [r EXCEPT !.task.left = k]]
          /\ stock' = stock
      BY <1>1, <1>4, <1>6, <1>8, <2>1 DEF Load
    <2>4. [r EXCEPT !.task.left = k] = [unit[u] EXCEPT !.cargo = c, !.task = e]
      BY <1>10, <2>1, <2>2
    <2>5. [r EXCEPT !.phase = "Returning", !.at = r.task.destination,
                    !.timer = 0, !.task = Nil]
          = [unit[u] EXCEPT !.cargo = c, !.phase = "Returning",
                            !.at = w.destination, !.timer = 0, !.task = Nil]
      BY <2>1, <2>2
    <2>6. s = IF Empty(k)
              THEN [r EXCEPT !.phase = "Returning", !.at = r.task.destination,
                             !.timer = 0, !.task = Nil]
              ELSE [r EXCEPT !.task.left = k]
      BY <1>13, <2>4, <2>5
    <2>. QED  BY <2>3, <2>6
  <1>15. "Returning" \in Phases /\ 0 \in Nat
    BY DEF Phases
  <1>16. /\ s \in Runtime /\ s.cargo = c /\ s.store = unit[u].store
         /\ s.partner = unit[u].partner /\ s.asked = unit[u].asked
         /\ s.station = unit[u].station
         /\ \/ Empty(k) /\ s.phase = "Returning" /\ s.at = w.destination /\ s.task = Nil
            \/ s.phase = "Loading" /\ s.at = unit[u].at /\ s.task = e
    <2>1. CASE Empty(k)
      <3>1. s = [unit[u] EXCEPT !.cargo = c, !.phase = "Returning",
                                !.at = w.destination, !.timer = 0, !.task = Nil]
        BY <1>13, <2>1
      <3>. QED  BY <1>0, <1>3, <1>9, <1>15, <2>1, <3>1 DEF Runtime
    <2>2. CASE ~Empty(k)
      <3>1. s = [unit[u] EXCEPT !.cargo = c, !.task = e]
        BY <1>13, <2>2
      <3>. QED  BY <1>0, <1>2, <1>9, <1>11, <3>1 DEF Runtime
    <2>. QED  BY <2>1, <2>2
  <1>17. \A f \in Facility, g \in Good : PartOf(s, f, g) = IF f = w.source THEN k[g] ELSE 0
    <2>1. CASE Empty(k) /\ s.task = Nil
      BY <2>1 DEF PartOf, Empty, Nothing
    <2>2. CASE s.task = e
      BY <1>11, <1>12, <2>2 DEF PartOf
    <2>. QED  BY <1>16, <2>1, <2>2
  <1>18. Sane(u, s)
    <2>1. s.at # Nil
      BY <1>2, <1>3, <1>16 DEF LogisticsAssumption
    <2>2. s.phase \in {"Returning", "Loading"}
      BY <1>16
    <2>. QED  BY <1>0, <1>16, <2>1, <2>2 DEF Sane, Receiving
  <1>19. BerthKept(unit[u], s) /\ StationKept(unit[u], s)
    BY <1>2, <1>16 DEF BerthKept, StationKept, Berthed
  <1>20. \A g \in Good : k[g] = w.left[g] - m[g] /\ m[g] <= w.left[g]
    BY <1>5, <1>7
  <1>21. \A g \in Good : s.cargo[g] = unit[u].cargo[g] + m[g]
    BY <1>9, <1>16
  <1>22. Loads(unit[u], s, w, m, k)
    BY <1>1, <1>16, <1>17, <1>20, <1>21 DEF Loads
  <1>. QED  BY <1>2, <1>5, <1>7, <1>14, <1>18, <1>19, <1>22, LoadMoves

--------------------------------------------------------------------------------
(* Fuel from one unit to another.                                           *)

\* What one element has more another one has less.
LEMMA TotalShared ==
    ASSUME NEW f, NEW e, NEW S, IsFiniteSet(S), NEW y \in S, NEW z \in S, y # z,
           \A x \in S : f[x] \in Nat /\ e[x] \in Nat,
           \A x \in S \ {y, z} : e[x] <= f[x],
           e[y] + e[z] <= f[y] + f[z]
    PROVE  Total(e, S) <= Total(f, S)
  <1>. DEFINE R == S \ {y}
              Q == R \ {z}
  <1>1. IsFiniteSet(R) /\ IsFiniteSet(Q) /\ z \in R /\ R \subseteq S /\ Q \subseteq R
    BY FS_Subset
  <1>2. Total(e, S) = e[y] + Total(e, R) /\ Total(f, S) = f[y] + Total(f, R)
    BY TotalSplit
  <1>3. \A x \in R : f[x] \in Nat /\ e[x] \in Nat
    OBVIOUS
  <1>4. \A x \in Q : f[x] \in Nat /\ e[x] \in Nat /\ e[x] <= f[x]
    OBVIOUS
  <1>. HIDE DEF R
  <1>5. Total(e, R) = e[z] + Total(e, Q) /\ Total(f, R) = f[z] + Total(f, Q)
    BY <1>1, <1>3, TotalSplit
  <1>. HIDE DEF Q
  <1>6. Total(e, Q) <= Total(f, Q) /\ Total(e, Q) \in Nat /\ Total(f, Q) \in Nat
    BY <1>1, <1>4, TotalMonotone, TotalType
  <1>7. e[y] \in Nat /\ f[y] \in Nat /\ e[z] \in Nat /\ f[z] \in Nat
    OBVIOUS
  <1>8. Total(e, S) = e[y] + (e[z] + Total(e, Q)) /\ Total(f, S) = f[y] + (f[z] + Total(f, Q))
    BY <1>2, <1>5
  <1>. QED  BY <1>6, <1>7, <1>8

\* Two units share what they have, and nobody else gets more.
LEMMA FuelShared ==
    ASSUME LogisticsAssumption, FieldInv, FrameOK', Units' = Units,
           unit' = [v \in Units |-> unit'[v]], stock' = stock,
           NEW u \in Units, NEW d \in Units, u # d,
           \A v \in Units \ {u, d} : unit'[v] = unit[v],
           Sane(u, unit'[u]), Sane(d, unit'[d]),
           \A v \in {u, d} : /\ BerthKept(unit[v], unit'[v])
                             /\ StationKept(unit[v], unit'[v])
                             /\ unit'[v].task = unit[v].task,
           \A g \in Good : AboardOf(unit'[u], g) + AboardOf(unit'[d], g)
                           <= AboardOf(unit[u], g) + AboardOf(unit[d], g)
    PROVE  FieldInv' /\ NoGain
  <1>1. IsFiniteSet(Units) /\ IsFiniteSet(Facility) /\ \A v \in Units : unit[v] \in Runtime
    BY FieldFacts
  <1>2. \A v \in Units : Sane(v, unit[v])
    BY DEF FieldInv
  <1>3. \A v \in Units : Sane(v, unit'[v])
    <2>1. ASSUME NEW v \in Units PROVE Sane(v, unit'[v])
      <3>1. CASE v \in {u, d}
        BY <3>1
      <3>2. CASE v \in Units \ {u, d}
        BY <1>2, <3>2
      <3>. QED  BY <3>1, <3>2
    <2>. QED  BY <2>1
  <1>4. \A v \in Units : /\ BerthKept(unit[v], unit'[v])
                         /\ StationKept(unit[v], unit'[v])
                         /\ unit'[v].task = unit[v].task
    <2>1. ASSUME NEW v \in Units
          PROVE  /\ BerthKept(unit[v], unit'[v])
                 /\ StationKept(unit[v], unit'[v])
                 /\ unit'[v].task = unit[v].task
      <3>1. CASE v \in {u, d}
        BY <3>1
      <3>2. CASE v \in Units \ {u, d}
        BY <3>2 DEF BerthKept, StationKept
      <3>. QED  BY <3>1, <3>2
    <2>. QED  BY <2>1
  <1>5. stock' \in [Facility -> Goods]
    BY DEF FieldInv
  <1>6. \A f \in Facility, g \in Good : Held(f, g) \in Nat /\ Held(f, g)' \in Nat
    BY <1>3, <1>5, HeldType
  <1>7. \A f \in Facility, g \in Good : Held(f, g)' = Held(f, g)
    BY <1>1, <1>4, ReservedKept DEF Held
  <1>8. \A f \in Facility, g \in Good : Held(f, g)' <= Capacity[f][g]
    BY <1>7 DEF FieldInv
  <1>9. FieldInv'
    <2>1. WithinBerths' /\ StationsApart'
      BY <1>4, BerthsAndStationsHold
    <2>. QED  BY <1>3, <1>5, <1>8, <2>1, Keeping
  <1>10. \A v \in Units, g \in Good : AboardOf(unit[v], g) \in Nat /\ AboardOf(unit'[v], g) \in Nat
    BY <1>1, <1>3 DEF Sane, Runtime, Goods, AboardOf
  <1>11. ASSUME NEW g \in Good PROVE Existing(g)' <= Existing(g)
    <2>. DEFINE h == [f \in Facility |-> Held(f, g)]
                k == [f \in Facility |-> Held(f, g)']
                p == [v \in Units |-> AboardOf(unit[v], g)]
                q == [v \in Units |-> AboardOf(unit'[v], g)]
    <2>1. /\ Existing(g) = Total(h, Facility) + Total(p, Units)
          /\ Existing(g)' = Total(k, Facility) + Total(q, Units)
      BY DEF Existing, Held, AboardOf
    <2>2. \A f \in Facility : h[f] \in Nat /\ k[f] \in Nat /\ k[f] <= h[f]
      BY <1>6, <1>7
    <2>3. \A v \in Units : p[v] \in Nat /\ q[v] \in Nat
      BY <1>10
    <2>4. \A v \in Units \ {u, d} : q[v] <= p[v]
      <3>1. ASSUME NEW v \in Units \ {u, d} PROVE q[v] <= p[v]
        <4>1. q[v] = p[v] /\ p[v] \in Nat
          BY <2>3
        <4>. QED  BY <4>1
      <3>. QED  BY <3>1
    <2>5. q[u] + q[d] <= p[u] + p[d]
      OBVIOUS
    <2>. HIDE DEF h, k, p, q
    <2>6. Total(k, Facility) <= Total(h, Facility)
      BY <1>1, <2>2, TotalMonotone
    <2>7. Total(q, Units) <= Total(p, Units)
      BY <1>1, <2>3, <2>4, <2>5, TotalShared
    <2>8. /\ Total(k, Facility) \in Nat /\ Total(h, Facility) \in Nat
          /\ Total(q, Units) \in Nat /\ Total(p, Units) \in Nat
      BY <1>1, <2>2, <2>3, TotalType
    <2>. QED  BY <2>1, <2>6, <2>7, <2>8
  <1>. QED  BY <1>9, <1>11 DEF NoGain

LEMMA LeastFacts ==
    ASSUME NEW a \in Nat, NEW b \in Nat
    PROVE  Least(a, b) \in Nat /\ Least(a, b) <= a /\ Least(a, b) <= b
  BY DEF Least

\* What a pump moves is due, there is room for it and the donor has it.
LEMMA PumpFacts ==
    ASSUME LogisticsAssumption, FieldInv, NEW u \in Units, NEW d \in Units,
           NEW share, share = Least(Rate, Positive(SharedRate - used[d].pump)),
           NEW a, a = Least(Least(share, unit[u].due),
                            Least(Room(u)["fuel"], Available(d, unit[u].asked)))
    PROVE  /\ share \in Nat /\ a \in Nat /\ a <= unit[u].due
           /\ unit[u].store["fuel"] + a <= Full[u]["fuel"]
           /\ unit[u].asked = "Underway" => a = 0 \/ (d \in Facility /\ a <= stock[d]["fuel"])
           /\ unit[u].asked # "Underway" => a <= unit[d].store["fuel"]
  <1>1. "fuel" \in Good /\ d \in AnyUnit /\ u \in AnyUnit
    BY FieldFacts DEF LogisticsAssumption
  <1>2. used[d].pump \in Nat
    BY <1>1 DEF FieldInv, FrameOK
  <1>3. Positive(SharedRate - used[d].pump) \in Nat
    BY <1>2 DEF Positive, LogisticsAssumption
  <1>4. share \in Nat
    BY <1>3, LeastFacts DEF LogisticsAssumption
  <1>5. unit[u].due \in Nat
    BY RuntimeOf DEF Runtime
  <1>6. /\ Room(u)["fuel"] = Full[u]["fuel"] - unit[u].store["fuel"]
        /\ Full[u]["fuel"] \in Nat /\ unit[u].store["fuel"] \in Nat
        /\ unit[u].store["fuel"] <= Full[u]["fuel"]
    <2>1. Room(u)["fuel"] = Full[u]["fuel"] - unit[u].store["fuel"]
      BY <1>1 DEF Room, Less
    <2>2. Full[u]["fuel"] \in Nat /\ unit[u].store["fuel"] \in Nat
      BY <1>1, FieldFacts
    <2>3. unit[u].store["fuel"] <= Full[u]["fuel"]
      BY <1>1, RuntimeOf DEF Sane
    <2>. QED  BY <2>1, <2>2, <2>3
  <1>7. Room(u)["fuel"] \in Nat
    BY <1>6
  <1>8. PICK b : b = Available(d, unit[u].asked)
    OBVIOUS
  <1>9. /\ b \in Nat
        /\ unit[u].asked = "Underway" => b = 0 \/ (d \in Facility /\ b = stock[d]["fuel"])
        /\ unit[u].asked # "Underway" => b <= unit[d].store["fuel"]
    <2>1. CASE unit[u].asked = "Underway"
      <3>1. d \in Facility => stock[d]["fuel"] \in Nat
        BY <1>1 DEF FieldInv, Goods
      <3>. QED  BY <1>8, <2>1, <3>1 DEF Available
    <2>2. CASE unit[u].asked # "Underway"
      <3>1. unit[d].store["fuel"] \in Nat
        BY <1>1, FieldFacts
      <3>2. Reserve[d] \in Nat
        BY <1>1 DEF LogisticsAssumption
      <3>3. b = Positive(unit[d].store["fuel"] - Reserve[d])
        BY <1>8, <2>2 DEF Available
      <3>. QED  BY <2>2, <3>1, <3>2, <3>3 DEF Positive
    <2>. QED  BY <2>1, <2>2
  <1>10. PICK x, y : x = Least(share, unit[u].due) /\ y = Least(Room(u)["fuel"], b)
    OBVIOUS
  <1>11. /\ x \in Nat /\ x <= unit[u].due
         /\ y \in Nat /\ y <= Room(u)["fuel"] /\ y <= b
    BY <1>4, <1>5, <1>7, <1>9, <1>10, LeastFacts
  <1>12. a = Least(x, y)
    BY <1>8, <1>10
  <1>13. a \in Nat /\ a <= x /\ a <= y
    BY <1>11, <1>12, LeastFacts
  <1>14. a \in Nat /\ a <= unit[u].due /\ a <= Room(u)["fuel"] /\ a <= b
    BY <1>5, <1>7, <1>9, <1>11, <1>13
  <1>15. unit[u].store["fuel"] + a <= Full[u]["fuel"]
    BY <1>6, <1>14
  <1>16. unit[u].asked = "Underway" => a = 0 \/ (d \in Facility /\ a <= stock[d]["fuel"])
    BY <1>9, <1>14
  <1>17. unit[u].asked # "Underway" => a <= unit[d].store["fuel"]
    <2>1. unit[d].store["fuel"] \in Nat
      BY <1>1, FieldFacts
    <2>. QED  BY <1>9, <1>14, <2>1
  <1>. QED  BY <1>4, <1>14, <1>15, <1>16, <1>17

\* The tank of a unit in state r with the fuel t in it, where a less is due.
Pumped(r, s, t, a) ==
    \/ s = [r EXCEPT !.store = t, !.due = r.due - a, !.phase = "Disconnecting", !.timer = 0]
    \/ s = [r EXCEPT !.store = t, !.due = r.due - a]

LEMMA PumpedFacts ==
    ASSUME NEW r, r \in Runtime, NEW t \in Goods, NEW a \in Nat, a <= r.due,
           NEW s, Pumped(r, s, t, a)
    PROVE  /\ s \in Runtime /\ s.store = t
           /\ s.phase = "Disconnecting" \/ s.phase = r.phase
           /\ s.at = r.at /\ s.cargo = r.cargo /\ s.task = r.task
           /\ s.partner = r.partner /\ s.asked = r.asked /\ s.station = r.station
  <1>1. r.due \in Nat
    BY DEF Runtime
  <1>2. r.due - a \in Nat
    BY <1>1
  <1>3. PICK b \in Nat : b = r.due - a
    BY <1>2
  <1>4. "Disconnecting" \in Phases /\ 0 \in Nat
    BY DEF Phases
  <1>5. CASE s = [r EXCEPT !.store = t, !.due = b, !.phase = "Disconnecting", !.timer = 0]
    BY <1>4, <1>5 DEF Runtime
  <1>6. CASE s = [r EXCEPT !.store = t, !.due = b]
    BY <1>6 DEF Runtime
  <1>. QED  BY <1>3, <1>5, <1>6 DEF Pumped

LEMMA PumpStep ==
    ASSUME LogisticsAssumption, FieldInv, FrameOK', NEW u \in Units, Pump(u)
    PROVE  FieldInv' /\ NoGain
  <1>0. unit[u] \in Runtime /\ Sane(u, unit[u])
    BY RuntimeOf
  <1>1. PICK d : d = unit[u].partner
    OBVIOUS
  <1>2. unit[u].phase = "Transferring" /\ d \in Units /\ u # d /\ unit[d].phase = "Deployed"
    BY <1>0, <1>1 DEF Pump, InReach, Donor, Phase, Sane, Receiving
  <1>3. PICK share : share = Least(Rate, Positive(SharedRate - used[d].pump))
    OBVIOUS
  <1>4. PICK a : a = Least(Least(share, unit[u].due),
                           Least(Room(u)["fuel"], Available(d, unit[u].asked)))
    OBVIOUS
  <1>5. /\ a \in Nat /\ a <= unit[u].due
        /\ unit[u].store["fuel"] + a <= Full[u]["fuel"]
        /\ unit[u].asked = "Underway" => a = 0 \/ (d \in Facility /\ a <= stock[d]["fuel"])
        /\ unit[u].asked # "Underway" => a <= unit[d].store["fuel"]
    BY <1>2, <1>3, <1>4, PumpFacts
  <1>6. PICK t : t = [unit[u].store EXCEPT !["fuel"] = unit[u].store["fuel"] + a]
    OBVIOUS
  <1>7. unit[u].store \in Goods /\ "fuel" \in Good
    BY <1>0 DEF Runtime, LogisticsAssumption
  <1>8. /\ t \in Goods /\ t["fuel"] = unit[u].store["fuel"] + a
        /\ \A g \in Good \ {"fuel"} : t[g] = unit[u].store[g]
    BY <1>5, <1>6, <1>7 DEF Goods
  <1>9. \A g \in Good : t[g] <= Full[u][g]
    <2>1. ASSUME NEW g \in Good PROVE t[g] <= Full[u][g]
      <3>1. CASE g = "fuel"
        BY <1>5, <1>8, <3>1
      <3>2. CASE g # "fuel"
        BY <1>0, <1>8, <3>2 DEF Sane
      <3>. QED  BY <3>1, <3>2
    <2>. QED  BY <2>1
  <1>10. \E s : /\ Pumped(unit[u], s, t, a)
                /\ \/ /\ unit[u].asked = "Underway"
                      /\ unit' = [unit EXCEPT ![u] = s]
                      /\ stock' = IF a = 0 THEN stock
                                  ELSE [stock EXCEPT ![d]["fuel"] = @ - a]
                   \/ /\ unit[u].asked # "Underway"
                      /\ unit' = [unit EXCEPT ![u] = s, ![d].store["fuel"] = @ - a]
                      /\ stock' = stock
    <2>1. PICK r : r = [unit[u] EXCEPT !.store = t, !.due = unit[u].due - a]
      OBVIOUS
    <2>2. r = [unit[u] EXCEPT !.store["fuel"] = @ + a, !.due = @ - a]
      BY <1>6, <2>1
    <2>3. PICK done \in BOOLEAN :
              done = \/ a = 0 \/ a = unit[u].due
                     \/ a = Room(u)["fuel"]
                     \/ a = Available(d, unit[u].asked)
      OBVIOUS
    <2>4. PICK s : s = IF done THEN [r EXCEPT !.phase = "Disconnecting", !.timer = 0] ELSE r
      OBVIOUS
    <2>5. Pumped(unit[u], s, t, a)
      BY <2>1, <2>4 DEF Pumped
    <2>6. IF unit[u].asked = "Underway"
          THEN /\ unit' = [unit EXCEPT ![u] = s]
               /\ stock' = IF a = 0 THEN stock ELSE [stock EXCEPT ![d]["fuel"] = @ - a]
          ELSE /\ unit' = [unit EXCEPT ![u] = s, ![d].store["fuel"] = @ - a]
               /\ stock' = stock
      BY <1>1, <1>3, <1>4, <2>2, <2>3, <2>4 DEF Pump, Donor
    <2>. QED  BY <2>5, <2>6
  <1>11. PICK s : /\ Pumped(unit[u], s, t, a)
                  /\ \/ /\ unit[u].asked = "Underway"
                        /\ unit' = [unit EXCEPT ![u] = s]
                        /\ stock' = IF a = 0 THEN stock
                                    ELSE [stock EXCEPT ![d]["fuel"] = @ - a]
                     \/ /\ unit[u].asked # "Underway"
                        /\ unit' = [unit EXCEPT ![u] = s, ![d].store["fuel"] = @ - a]
                        /\ stock' = stock
    BY <1>10
  <1>12. /\ s \in Runtime /\ s.store = t
         /\ s.phase = "Disconnecting" \/ s.phase = unit[u].phase
         /\ s.at = unit[u].at /\ s.cargo = unit[u].cargo /\ s.task = unit[u].task
         /\ s.partner = unit[u].partner /\ s.asked = unit[u].asked
         /\ s.station = unit[u].station
    BY <1>0, <1>5, <1>8, <1>11, PumpedFacts
  <1>13. Sane(u, s)
    BY <1>0, <1>2, <1>9, <1>12 DEF Sane, Berthed, Receiving
  <1>14. BerthKept(unit[u], s) /\ StationKept(unit[u], s)
    BY <1>2, <1>12 DEF BerthKept, StationKept, Berthed
  <1>15. /\ \A g \in Good \ {"fuel"} : AboardOf(s, g) = AboardOf(unit[u], g)
         /\ AboardOf(s, "fuel") = AboardOf(unit[u], "fuel") + a
    <2>1. /\ unit[u].cargo["fuel"] \in Nat /\ unit[u].store["fuel"] \in Nat
      BY <1>0, <1>7 DEF Runtime, Goods
    <2>2. AboardOf(s, "fuel") = unit[u].cargo["fuel"] + (unit[u].store["fuel"] + a)
      BY <1>8, <1>12 DEF AboardOf
    <2>3. AboardOf(unit[u], "fuel") = unit[u].cargo["fuel"] + unit[u].store["fuel"]
      BY DEF AboardOf
    <2>4. \A g \in Good \ {"fuel"} : AboardOf(s, g) = AboardOf(unit[u], g)
      BY <1>8, <1>12 DEF AboardOf
    <2>5. AboardOf(s, "fuel") = AboardOf(unit[u], "fuel") + a
      BY <1>5, <2>1, <2>2, <2>3
    <2>. QED  BY <2>4, <2>5
  <1>16. CASE unit' = [unit EXCEPT ![u] = s] /\ stock' = stock /\ a = 0
    <2>1. ASSUME NEW g \in Good
          PROVE  s.cargo[g] <= unit[u].cargo[g] /\ s.store[g] <= unit[u].store[g]
      <3>1. unit[u].store[g] \in Nat /\ unit[u].cargo[g] \in Nat
        BY <1>0 DEF Runtime, Goods
      <3>2. t[g] = unit[u].store[g]
        <4>1. CASE g = "fuel"
          BY <1>8, <1>16, <3>1, <4>1
        <4>2. CASE g # "fuel"
          BY <1>8, <4>2
        <4>. QED  BY <4>1, <4>2
      <3>. QED  BY <1>12, <3>1, <3>2
    <2>2. NoMore(unit[u], s)
      BY <2>1 DEF NoMore
    <2>3. Calm(u, unit[u], s)
      BY <1>13, <1>14, <2>2 DEF Calm
    <2>. QED  BY <1>12, <1>16, <2>3, OneCalm
  <1>17. CASE /\ unit' = [unit EXCEPT ![u] = s] /\ a # 0
              /\ stock' = [stock EXCEPT ![d]["fuel"] = @ - a]
              /\ unit[u].asked = "Underway"
    <2>1. d \in Facility /\ a <= stock[d]["fuel"]
      BY <1>5, <1>17
    <2>2. PICK n : n = [stock[d] EXCEPT !["fuel"] = stock[d]["fuel"] - a]
      OBVIOUS
    <2>3. stock[d] \in Goods
      BY <2>1 DEF FieldInv
    <2>4. stock[d]["fuel"] \in Nat
      BY <1>7, <2>3 DEF Goods
    <2>5. stock[d]["fuel"] - a \in Nat
      BY <1>5, <2>1, <2>4
    <2>6. /\ n \in Goods /\ n["fuel"] = stock[d]["fuel"] - a
          /\ \A g \in Good \ {"fuel"} : n[g] = stock[d][g]
      BY <1>7, <2>2, <2>3, <2>5 DEF Goods
    <2>7. stock' = [stock EXCEPT ![d] = n]
      BY <1>17, <2>2
    <2>8. ASSUME NEW g \in Good
          PROVE  /\ AboardOf(s, g) + n[g] <= AboardOf(unit[u], g) + stock[d][g]
                 /\ n[g] + Reserved(d)[g] <= Capacity[d][g]
      <3>1. AboardOf(unit[u], g) \in Nat
        BY <1>0 DEF Runtime, Goods, AboardOf
      <3>2. Capacity[d][g] \in Nat /\ Reserved(d)[g] \in Nat /\ stock[d][g] \in Nat
        BY <2>1, SpaceFacts
      <3>3. stock[d][g] + Reserved(d)[g] <= Capacity[d][g]
        BY <2>1 DEF FieldInv, Held
      <3>4. CASE g = "fuel"
        <4>1. AboardOf(s, g) = AboardOf(unit[u], g) + a /\ n[g] = stock[d][g] - a
          BY <1>15, <2>6, <3>4
        <4>2. AboardOf(s, g) + n[g] <= AboardOf(unit[u], g) + stock[d][g]
          BY <1>5, <3>1, <3>2, <4>1
        <4>3. n[g] + Reserved(d)[g] <= Capacity[d][g]
          BY <1>5, <3>2, <3>3, <4>1
        <4>. QED  BY <4>2, <4>3
      <3>5. CASE g # "fuel"
        <4>1. AboardOf(s, g) = AboardOf(unit[u], g) /\ n[g] = stock[d][g]
          BY <1>15, <2>6, <3>5
        <4>. QED  BY <3>1, <3>2, <3>3, <4>1
      <3>. QED  BY <3>4, <3>5
    <2>9. s.task = unit[u].task
      BY <1>12
    <2>. QED  BY <1>13, <1>14, <1>17, <2>1, <2>6, <2>7, <2>8, <2>9, StockStep
  <1>18. CASE /\ unit' = [unit EXCEPT ![u] = s, ![d].store["fuel"] = @ - a]
              /\ stock' = stock /\ unit[u].asked # "Underway"
    <2>0. unit[d] \in Runtime /\ Sane(d, unit[d])
      BY <1>2, RuntimeOf
    <2>1. a <= unit[d].store["fuel"] /\ unit[d].store \in Goods
      BY <1>5, <1>18, <2>0 DEF Runtime
    <2>2. PICK e : e = [unit[d].store EXCEPT !["fuel"] = unit[d].store["fuel"] - a]
      OBVIOUS
    <2>3. unit[d].store["fuel"] \in Nat
      BY <1>7, <2>1 DEF Goods
    <2>4. unit[d].store["fuel"] - a \in Nat
      BY <1>5, <2>1, <2>3
    <2>5. /\ e \in Goods /\ e["fuel"] = unit[d].store["fuel"] - a
          /\ \A g \in Good \ {"fuel"} : e[g] = unit[d].store[g]
      BY <1>7, <2>1, <2>2, <2>4 DEF Goods
    <2>6. PICK q : q = [unit[d] EXCEPT !.store = e]
      OBVIOUS
    <2>7. /\ q \in Runtime /\ q.store = e /\ q.phase = "Deployed" /\ q.at = unit[d].at
          /\ q.cargo = unit[d].cargo /\ q.task = unit[d].task
          /\ q.partner = unit[d].partner /\ q.asked = unit[d].asked
          /\ q.station = unit[d].station
      BY <1>2, <2>0, <2>5, <2>6 DEF Runtime
    <2>8. \A g \in Good : e[g] <= Full[d][g]
      <3>1. ASSUME NEW g \in Good PROVE e[g] <= Full[d][g]
        <4>1. unit[d].store[g] <= Full[d][g] /\ unit[d].store[g] \in Nat /\ Full[d][g] \in Nat
          BY <1>2, <2>0, FieldFacts DEF Sane
        <4>2. CASE g = "fuel"
          BY <1>5, <2>5, <4>1, <4>2
        <4>3. CASE g # "fuel"
          BY <2>5, <4>1, <4>3
        <4>. QED  BY <4>2, <4>3
      <3>. QED  BY <3>1
    <2>9. Sane(d, q)
      BY <2>7, <2>8 DEF Sane, Berthed, Receiving
    <2>10. unit' = [[unit EXCEPT ![u] = s] EXCEPT ![d] = q]
      <3>1. [unit EXCEPT ![u] = s][d] = unit[d]
        BY <1>2 DEF FieldInv
      <3>. QED  BY <1>18, <2>2, <2>6, <3>1
    <2>11. /\ Units' = Units /\ unit' = [v \in Units |-> unit'[v]]
           /\ unit'[u] = s /\ unit'[d] = q
           /\ \A v \in Units \ {u, d} : unit'[v] = unit[v]
      <3>1. unit = [v \in Units |-> unit[v]]
        BY DEF FieldInv
      <3>2. DOMAIN unit' = DOMAIN unit
        BY <2>10, <3>1
      <3>. QED  BY <1>2, <2>10, <3>1, <3>2 DEF Units
    <2>12. \A v \in {u, d} : /\ BerthKept(unit[v], unit'[v])
                             /\ StationKept(unit[v], unit'[v])
                             /\ unit'[v].task = unit[v].task
      <3>1. BerthKept(unit[d], q) /\ StationKept(unit[d], q)
        BY <2>7 DEF BerthKept, StationKept, Berthed
      <3>. QED  BY <1>12, <1>14, <2>7, <2>11, <3>1
    <2>13. ASSUME NEW g \in Good
           PROVE  AboardOf(unit'[u], g) + AboardOf(unit'[d], g)
                  <= AboardOf(unit[u], g) + AboardOf(unit[d], g)
      <3>1. AboardOf(unit[u], g) \in Nat
        BY <1>0 DEF Runtime, Goods, AboardOf
      <3>2. unit[d].cargo[g] \in Nat /\ unit[d].store[g] \in Nat
        BY <2>0 DEF Runtime, Goods
      <3>3. /\ AboardOf(unit'[d], g) = unit[d].cargo[g] + e[g]
            /\ AboardOf(unit[d], g) = unit[d].cargo[g] + unit[d].store[g]
        BY <2>7, <2>11 DEF AboardOf
      <3>4. CASE g = "fuel"
        <4>1. AboardOf(unit'[u], g) = AboardOf(unit[u], g) + a /\ e[g] = unit[d].store[g] - a
          BY <1>15, <2>5, <2>11, <3>4
        <4>. QED  BY <1>5, <3>1, <3>2, <3>3, <4>1
      <3>5. CASE g # "fuel"
        <4>1. AboardOf(unit'[u], g) = AboardOf(unit[u], g) /\ e[g] = unit[d].store[g]
          BY <1>15, <2>5, <2>11, <3>5
        <4>. QED  BY <3>1, <3>2, <3>3, <4>1
      <3>. QED  BY <3>4, <3>5
    <2>14. Sane(u, unit'[u]) /\ Sane(d, unit'[d])
      BY <1>13, <2>9, <2>11
    <2>15. stock' = stock
      BY <1>18
    <2>. QED  BY <1>2, <2>11, <2>12, <2>13, <2>14, <2>15, FuelShared
  <1>. QED  BY <1>11, <1>16, <1>17, <1>18

--------------------------------------------------------------------------------
(* Fuel that is burnt, and the frame.                                       *)

\* A unit that is out of play has no berth and no more than it had.
LEMMA OutOfPlay ==
    ASSUME NEW v, NEW r \in Runtime, NEW s \in Runtime, Sane(v, r),
           \A g \in Good : s.store[g] <= r.store[g] /\ Full[v][g] \in Nat,
           s.cargo = r.cargo, s.partner = r.partner,
           s.asked = r.asked, s.station = r.station,
           s.phase \in {"Destroyed", "Unavailable", "Immobilized"},
           s.phase = "Immobilized" => v \notin Air /\ s.store["fuel"] = 0
    PROVE  Calm(v, r, s)
  <1>1. NoMore(r, s)
    BY DEF NoMore, Runtime, Goods
  <1>2. \A g \in Good : s.store[g] <= Full[v][g]
    <2>1. \A g \in Good : r.store[g] <= Full[v][g] /\ r.store[g] \in Nat /\ s.store[g] \in Nat
      BY DEF Sane, Runtime, Goods
    <2>. QED  BY <2>1
  <1>3. Sane(v, s)
    BY <1>2 DEF Sane, Berthed, Receiving
  <1>4. BerthKept(r, s) /\ StationKept(r, s)
    BY DEF BerthKept, StationKept, Berthed
  <1>. QED  BY <1>1, <1>3, <1>4 DEF Calm

LEMMA BurntFacts ==
    ASSUME LogisticsAssumption, FieldInv, NEW v \in Units, NEW thirsty, NEW astray
    PROVE  /\ Calm(v, unit[v], Burnt(v, thirsty, astray))
           /\ Burnt(v, thirsty, astray).task = unit[v].task
  <1>0. unit[v] \in Runtime /\ Sane(v, unit[v]) /\ unit[v].store \in Goods /\ "fuel" \in Good
    BY RuntimeOf DEF Runtime, LogisticsAssumption
  <1>1. PICK n : n = IF v \in thirsty \ astray THEN Positive(unit[v].store["fuel"] - 1)
                                               ELSE unit[v].store["fuel"]
    OBVIOUS
  <1>2. unit[v].store["fuel"] \in Nat
    BY <1>0 DEF Goods
  <1>3. n \in Nat /\ n <= unit[v].store["fuel"]
    BY <1>1, <1>2 DEF Positive
  <1>4. PICK t : t = [unit[v].store EXCEPT !["fuel"] = n]
    OBVIOUS
  <1>5. /\ t \in Goods /\ t["fuel"] = n
        /\ \A g \in Good \ {"fuel"} : t[g] = unit[v].store[g]
    BY <1>0, <1>3, <1>4 DEF Goods
  <1>6. \A g \in Good : t[g] <= unit[v].store[g] /\ Full[v][g] \in Nat
    <2>1. ASSUME NEW g \in Good PROVE t[g] <= unit[v].store[g]
      <3>1. unit[v].store[g] \in Nat
        BY <1>0 DEF Goods
      <3>2. CASE g = "fuel"
        BY <1>3, <1>5, <3>2
      <3>3. CASE g # "fuel"
        BY <1>5, <3>1, <3>3
      <3>. QED  BY <3>2, <3>3
    <2>. QED  BY <2>1, FieldFacts
  <1>7. PICK r : r = [unit[v] EXCEPT !.store = t]
    OBVIOUS
  <1>8. /\ r \in Runtime /\ r.store = t /\ r.phase = unit[v].phase /\ r.at = unit[v].at
        /\ r.cargo = unit[v].cargo /\ r.task = unit[v].task
        /\ r.partner = unit[v].partner /\ r.asked = unit[v].asked
        /\ r.station = unit[v].station
    BY <1>0, <1>5, <1>7 DEF Runtime
  <1>9. PICK p : p = IF v \in Air THEN "Destroyed" ELSE "Immobilized"
    OBVIOUS
  <1>10. PICK s : s = IF n = 0 THEN [r EXCEPT !.phase = p, !.support = Nil]
                      ELSE IF v \in astray THEN [r EXCEPT !.phase = "Unavailable"] ELSE r
    OBVIOUS
  <1>11. s = Burnt(v, thirsty, astray)
    BY <1>1, <1>4, <1>7, <1>9, <1>10 DEF Burnt
  <1>12. p \in {"Destroyed", "Immobilized"} /\ p \in Phases /\ "Unavailable" \in Phases
    BY <1>9 DEF Phases
  <1>13. CASE n = 0
    <2>1. s = [r EXCEPT !.phase = p, !.support = Nil]
      BY <1>10, <1>13
    <2>2. /\ s \in Runtime /\ s.store = t /\ s.phase = p
          /\ s.cargo = unit[v].cargo /\ s.task = unit[v].task
          /\ s.partner = unit[v].partner /\ s.asked = unit[v].asked
          /\ s.station = unit[v].station
      BY <1>8, <1>12, <2>1 DEF Runtime
    <2>3. p = "Immobilized" => v \notin Air /\ s.store["fuel"] = 0
      BY <1>5, <1>9, <1>13, <2>2
    <2>4. Calm(v, unit[v], s)
      BY <1>0, <1>6, <1>12, <2>2, <2>3, OutOfPlay
    <2>. QED  BY <1>11, <2>2, <2>4
  <1>14. CASE n # 0 /\ v \in astray
    <2>1. s = [r EXCEPT !.phase = "Unavailable"]
      BY <1>10, <1>14
    <2>2. /\ s \in Runtime /\ s.store = t /\ s.phase = "Unavailable"
          /\ s.cargo = unit[v].cargo /\ s.task = unit[v].task
          /\ s.partner = unit[v].partner /\ s.asked = unit[v].asked
          /\ s.station = unit[v].station
      BY <1>8, <1>12, <2>1 DEF Runtime
    <2>3. Calm(v, unit[v], s)
      BY <1>0, <1>6, <2>2, OutOfPlay
    <2>. QED  BY <1>11, <2>2, <2>3
  <1>15. CASE n # 0 /\ v \notin astray
    <2>1. s = r
      BY <1>10, <1>15
    <2>2. unit[v].store["fuel"] = 0 => t["fuel"] = 0
      BY <1>3, <1>5
    <2>3. Calm(v, unit[v], r)
      BY <1>0, <1>6, <1>8, <2>2, LessInStore
    <2>. QED  BY <1>8, <1>11, <2>1, <2>3
  <1>. QED  BY <1>13, <1>14, <1>15

LEMMA BurnFuelStep ==
    ASSUME LogisticsAssumption, FieldInv, FrameOK', BurnFuel
    PROVE  FieldInv' /\ NoGain
  <1>1. PICK thirsty \in SUBSET {v \in Units : Burns(v)},
             astray \in SUBSET {v \in Units \cap Uncharted : Burns(v)} :
            unit' = [v \in Units |->
                       IF Burns(v) THEN Burnt(v, thirsty, astray)
                       ELSE IF Phase(v) = "Ready" /\ "repairs" \in Good
                               /\ Room(v)["repairs"] > 0
                       THEN [unit[v] EXCEPT !.phase = "Queued"] ELSE unit[v]]
    BY DEF BurnFuel
  <1>2. Units' = Units /\ unit' = [v \in Units |-> unit'[v]]
    BY <1>1 DEF Units
  <1>3. ASSUME NEW v \in Units
        PROVE  Calm(v, unit[v], unit'[v]) /\ unit'[v].task = unit[v].task
    <2>1. CASE unit'[v] = Burnt(v, thirsty, astray)
      BY <2>1, BurntFacts
    <2>2. CASE unit'[v] = unit[v]
      BY <2>2, CalmSelf
    <2>3. CASE unit'[v] = [unit[v] EXCEPT !.phase = "Queued"] /\ unit[v].phase = "Ready"
      <3>1. PICK s : s = [unit[v] EXCEPT !.phase = "Queued"]
        OBVIOUS
      <3>2. "Queued" \in Phases /\ unit[v] \in Runtime /\ Sane(v, unit[v])
        BY RuntimeOf DEF Phases
      <3>3. /\ s \in Runtime /\ s.phase = "Queued" /\ s.at = unit[v].at
            /\ s.store = unit[v].store /\ s.cargo = unit[v].cargo /\ s.task = unit[v].task
            /\ s.partner = unit[v].partner /\ s.asked = unit[v].asked
            /\ s.station = unit[v].station
        BY <3>1, <3>2 DEF Runtime
      <3>4. unit[v].at # Nil
        BY <2>3, <3>2 DEF Sane, Berthed
      <3>5. Calm(v, unit[v], s)
        BY <2>3, <3>2, <3>3, <3>4, CalmChange DEF Berthed, Receiving, StationKept
      <3>. QED  BY <2>3, <3>1, <3>3, <3>5
    <2>4. \/ unit'[v] = Burnt(v, thirsty, astray) \/ unit'[v] = unit[v]
          \/ unit'[v] = [unit[v] EXCEPT !.phase = "Queued"] /\ unit[v].phase = "Ready"
      <3>1. unit'[v] = IF Burns(v) THEN Burnt(v, thirsty, astray)
                       ELSE IF Phase(v) = "Ready" /\ "repairs" \in Good
                               /\ Room(v)["repairs"] > 0
                       THEN [unit[v] EXCEPT !.phase = "Queued"] ELSE unit[v]
        BY <1>1
      <3>. QED  BY <3>1 DEF Phase
    <2>. QED  BY <2>1, <2>2, <2>3, <2>4
  <1>4. stock' = stock
    BY DEF BurnFuel
  <1>. QED  BY <1>2, <1>3, <1>4, QuietStep

\* What a frame keeps account of.
SlotCounts == [Facility \cup AnyUnit -> [move : Nat, service : Nat, pump : Nat]]

LEMMA ChangedUnits ==
    ASSUME NEW u, NEW s, unit' = [unit EXCEPT ![u] = s]
    PROVE  Units' = Units
  BY DEF Units

LEMMA PartedUnits ==
    ASSUME FieldInv, NEW u \in Units, NEW s, unit' = [Parted(u) EXCEPT ![u] = s]
    PROVE  Units' = Units
  <1>1. DOMAIN Parted(u) = Units
    BY DEF Parted
  <1>. QED  BY <1>1 DEF Units

LEMMA TaskingUnits ==
    ASSUME FieldInv, Tasking
    PROVE  Units' = Units
  <1>. PICK u \in Units :
        \/ Depart(u) \/ Cancel(u)
        \/ \E f \in Facility : Return(u, f)
        \/ \E i \in Interface : Support(u, i)
        \/ \E d \in Units, i \in Interface, n \in 1..Rate + 1 : Refuel(u, d, i, n)
        \/ \E from, to \in Facility, m \in Manifests : Cargo(u, from, to, m)
    BY DEF Tasking
  <1>0. DOMAIN Parted(u) = Units
    BY DEF Parted
  <1>1. CASE Depart(u)
    BY <1>1 DEF Depart, Units
  <1>2. CASE Cancel(u)
    BY <1>0, <1>2 DEF Cancel, Units
  <1>3. ASSUME NEW f \in Facility, Return(u, f) PROVE Units' = Units
    BY <1>0, <1>3 DEF Return, Units
  <1>4. ASSUME NEW i \in Interface, Support(u, i) PROVE Units' = Units
    BY <1>4 DEF Support, Units
  <1>5. ASSUME NEW d \in Units, NEW i \in Interface, NEW n \in 1..Rate + 1, Refuel(u, d, i, n)
        PROVE  Units' = Units
    BY <1>5 DEF Refuel, Units
  <1>6. ASSUME NEW from \in Facility, NEW to \in Facility, NEW m \in Manifests,
               Cargo(u, from, to, m)
        PROVE  Units' = Units
    BY <1>0, <1>6 DEF Cargo, Units
  <1>. QED  BY <1>1, <1>2, <1>3, <1>4, <1>5, <1>6

LEMMA GuideUnits ==
    ASSUME FieldInv, Guide
    PROVE  Units' = Units
  <1>. PICK u \in todo :
        LoseUnit(u) \/ Immobilize(u) \/ FlyOn(u) \/ \E f \in Facility : ReturnOnReserve(u, f)
    BY DEF Guide
  <1>0. DOMAIN Parted(u) = Units
    BY DEF Parted
  <1>1. CASE LoseUnit(u)
    BY <1>0, <1>1 DEF LoseUnit, Units
  <1>2. CASE Immobilize(u)
    BY <1>2 DEF Immobilize, Units
  <1>3. CASE FlyOn(u)
    BY <1>3 DEF FlyOn, Units
  <1>4. ASSUME NEW f \in Facility, ReturnOnReserve(u, f) PROVE Units' = Units
    BY <1>4 DEF ReturnOnReserve, Units
  <1>. QED  BY <1>1, <1>2, <1>3, <1>4

LEMMA ServeUnits ==
    ASSUME FieldInv, Serve
    PROVE  Units' = Units
  <1>. PICK u \in todo :
        \/ Wait(u) \/ Recover(u) \/ ComeAlongside(u) \/ Leave(u)
        \/ Load(u) \/ Unload(u) \/ Turnaround(u)
        \/ \E meets \in BOOLEAN : Replenish(u, meets)
        \/ BreakOff(u)
        \/ Separate(u) \/ KeepRendezvous(u) \/ Connect(u) \/ Pump(u) \/ Disconnect(u)
    BY DEF Serve
  <1>1. CASE Wait(u) \/ KeepRendezvous(u)
    BY <1>1 DEF Wait, KeepRendezvous, Units
  <1>2. CASE Recover(u)
    BY <1>2 DEF Recover, Units
  <1>3. CASE ComeAlongside(u)
    BY <1>3 DEF ComeAlongside, Units
  <1>4. CASE Leave(u)
    BY <1>4 DEF Leave, Units
  <1>5. CASE Load(u)
    BY <1>5 DEF Load, Units
  <1>6. CASE Unload(u)
    BY <1>6 DEF Unload, Units
  <1>7. CASE Turnaround(u)
    BY <1>7 DEF Turnaround, Units
  <1>8. ASSUME NEW meets \in BOOLEAN, Replenish(u, meets) PROVE Units' = Units
    BY <1>8 DEF Replenish, Units
  <1>9. CASE BreakOff(u)
    BY <1>9 DEF BreakOff, Units
  <1>10. CASE Separate(u)
    BY <1>10 DEF Separate, Units
  <1>11. CASE Connect(u)
    BY <1>11 DEF Connect, Units
  <1>12. CASE Pump(u)
    BY <1>12 DEF Pump, Units
  <1>13. CASE Disconnect(u)
    BY <1>13 DEF Disconnect, Units
  <1>. QED  BY <1>1, <1>2, <1>3, <1>4, <1>5, <1>6, <1>7, <1>8, <1>9, <1>10, <1>11, <1>12, <1>13

\* Nobody joins the game or leaves it.
LEMMA SameUnits ==
    ASSUME FieldInv, LogisticsNext
    PROVE  Units' = Units
  <1>1. CASE Combat
    BY <1>1 DEF Combat, Wear, DestroyTarget, Units
  <1>2. CASE BeginFrame \/ Settling \/ EndFrame
    BY <1>2 DEF BeginFrame, Settling, EndFrame, Units
  <1>3. CASE BurnFuel
    BY <1>3 DEF BurnFuel, Units
  <1>4. ASSUME NEW u \in todo, SettleLost(u) PROVE Units' = Units
    <2>1. DOMAIN Parted(u) = Units
      BY DEF Parted
    <2>. QED  BY <1>4, <2>1 DEF SettleLost, Units
  <1>. QED  BY <1>1, <1>2, <1>3, <1>4, TaskingUnits, GuideUnits, ServeUnits
       DEF LogisticsNext, Frame

LEMMA TaskingFrame ==
    ASSUME LogisticsAssumption, FieldInv, Tasking
    PROVE  FrameOK'
  <1>1. Units' = Units
    BY TaskingUnits
  <1>2. PICK u, kind : Tasked(u, kind)
    <2>. PICK u \in Units :
          \/ Depart(u) \/ Cancel(u)
          \/ \E f \in Facility : Return(u, f)
          \/ \E i \in Interface : Support(u, i)
          \/ \E d \in Units, i \in Interface, n \in 1..Rate + 1 : Refuel(u, d, i, n)
          \/ \E from, to \in Facility, m \in Manifests : Cargo(u, from, to, m)
      BY DEF Tasking
    <2>1. Depart(u) => Tasked(u, "depart")
      BY DEF Depart
    <2>2. Cancel(u) => Tasked(u, "cancel")
      BY DEF Cancel
    <2>3. ASSUME NEW f, Return(u, f) PROVE Tasked(u, "return")
      BY <2>3 DEF Return
    <2>4. ASSUME NEW i, Support(u, i) PROVE Tasked(u, "support")
      BY <2>4 DEF Support
    <2>5. ASSUME NEW d, NEW i, NEW n, Refuel(u, d, i, n) PROVE Tasked(u, "refuel")
      BY <2>5 DEF Refuel
    <2>6. ASSUME NEW from, NEW to, NEW m, Cargo(u, from, to, m) PROVE Tasked(u, "cargo")
      BY <2>6 DEF Cargo
    <2>. QED  BY <2>1, <2>2, <2>3, <2>4, <2>5, <2>6
  <1>3. /\ orders \in Nat /\ MaxOrders \in Nat /\ orders < MaxOrders
        /\ orders' = orders + 1
    BY <1>2 DEF FieldInv, FrameOK, LogisticsAssumption, Tasked
  <1>4. orders' \in 0..MaxOrders
    BY <1>3
  <1>. QED  BY <1>1, <1>2, <1>4 DEF FieldInv, FrameOK, Tasked

LEMMA CombatFrame ==
    ASSUME LogisticsAssumption, FieldInv, Combat
    PROVE  FrameOK'
  <1>1. Units' = Units
    BY SameUnits DEF LogisticsNext
  <1>2. Hit /\ destroyed' \subseteq AnyUnit \cup Facility
    <2>1. Units \subseteq AnyUnit /\ destroyed \subseteq AnyUnit \cup Facility
      BY FieldFacts DEF FieldInv, FrameOK
    <2>. QED  BY <2>1 DEF Combat, Wear, DestroyTarget
  <1>3. /\ hits \in Nat /\ MaxHits \in Nat /\ hits < MaxHits /\ hits' = hits + 1
    BY <1>2 DEF FieldInv, FrameOK, LogisticsAssumption, Hit
  <1>4. hits' \in 0..MaxHits
    BY <1>3
  <1>. QED  BY <1>1, <1>2, <1>4 DEF FieldInv, FrameOK, Hit

LEMMA VisitFrame ==
    ASSUME FieldInv, Units' = Units, NEW here, NEW u, Visit(here, u), used' \in SlotCounts
    PROVE  FrameOK'
  BY DEF FieldInv, FrameOK, Visit, SlotCounts

\* Slots are taken at a facility, pump work is a donor's.
LEMMA SlotTaken ==
    ASSUME FieldInv, NEW f \in Facility,
           TakeMoveSlot(f) \/ TakeServiceSlot(f) \/ TakeCargoSlot(f)
    PROVE  used' \in SlotCounts
  <1>1. used \in SlotCounts /\ f \in Facility \cup AnyUnit
    BY DEF FieldInv, FrameOK, SlotCounts
  <1>2. used[f] \in [move : Nat, service : Nat, pump : Nat]
    BY <1>1 DEF SlotCounts
  <1>3. used[f].move \in Nat /\ used[f].service \in Nat
    BY <1>2
  <1>4. CASE TakeMoveSlot(f)
    <2>1. PICK n \in Nat : n = used[f].move + 1
      BY <1>3
    <2>2. PICK s : s = [used[f] EXCEPT !.move = n]
      OBVIOUS
    <2>3. s \in [move : Nat, service : Nat, pump : Nat]
      BY <1>2, <2>2
    <2>4. used' = [used EXCEPT ![f] = s]
      BY <1>4, <2>1, <2>2 DEF TakeMoveSlot
    <2>. QED  BY <1>1, <2>3, <2>4 DEF SlotCounts
  <1>5. CASE TakeServiceSlot(f) \/ TakeCargoSlot(f)
    <2>1. PICK n \in Nat : n = used[f].service + 1
      BY <1>3
    <2>2. PICK s : s = [used[f] EXCEPT !.service = n]
      OBVIOUS
    <2>3. s \in [move : Nat, service : Nat, pump : Nat]
      BY <1>2, <2>2
    <2>4. used' = [used EXCEPT ![f] = s]
      BY <1>5, <2>1, <2>2 DEF TakeServiceSlot, TakeCargoSlot
    <2>. QED  BY <1>1, <2>3, <2>4 DEF SlotCounts
  <1>. QED  BY <1>4, <1>5

LEMMA PumpWorked ==
    ASSUME LogisticsAssumption, FieldInv, NEW u \in Units, Pump(u)
    PROVE  used' \in SlotCounts
  <1>0. unit[u] \in Runtime /\ Sane(u, unit[u])
    BY RuntimeOf
  <1>1. PICK d : d = Donor(u)
    OBVIOUS
  <1>2. d \in Units
    BY <1>0, <1>1 DEF Pump, Donor, Phase, Sane, Receiving
  <1>3. PICK share : share = Least(Rate, Positive(SharedRate - used[d].pump))
    OBVIOUS
  <1>4. share \in Nat
    BY <1>2, <1>3, PumpFacts
  <1>5. used \in SlotCounts /\ d \in Facility \cup AnyUnit
    BY <1>2, FieldFacts DEF FieldInv, FrameOK, SlotCounts
  <1>6. used[d] \in [move : Nat, service : Nat, pump : Nat]
    BY <1>5 DEF SlotCounts
  <1>7. used[d].pump \in Nat
    BY <1>6
  <1>8. PICK n \in Nat : n = used[d].pump + share
    BY <1>4, <1>7
  <1>9. PICK s : s = [used[d] EXCEPT !.pump = n]
    OBVIOUS
  <1>10. s \in [move : Nat, service : Nat, pump : Nat]
    BY <1>6, <1>9
  <1>11. used' = [used EXCEPT ![d].pump = @ + share]
    BY <1>1, <1>3 DEF Pump
  <1>12. used' = [used EXCEPT ![d] = s]
    BY <1>8, <1>9, <1>11
  <1>. QED  BY <1>5, <1>10, <1>12 DEF SlotCounts

LEMMA GuideFrame ==
    ASSUME FieldInv, Guide
    PROVE  FrameOK'
  <1>1. Units' = Units
    BY GuideUnits
  <1>2. \E u \in todo : Visit("guide", u) /\ used' = used
    BY DEF Guide, LoseUnit, Immobilize, FlyOn, ReturnOnReserve
  <1>3. used' \in SlotCounts
    BY <1>2 DEF FieldInv, FrameOK, SlotCounts
  <1>. QED  BY <1>1, <1>2, <1>3, VisitFrame

LEMMA ServeFrame ==
    ASSUME LogisticsAssumption, FieldInv, Serve
    PROVE  FrameOK'
  <1>. PICK u \in todo :
        \/ Wait(u) \/ Recover(u) \/ ComeAlongside(u) \/ Leave(u)
        \/ Load(u) \/ Unload(u) \/ Turnaround(u)
        \/ \E meets \in BOOLEAN : Replenish(u, meets)
        \/ BreakOff(u)
        \/ Separate(u) \/ KeepRendezvous(u) \/ Connect(u) \/ Pump(u) \/ Disconnect(u)
    BY DEF Serve
  <1>0. Units' = Units /\ u \in Units /\ used \in SlotCounts
    BY ServeUnits DEF FieldInv, FrameOK, SlotCounts
  <1>1. CASE Wait(u) \/ ComeAlongside(u) \/ BreakOff(u) \/ Separate(u) \/ KeepRendezvous(u)
             \/ Connect(u) \/ Disconnect(u)
    <2>1. Visit("serve", u) /\ used' = used
      BY <1>1 DEF Wait, ComeAlongside, BreakOff, Separate, KeepRendezvous, Connect, Disconnect
    <2>. QED  BY <1>0, <2>1, VisitFrame
  <1>2. CASE Recover(u) \/ Leave(u)
    <2>1. /\ Visit("serve", u) /\ TakeMoveSlot(unit[u].at)
          /\ unit[u].phase \in {"Returning", "Approach", "Departing"}
      BY <1>2 DEF Recover, Leave, Phase
    <2>2. unit[u].at \in Facility
      BY <1>0, <2>1, AtFacility DEF Berthed
    <2>3. used' \in SlotCounts
      BY <2>1, <2>2, SlotTaken
    <2>. QED  BY <1>0, <2>1, <2>3, VisitFrame
  <1>3. CASE Load(u) \/ Unload(u) \/ Turnaround(u)
    <2>1. /\ Visit("serve", u) /\ TakeServiceSlot(unit[u].at)
          /\ unit[u].phase \in {"Loading", "Unloading", "Queued", "Servicing"}
      BY <1>3 DEF Load, Unload, Turnaround, Phase
    <2>2. unit[u].at \in Facility
      BY <1>0, <2>1, AtFacility DEF Berthed
    <2>3. used' \in SlotCounts
      BY <2>1, <2>2, SlotTaken
    <2>. QED  BY <1>0, <2>1, <2>3, VisitFrame
  <1>4. ASSUME NEW meets \in BOOLEAN, Replenish(u, meets) PROVE FrameOK'
    <2>1. /\ Visit("serve", u) /\ TakeCargoSlot(unit[u].at)
          /\ unit[u].phase = "Replenishing"
      BY <1>4 DEF Replenish, Phase
    <2>2. unit[u].at \in Facility
      BY <1>0, <2>1, AtFacility
    <2>3. used' \in SlotCounts
      BY <2>1, <2>2, SlotTaken
    <2>. QED  BY <1>0, <2>1, <2>3, VisitFrame
  <1>5. CASE Pump(u)
    <2>1. used' \in SlotCounts
      BY <1>0, <1>5, PumpWorked
    <2>2. Visit("serve", u)
      BY <1>5 DEF Pump
    <2>. QED  BY <1>0, <2>1, <2>2, VisitFrame
  <1>. QED  BY <1>1, <1>2, <1>3, <1>4, <1>5

LEMMA FrameTypes ==
    ASSUME LogisticsAssumption, FieldInv, LogisticsNext
    PROVE  FrameOK'
  <1>1. Units' = Units
    BY SameUnits
  <1>2. NoneUsed \in SlotCounts
    BY DEF NoneUsed, SlotCounts
  <1>3. CASE BeginFrame
    BY <1>1, <1>3 DEF BeginFrame, FieldInv, FrameOK
  <1>4. CASE BurnFuel
    <2>1. todo' \subseteq Units
      BY <1>4 DEF BurnFuel
    <2>. QED  BY <1>1, <1>4, <2>1 DEF BurnFuel, FieldInv, FrameOK
  <1>5. CASE Settling
    <2>1. used' \in SlotCounts
      BY <1>2, <1>5 DEF Settling
    <2>. QED  BY <1>1, <1>5, <2>1 DEF Settling, FieldInv, FrameOK, SlotCounts
  <1>6. ASSUME NEW u \in todo, SettleLost(u) PROVE FrameOK'
    <2>1. used' \in SlotCounts /\ Visit("settle", u)
      BY <1>6 DEF SettleLost, FieldInv, FrameOK, SlotCounts
    <2>. QED  BY <1>1, <2>1, VisitFrame
  <1>7. CASE EndFrame
    <2>1. Units \subseteq AnyUnit
      BY FieldFacts
    <2>. QED  BY <1>1, <1>7, <2>1 DEF EndFrame, FieldInv, FrameOK
  <1>. QED  BY <1>3, <1>4, <1>5, <1>6, <1>7, TaskingFrame, CombatFrame, GuideFrame, ServeFrame
       DEF LogisticsNext, Frame

LEMMA ManifestTypes ==
    ASSUME LogisticsAssumption
    PROVE  Manifests \subseteq Goods
  <1>1. SUFFICES ASSUME NEW m \in Manifests PROVE m \in Goods
    OBVIOUS
  <1>2. PICK g \in Good, n \in 1..Rate + 1 : m = [Nothing EXCEPT ![g] = n]
    BY DEF Manifests
  <1>3. Nothing \in Goods /\ n \in Nat
    BY DEF Nothing, Goods, LogisticsAssumption
  <1>. QED  BY <1>2, <1>3 DEF Goods

LEMMA TaskingStep ==
    ASSUME LogisticsAssumption, FieldInv, Tasking
    PROVE  FieldInv' /\ NoGain
  <1>0. FrameOK'
    BY TaskingFrame
  <1>. PICK u \in Units :
        \/ Depart(u) \/ Cancel(u)
        \/ \E f \in Facility : Return(u, f)
        \/ \E i \in Interface : Support(u, i)
        \/ \E d \in Units, i \in Interface, n \in 1..Rate + 1 : Refuel(u, d, i, n)
        \/ \E from, to \in Facility, m \in Manifests : Cargo(u, from, to, m)
    BY DEF Tasking
  <1>1. CASE Depart(u)
    BY <1>0, <1>1, DepartStep
  <1>2. CASE Cancel(u)
    BY <1>0, <1>2, CancelStep
  <1>3. ASSUME NEW f \in Facility, Return(u, f) PROVE FieldInv' /\ NoGain
    BY <1>0, <1>3, ReturnStep
  <1>4. ASSUME NEW i \in Interface, Support(u, i) PROVE FieldInv' /\ NoGain
    BY <1>0, <1>4, SupportStep
  <1>5. ASSUME NEW d \in Units, NEW i \in Interface, NEW n \in 1..Rate + 1, Refuel(u, d, i, n)
        PROVE  FieldInv' /\ NoGain
    <2>1. n \in Nat
      BY DEF LogisticsAssumption
    <2>. QED  BY <1>0, <1>5, <2>1, RefuelStep
  <1>6. ASSUME NEW from \in Facility, NEW to \in Facility, NEW m \in Manifests,
               Cargo(u, from, to, m)
        PROVE  FieldInv' /\ NoGain
    <2>1. m \in Goods
      BY ManifestTypes
    <2>. QED  BY <1>0, <1>6, <2>1, CargoStep
  <1>. QED  BY <1>1, <1>2, <1>3, <1>4, <1>5, <1>6

LEMMA CombatStep ==
    ASSUME LogisticsAssumption, FieldInv, Combat
    PROVE  FieldInv' /\ NoGain
  <1>0. FrameOK'
    BY CombatFrame
  <1>1. ASSUME NEW u \in Units, NEW g \in Good, Wear(u, g) PROVE FieldInv' /\ NoGain
    BY <1>0, <1>1, WearStep
  <1>2. ASSUME NEW x, DestroyTarget(x) PROVE FieldInv' /\ NoGain
    <2>1. unit' = unit /\ stock' = stock
      BY <1>2 DEF DestroyTarget, Hit
    <2>. QED  BY <1>0, <2>1, NothingMoves
  <1>. QED  BY <1>1, <1>2 DEF Combat

LEMMA GuideStep ==
    ASSUME LogisticsAssumption, FieldInv, Guide
    PROVE  FieldInv' /\ NoGain
  <1>0. FrameOK' /\ todo \subseteq Units
    BY GuideFrame DEF FieldInv, FrameOK
  <1>. PICK u \in todo :
        LoseUnit(u) \/ Immobilize(u) \/ FlyOn(u) \/ \E f \in Facility : ReturnOnReserve(u, f)
    BY DEF Guide
  <1>1. CASE LoseUnit(u)
    BY <1>0, <1>1, LoseUnitStep
  <1>2. CASE Immobilize(u)
    BY <1>0, <1>2, ImmobilizeStep
  <1>3. CASE FlyOn(u)
    <2>1. unit' = unit /\ stock' = stock
      BY <1>3 DEF FlyOn
    <2>. QED  BY <1>0, <2>1, NothingMoves
  <1>4. ASSUME NEW f \in Facility, ReturnOnReserve(u, f) PROVE FieldInv' /\ NoGain
    BY <1>0, <1>4, ReturnOnReserveStep
  <1>. QED  BY <1>1, <1>2, <1>3, <1>4

LEMMA ServeStep ==
    ASSUME LogisticsAssumption, FieldInv, Serve
    PROVE  FieldInv' /\ NoGain
  <1>0. FrameOK' /\ todo \subseteq Units
    BY ServeFrame DEF FieldInv, FrameOK
  <1>. PICK u \in todo :
        \/ Wait(u) \/ Recover(u) \/ ComeAlongside(u) \/ Leave(u)
        \/ Load(u) \/ Unload(u) \/ Turnaround(u)
        \/ \E meets \in BOOLEAN : Replenish(u, meets)
        \/ BreakOff(u)
        \/ Separate(u) \/ KeepRendezvous(u) \/ Connect(u) \/ Pump(u) \/ Disconnect(u)
    BY DEF Serve
  <1>u. u \in Units
    BY <1>0
  <1>1. CASE Wait(u) \/ KeepRendezvous(u)
    <2>1. unit' = unit /\ stock' = stock
      BY <1>1 DEF Wait, KeepRendezvous
    <2>. QED  BY <1>0, <2>1, NothingMoves
  <1>2. CASE Recover(u)
    BY <1>0, <1>u, <1>2, RecoverStep
  <1>3. CASE ComeAlongside(u)
    BY <1>0, <1>u, <1>3, ComeAlongsideStep
  <1>4. CASE Leave(u)
    BY <1>0, <1>u, <1>4, LeaveStep
  <1>5. CASE Load(u)
    BY <1>0, <1>u, <1>5, LoadStep
  <1>6. CASE Unload(u)
    BY <1>0, <1>u, <1>6, UnloadStep
  <1>7. CASE Turnaround(u)
    BY <1>0, <1>u, <1>7, TurnaroundStep
  <1>8. ASSUME NEW meets \in BOOLEAN, Replenish(u, meets) PROVE FieldInv' /\ NoGain
    BY <1>0, <1>u, <1>8, ReplenishStep
  <1>9. CASE BreakOff(u)
    BY <1>0, <1>u, <1>9, BreakOffStep
  <1>10. CASE Separate(u)
    BY <1>0, <1>u, <1>10, SeparateStep
  <1>11. CASE Connect(u)
    BY <1>0, <1>u, <1>11, ConnectStep
  <1>12. CASE Pump(u)
    BY <1>0, <1>u, <1>12, PumpStep
  <1>13. CASE Disconnect(u)
    BY <1>0, <1>u, <1>13, DisconnectStep
  <1>. QED  BY <1>1, <1>2, <1>3, <1>4, <1>5, <1>6, <1>7, <1>8, <1>9, <1>10, <1>11, <1>12, <1>13

LEMMA FieldStep ==
    ASSUME LogisticsAssumption, FieldInv, LogisticsNext
    PROVE  FieldInv' /\ NoGain
  <1>0. FrameOK' /\ todo \subseteq Units
    BY FrameTypes DEF FieldInv, FrameOK
  <1>1. CASE BeginFrame \/ Settling \/ EndFrame
    <2>1. unit' = unit /\ stock' = stock
      BY <1>1 DEF BeginFrame, Settling, EndFrame
    <2>. QED  BY <1>0, <2>1, NothingMoves
  <1>2. CASE BurnFuel
    BY <1>0, <1>2, BurnFuelStep
  <1>3. ASSUME NEW u \in todo, SettleLost(u) PROVE FieldInv' /\ NoGain
    BY <1>0, <1>3, SettleLostStep
  <1>. QED  BY <1>1, <1>2, <1>3, TaskingStep, CombatStep, GuideStep, ServeStep
       DEF LogisticsNext, Frame

LEMMA FieldStutters ==
    ASSUME LogisticsAssumption, FieldInv, UNCHANGED logisticsVars
    PROVE  FieldInv' /\ NoGain
  <1>1. FrameOK' /\ unit' = unit /\ stock' = stock
    BY DEF FieldInv, FrameOK, Units, logisticsVars
  <1>. QED  BY <1>1, NothingMoves

\* A unit as it is configured.
LEMMA ConfiguredFacts ==
    ASSUME LogisticsAssumption, NEW v \in AnyUnit
    PROVE  /\ Sane(v, Configured(v)) /\ Configured(v).task = Nil
           /\ Configured(v).at = Aboard[v] /\ Configured(v).partner = Nil
           /\ Configured(v).phase \in Berthed => Aboard[v] # Nil
  <1>1. PICK t : t = [Full[v] EXCEPT !["fuel"] = Fuel[v]]
    OBVIOUS
  <1>2. /\ "fuel" \in Good /\ Full[v] \in Goods /\ Fuel[v] \in Nat
        /\ Fuel[v] <= Full[v]["fuel"] /\ Aboard[v] \in Facility \cup {Nil}
    BY DEF LogisticsAssumption, ValidLogistics
  <1>3. /\ t \in Goods /\ \A g \in Good : t[g] <= Full[v][g]
    <2>1. t \in Goods /\ t["fuel"] = Fuel[v] /\ \A g \in Good \ {"fuel"} : t[g] = Full[v][g]
      BY <1>1, <1>2 DEF Goods
    <2>2. ASSUME NEW g \in Good PROVE t[g] <= Full[v][g]
      <3>1. Full[v][g] \in Nat
        BY <1>2 DEF Goods
      <3>2. CASE g = "fuel"
        BY <1>2, <2>1, <3>2
      <3>3. CASE g # "fuel"
        BY <2>1, <3>1, <3>3
      <3>. QED  BY <3>2, <3>3
    <2>. QED  BY <2>1, <2>2
  <1>4. PICK p : p = IF Aboard[v] = Nil THEN "Deployed" ELSE "Queued"
    OBVIOUS
  <1>5. p \in Phases /\ p \in {"Deployed", "Queued"} /\ (p = "Queued" => Aboard[v] # Nil)
    BY <1>4 DEF Phases
  <1>6. Nothing \in Goods /\ 0 \in 0..2
    BY DEF Nothing, Goods
  <1>7. PICK s : s = [phase |-> p, at |-> Aboard[v], partner |-> Nil, station |-> Nil,
                      asked |-> Nil, support |-> Nil, due |-> 0, timer |-> 0, leg |-> 0,
                      task |-> Nil, cargo |-> Nothing, store |-> t]
    OBVIOUS
  <1>8. s = Configured(v)
    BY <1>1, <1>4, <1>7 DEF Configured
  <1>9. s \in Runtime
    BY <1>2, <1>3, <1>5, <1>6, <1>7 DEF Runtime
  <1>10. /\ s.phase = p /\ s.at = Aboard[v] /\ s.partner = Nil /\ s.task = Nil /\ s.store = t
    BY <1>7
  <1>11. Sane(v, s)
    BY <1>3, <1>5, <1>9, <1>10 DEF Sane, Berthed, Receiving
  <1>. QED  BY <1>5, <1>8, <1>10, <1>11 DEF Berthed

\* Nothing everywhere is nothing.
LEMMA TotalZero ==
    ASSUME NEW f, NEW S, IsFiniteSet(S), \A x \in S : f[x] = 0
    PROVE  Total(f, S) = 0
  <1>1. PICK h : Totals(h, f, S)
    BY TotalsExist
  <1>. DEFINE A == {d \in SUBSET S : h[d] = 0}
  <1>2. ASSUME NEW d \in SUBSET S, \A x \in d : d \ {x} \in A PROVE d \in A
    <2>1. CASE d = {}
      BY <1>1, <2>1 DEF Totals
    <2>2. CASE d # {}
      <3>1. PICK x \in d : h[d] = f[x] + h[d \ {x}]
        <4>1. (CHOOSE x \in d : TRUE) \in d
          BY <2>2
        <4>. QED  BY <1>1, <2>2, <4>1 DEF Totals
      <3>2. h[d \ {x}] = 0 /\ f[x] = 0
        BY <1>2
      <3>. QED  BY <3>1, <3>2
    <2>. QED  BY <2>1, <2>2
  <1>3. \A d \in SUBSET S : (\A x \in d : d \ {x} \in A) => d \in A
    BY <1>2
  <1>. HIDE DEF A
  <1>4. \A d \in SUBSET S : d \in A
    BY <1>3, EverySubset
  <1>5. S \in A
    BY <1>4
  <1>. QED  BY <1>1, <1>5, TotalOf DEF A

LEMMA FieldInit ==
    ASSUME LogisticsAssumption, LogisticsInit
    PROVE  FieldInv
  <1>1. PICK fleet \in Fleet : unit = [v \in fleet |-> Configured(v)]
    BY DEF LogisticsInit
  <1>2. Units = fleet /\ fleet \subseteq AnyUnit /\ IsFiniteSet(Units) /\ IsFiniteSet(Facility)
    BY <1>1 DEF Units, AnyUnit, LogisticsAssumption
  <1>3. /\ unit = [v \in Units |-> unit[v]]
        /\ \A v \in Units : unit[v] = Configured(v) /\ v \in AnyUnit
    BY <1>1, <1>2
  <1>4. \A v \in Units : /\ Sane(v, unit[v]) /\ unit[v].task = Nil
                         /\ unit[v].at = Aboard[v] /\ unit[v].partner = Nil
    BY <1>3, ConfiguredFacts
  <1>5. stock = Opening /\ stock \in [Facility -> Goods]
    BY DEF LogisticsInit, LogisticsAssumption
  <1>6. FrameOK
    BY DEF LogisticsInit, FrameOK, NoneUsed, LogisticsAssumption
  <1>7. ASSUME NEW f \in Facility, NEW g \in Good PROVE Held(f, g) <= Capacity[f][g]
    <2>. DEFINE p == [v \in Units |-> PartOf(unit[v], f, g)]
    <2>1. \A v \in Units : p[v] = 0
      BY <1>4 DEF PartOf
    <2>2. Reserved(f)[g] = Total(p, Units)
      BY DEF Reserved, PartOf
    <2>. HIDE DEF p
    <2>3. Total(p, Units) \in Nat /\ Total(p, Units) <= 0
      <3>0. \A v \in Units : p[v] \in Nat
        BY <2>1
      <3>1. Total(p, Units) \in Nat
        BY <1>2, <3>0, TotalType
      <3>2. Total(p, Units) = 0
        BY <1>2, <2>1, TotalZero
      <3>. QED  BY <3>1, <3>2
    <2>4. stock[f][g] <= Capacity[f][g] /\ stock[f][g] \in Nat /\ Capacity[f][g] \in Nat
      BY <1>5 DEF LogisticsAssumption, ValidLogistics, Goods
    <2>5. Held(f, g) = stock[f][g] + Total(p, Units)
      BY <2>2 DEF Held
    <2>. QED  BY <2>3, <2>4, <2>5
  <1>8. ASSUME Provisioned, NEW f \in Facility PROVE Occupied(f) <= Parking[f]
    <2>. DEFINE B == {v \in Units : unit[v].at = f /\ Phase(v) \in Berthed}
                A == {v \in fleet : Aboard[v] = f}
    <2>1. B \subseteq A
      BY <1>2, <1>4
    <2>2. IsFiniteSet(A)
      BY <1>2, FS_Subset
    <2>3. Cardinality(A) <= Parking[f] /\ Parking[f] \in Nat
      BY <1>8 DEF Provisioned, BerthsSuffice, LogisticsAssumption
    <2>4. Occupied(f) = Cardinality(B)
      BY DEF Occupied
    <2>. HIDE DEF A, B
    <2>5. Cardinality(B) <= Cardinality(A) /\ Cardinality(A) \in Nat /\ Cardinality(B) \in Nat
      BY <2>1, <2>2, FS_Subset, FS_CardinalityType
    <2>. QED  BY <2>3, <2>4, <2>5
  <1>9. StationsApart
    BY <1>4 DEF StationsApart
  <1>. QED  BY <1>2, <1>3, <1>4, <1>5, <1>6, <1>7, <1>8, <1>9 DEF FieldInv, WithinBerths

LEMMA FieldImplies ==
    ASSUME LogisticsAssumption, FieldInv
    PROVE  LogisticsTypeOK /\ (Provisioned => WithinLimits)
  <1>1. Units \subseteq AnyUnit /\ \A v \in Units : unit[v] \in Runtime /\ Sane(v, unit[v])
    BY FieldFacts, RuntimeOf
  <1>2. unit \in [Units -> Runtime]
    BY <1>1 DEF FieldInv
  <1>3. LogisticsTypeOK
    BY <1>1, <1>2 DEF LogisticsTypeOK, FieldInv, FrameOK, Sane, Phase
  <1>4. Provisioned =>
            \A f \in Facility : /\ \A g \in Good : stock[f][g] + Reserved(f)[g] <= Capacity[f][g]
                                /\ Occupied(f) <= Parking[f]
    BY DEF FieldInv, WithinBerths, Held
  <1>5. \A u \in Units, g \in Good : unit[u].store[g] <= Full[u][g]
    BY <1>1 DEF Sane
  <1>6. Provisioned => WithinLimits
    BY <1>4, <1>5 DEF WithinLimits, FieldInv, StationsApart
  <1>. QED  BY <1>3, <1>6

\* The inductive invariant of logistics.rs: every unit is in a state its phase allows,
\* and no facility, berth or station is given out twice.
THEOREM FieldInvHolds == LogisticsSpec => []FieldInv
  <1>1. LogisticsInit => FieldInv
    BY LogisticsAssumption, FieldInit
  <1>2. FieldInv /\ [LogisticsNext]_logisticsVars => FieldInv'
    BY LogisticsAssumption, FieldStep, FieldStutters
  <1>. QED  BY <1>1, <1>2, PTL DEF LogisticsSpec

\* The state of units and facilities stays what it is declared to be; whoever is
\* berthed or on its way to a berth has a facility, whoever takes fuel a donor.
THEOREM LogisticsTypesHold == LogisticsSpec => []LogisticsTypeOK
  <1>1. FieldInv => LogisticsTypeOK
    BY LogisticsAssumption, FieldImplies
  <1>. QED  BY <1>1, FieldInvHolds, PTL

\* WithinLimits, for any number of units, facilities and goods: however visits, orders
\* and losses follow each other, stock and reservations fit the facility, stores fit
\* the unit, berthed units the parking places, and no station is taken twice.
\* Provisioned says of the configuration what Configuration::validate does not.
THEOREM WithinLimitsHolds == ASSUME Provisioned PROVE LogisticsSpec => []WithinLimits
  <1>1. FieldInv => WithinLimits
    BY LogisticsAssumption, FieldImplies
  <1>. QED  BY <1>1, FieldInvHolds, PTL

\* NothingFromNothing: no step of an order, a frame or combat makes more of a good than
\* there was, in stock, reserved, in a hold or in a tank.
THEOREM NothingFromNothingHolds == LogisticsSpec => NothingFromNothing
  <1>1. FieldInv /\ [LogisticsNext]_logisticsVars
            => [\A g \in Good : Existing(g)' <= Existing(g)]_logisticsVars
    BY LogisticsAssumption, FieldStep DEF NoGain
  <1>. QED  BY <1>1, FieldInvHolds, PTL DEF LogisticsSpec, NothingFromNothing

================================================================================
