----------------------------- MODULE TargetUpdates -----------------------------
(***************************************************************************)
(* In-flight target updates (sim-core/src/iftu/mod.rs): one weapon in      *)
(* flight, the units that may provide it with updates, and the datagrams   *)
(* between them.  What the weapon holds (provider, assignment revision,    *)
(* estimate) and what the sending side believes of it are apart, and only  *)
(* datagrams connect them: they may be lost and may overtake each other.   *)
(*                                                                         *)
(* Routes, links and identification are data: a datagram that has no       *)
(* route, or a destroyed endpoint, is one that is lost.  A track of a      *)
(* holder is named by where it came from (provenance), a pair of a unit    *)
(* and a contact.                                                          *)
(***************************************************************************)
EXTENDS Integers, FiniteSets

CONSTANTS
    None,
    Unit,           \* units of the weapon's side
    Launcher,
    Provider,       \* units with a link the weapon can receive
    Initial,        \* provider of the loadout
    Contact,        \* what can be observed
    Sees,           \* pairs of a unit and a contact its sensors can observe
    Weapon,         \* the id of the weapon
    Handoff, Retargets, Telemetry,      \* what the profile supports
    Subscriptions,  \* report subscriptions of the configuration
    Lifetime,       \* ticks a datagram lives
    MaxAge,         \* max_observation_age_ticks
    Mortal,         \* bound: units that may be destroyed
    Orders,         \* bound: commands that may be given
    Horizon,        \* bound: ticks
    MaxSent         \* bound: datagrams sent in a behaviour

\* What configure_iftu demands of loadouts, links and subscriptions.
ValidConfiguration ==
    /\ Provider \subseteq Unit /\ Launcher \in Unit /\ Initial \in Provider
    /\ {Handoff, Retargets, Telemetry} \subseteq BOOLEAN
    /\ Subscriptions \subseteq Unit \X Unit

ASSUME TargetUpdatesAssumption ==
    /\ ValidConfiguration
    /\ Weapon \notin Unit /\ None \notin Unit /\ IsFiniteSet(Contact)
    /\ Mortal \subseteq Unit /\ Sees \subseteq Unit \X Contact
    /\ {Lifetime, MaxAge, MaxSent} \subseteq Nat /\ Horizon \in Nat \ {0}

VARIABLES
    clock,
    designated, \* the track frozen for the order to fire, or None
    weapon,     \* the receiver's part of Flight, and its phase
    sender,     \* the sender's part of Flight
    tracks,     \* tracks[u][origin]: when u's newest report of it was observed, or 0
    subscribed,
    air,        \* datagrams under way
    view,       \* view[u]: the newest weapon status u has received, or None
    dead,
    sent

vars == <<clock, designated, weapon, sender, tracks, subscribed, air, view, dead, sent>>

Origin == Unit \X Contact

\* Midcourse and terminal guidance receive alike.
Active == weapon.phase = "flying"

--------------------------------------------------------------------------------
(* What is sent.                                                            *)

Report(u, p, origin) ==
    [kind |-> "report", from |-> u, to |-> p, expires |-> clock + Lifetime,
     origin |-> origin, observed |-> tracks[u][origin]]

Update(origin, observed, retarget) ==
    [kind |-> "update", from |-> sender.provider, to |-> Weapon,
     expires |-> clock + Lifetime, revision |-> sender.revision,
     sequence |-> sender.sequence + 1, origin |-> origin, observed |-> observed,
     until |-> clock + MaxAge, retarget |-> retarget]

Assignment(p, revision) ==
    [kind |-> "assignment", from |-> Launcher, to |-> Weapon,
     expires |-> clock + Lifetime, provider |-> p, revision |-> revision]

Control(u, command) ==
    [kind |-> "control", from |-> Launcher, to |-> u, expires |-> clock + Lifetime,
     command |-> command, n |-> sent]

Status(p) ==
    [kind |-> "status", from |-> Weapon, to |-> p, expires |-> clock + Lifetime,
     provider |-> p, accepted |-> weapon.accepted,
     at |-> clock]

Fits(n) == sent + n <= MaxSent

Sends(others, datagrams) ==
    /\ Fits(Cardinality(datagrams))
    /\ air' = others \cup datagrams
    /\ sent' = sent + Cardinality(datagrams)

--------------------------------------------------------------------------------
(* Launch, observation, movement.                                           *)

\* What is fired at: the designated track, or the launcher's own.
Targeted ==
    IF designated # None THEN {designated}
    ELSE {[origin |-> o, observed |-> tracks[Launcher][o]] :
             o \in {p \in Origin : tracks[Launcher][p] > 0}}

\* designate_engagement: freezes what the terminal u that gives the order knows.
Designate(u, origin) ==
    /\ weapon.phase = "none" /\ designated = None
    /\ tracks[u][origin] > 0 /\ clock - tracks[u][origin] <= 15
    /\ designated' = [origin |-> origin, observed |-> tracks[u][origin]]
    /\ UNCHANGED <<clock, weapon, sender, tracks, subscribed, air, view, dead, sent>>

\* The order to fire, and spawn_iftu_weapon: the engagement is bound to where the
\* track came from.
Launch ==
    /\ weapon.phase = "none"
    /\ Launcher \notin dead
    /\ \E t \in Targeted :
          /\ weapon' = [phase |-> "flying", provider |-> Initial, revision |-> 1,
                        accepted |-> 0, origin |-> t.origin, observed |-> t.observed]
          /\ sender' = [provider |-> Initial, revision |-> 1, sequence |-> 0,
                        observed |-> t.observed]
    /\ designated' = None
    /\ UNCHANGED <<clock, tracks, subscribed, air, view, dead, sent>>

\* u's own sensors, external to this module.
Observe(u, c) ==
    /\ u \notin dead /\ <<u, c>> \in Sees
    /\ tracks' = [tracks EXCEPT ![u][<<u, c>>] = clock]
    /\ UNCHANGED <<designated, clock, weapon, sender, subscribed, air, view, dead, sent>>

\* Impact or expiry.  What arrives in the same moment is still delivered.
Finish ==
    /\ Active
    /\ weapon' = [weapon EXCEPT !.phase = "over"]
    /\ UNCHANGED <<designated, clock, sender, tracks, subscribed, air, view, dead, sent>>

\* Once a second the weapon reports to the provider it listens to.
Telemeter ==
    /\ Active /\ Telemetry
    /\ Sends(air, {Status(weapon.provider)})
    /\ UNCHANGED <<designated, clock, weapon, sender, tracks, subscribed, view, dead>>

Destroy(u) ==
    /\ u \in Mortal \ dead
    /\ dead' = dead \cup {u}
    /\ UNCHANGED <<designated, clock, weapon, sender, tracks, subscribed, air, view, sent>>

Tick ==
    /\ clock < Horizon
    /\ clock' = clock + 1
    /\ air' = {d \in air : d.expires > clock'}
    /\ UNCHANGED <<designated, weapon, sender, tracks, subscribed, view, dead, sent>>

Lose(d) ==
    /\ d \in air
    /\ air' = air \ {d}
    /\ UNCHANGED <<designated, clock, weapon, sender, tracks, subscribed, view, dead, sent>>

--------------------------------------------------------------------------------
(* prepare_iftu: commands, subscribed reports and routine updates.          *)

Recent(observed) == observed <= clock /\ clock - observed <= MaxAge

\* A recent track; the one the engagement is bound to, or another to retarget to.
Guides(origin, retarget) ==
    /\ tracks[sender.provider][origin] > 0
    /\ Recent(tracks[sender.provider][origin])
    /\ IF retarget THEN Retargets ELSE origin = weapon.origin

\* Mutant: the update names the track the weapon is bound to.
MakeBound(others, origin, retarget) ==
    /\ sender' = [sender EXCEPT !.sequence = @ + 1,
                                !.observed = tracks[sender.provider][origin]]
    /\ Sends(others, {Update(weapon.origin, tracks[sender.provider][origin], retarget)})

\* make_iftu
Make(others, origin, retarget) ==
    /\ sender' = [sender EXCEPT !.sequence = @ + 1,
                                !.observed = tracks[sender.provider][origin]]
    /\ Sends(others, {Update(origin, tracks[sender.provider][origin], retarget)})

RoutineUpdate ==
    /\ Active
    /\ sender.provider \notin dead
    /\ tracks[sender.provider][weapon.origin] > sender.observed
    /\ Guides(weapon.origin, FALSE)
    /\ Make(air, weapon.origin, FALSE)
    /\ UNCHANGED <<designated, clock, weapon, tracks, subscribed, view, dead>>

\* current_sensor_tracks: what u's own sensors see in this tick.
Current(u) == {origin \in Origin : origin[1] = u /\ tracks[u][origin] = clock}

SendReports(u, p) ==
    /\ <<u, p>> \in subscribed
    /\ u \notin dead /\ p \notin dead /\ u # p
    /\ Current(u) # {}
    /\ Sends(air, {Report(u, p, origin) : origin \in Current(u)})
    /\ UNCHANGED <<designated, clock, weapon, sender, tracks, subscribed, view, dead>>

Command ==
    [do : {"assign"}, provider : Provider]
        \cup [do : {"subscribe"}, source : Unit, provider : Provider]
        \cup [do : {"update", "retarget"}, origin : Origin]

Valid(command) ==
    /\ Active
    /\ command.do = "assign" => Handoff
    /\ command.do = "retarget" => Retargets

Recipient(command) ==
    CASE command.do = "assign"    -> command.provider
      [] command.do = "subscribe" -> command.source
      [] OTHER                    -> sender.provider

\* Mutant: the new provider starts its own numbers.
ReassignRestarts(others, p) ==
    /\ sender' = [sender EXCEPT !.provider = p, !.revision = @ + 1, !.sequence = 0]
    /\ Sends(others, {Assignment(p, sender.revision + 1)})

\* Mutant: the revision the weapon is known to have, plus one.
ReassignFromWeapon(others, p) ==
    /\ sender' = [sender EXCEPT !.provider = p, !.revision = weapon.revision + 1]
    /\ Sends(others, {Assignment(p, weapon.revision + 1)})

Reassign(others, p) ==
    /\ sender' = [sender EXCEPT !.provider = p, !.revision = @ + 1]
    /\ Sends(others, {Assignment(p, sender.revision + 1)})

\* The conditions of execute_iftu_command at u.
Executable(u, command) ==
    /\ Valid(command)
    /\ u = Recipient(command)
    /\ command.do \in {"update", "retarget"} =>
          Guides(command.origin, command.do = "retarget")

\* execute_iftu_command; others is what else is in the air.
Execute(others, command) ==
    \/ /\ command.do = "assign"
       /\ Reassign(others, command.provider)
       /\ UNCHANGED subscribed
    \/ /\ command.do \in {"update", "retarget"}
       /\ Make(others, command.origin, command.do = "retarget")
       /\ UNCHANGED subscribed
    \/ /\ command.do = "subscribe"
       /\ subscribed' = subscribed \cup {<<command.source, command.provider>>}
       /\ air' = others
       /\ UNCHANGED <<sender, sent>>

\* A command to the launcher itself needs no datagram.
Order(command) ==
    /\ Valid(command)
    /\ Launcher \notin dead
    /\ IF Recipient(command) = Launcher
       THEN Executable(Launcher, command) /\ Execute(air, command)
       ELSE /\ Sends(air, {Control(Recipient(command), command)})
            /\ UNCHANGED <<sender, subscribed>>
    /\ UNCHANGED <<designated, clock, weapon, tracks, view, dead>>

--------------------------------------------------------------------------------
(* deliver_iftu: what each recipient makes of a datagram.                   *)

Arrives(d, kind) ==
    /\ d \in air /\ d.kind = kind
    /\ clock < d.expires
    /\ d.to \notin dead

\* receive_track_report: older reports never overwrite newer ones.
ReceiveReport(d) ==
    /\ Arrives(d, "report")
    /\ air' = air \ {d}
    /\ tracks' = IF d.observed > tracks[d.to][d.origin]
                 THEN [tracks EXCEPT ![d.to][d.origin] = d.observed] ELSE tracks
    /\ UNCHANGED <<designated, clock, weapon, sender, subscribed, view, dead, sent>>

Accepts(d) ==
    /\ Active
    /\ d.from = weapon.provider /\ d.revision = weapon.revision
    /\ d.sequence > weapon.accepted /\ d.until > clock
    /\ Recent(d.observed)
    /\ ~d.retarget => d.origin = weapon.origin /\ d.observed > weapon.observed
    /\ d.retarget => Retargets

ReceiveUpdate(d) ==
    /\ Arrives(d, "update")
    /\ air' = air \ {d}
    /\ weapon' = IF Accepts(d)
                 THEN [weapon EXCEPT !.origin = d.origin, !.observed = d.observed,
                                     !.accepted = d.sequence]
                 ELSE weapon
    /\ UNCHANGED <<designated, clock, sender, tracks, subscribed, view, dead, sent>>

Takes(d) == Handoff /\ d.provider \in Provider /\ d.from = Launcher
              /\ d.revision > weapon.revision

ReceiveAssignment(d) ==
    /\ Arrives(d, "assignment")
    /\ air' = air \ {d}
    /\ weapon' = IF Takes(d)
                 THEN [weapon EXCEPT !.provider = d.provider, !.revision = d.revision]
                 ELSE weapon
    /\ UNCHANGED <<designated, clock, sender, tracks, subscribed, view, dead, sent>>

ReceiveControl(d) ==
    /\ Arrives(d, "control")
    /\ IF Executable(d.to, d.command)
       THEN Execute(air \ {d}, d.command)
       ELSE air' = air \ {d} /\ UNCHANGED <<sender, subscribed, sent>>
    /\ UNCHANGED <<designated, clock, weapon, tracks, view, dead>>

News(d) ==
    /\ d.from \in {Weapon, weapon.provider}
    /\ view[d.to] = None \/ view[d.to].at < d.at

\* The provider in charge passes every status on to the launcher.
ReceiveStatus(d) ==
    /\ Arrives(d, "status")
    /\ view' = IF News(d)
               THEN [view EXCEPT ![d.to] = [at |-> d.at, provider |-> d.provider,
                                            accepted |-> d.accepted]]
               ELSE view
    /\ IF d.to = weapon.provider /\ d.to # Launcher
       THEN Sends(air \ {d}, {[d EXCEPT !.from = d.to, !.to = Launcher,
                                        !.expires = clock + Lifetime]})
       ELSE air' = air \ {d} /\ UNCHANGED sent
    /\ UNCHANGED <<designated, clock, weapon, sender, tracks, subscribed, dead>>

--------------------------------------------------------------------------------
Init ==
    /\ clock = 1 /\ designated = None
    /\ weapon = [phase |-> "none", provider |-> Initial, revision |-> 1,
                 accepted |-> 0, origin |-> None, observed |-> 0]
    /\ sender = [provider |-> Initial, revision |-> 1, sequence |-> 0, observed |-> 0]
    /\ tracks = [u \in Unit |-> [o \in Origin |-> 0]]
    /\ subscribed = Subscriptions
    /\ air = {} /\ view = [u \in Unit |-> None] /\ dead = {} /\ sent = 0

Next ==
    \/ \E u \in Unit, o \in Origin : Designate(u, o)
    \/ Launch
    \/ \E u \in Unit, c \in Contact : Observe(u, c)
    \/ Finish \/ Telemeter \/ Tick
    \/ \E u \in Unit : Destroy(u)
    \/ RoutineUpdate
    \/ \E u, p \in Unit : SendReports(u, p)
    \/ \E command \in Orders \cap Command : Order(command)
    \/ \E d \in air : \/ Lose(d) \/ ReceiveReport(d) \/ ReceiveUpdate(d)
                      \/ ReceiveAssignment(d) \/ ReceiveControl(d) \/ ReceiveStatus(d)

Spec == Init /\ [][Next]_vars

--------------------------------------------------------------------------------
Time == 0..Horizon + Lifetime + MaxAge

Datagram ==
    [kind : {"report"}, from : Unit, to : Unit, expires : Time,
     origin : Origin, observed : Time]
    \cup [kind : {"update"}, from : Provider, to : {Weapon}, expires : Time,
         revision : Nat, sequence : Nat, origin : Origin, observed : Time,
         until : Time, retarget : BOOLEAN]
    \cup [kind : {"assignment"}, from : {Launcher}, to : {Weapon}, expires : Time,
         provider : Provider, revision : Nat]
    \cup [kind : {"control"}, from : {Launcher}, to : Unit, expires : Time,
         command : Command, n : Nat]
    \cup [kind : {"status"}, from : {Weapon} \cup Unit, to : Unit, expires : Time,
         provider : Provider, accepted : Nat, at : Time]

TypeOK ==
    /\ clock \in 1..Horizon
    /\ designated \in [origin : Origin, observed : Time] \cup {None}
    /\ weapon \in [phase : {"none", "flying", "over"},
                   provider : Provider, revision : Nat, accepted : Nat,
                   origin : Origin \cup {None}, observed : Time]
    /\ weapon.phase # "none" => weapon.origin \in Origin
    /\ sender \in [provider : Provider, revision : Nat, sequence : Nat, observed : Time]
    /\ tracks \in [Unit -> [Origin -> Time]]
    /\ subscribed \subseteq Unit \X Unit
    /\ \A d \in air : d \in Datagram
    /\ view \in [Unit -> [at : Time, provider : Provider, accepted : Nat] \cup {None}]
    /\ dead \subseteq Unit
    /\ sent \in Nat

Assignments == {d \in air : d.kind = "assignment"}
Updates == {d \in air : d.kind = "update"}

\* However handoffs, lost assignments and late ones follow each other, a revision
\* names one provider: the weapon, the sending side and every assignment and update
\* under way agree on whose it is, and the weapon is never ahead of the sending side.
OneProviderPerRevision ==
    /\ weapon.revision <= sender.revision
    /\ weapon.revision = sender.revision => weapon.provider = sender.provider
    /\ \A d \in Updates :
          /\ d.revision <= sender.revision
          /\ d.revision = sender.revision => d.from = sender.provider
          /\ d.revision = weapon.revision => d.from = weapon.provider
    /\ \A d \in Assignments :
          /\ d.revision <= sender.revision
          /\ d.revision = sender.revision => d.provider = sender.provider
          /\ d.revision = weapon.revision => d.provider = weapon.provider
          /\ \A e \in Assignments : d.revision = e.revision => d.provider = e.provider

\* Providers number their updates as one sender: a handoff never makes a number come
\* back, which the weapon would take for a duplicate of what it has accepted.
NumbersGoOn ==
    /\ weapon.accepted <= sender.sequence
    /\ \A d, e \in Updates : d.sequence = e.sequence => d = e
    /\ \A d \in Updates : d.sequence <= sender.sequence

\* What guides the weapon is something that the unit it is bound to has observed,
\* through reports, handoffs, retargeting and the providers' own tracks of others.
EstimateFromItsSource ==
    weapon.phase # "none" => weapon.observed <= tracks[weapon.origin[1]][weapon.origin]

================================================================================
