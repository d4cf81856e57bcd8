---------------------------- MODULE TeamAdmission ----------------------------
(***************************************************************************)
(* Who belongs to which team, and who may decide it:                       *)
(* crates/server/src/teams.rs.                                             *)
(*                                                                         *)
(* A player joins Blue or Red freely the first time; every other change of *)
(* team is a request that the host or another active referee decides.  A   *)
(* referee is a White Cell member in a seat of their own with an active    *)
(* lease.  Operational seats and referee seats appear as far as they bear  *)
(* on this: who owns a role, and whether a referee seat is granted, in use *)
(* or reserved; their leases are the subject of SeatLeases.                *)
(*                                                                         *)
(* A destination is open while one of its roles is played by people, which *)
(* AgentWork, an extension of this module, changes.                        *)
(***************************************************************************)
EXTENDS Naturals, FiniteSets

CONSTANTS
    None,
    Player, Host,
    RequestId,
    Role, Side        \* Side[r]: "Blue" or "Red"

ASSUME TeamAssumption ==
    /\ Host \in Player
    /\ None \notin Player \cup Role
    /\ Side \in [Role -> {"Blue", "Red"}]

VARIABLES
    members,     \* players that joined the game
    formed,      \* game.teams is Some
    team,        \* Teams::members
    former,      \* Teams::former_members
    request,     \* Teams::requests
    revision,    \* Teams::control_revision
    owner,       \* [Role -> Player \cup {None}]
    referee,     \* the player's own White Cell seat
    mode         \* [Role -> "Human" | "Deterministic" | "External"]

people == <<members, formed, team, former, request, revision, owner, referee>>

Team == {"Blue", "Red", "White"}
TeamRequest == [player : Player, team : Team,
                status : {"Pending", "Approved", "Declined", "Cancelled"},
                by : Player \cup {None}]
Seat == {"none", "granted", "reserved", "active"}

ActiveReferee(p) == team[p] = "White" /\ referee[p] = "active"
CanManage(p)     == p = Host \/ ActiveReferee(p)

Open(t)  == t = "White" \/ \E r \in Role : Side[r] = t /\ mode[r] = "Human"
Holds(p) == referee[p] \in {"reserved", "active"} \/ \E r \in Role : owner[r] = p
Barred(p, t) == (team[p] # None /\ team[p] # t) \/ (p \in former /\ team[p] = None)

Filed      == {id \in RequestId : request[id] # None}
PendingOf(p) == {id \in Filed : request[id].player = p /\ request[id].status = "Pending"}

\* leases::release_player, and no seat granted any more.
Released(p)  == [r \in Role |-> IF owner[r] = p THEN None ELSE owner[r]]

--------------------------------------------------------------------------------
Join(p) ==
    /\ p \notin members
    /\ members' = members \cup {p}
    /\ UNCHANGED <<formed, team, former, request, revision, owner, referee, mode>>

\* A first operational seat binds the player to its side.
Take(p, r) ==
    /\ p \in members
    /\ owner[r] = None /\ mode[r] = "Human"
    /\ ~Barred(p, Side[r])
    /\ team[p] = None => ~\E x \in Role : owner[x] = p /\ Side[x] # Side[r]
    /\ owner' = [owner EXCEPT ![r] = p]
    /\ formed' = TRUE
    /\ team' = [team EXCEPT ![p] = Side[r]]
    /\ UNCHANGED <<members, former, request, revision, referee, mode>>

\* The lease of a referee seat is acquired, renewed, left behind, and ends.
Sit(p) ==
    /\ p \in members
    /\ referee[p] \in {"granted", "reserved"}
    /\ referee' = [referee EXCEPT ![p] = "active"]
    /\ UNCHANGED <<members, formed, team, former, request, revision, owner, mode>>

Fade(p) ==
    /\ referee[p] = "active"
    /\ referee' = [referee EXCEPT ![p] = "reserved"]
    /\ UNCHANGED <<members, formed, team, former, request, revision, owner, mode>>

Vacate(p) ==
    /\ Holds(p)
    /\ owner' = Released(p)
    /\ referee' = [referee EXCEPT ![p] = IF @ = "none" THEN @ ELSE "granted"]
    /\ UNCHANGED <<members, formed, team, former, request, revision, mode>>

--------------------------------------------------------------------------------

\* assign: to the same team nothing changes; to another, every seat and grant of
\* the old one goes first.
Assign(p, t) ==
    /\ Open(t)
    /\ IF team[p] = t THEN UNCHANGED <<formed, team, owner, referee>>
       ELSE /\ team' = [team EXCEPT ![p] = t]
            /\ formed' = TRUE
            /\ owner' = Released(p)
            /\ referee' = [referee EXCEPT ![p] = IF t = "White" THEN "granted" ELSE "none"]

ImmediateAgain(p, t) ==   \* mutant: who left a team may enter one again
    p = Host \/ (team[p] = None /\ ~Holds(p) /\ t # "White")

Immediate(p, t) ==
    \/ p = Host
    \/ team[p] = None /\ ~Holds(p) /\ p \notin former /\ t # "White"

\* request: a known id is answered as before or refused; otherwise the player may
\* have no other request pending.
Request(p, id, t) ==
    /\ p \in members
    /\ Open(t)
    /\ request[id] = None
    /\ PendingOf(p) = {}
    /\ IF Immediate(p, t)
       THEN /\ Assign(p, t)
            /\ formed' = TRUE
       ELSE /\ formed' = TRUE
            /\ UNCHANGED <<team, owner, referee>>
    /\ request' = [request EXCEPT ![id] =
           [player |-> p, team |-> t,
            status |-> IF Immediate(p, t) THEN "Approved" ELSE "Pending",
            by     |-> IF Immediate(p, t) THEN p ELSE None]]
    /\ UNCHANGED <<members, former, revision, mode>>

MayDecide(by, q) ==
    /\ CanManage(by)
    /\ q.player = by => by = Host

Undecided(q) == q.status = "Pending"

\* decide: what is decided is answered as before or refused.  The destination may
\* have closed meanwhile; then an approval leaves the request pending.
Decide(by, id, approve) ==
    /\ id \in Filed
    /\ MayDecide(by, request[id])
    /\ Undecided(request[id])
    /\ IF approve THEN Assign(request[id].player, request[id].team)
                  ELSE UNCHANGED <<formed, team, owner, referee>>
    /\ request' = [request EXCEPT
           ![id].status = IF approve THEN "Approved" ELSE "Declined",
           ![id].by = by]
    /\ UNCHANGED <<members, former, revision, mode>>

Cancel(p, id) ==
    /\ id \in PendingOf(p)
    /\ request' = [request EXCEPT ![id].status = "Cancelled"]
    /\ UNCHANGED <<members, formed, team, former, revision, owner, referee, mode>>

Withdrawn(p) ==
    [id \in RequestId |-> IF id \in PendingOf(p)
                          THEN [request[id] EXCEPT !.status = "Cancelled"]
                          ELSE request[id]]

\* remove: a player leaves, or the host removes one.
Remove(by, p) ==
    /\ by \in {p, Host}
    /\ owner' = Released(p)
    /\ referee' = [referee EXCEPT ![p] = "none"]
    /\ IF formed
       THEN /\ team' = [team EXCEPT ![p] = None]
            /\ former' = former \cup {p}
            /\ request' = Withdrawn(p)
       ELSE UNCHANGED <<team, former, request>>
    /\ UNCHANGED <<members, formed, revision, mode>>

--------------------------------------------------------------------------------
PeopleInit ==
    /\ members = {Host}
    /\ formed = FALSE
    /\ team = [p \in Player |-> None]
    /\ former = {}
    /\ request = [id \in RequestId |-> None]
    /\ revision = 0
    /\ owner = [r \in Role |-> None]
    /\ referee = [p \in Player |-> "none"]

Seats == \E p \in Player, r \in Role : Take(p, r)

People ==
    \E p \in Player :
        \/ Join(p) \/ Sit(p) \/ Fade(p) \/ Vacate(p)
        \/ \E id \in RequestId :
              \/ Cancel(p, id)
              \/ \E t \in Team : Request(p, id, t)
              \/ \E approve \in BOOLEAN : Decide(p, id, approve)
        \/ \E q \in Player : Remove(p, q)

PeopleTypeOK ==
    /\ members \subseteq Player /\ former \subseteq Player
    /\ formed \in BOOLEAN
    /\ team \in [Player -> Team \cup {None}]
    /\ request \in [RequestId -> TeamRequest \cup {None}]
    /\ revision \in Nat
    /\ owner \in [Role -> Player \cup {None}]
    /\ referee \in [Player -> Seat]
    /\ mode \in [Role -> {"Human", "Deterministic", "External"}]

--------------------------------------------------------------------------------
(* Properties.                                                             *)

\* Nobody comes into a team on their own word, except the host and a player who
\* joins a side for the first time: every other arrival is the approval, in that
\* very step, of a request that the arriving player had pending, by the host or
\* an active referee who is somebody else, whatever was cancelled, removed or
\* closed between the request and its approval (teams::request, decide, remove).
FirstJoin(p) ==
    /\ team[p] = None /\ p \notin former
    /\ team'[p] # "White"

Vouched(p) ==
    \E id \in PendingOf(p) :
        /\ request[id].team = team'[p]
        /\ request'[id].status = "Approved"
        /\ request'[id].by # p
        /\ CanManage(request'[id].by)

AdmissionIsVouched ==
    \A p \in Player \ {Host} :
        team'[p] # team[p] /\ team'[p] # None => FirstJoin(p) \/ Vouched(p)

\* A request is decided once: whatever came to an end, by decision, withdrawal or
\* removal, stays as it ended.
DecidedOnce ==
    \A id \in Filed : request[id].status # "Pending" => request'[id] = request[id]

==============================================================================
