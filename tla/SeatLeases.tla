------------------------------ MODULE SeatLeases ------------------------------
(***************************************************************************)
(* Who may act from which seat of a game: command roles and observer seats *)
(* held under wall-clock leases (server/src/leases.rs), bound to teams     *)
(* (teams.rs) and grants (observers.rs), edited by the host                *)
(* (update_authority), handed to agents (agents::configure), and released  *)
(* with the sessions of their holders (auth.rs, run_simulation_loop).      *)
(*                                                                         *)
(* Every handler runs under the games lock, so each is one action.  A      *)
(* lease is the time it has left: Active + Reserved when granted or        *)
(* renewed, Reserved or less when only its owner may resume it, 0 when it  *)
(* has run out.  Deadlines are absolute times that survive a restart, and  *)
(* a restart releases the seats of players without a session exactly as    *)
(* Maintain does.                                                          *)
(***************************************************************************)
EXTENDS Integers, FiniteSets

CONSTANTS
    None,           \* no owner, no team, no setting
    Player, Host,
    Role,           \* ids of command roles
    Observer,       \* observer seats the scenario defines
    Referee,        \* Referee[p]: the White Cell seat made for p
    Active,         \* ACTIVE_SECONDS
    Reserved,       \* RESERVED_SECONDS
    MaxGeneration,  \* bound: the last generation that is leased
    MaxVersion,     \* bound: the last edit of the authority definition
    Scenes          \* bound: who takes part, in which seats, how often

RefereeSeat == {Referee[p] : p \in Player}
Seat        == Role \cup Observer \cup RefereeSeat
Team        == {"Blue", "Red", "WhiteCell"}
Side        == {"Blue", "Red"}

ASSUME SeatAssumption ==
    /\ None \notin Player \cup Team
    /\ Host \in Player
    /\ DOMAIN Referee = Player
    /\ \A p, q \in Player : Referee[p] = Referee[q] => p = q
    /\ Role \cap Observer = {}
    /\ RefereeSeat \cap (Role \cup Observer) = {}
    /\ Active \in Nat \ {0} /\ Reserved \in Nat \ {0}
    /\ MaxGeneration \in Nat /\ MaxVersion \in Nat

VARIABLES
    session,     \* session[p]: "Live", "Expired" (not yet noticed) or "None"
    members,     \* players who joined the game
    formed,      \* game.teams is Some
    team,        \* Teams.members
    former,      \* Teams.former_members
    redControl,  \* Teams.red_control
    roles,       \* the roles of the authority definition
    side,        \* side[r] of a role
    control,     \* control[r]: "Human" (claimable), "AI" or "Closed"
    agent,       \* agent[r]: mode of the role's agent connection
    version,     \* authority.version
    granted,     \* granted[s]: granted_player of an observer seat
    occupancy,   \* occupancy[s]: owner, lease generation and time left
    scene        \* bound: the scene of this behaviour

people    == <<session, members>>
teams     == <<formed, team, former, redControl>>
authority == <<roles, side, control, agent, version>>
vars      == <<session, members, formed, team, former, redControl, roles, side,
               control, agent, version, granted, occupancy, scene>>

--------------------------------------------------------------------------------
Fresh  == Active + Reserved
Vacant == [owner |-> None, generation |-> 0, left |-> 0]

InUse(s)  == occupancy[s].owner # None /\ occupancy[s].left > Reserved
RanOut(s) == occupancy[s].owner # None /\ occupancy[s].left = 0

HeldBy(p) == {s \in Seat : occupancy[s].owner = p}
Expired   == {s \in Seat : RanOut(s)}

\* release: only a held seat changes, and its generation moves on.
Released(o) ==
    IF o.owner = None THEN o
    ELSE [owner |-> None, generation |-> o.generation + 1, left |-> 0]

Vacate(seats) ==
    [s \in Seat |-> IF s \in seats THEN Released(occupancy[s]) ELSE occupancy[s]]

Live(p) == session[p] = "Live"

\* validate_side
Barred(p, r) ==
    \/ team[p] # None /\ team[p] # side[r]
    \/ team[p] = None /\ p \in former

\* validate_role_lease and observers::validate: what every request, order and
\* stream of a seat is checked against.
Valid(s, p, g) ==
    /\ occupancy[s].owner = p
    /\ occupancy[s].generation = g
    /\ InUse(s)
    /\ s \in Role => s \in roles /\ ~Barred(p, s)
    /\ s \notin Role => granted[s] = p
    /\ s \in RefereeSeat => team[p] = "WhiteCell"

ActiveReferee(p) ==
    /\ team[p] = "WhiteCell"
    /\ granted[Referee[p]] = p
    /\ occupancy[Referee[p]].owner = p
    /\ InUse(Referee[p])

CanManage(p) == p = Host \/ ActiveReferee(p)

Open(t) == \E r \in roles : side[r] = t /\ control[r] = "Human"

--------------------------------------------------------------------------------
(* Sessions, time and maintenance.                                           *)

Join(p) ==
    /\ Live(p)
    /\ members' = members \cup {p}
    /\ UNCHANGED <<session, teams, authority, granted, occupancy>>

\* A player comes back: a recovered account, or a later guest session.  A
\* session of another player in the same browser is replaced and releases
\* that player's seats, whatever other sessions that player has.
SignIn(p, previous, elsewhere) ==
    /\ previous # p
    /\ previous # None => Live(previous)
    /\ session' = [q \in Player |-> IF q = p THEN "Live"
                                    ELSE IF q = previous /\ ~elsewhere THEN "None"
                                    ELSE session[q]]
    /\ occupancy' = Vacate(IF previous = None THEN {} ELSE HeldBy(previous))
    /\ UNCHANGED <<members, teams, authority, granted>>

\* Signing out releases every seat of the player, in every tab and browser.
SignOut(p, elsewhere) ==
    /\ Live(p)
    /\ session' = [session EXCEPT ![p] = IF elsewhere THEN "Live" ELSE "None"]
    /\ occupancy' = Vacate(HeldBy(p))
    /\ UNCHANGED <<members, teams, authority, granted>>

\* The last session of p passes its deadline.
SessionEnds(p) ==
    /\ Live(p)
    /\ session' = [session EXCEPT ![p] = "Expired"]
    /\ UNCHANGED <<members, teams, authority, granted, occupancy>>

Tick ==
    /\ occupancy' = [s \in Seat |->
                       IF occupancy[s].left > 0
                       THEN [occupancy[s] EXCEPT !.left = @ - 1] ELSE occupancy[s]]
    /\ UNCHANGED <<people, teams, authority, granted>>

ExpiredPlayers == {p \in Player : session[p] = "Expired"}

\* Mutant: leases are only looked at when a session ended.
MaintainSessions ==
    /\ session' = [p \in Player |-> IF p \in ExpiredPlayers THEN "None" ELSE session[p]]
    /\ occupancy' = Vacate(UNION {HeldBy(p) : p \in ExpiredPlayers})
    /\ UNCHANGED <<members, teams, authority, granted>>

\* Mutant: an expired session is purged, its player's seats wait for their leases.
MaintainLeases ==
    /\ session' = [p \in Player |-> IF p \in ExpiredPlayers THEN "None" ELSE session[p]]
    /\ occupancy' = Vacate(Expired)
    /\ UNCHANGED <<members, teams, authority, granted>>

\* Once a second, running or paused: expired_players, then expire.
Maintain ==
    /\ session' = [p \in Player |-> IF p \in ExpiredPlayers THEN "None" ELSE session[p]]
    /\ occupancy' = Vacate(Expired \cup UNION {HeldBy(p) : p \in ExpiredPlayers})
    /\ UNCHANGED <<members, teams, authority, granted>>

--------------------------------------------------------------------------------
(* Claim, resume, renew and release a seat.                                  *)

\* acquire_role and observers::acquire, up to the seat itself.
MayHold(p, s) ==
    IF s \in Role
    THEN /\ s \in roles
         /\ ~Barred(p, s)
         /\ team[p] = None => \A r \in HeldBy(p) \cap Role : side[r] = side[s]
         /\ control[s] = "Human"
    ELSE granted[s] = p

\* Mutant: a reserved seat is as good as free.
FreeWhenReserved(s, p, resume) ==
    IF resume THEN occupancy[s].owner = p /\ ~RanOut(s)
              ELSE occupancy[s].owner \in {None, p} \/ ~InUse(s)

\* acquire_occupancy: a reserved seat waits for its owner; a lease that ran out
\* is released first, and can then be claimed but no longer resumed.
Obtainable(s, p, resume) ==
    IF resume THEN occupancy[s].owner = p /\ ~RanOut(s)
              ELSE occupancy[s].owner \in {None, p} \/ RanOut(s)

\* Mutant: resuming a reservation goes on under the old generation.
SameGeneration(s, p) == IF occupancy[s].owner = p /\ ~RanOut(s)
                        THEN occupancy[s].generation
                        ELSE Released(occupancy[s]).generation + 1

\* An active lease is shared by the tabs of its owner; any other is a new one.
NextGeneration(s, p) ==
    IF occupancy[s].owner = p /\ InUse(s) THEN occupancy[s].generation
    ELSE IF RanOut(s) THEN Released(occupancy[s]).generation + 1
    ELSE occupancy[s].generation + 1

Acquire(s, p, resume) ==
    /\ Live(p) /\ p \in members
    /\ MayHold(p, s)
    /\ Obtainable(s, p, resume)
    /\ occupancy[s].generation < MaxGeneration
    /\ occupancy' = [occupancy EXCEPT ![s] = [owner |-> p,
                                              generation |-> NextGeneration(s, p),
                                              left |-> Fresh]]
    /\ IF s \in Role /\ team[p] = None
       THEN team' = [team EXCEPT ![p] = side[s]]
       ELSE UNCHANGED team
    /\ formed' = (formed \/ s \in Role)
    /\ UNCHANGED <<people, former, redControl, authority, granted>>

\* A resume that comes too late still releases the seat.
ResumeTooLate(s, p) ==
    /\ Live(p) /\ p \in members
    /\ MayHold(p, s)
    /\ RanOut(s)
    /\ occupancy' = Vacate({s})
    /\ UNCHANGED <<people, teams, authority, granted>>

Renew(s, p, g) ==
    /\ Live(p)
    /\ Valid(s, p, g)
    /\ occupancy' = [occupancy EXCEPT ![s].left = Fresh]
    /\ UNCHANGED <<people, teams, authority, granted>>

\* release_role expires every seat of the game, then this one if g still owns it.
ReleaseSeat(s, p, g) ==
    /\ Live(p)
    /\ occupancy' = Vacate(Expired \cup {x \in {s} : /\ occupancy[x].owner = p
                                                     /\ occupancy[x].generation = g})
    /\ UNCHANGED <<people, teams, authority, granted>>

--------------------------------------------------------------------------------
(* Teams and grants.                                                         *)

\* A team request that needs approval is filed; nothing else happens yet.
FormTeams ==
    /\ formed' = TRUE
    /\ UNCHANGED <<people, team, former, redControl, authority, granted, occupancy>>

Ungranted(p) == [s \in Observer \cup RefereeSeat |->
                    IF granted[s] = p THEN None ELSE granted[s]]

\* Mutant: a transferred player keeps the seats of the old team.
MoveAndKeepSeats(p, t) ==
    /\ team' = [team EXCEPT ![p] = t]
    /\ granted' = IF t = "WhiteCell" THEN [Ungranted(p) EXCEPT ![Referee[p]] = p]
                                     ELSE Ungranted(p)
    /\ UNCHANGED occupancy

\* assign, once the destination is known to be open and new: release everything,
\* revoke every grant, then enable the destination.
Move(p, t) ==
    /\ team' = [team EXCEPT ![p] = t]
    /\ granted' = IF t = "WhiteCell" THEN [Ungranted(p) EXCEPT ![Referee[p]] = p]
                                     ELSE Ungranted(p)
    /\ occupancy' = Vacate(HeldBy(p))

\* An approved or immediate team request of p.
Assign(p, t) ==
    /\ p \in members
    /\ t # "WhiteCell" => Open(t)
    /\ team[p] # t
    /\ Move(p, t)
    /\ formed' = TRUE
    /\ UNCHANGED <<people, former, redControl, authority>>

\* teams::remove: p leaves, or the host removes p.
Remove(p) ==
    /\ Live(p) \/ Live(Host)
    /\ occupancy' = Vacate(HeldBy(p))
    /\ granted' = Ungranted(p)
    /\ team' = [team EXCEPT ![p] = None]
    /\ former' = IF formed THEN former \cup {p} ELSE former
    /\ UNCHANGED <<people, formed, redControl, authority>>

\* change_grant: the host grants an observer seat of the scenario, or revokes it.
Grant(s, to) ==
    /\ Live(Host)
    /\ to # None => to \in members
    /\ granted[s] # to
    /\ granted' = [granted EXCEPT ![s] = to]
    /\ occupancy' = Vacate({s})
    /\ UNCHANGED <<people, teams, authority>>

--------------------------------------------------------------------------------
(* The authority definition and agents.                                      *)

Protected(r) == occupancy[r].owner # None \/ control[r] = "AI"

\* What a saved definition makes of the setting `asked` for role r: red_control
\* decides for Red, an agent connection for its role.
Settled(r, asked, newSide) ==
    IF agent[r] # None THEN agent[r]
    ELSE IF newSide = "Red" /\ redControl # None THEN redControl
    ELSE asked

\* update_authority: the definition is replaced; occupancy stays with the role id
\* and a removed role loses its own, so that an id saved again starts over.
UpdateAuthority(kept, sides, asked) ==
    /\ Live(Host)
    /\ version < MaxVersion
    /\ kept # {}
    /\ \A r \in roles : Protected(r) => r \in kept /\ sides[r] = side[r]
    /\ \A r \in Role : agent[r] = "AI" => occupancy[r].generation < MaxGeneration
    /\ roles' = kept
    /\ side' = [r \in Role |-> IF r \in kept THEN sides[r] ELSE side[r]]
    /\ control' = [r \in Role |-> IF r \in kept THEN Settled(r, asked[r], sides[r])
                                                 ELSE "Closed"]
    /\ occupancy' = [s \in Seat |->
                       IF s \notin Role THEN occupancy[s]
                       ELSE IF s \notin kept THEN Vacant
                       ELSE IF agent[s] = "AI"
                       THEN [occupancy[s] EXCEPT !.generation = @ + 1]
                       ELSE occupancy[s]]
    /\ version' = version + 1
    /\ UNCHANGED <<people, teams, agent, granted>>

\* agents::configure: hand a role to an agent, or back to people.
Configure(r, mode, by) ==
    /\ Live(by) /\ CanManage(by)
    /\ r \in roles
    /\ occupancy[r].generation < MaxGeneration
    /\ occupancy' = [occupancy EXCEPT ![r] = [Released(occupancy[r]) EXCEPT
                                                !.generation = @ + 1]]
    /\ control' = [control EXCEPT ![r] = mode]
    /\ agent' = [agent EXCEPT ![r] = mode]
    /\ redControl' = IF side[r] = "Red" THEN None ELSE redControl
    /\ UNCHANGED <<people, formed, team, former, roles, side, version, granted>>

--------------------------------------------------------------------------------
Init ==
    /\ session = [p \in Player |-> "Live"]
    /\ members = {Host}
    /\ redControl \in {None, "Human", "AI"}
    /\ formed = (redControl # None)
    /\ team = [p \in Player |-> None]
    /\ former = {}
    /\ roles = Role
    /\ side \in [Role -> Side]
    /\ control = [r \in Role |-> IF side[r] = "Blue" THEN "Human"
                                 ELSE IF redControl = None THEN "AI" ELSE redControl]
    /\ agent = [r \in Role |-> None]
    /\ version = 1
    /\ granted = [s \in Observer \cup RefereeSeat |-> None]
    /\ occupancy = [s \in Seat |-> Vacant]
    /\ scene \in Scenes

Sessions ==
    \/ \E p \in Player : Join(p) \/ SessionEnds(p)
    \/ \E p \in Player, elsewhere \in BOOLEAN :
          \/ SignOut(p, elsewhere)
          \/ \E previous \in Player \cup {None} : SignIn(p, previous, elsewhere)

\* A request shows the seat's token or one it has not: 0, which no lease gets,
\* stands for all of these.
Tokens(s) == {0, occupancy[s].generation}

Seats ==
    \E s \in Seat, p \in Player :
        \/ \E resume \in BOOLEAN : Acquire(s, p, resume)
        \/ ResumeTooLate(s, p)
        \/ \E g \in Tokens(s) : Renew(s, p, g) \/ ReleaseSeat(s, p, g)

Membership ==
    \/ FormTeams
    \/ \E p \in Player : Remove(p) \/ \E t \in Team : Assign(p, t)
    \/ \E s \in Observer, to \in Player \cup {None} : Grant(s, to)

Editing ==
    \/ \E kept \in SUBSET Role, sides \in [Role -> Side],
          asked \in [Role -> {"Human", "AI", "Closed"}] : UpdateAuthority(kept, sides, asked)
    \/ \E r \in Role, mode \in {"Human", "AI"}, by \in Player : Configure(r, mode, by)

\* Bound: who stays out of a scene neither joins nor signs out, and an observer
\* seat that is not in it is not granted.
Within ==
    /\ members \subseteq scene.players
    /\ \A p \in Player \ scene.players : Live(p)
    /\ \A s \in Observer \ scene.observers : granted[s] = None
    /\ \A s \in Seat : occupancy[s].owner # None => occupancy[s].generation <= scene.generation
    /\ version <= scene.version

Next ==
    /\ Sessions \/ Tick \/ Maintain \/ Seats \/ Membership \/ Editing
    /\ UNCHANGED scene /\ Within'

\* The wall clock runs and the simulation loop maintains the games every second,
\* also while they are paused.
Fairness == WF_vars(Tick /\ UNCHANGED scene) /\ WF_vars(Maintain /\ UNCHANGED scene)

Spec == Init /\ [][Next]_vars /\ Fairness

--------------------------------------------------------------------------------
(* Properties.                                                               *)

Occupancy == [owner : Player \cup {None}, generation : Nat, left : 0..Fresh]

TypeOK ==
    /\ session \in [Player -> {"Live", "Expired", "None"}]
    /\ members \subseteq Player
    /\ formed \in BOOLEAN
    /\ team \in [Player -> Team \cup {None}]
    /\ former \subseteq Player
    /\ redControl \in {None, "Human", "AI"}
    /\ roles \subseteq Role
    /\ side \in [Role -> Side]
    /\ control \in [Role -> {"Human", "AI", "Closed"}]
    /\ agent \in [Role -> {None, "Human", "AI"}]
    /\ version \in Nat
    /\ granted \in [Observer \cup RefereeSeat -> Player \cup {None}]
    /\ occupancy \in [Seat -> Occupancy]

\* Whoever owns a seat, in use or reserved, is still entitled to it: a role's
\* owner plays for its side, an observer's owner holds its grant, a referee's
\* owner is the White Cell member it was made for.  Transfers, removals, revoked
\* grants and edits of the authority definition must all clear the seats.
OwnersAreEntitled ==
    \A s \in Seat : \A p \in Player : occupancy[s].owner = p =>
        /\ s \in Role => s \in roles /\ team[p] = side[s]
        /\ s \notin Role => granted[s] = p
        /\ s \in RefereeSeat => s = Referee[p] /\ team[p] = "WhiteCell"

\* A player whose last session was revoked or noticed to be over holds no seat:
\* nobody keeps a seat that no request could renew or release any more.
SessionlessHoldNothing ==
    \A p \in Player : session[p] = "None" => HeldBy(p) = {}

KeepsReservation(s) ==
    occupancy[s].owner # None /\ ~RanOut(s) =>
        occupancy'[s].owner \in {occupancy[s].owner, None}

\* A seat passes from one owner to another only after the first one's reservation
\* has run out or was given up: nobody takes a seat that is in use or reserved.
NobodyTakesAReservedSeat ==
    [][\A s \in Seat : KeepsReservation(s)]_vars

CountsOn(s) ==
    occupancy'[s].generation < occupancy[s].generation =>
        s \in roles \ roles' /\ occupancy[s].owner = None

ValidatesOnlyNew(s) ==
    \A p \in Player :
        Valid(s, p, occupancy[s].generation)' /\ ~Valid(s, p, occupancy'[s].generation)
            => occupancy'[s].generation > occupancy[s].generation

\* A token of a seat (its holder and generation) that stopped validating never
\* validates again: whatever validates anew has a generation nobody was given
\* before.  Only an edit that removes the role itself starts its count again.
DeadTokensStayDead ==
    [][\A s \in Seat : CountsOn(s) /\ ValidatesOnlyNew(s)]_vars

\* No seat stays reserved for ever: its owner uses it again or it comes free,
\* paused game or not.
SeatsComeFree ==
    \A s \in Seat : []<>(occupancy[s].owner = None \/ InUse(s))
================================================================================
