--------------------------- MODULE SeatLeasesProofs ---------------------------
(***************************************************************************)
(* Proofs about SeatLeases, for any players, roles, observer seats, lease  *)
(* times and bounds.  OwnersAreEntitled is not inductive by itself: it     *)
(* needs that a referee seat is granted to nobody but its own White Cell   *)
(* member, and that a removed role has no occupancy left to come back to.  *)
(***************************************************************************)
EXTENDS SeatLeases, TLAPS

GrantsAreReferees ==
    \A p, q \in Player : granted[Referee[q]] = p => q = p /\ team[p] = "WhiteCell"

RemovedRolesAreVacant == \A r \in Role \ roles : occupancy[r] = Vacant

IInv == /\ TypeOK
        /\ OwnersAreEntitled
        /\ SessionlessHoldNothing
        /\ GrantsAreReferees
        /\ RemovedRolesAreVacant

LEMMA NoneIsNobody == None \notin Player /\ None \notin Team
  BY SeatAssumption

LEMMA SeatKinds ==
  /\ \A p \in Player : Referee[p] \in RefereeSeat /\ Referee[p] \in Seat
  /\ \A s \in RefereeSeat : \E p \in Player : s = Referee[p]
  /\ \A s \in Seat : s \notin Role => s \in Observer \cup RefereeSeat
  /\ Role \cap (Observer \cup RefereeSeat) = {}
  /\ Role \subseteq Seat /\ Observer \subseteq Seat /\ RefereeSeat \subseteq Seat
  /\ Observer \cap RefereeSeat = {}
  BY SeatAssumption DEF RefereeSeat, Seat

LEMMA TimeFacts == Active \in Nat \ {0} /\ Reserved \in Nat \ {0} /\ Fresh \in Nat
                   /\ Fresh > Reserved
  BY SeatAssumption DEF Fresh

\* What releasing seats does to the occupancy of every seat.
LEMMA VacateFacts ==
  ASSUME TypeOK, NEW seats
  PROVE  /\ Vacate(seats) \in [Seat -> Occupancy]
         /\ \A s \in Seat :
               /\ s \in seats => Vacate(seats)[s].owner = None
               /\ s \notin seats => Vacate(seats)[s] = occupancy[s]
               /\ Vacate(seats)[s].owner # None => Vacate(seats)[s] = occupancy[s]
               /\ Vacate(seats)[s].generation >= occupancy[s].generation
               /\ occupancy[s] = Vacant => Vacate(seats)[s] = Vacant
<1> SUFFICES ASSUME NEW s \in Seat
             PROVE /\ Vacate(seats)[s] \in Occupancy
                   /\ s \in seats => Vacate(seats)[s].owner = None
                   /\ s \notin seats => Vacate(seats)[s] = occupancy[s]
                   /\ Vacate(seats)[s].owner # None => Vacate(seats)[s] = occupancy[s]
                   /\ Vacate(seats)[s].generation >= occupancy[s].generation
                   /\ occupancy[s] = Vacant => Vacate(seats)[s] = Vacant
  BY DEF Vacate
<1> DEFINE o == occupancy[s]
<1>1. o \in Occupancy
  BY DEF TypeOK
<1>2. o.generation \in Nat /\ Fresh \in Nat
  BY <1>1, TimeFacts DEF Occupancy
<1>3. CASE s \notin seats
  BY <1>1, <1>2, <1>3 DEF Vacate
<1>4. CASE s \in seats /\ o.owner = None
  <2>1. Vacate(seats)[s] = o
    BY <1>4 DEF Vacate, Released
  <2> QED BY <1>1, <1>2, <1>4, <2>1
<1>5. CASE s \in seats /\ o.owner # None
  <2>1. Vacate(seats)[s] = [owner |-> None, generation |-> o.generation + 1, left |-> 0]
    BY <1>5 DEF Vacate, Released
  <2>2. o # Vacant
    BY <1>5 DEF Vacant
  <2>3. Vacate(seats)[s] \in Occupancy
    BY <1>2, <2>1 DEF Occupancy
  <2>4. Vacate(seats)[s].owner = None /\ Vacate(seats)[s].generation >= o.generation
    BY <1>2, <2>1
  <2> QED BY <1>5, <2>2, <2>3, <2>4
<1> QED BY <1>3, <1>4, <1>5

\* Steps that give no seat away keep the invariant, as long as they leave teams,
\* grants, roles and sides alone.
LEMMA GivingNothingKeepsIInv ==
  ASSUME IInv, TypeOK', SessionlessHoldNothing',
         UNCHANGED <<team, roles, side, granted>>,
         \A s \in Seat : occupancy'[s].owner # None =>
                            occupancy'[s].owner = occupancy[s].owner,
         \A r \in Role \ roles : occupancy'[r] = occupancy[r]
  PROVE  IInv'
<1> USE DEF IInv
<1>1. OwnersAreEntitled'
  <2> SUFFICES ASSUME NEW s \in Seat, NEW p \in Player, occupancy'[s].owner = p
               PROVE /\ s \in Role => s \in roles' /\ team'[p] = side'[s]
                     /\ s \notin Role => granted'[s] = p
                     /\ s \in RefereeSeat => s = Referee[p] /\ team'[p] = "WhiteCell"
    BY DEF OwnersAreEntitled
  <2>1. occupancy[s].owner = p
    BY NoneIsNobody
  <2> QED BY <2>1 DEF OwnersAreEntitled
<1>2. GrantsAreReferees'
  BY DEF GrantsAreReferees
<1>3. RemovedRolesAreVacant'
  BY DEF RemovedRolesAreVacant
<1> QED BY <1>1, <1>2, <1>3

\* Seats are only vacated: the type and the other facts the previous lemma needs.
LEMMA VacatingKeepsIInv ==
  ASSUME IInv, NEW seats, occupancy' = Vacate(seats),
         UNCHANGED <<teams, authority, granted, members>>,
         session' \in [Player -> {"Live", "Expired", "None"}],
         \A p \in Player : session'[p] = "None" =>
                              session[p] = "None" \/ HeldBy(p) \subseteq seats
  PROVE  IInv'
<1> USE DEF IInv
<1>1. TypeOK'
  BY VacateFacts DEF TypeOK, teams, authority
<1>2. SessionlessHoldNothing'
  <2> SUFFICES ASSUME NEW p \in Player, session'[p] = "None",
                      NEW s \in Seat, occupancy'[s].owner = p
               PROVE  FALSE
    BY DEF SessionlessHoldNothing, HeldBy
  <2>1. occupancy'[s] = occupancy[s] /\ s \notin seats
    BY VacateFacts, NoneIsNobody
  <2>2. s \in HeldBy(p)
    BY <2>1 DEF HeldBy
  <2> QED BY <2>1, <2>2 DEF SessionlessHoldNothing
<1>3. \A s \in Seat : occupancy'[s].owner # None =>
                         occupancy'[s].owner = occupancy[s].owner
  BY VacateFacts
<1>4. \A r \in Role \ roles : occupancy'[r] = occupancy[r]
  BY VacateFacts, SeatKinds DEF RemovedRolesAreVacant
<1> QED BY <1>1, <1>2, <1>3, <1>4, GivingNothingKeepsIInv DEF teams, authority

LEMMA SessionsKeepIInv == IInv /\ Sessions => IInv'
<1> SUFFICES ASSUME IInv, Sessions PROVE IInv'
  OBVIOUS
<1> USE DEF IInv
<1>1. ASSUME NEW p \in Player, Join(p) PROVE IInv'
  <2>1. TypeOK' /\ SessionlessHoldNothing'
    BY <1>1 DEF Join, TypeOK, teams, authority, SessionlessHoldNothing, HeldBy
  <2> QED BY <1>1, <2>1, GivingNothingKeepsIInv DEF Join, teams, authority
<1>2. ASSUME NEW p \in Player, SessionEnds(p) PROVE IInv'
  <2>1. TypeOK' /\ SessionlessHoldNothing'
    BY <1>2 DEF SessionEnds, TypeOK, teams, authority, SessionlessHoldNothing, HeldBy
  <2> QED BY <1>2, <2>1, GivingNothingKeepsIInv DEF SessionEnds, teams, authority
<1>3. ASSUME NEW p \in Player, NEW elsewhere \in BOOLEAN, SignOut(p, elsewhere) PROVE IInv'
  <2>1. session' \in [Player -> {"Live", "Expired", "None"}]
    BY <1>3 DEF SignOut, TypeOK
  <2>2. \A q \in Player : session'[q] = "None" =>
                             session[q] = "None" \/ HeldBy(q) \subseteq HeldBy(p)
    BY <1>3 DEF SignOut, TypeOK
  <2> QED BY <1>3, <2>1, <2>2, VacatingKeepsIInv DEF SignOut
<1>4. ASSUME NEW p \in Player, NEW elsewhere \in BOOLEAN, NEW previous \in Player \cup {None},
             SignIn(p, previous, elsewhere)
      PROVE  IInv'
  <2> DEFINE seats == IF previous = None THEN {} ELSE HeldBy(previous)
  <2>1. session' \in [Player -> {"Live", "Expired", "None"}]
    BY <1>4 DEF SignIn, TypeOK
  <2>2. \A q \in Player : session'[q] = "None" =>
                             session[q] = "None" \/ HeldBy(q) \subseteq seats
    BY <1>4, NoneIsNobody DEF SignIn, TypeOK
  <2>3. occupancy' = Vacate(seats)
    BY <1>4 DEF SignIn
  <2>4. UNCHANGED <<teams, authority, granted, members>>
    BY <1>4 DEF SignIn
  <2> QED BY <2>1, <2>2, <2>3, <2>4, VacatingKeepsIInv
<1> QED BY <1>1, <1>2, <1>3, <1>4 DEF Sessions

LEMMA TickKeepsIInv == IInv /\ Tick => IInv'
<1> SUFFICES ASSUME IInv, Tick PROVE IInv'
  OBVIOUS
<1> USE DEF IInv
<1>1. ASSUME NEW s \in Seat
      PROVE /\ occupancy'[s] \in Occupancy
            /\ occupancy'[s].owner = occupancy[s].owner
            /\ occupancy[s] = Vacant => occupancy'[s] = Vacant
  <2>1. occupancy[s] \in Occupancy /\ Fresh \in Nat
    BY TimeFacts DEF TypeOK
  <2>2. CASE occupancy[s].left > 0
    <3>1. occupancy'[s] = [occupancy[s] EXCEPT !.left = occupancy[s].left - 1]
      BY <2>2 DEF Tick
    <3>2. occupancy[s] # Vacant
      BY <2>2 DEF Vacant
    <3> QED BY <2>1, <2>2, <3>1, <3>2 DEF Occupancy
  <2>3. CASE ~(occupancy[s].left > 0)
    BY <2>1, <2>3 DEF Tick
  <2> QED BY <2>2, <2>3
<1>2. TypeOK'
  BY <1>1 DEF Tick, TypeOK, people, teams, authority
<1>3. SessionlessHoldNothing'
  BY <1>1 DEF Tick, people, SessionlessHoldNothing, HeldBy
<1>4. \A r \in Role \ roles : occupancy'[r] = occupancy[r]
  BY <1>1, SeatKinds DEF RemovedRolesAreVacant
<1> QED BY <1>1, <1>2, <1>3, <1>4, GivingNothingKeepsIInv DEF Tick, teams, authority

LEMMA MaintainKeepsIInv == IInv /\ Maintain => IInv'
<1> SUFFICES ASSUME IInv, Maintain PROVE IInv'
  OBVIOUS
<1> DEFINE seats == Expired \cup UNION {HeldBy(p) : p \in ExpiredPlayers}
<1>1. session' \in [Player -> {"Live", "Expired", "None"}]
  BY DEF Maintain, IInv, TypeOK
<1>2. \A p \in Player : session'[p] = "None" =>
                           session[p] = "None" \/ HeldBy(p) \subseteq seats
  BY DEF Maintain
<1>3. occupancy' = Vacate(seats) /\ UNCHANGED <<teams, authority, granted, members>>
  BY DEF Maintain
<1> QED BY <1>1, <1>2, <1>3, VacatingKeepsIInv

\* Claiming or resuming: the new owner may hold the seat, and gets its side's team
\* only when it had none, hence no other role.
LEMMA AcquireKeepsIInv ==
  ASSUME IInv, NEW s \in Seat, NEW p \in Player, NEW resume \in BOOLEAN,
         Acquire(s, p, resume)
  PROVE  IInv'
<1> USE DEF IInv
<1>1. NextGeneration(s, p) \in Nat
  <2>1. occupancy[s] \in Occupancy
    BY DEF TypeOK
  <2> QED BY <2>1 DEF NextGeneration, Occupancy, Released
<1>2. occupancy'[s] = [owner |-> p, generation |-> NextGeneration(s, p), left |-> Fresh]
      /\ \A x \in Seat : x # s => occupancy'[x] = occupancy[x]
  BY DEF Acquire, TypeOK
<1>3. occupancy' \in [Seat -> Occupancy]
  <2>1. occupancy'[s] \in Occupancy
    BY <1>1, <1>2, TimeFacts DEF Occupancy
  <2> QED BY <2>1 DEF Acquire, TypeOK
<1>4. team' \in [Player -> Team \cup {None}]
      /\ \A q \in Player : q # p \/ team[q] # None => team'[q] = team[q]
  BY DEF Acquire, TypeOK, Team, Side
<1>5. s \in Role => s \in roles /\ team'[p] = side[s]
  <2>1. side[s] # None \/ s \notin Role
    BY SeatAssumption DEF TypeOK, Side, Team
  <2> QED BY <2>1 DEF Acquire, MayHold, Barred, TypeOK
<1>6. s \notin Role => granted[s] = p
  BY DEF Acquire, MayHold
<1>7. TypeOK'
  BY <1>3, <1>4 DEF TypeOK, Acquire, people, authority
<1>8. OwnersAreEntitled'
  <2> SUFFICES ASSUME NEW x \in Seat, NEW q \in Player, occupancy'[x].owner = q
               PROVE /\ x \in Role => x \in roles' /\ team'[q] = side'[x]
                     /\ x \notin Role => granted'[x] = q
                     /\ x \in RefereeSeat => x = Referee[q] /\ team'[q] = "WhiteCell"
    BY DEF OwnersAreEntitled
  <2>1. UNCHANGED <<roles, side, granted>>
    BY DEF Acquire, authority
  <2>2. CASE x # s
    <3>1. occupancy[x].owner = q
      BY <1>2, <2>2
    <3>2. x \in Role \cup RefereeSeat => team[q] # None
      BY <3>1, NoneIsNobody, SeatAssumption DEF OwnersAreEntitled, TypeOK, Side, Team
    <3> QED BY <1>4, <2>1, <3>1, <3>2 DEF OwnersAreEntitled
  <2>3. CASE x = s
    <3>1. q = p
      BY <1>2, <2>3
    <3>2. x \in RefereeSeat => x = Referee[q] /\ team[q] = "WhiteCell" /\ x \notin Role
      BY <1>6, <2>3, <3>1, SeatKinds DEF GrantsAreReferees
    <3>3. x \in RefereeSeat => team'[q] = "WhiteCell"
      BY <3>2, <1>4, NoneIsNobody DEF Team
    <3> QED BY <1>5, <1>6, <2>1, <2>3, <3>1, <3>2, <3>3
  <2> QED BY <2>2, <2>3
<1>9. SessionlessHoldNothing'
  <2> SUFFICES ASSUME NEW q \in Player, session'[q] = "None",
                      NEW x \in Seat, occupancy'[x].owner = q
               PROVE  FALSE
    BY DEF SessionlessHoldNothing, HeldBy
  <2>1. session[q] = "None" /\ session[p] = "Live"
    BY DEF Acquire, people, Live
  <2>2. x # s
    BY <1>2, <2>1
  <2>3. occupancy[x].owner = q
    BY <1>2, <2>2
  <2> QED BY <2>1, <2>3 DEF SessionlessHoldNothing, HeldBy
<1>10. GrantsAreReferees'
  BY <1>4, NoneIsNobody DEF GrantsAreReferees, Acquire, Team
<1>11. RemovedRolesAreVacant'
  BY <1>2, <1>5, SeatKinds DEF RemovedRolesAreVacant, Acquire, authority
<1> QED BY <1>7, <1>8, <1>9, <1>10, <1>11

LEMMA RenewKeepsIInv ==
  ASSUME IInv, NEW s \in Seat, NEW p \in Player, NEW g, Renew(s, p, g)
  PROVE  IInv'
<1> USE DEF IInv
<1>1. occupancy'[s] = [occupancy[s] EXCEPT !.left = Fresh]
      /\ \A x \in Seat : x # s => occupancy'[x] = occupancy[x]
  BY DEF Renew, TypeOK
<1>2. occupancy[s] \in Occupancy
  BY DEF TypeOK
<1>3. occupancy'[s] \in Occupancy /\ occupancy'[s].owner = occupancy[s].owner
  BY <1>1, <1>2, TimeFacts DEF Occupancy
<1>4. TypeOK'
  BY <1>3 DEF Renew, TypeOK, people, teams, authority
<1>5. SessionlessHoldNothing'
  BY <1>1, <1>3 DEF Renew, people, SessionlessHoldNothing, HeldBy
<1>6. s \notin Role \ roles
  BY DEF Renew, Valid
<1> QED BY <1>1, <1>3, <1>4, <1>5, <1>6, SeatKinds, GivingNothingKeepsIInv
        DEF Renew, teams, authority

LEMMA SeatsKeepIInv == IInv /\ Seats => IInv'
<1> SUFFICES ASSUME IInv, Seats PROVE IInv'
  OBVIOUS
<1>1. PICK s \in Seat, p \in Player :
          \/ \E resume \in BOOLEAN : Acquire(s, p, resume)
          \/ ResumeTooLate(s, p)
          \/ \E g \in Tokens(s) : Renew(s, p, g) \/ ReleaseSeat(s, p, g)
  BY DEF Seats
<1>2. session \in [Player -> {"Live", "Expired", "None"}]
  BY DEF IInv, TypeOK
<1>3. ASSUME ResumeTooLate(s, p) PROVE IInv'
  BY <1>2, <1>3, VacatingKeepsIInv DEF ResumeTooLate, people
<1>4. ASSUME NEW g \in Tokens(s), ReleaseSeat(s, p, g) PROVE IInv'
  <2> DEFINE seats == Expired \cup {x \in {s} : /\ occupancy[x].owner = p
                                                 /\ occupancy[x].generation = g}
  <2>1. occupancy' = Vacate(seats) /\ UNCHANGED <<people, teams, authority, granted>>
    BY <1>4 DEF ReleaseSeat
  <2> QED BY <1>2, <2>1, VacatingKeepsIInv DEF people
<1> QED BY <1>1, <1>3, <1>4, AcquireKeepsIInv, RenewKeepsIInv

\* Transfers and removals: the player's seats and grants go before anything else.
LEMMA UngrantedFacts ==
  ASSUME TypeOK, NEW p \in Player
  PROVE  /\ Ungranted(p) \in [Observer \cup RefereeSeat -> Player \cup {None}]
         /\ \A s \in Observer \cup RefereeSeat :
               /\ granted[s] # p => Ungranted(p)[s] = granted[s]
               /\ Ungranted(p)[s] # p
  BY NoneIsNobody DEF Ungranted, TypeOK

LEMMA MovingKeepsIInv ==
  ASSUME IInv, NEW p \in Player, NEW t \in Team \cup {None},
         team' = [team EXCEPT ![p] = t],
         granted' = IF t = "WhiteCell" THEN [Ungranted(p) EXCEPT ![Referee[p]] = p]
                                       ELSE Ungranted(p),
         occupancy' = Vacate(HeldBy(p)),
         formed' \in BOOLEAN, former' \subseteq Player,
         UNCHANGED <<people, redControl, authority>>
  PROVE  IInv'
<1> USE DEF IInv
<1>1. /\ granted' \in [Observer \cup RefereeSeat -> Player \cup {None}]
      /\ \A s \in Observer \cup RefereeSeat, q \in Player :
            q # p => (granted'[s] = q => granted[s] = q)
      /\ \A s \in Observer \cup RefereeSeat :
            granted'[s] = p => s = Referee[p] /\ t = "WhiteCell"
  <2> DEFINE rest == Ungranted(p)
  <2>0. /\ rest \in [Observer \cup RefereeSeat -> Player \cup {None}]
        /\ \A s \in Observer \cup RefereeSeat :
              (granted[s] # p => rest[s] = granted[s]) /\ rest[s] # p
    BY UngrantedFacts
  <2>1. \A s \in Observer \cup RefereeSeat, q \in Player : rest[s] = q => granted[s] = q
    BY NoneIsNobody DEF Ungranted
  <2> HIDE DEF rest
  <2>2. CASE t = "WhiteCell"
    <3>1. granted' = [rest EXCEPT ![Referee[p]] = p]
      BY <2>2 DEF rest
    <3>2. Referee[p] \in Observer \cup RefereeSeat
      BY SeatKinds
    <3>3. granted'[Referee[p]] = p /\ \A s \in Observer \cup RefereeSeat :
                                       s # Referee[p] => granted'[s] = rest[s]
      BY <2>0, <3>1, <3>2
    <3>4. granted' \in [Observer \cup RefereeSeat -> Player \cup {None}]
      BY <2>0, <3>1, <3>2
    <3> QED BY <2>0, <2>1, <2>2, <3>3, <3>4
  <2>3. CASE t # "WhiteCell"
    <3>1. granted' = rest
      BY <2>3 DEF rest
    <3> QED BY <2>0, <2>1, <2>3, <3>1
  <2> QED BY <2>2, <2>3
<1>2. \A s \in Seat, q \in Player :
         occupancy'[s].owner = q => q # p /\ occupancy[s].owner = q
  BY VacateFacts, NoneIsNobody DEF HeldBy
<1>3. \A q \in Player : q # p => team'[q] = team[q]
  BY DEF TypeOK
<1>4. TypeOK'
  BY <1>1, VacateFacts DEF TypeOK, people, authority
<1>5. OwnersAreEntitled'
  <2> SUFFICES ASSUME NEW s \in Seat, NEW q \in Player, occupancy'[s].owner = q
               PROVE /\ s \in Role => s \in roles' /\ team'[q] = side'[s]
                     /\ s \notin Role => granted'[s] = q
                     /\ s \in RefereeSeat => s = Referee[q] /\ team'[q] = "WhiteCell"
    BY DEF OwnersAreEntitled
  <2>1. q # p /\ occupancy[s].owner = q /\ team'[q] = team[q]
    BY <1>2, <1>3
  <2>2. s \notin Role => granted'[s] = q
    <3> SUFFICES ASSUME s \notin Role PROVE granted'[s] = q
      OBVIOUS
    <3>1. granted[s] = q /\ s \in Observer \cup RefereeSeat
      BY <2>1, SeatKinds DEF OwnersAreEntitled
    <3>2. Ungranted(p)[s] = q
      BY <2>1, <3>1, UngrantedFacts
    <3>3. s # Referee[p]
      BY <2>1, <3>1, SeatAssumption, SeatKinds DEF OwnersAreEntitled
    <3> QED BY <3>1, <3>2, <3>3, UngrantedFacts
  <2> QED BY <2>1, <2>2 DEF OwnersAreEntitled, authority
<1>6. SessionlessHoldNothing'
  BY <1>2 DEF SessionlessHoldNothing, HeldBy, people
<1>7. GrantsAreReferees'
  <2> SUFFICES ASSUME NEW q \in Player, NEW r \in Player, granted'[Referee[r]] = q
               PROVE  r = q /\ team'[q] = "WhiteCell"
    BY DEF GrantsAreReferees
  <2>1. CASE q # p
    BY <1>1, <1>3, <2>1, SeatKinds DEF GrantsAreReferees
  <2>2. CASE q = p
    <3>1. Referee[r] = Referee[p] /\ t = "WhiteCell"
      BY <1>1, <2>2, SeatKinds
    <3> QED BY <2>2, <3>1, SeatAssumption DEF TypeOK
  <2> QED BY <2>1, <2>2
<1>8. RemovedRolesAreVacant'
  BY VacateFacts, SeatKinds DEF RemovedRolesAreVacant, authority
<1> QED BY <1>4, <1>5, <1>6, <1>7, <1>8

LEMMA MembershipKeepsIInv == IInv /\ Membership => IInv'
<1> SUFFICES ASSUME IInv, Membership PROVE IInv'
  OBVIOUS
<1> USE DEF IInv
<1>1. CASE FormTeams
  <2>1. TypeOK' /\ SessionlessHoldNothing'
    BY <1>1 DEF FormTeams, TypeOK, SessionlessHoldNothing, HeldBy, people, authority
  <2> QED BY <1>1, <2>1, GivingNothingKeepsIInv DEF FormTeams, authority
<1>2. ASSUME NEW p \in Player, Remove(p) PROVE IInv'
  <2>1. former' \subseteq Player /\ formed' \in BOOLEAN
    BY <1>2 DEF Remove, TypeOK
  <2>2. None # "WhiteCell"
    BY SeatAssumption DEF Team
  <2> QED BY <1>2, <2>1, <2>2, MovingKeepsIInv DEF Remove
<1>3. ASSUME NEW p \in Player, NEW t \in Team, Assign(p, t) PROVE IInv'
  <2>1. former' \subseteq Player /\ formed' \in BOOLEAN
    BY <1>3 DEF Assign, TypeOK
  <2> QED BY <1>3, <2>1, MovingKeepsIInv DEF Assign, Move
<1>4. ASSUME NEW s \in Observer, NEW to \in Player \cup {None}, Grant(s, to) PROVE IInv'
  <2>1. occupancy' = Vacate({s}) /\ granted' = [granted EXCEPT ![s] = to]
        /\ UNCHANGED <<people, teams, authority>>
    BY <1>4 DEF Grant
  <2>2. s \notin RefereeSeat /\ s \notin Role
    BY SeatKinds
  <2>3. \A x \in Seat, q \in Player :
           occupancy'[x].owner = q => x # s /\ occupancy[x].owner = q
    BY <2>1, VacateFacts, NoneIsNobody
  <2>4. TypeOK'
    BY <2>1, VacateFacts DEF TypeOK, people, teams, authority
  <2>5. OwnersAreEntitled'
    <3> SUFFICES ASSUME NEW x \in Seat, NEW q \in Player, occupancy'[x].owner = q
                 PROVE /\ x \in Role => x \in roles' /\ team'[q] = side'[x]
                       /\ x \notin Role => granted'[x] = q
                       /\ x \in RefereeSeat => x = Referee[q] /\ team'[q] = "WhiteCell"
      BY DEF OwnersAreEntitled
    <3>1. x # s /\ occupancy[x].owner = q
      BY <2>3
    <3>2. granted'[x] = granted[x] \/ x \in Role
      BY <2>1, <3>1, SeatKinds DEF TypeOK
    <3> QED BY <2>1, <3>1, <3>2 DEF OwnersAreEntitled, teams, authority
  <2>6. SessionlessHoldNothing'
    BY <2>1, <2>3 DEF SessionlessHoldNothing, HeldBy, people
  <2>7. GrantsAreReferees'
    BY <2>1, <2>2, SeatKinds DEF GrantsAreReferees, TypeOK, teams
  <2>8. RemovedRolesAreVacant'
    BY <2>1, VacateFacts, SeatKinds DEF RemovedRolesAreVacant, authority
  <2> QED BY <2>4, <2>5, <2>6, <2>7, <2>8
<1> QED BY <1>1, <1>2, <1>3, <1>4 DEF Membership

LEMMA UpdateAuthorityKeepsIInv ==
  ASSUME IInv, NEW kept \in SUBSET Role, NEW sides \in [Role -> Side],
         NEW asked \in [Role -> {"Human", "AI", "Closed"}],
         UpdateAuthority(kept, sides, asked)
  PROVE  IInv'
<1> USE DEF IInv
<1>1. ASSUME NEW s \in Seat
      PROVE /\ occupancy'[s] \in Occupancy
            /\ occupancy'[s].owner # None =>
                  occupancy'[s].owner = occupancy[s].owner /\ (s \in Role => s \in kept)
            /\ s \in Role \ kept => occupancy'[s] = Vacant
  <2>1. occupancy[s] \in Occupancy
    BY DEF TypeOK
  <2>2. CASE s \notin Role
    BY <2>1, <2>2 DEF UpdateAuthority
  <2>3. CASE s \in Role \ kept
    <3>1. occupancy'[s] = Vacant
      BY <2>3 DEF UpdateAuthority
    <3> QED BY <2>3, <3>1, TimeFacts DEF Vacant, Occupancy
  <2>4. CASE s \in kept /\ agent[s] = "AI"
    <3>1. occupancy'[s] = [occupancy[s] EXCEPT !.generation = occupancy[s].generation + 1]
      BY <2>4 DEF UpdateAuthority
    <3> QED BY <2>1, <2>4, <3>1 DEF Occupancy
  <2>5. CASE s \in kept /\ agent[s] # "AI"
    BY <2>1, <2>5 DEF UpdateAuthority
  <2> QED BY <2>2, <2>3, <2>4, <2>5
<1>2. roles' = kept /\ UNCHANGED <<people, teams, agent, granted>>
  BY DEF UpdateAuthority
<1>3. \A r \in Role : Settled(r, asked[r], sides[r]) \in {"Human", "AI", "Closed"}
  BY DEF Settled, TypeOK
<1>4. control' \in [Role -> {"Human", "AI", "Closed"}]
  BY <1>3 DEF UpdateAuthority
<1>5. side' \in [Role -> Side] /\ version' \in Nat
  BY DEF UpdateAuthority, TypeOK
<1>6. occupancy' \in [Seat -> Occupancy]
  BY <1>1 DEF UpdateAuthority
<1>7. TypeOK'
  BY <1>2, <1>4, <1>5, <1>6 DEF TypeOK, people, teams
<1>8. OwnersAreEntitled'
  <2> SUFFICES ASSUME NEW s \in Seat, NEW p \in Player, occupancy'[s].owner = p
               PROVE /\ s \in Role => s \in roles' /\ team'[p] = side'[s]
                     /\ s \notin Role => granted'[s] = p
                     /\ s \in RefereeSeat => s = Referee[p] /\ team'[p] = "WhiteCell"
    BY DEF OwnersAreEntitled
  <2>1. occupancy[s].owner = p /\ (s \in Role => s \in kept)
    BY <1>1, NoneIsNobody
  <2>2. s \in Role => side'[s] = side[s]
    BY <2>1, NoneIsNobody DEF UpdateAuthority, Protected, OwnersAreEntitled
  <2> QED BY <1>2, <2>1, <2>2 DEF OwnersAreEntitled, teams
<1>9. SessionlessHoldNothing'
  BY <1>1, <1>2, NoneIsNobody DEF SessionlessHoldNothing, HeldBy, people
<1>10. GrantsAreReferees'
  BY <1>2 DEF GrantsAreReferees, teams
<1>11. RemovedRolesAreVacant'
  BY <1>1, <1>2, SeatKinds DEF RemovedRolesAreVacant
<1> QED BY <1>7, <1>8, <1>9, <1>10, <1>11

LEMMA ConfigureKeepsIInv ==
  ASSUME IInv, NEW r \in Role, NEW mode \in {"Human", "AI"}, NEW by \in Player,
         Configure(r, mode, by)
  PROVE  IInv'
<1> USE DEF IInv
<1>1. r \in Seat /\ occupancy[r] \in Occupancy
  BY SeatKinds DEF TypeOK
<1> DEFINE freed == Released(occupancy[r])
<1>2. freed \in Occupancy /\ freed.owner = None
  BY <1>1, TimeFacts DEF Released, Occupancy
<1>3. occupancy'[r] = [freed EXCEPT !.generation = freed.generation + 1]
      /\ \A s \in Seat : s # r => occupancy'[s] = occupancy[s]
  BY <1>1 DEF Configure, TypeOK
<1>4. occupancy'[r] \in Occupancy /\ occupancy'[r].owner = None
  BY <1>2, <1>3 DEF Occupancy
<1>5. TypeOK'
  BY <1>4 DEF Configure, TypeOK, people
<1>6. SessionlessHoldNothing'
  BY <1>3, <1>4, NoneIsNobody DEF Configure, SessionlessHoldNothing, HeldBy, people
<1>7. \A x \in Role \ roles : occupancy'[x] = occupancy[x]
  BY <1>3, SeatKinds DEF Configure
<1> QED BY <1>3, <1>4, <1>5, <1>6, <1>7, GivingNothingKeepsIInv DEF Configure

LEMMA InitEstablishesIInv == Init => IInv
<1> SUFFICES ASSUME Init PROVE IInv
  OBVIOUS
<1>1. Vacant \in Occupancy
  BY TimeFacts DEF Vacant, Occupancy
<1>2. control \in [Role -> {"Human", "AI", "Closed"}]
  BY DEF Init
<1>3. TypeOK
  BY <1>1, <1>2, SeatAssumption DEF Init, TypeOK
<1>4. \A s \in Seat : occupancy[s].owner = None
  BY DEF Init, Vacant
<1>5. OwnersAreEntitled /\ SessionlessHoldNothing
  BY <1>4, NoneIsNobody DEF OwnersAreEntitled, SessionlessHoldNothing, HeldBy
<1>6. GrantsAreReferees
  BY NoneIsNobody, SeatKinds DEF Init, GrantsAreReferees
<1> QED BY <1>3, <1>5, <1>6 DEF Init, IInv, RemovedRolesAreVacant

LEMMA StepKeepsIInv == IInv /\ [Next]_vars => IInv'
<1> SUFFICES ASSUME IInv, [Next]_vars PROVE IInv'
  OBVIOUS
<1>1. CASE Editing
  BY <1>1, UpdateAuthorityKeepsIInv, ConfigureKeepsIInv DEF Editing
<1>2. CASE UNCHANGED vars
  BY <1>2 DEF vars, IInv, TypeOK, OwnersAreEntitled, SessionlessHoldNothing, HeldBy,
              GrantsAreReferees, RemovedRolesAreVacant
<1> QED BY <1>1, <1>2, SessionsKeepIInv, TickKeepsIInv, MaintainKeepsIInv, SeatsKeepIInv,
           MembershipKeepsIInv DEF Next

LEMMA Invariance == Spec => []IInv
  BY InitEstablishesIInv, StepKeepsIInv, PTL DEF Spec

\* Every variable keeps its type.
THEOREM TypeCorrect == Spec => []TypeOK
  BY Invariance, PTL DEF IInv

\* Owners of seats are always entitled to them: transfers, removals, revoked grants
\* and edits of the authority definition clear every seat they must.
THEOREM OwnersAreEntitledHolds == Spec => []OwnersAreEntitled
  BY Invariance, PTL DEF IInv

\* A player without a session holds no seat.
THEOREM SessionlessHoldNothingHolds == Spec => []SessionlessHoldNothing
  BY Invariance, PTL DEF IInv

\* What a step does to a seat it does not give to anybody: the owner stays or goes,
\* the generation does not fall, time runs off, and the holder's title was there
\* before the step.
Fades(s) ==
    /\ occupancy'[s].generation >= occupancy[s].generation
    /\ occupancy'[s].owner # None =>
          /\ occupancy'[s].owner = occupancy[s].owner
          /\ \/ occupancy'[s].generation > occupancy[s].generation
             \/ occupancy'[s].left <= occupancy[s].left

LEMMA FadingIsSafe ==
  ASSUME IInv, IInv', NEW s \in Seat, Fades(s)
  PROVE  KeepsReservation(s) /\ CountsOn(s) /\ ValidatesOnlyNew(s)
<1> USE DEF IInv
<1>1. occupancy[s] \in Occupancy /\ occupancy'[s] \in Occupancy
  BY DEF TypeOK
<1>2. KeepsReservation(s)
  BY DEF KeepsReservation, Fades
<1>3. CountsOn(s)
  BY <1>1 DEF CountsOn, Fades, Occupancy
<1>4. ASSUME NEW p \in Player, Valid(s, p, occupancy[s].generation)',
             ~Valid(s, p, occupancy'[s].generation)
      PROVE  occupancy'[s].generation > occupancy[s].generation
  <2>1. occupancy'[s].owner = p /\ occupancy'[s].left > Reserved
    BY <1>4 DEF Valid, InUse
  <2>2. occupancy[s].owner = p
    BY <2>1, NoneIsNobody DEF Fades
  <2>3. /\ s \in Role => s \in roles /\ team[p] = side[s]
        /\ s \notin Role => granted[s] = p
        /\ s \in RefereeSeat => team[p] = "WhiteCell"
    BY <2>2 DEF OwnersAreEntitled
  <2>4. s \in Role => ~Barred(p, s)
    <3>1. s \in Role => side[s] # None
      BY SeatAssumption DEF TypeOK, Side, Team
    <3> QED BY <2>3, <3>1 DEF Barred
  <2>5. occupancy[s].generation # occupancy'[s].generation \/ ~InUse(s)
    BY <1>4, <2>2, <2>3, <2>4 DEF Valid
  <2>6. ~InUse(s) => ~(occupancy[s].left > Reserved)
    BY <2>2, NoneIsNobody DEF InUse
  <2> QED BY <1>1, <2>1, <2>5, <2>6, TimeFacts, NoneIsNobody DEF Fades, Occupancy
<1>5. ValidatesOnlyNew(s)
  BY <1>4 DEF ValidatesOnlyNew
<1> QED BY <1>2, <1>3, <1>5

LEMMA VacatedFades ==
  ASSUME IInv, NEW seats, occupancy' = Vacate(seats), NEW s \in Seat
  PROVE  Fades(s)
<1>1. occupancy[s] \in Occupancy
  BY DEF IInv, TypeOK
<1> QED BY <1>1, VacateFacts DEF IInv, Fades, Occupancy

LEMMA SameFades ==
  ASSUME IInv, NEW s \in Seat, occupancy'[s] = occupancy[s]
  PROVE  Fades(s)
<1>1. occupancy[s] \in Occupancy
  BY DEF IInv, TypeOK
<1> QED BY <1>1 DEF Fades, Occupancy

\* The seat that is claimed or resumed: free, run out, or its owner's already.
LEMMA AcquireIsSafe ==
  ASSUME IInv, NEW s \in Seat, NEW p \in Player, NEW resume \in BOOLEAN,
         Acquire(s, p, resume)
  PROVE  KeepsReservation(s) /\ CountsOn(s) /\ ValidatesOnlyNew(s)
<1> USE DEF IInv
<1>1. occupancy[s] \in Occupancy
  BY DEF TypeOK
<1>2. occupancy'[s] = [owner |-> p, generation |-> NextGeneration(s, p), left |-> Fresh]
  BY DEF Acquire, TypeOK
<1>3. KeepsReservation(s)
  BY <1>2 DEF KeepsReservation, Acquire, Obtainable
<1>4. CASE occupancy[s].owner = p /\ InUse(s)
  <2>1. NextGeneration(s, p) = occupancy[s].generation
    BY <1>4 DEF NextGeneration
  <2>2. CountsOn(s)
    BY <1>1, <1>2, <2>1 DEF CountsOn, Occupancy
  <2>3. Valid(s, p, occupancy[s].generation)
    <3>1. s \in RefereeSeat => s \notin Role /\ team[p] = "WhiteCell"
      BY SeatKinds DEF Acquire, MayHold, GrantsAreReferees
    <3> QED BY <1>4, <3>1 DEF Valid, Acquire, MayHold
  <2>4. ValidatesOnlyNew(s)
    <3> SUFFICES ASSUME NEW q \in Player, Valid(s, q, occupancy[s].generation)',
                        ~Valid(s, q, occupancy'[s].generation)
                 PROVE  FALSE
      BY DEF ValidatesOnlyNew
    <3>1. q = p /\ occupancy'[s].generation = occupancy[s].generation
      BY <1>2, <2>1 DEF Valid
    <3> QED BY <2>3, <3>1
  <2> QED BY <1>3, <2>2, <2>4
<1>5. CASE ~(occupancy[s].owner = p /\ InUse(s))
  <2>1. NextGeneration(s, p) > occupancy[s].generation
    BY <1>1, <1>5 DEF NextGeneration, Released, RanOut, Occupancy
  <2>2. occupancy'[s].generation > occupancy[s].generation
    BY <1>2, <2>1
  <2>3. CountsOn(s)
    BY <1>1, <2>1, <1>2 DEF CountsOn, Occupancy, NextGeneration, Released
  <2>4. ValidatesOnlyNew(s)
    BY <2>2 DEF ValidatesOnlyNew, Valid
  <2> QED BY <1>3, <2>3, <2>4
<1> QED BY <1>4, <1>5

LEMMA RenewIsSafe ==
  ASSUME IInv, NEW s \in Seat, NEW p \in Player, NEW g, Renew(s, p, g)
  PROVE  KeepsReservation(s) /\ CountsOn(s) /\ ValidatesOnlyNew(s)
<1> USE DEF IInv
<1>1. occupancy[s] \in Occupancy
  BY DEF TypeOK
<1>2. occupancy'[s].owner = occupancy[s].owner
      /\ occupancy'[s].generation = occupancy[s].generation
  BY <1>1 DEF Renew, TypeOK, Occupancy
<1>3. KeepsReservation(s) /\ CountsOn(s)
  BY <1>1, <1>2 DEF KeepsReservation, CountsOn, Occupancy
<1>4. ValidatesOnlyNew(s)
  <2> SUFFICES ASSUME NEW q \in Player, Valid(s, q, occupancy[s].generation)',
                      ~Valid(s, q, occupancy'[s].generation)
               PROVE  FALSE
    BY DEF ValidatesOnlyNew
  <2>1. q = p /\ occupancy'[s].generation = g
    BY <1>2 DEF Valid, Renew
  <2> QED BY <2>1 DEF Renew
<1> QED BY <1>3, <1>4

LEMMA StepIsSafe ==
  ASSUME IInv, IInv', [Next]_vars, NEW s \in Seat
  PROVE  KeepsReservation(s) /\ CountsOn(s) /\ ValidatesOnlyNew(s)
<1>1. CASE UNCHANGED vars
  BY <1>1, SameFades, FadingIsSafe DEF vars
<1>2. CASE Sessions
  BY <1>2, SameFades, VacatedFades, FadingIsSafe
     DEF Sessions, Join, SessionEnds, SignIn, SignOut
<1>3. CASE Tick
  <2>1. occupancy[s] \in Occupancy
    BY DEF IInv, TypeOK
  <2>2. CASE occupancy[s].left > 0
    <3>1. occupancy'[s] = [occupancy[s] EXCEPT !.left = occupancy[s].left - 1]
      BY <1>3, <2>2 DEF Tick
    <3>2. Fades(s)
      BY <2>1, <3>1, TimeFacts DEF Fades, Occupancy
    <3> QED BY <3>2, FadingIsSafe
  <2>3. CASE ~(occupancy[s].left > 0)
    BY <1>3, <2>3, SameFades, FadingIsSafe DEF Tick
  <2> QED BY <2>2, <2>3
<1>4. CASE Maintain
  BY <1>4, VacatedFades, FadingIsSafe DEF Maintain
<1>5. CASE Seats
  <2>1. PICK x \in Seat, p \in Player :
            \/ \E resume \in BOOLEAN : Acquire(x, p, resume)
            \/ ResumeTooLate(x, p)
            \/ \E g \in Tokens(x) : Renew(x, p, g) \/ ReleaseSeat(x, p, g)
    BY <1>5 DEF Seats
  <2>2. ASSUME NEW resume \in BOOLEAN, Acquire(x, p, resume)
        PROVE  KeepsReservation(s) /\ CountsOn(s) /\ ValidatesOnlyNew(s)
    <3>1. s # x => occupancy'[s] = occupancy[s]
      BY <2>2 DEF Acquire, IInv, TypeOK
    <3> QED BY <2>2, <3>1, AcquireIsSafe, SameFades, FadingIsSafe
  <2>3. ASSUME NEW g \in Tokens(x), Renew(x, p, g)
        PROVE  KeepsReservation(s) /\ CountsOn(s) /\ ValidatesOnlyNew(s)
    <3>1. s # x => occupancy'[s] = occupancy[s]
      BY <2>3 DEF Renew, IInv, TypeOK
    <3> QED BY <2>3, <3>1, RenewIsSafe, SameFades, FadingIsSafe
  <2>4. CASE ResumeTooLate(x, p)
    BY <2>4, VacatedFades, FadingIsSafe DEF ResumeTooLate
  <2>5. ASSUME NEW g \in Tokens(x), ReleaseSeat(x, p, g)
        PROVE  KeepsReservation(s) /\ CountsOn(s) /\ ValidatesOnlyNew(s)
    BY <2>5, VacatedFades, FadingIsSafe DEF ReleaseSeat
  <2> QED BY <2>1, <2>2, <2>3, <2>4, <2>5
<1>6. CASE Membership
  BY <1>6, SameFades, VacatedFades, FadingIsSafe
     DEF Membership, FormTeams, Remove, Assign, Move, Grant
<1>7. ASSUME NEW kept \in SUBSET Role, NEW sides \in [Role -> Side],
             NEW asked \in [Role -> {"Human", "AI", "Closed"}],
             UpdateAuthority(kept, sides, asked)
      PROVE  KeepsReservation(s) /\ CountsOn(s) /\ ValidatesOnlyNew(s)
  <2>1. occupancy[s] \in Occupancy
    BY DEF IInv, TypeOK
  <2>2. CASE s \in Role \ kept
    <3>1. occupancy'[s] = Vacant /\ roles' = kept
      BY <1>7, <2>2 DEF UpdateAuthority
    <3>2. KeepsReservation(s) /\ ValidatesOnlyNew(s)
      BY <3>1, NoneIsNobody DEF KeepsReservation, ValidatesOnlyNew, Valid, Vacant
    <3>3. occupancy[s].owner # None => s \in kept
      <4> SUFFICES ASSUME occupancy[s].owner # None PROVE s \in kept
        OBVIOUS
      <4>1. occupancy[s].owner \in Player
        BY <2>1 DEF Occupancy
      <4>2. s \in roles
        BY <2>2, <4>1 DEF IInv, OwnersAreEntitled
      <4> QED BY <1>7, <4>2 DEF UpdateAuthority, Protected
    <3>4. s \notin roles => occupancy[s].generation = 0
      BY <2>2 DEF IInv, RemovedRolesAreVacant, Vacant
    <3>5. CountsOn(s)
      BY <2>2, <3>1, <3>3, <3>4 DEF CountsOn, Vacant
    <3> QED BY <3>2, <3>5
  <2>3. CASE s \in kept /\ agent[s] = "AI"
    <3>1. occupancy'[s] = [occupancy[s] EXCEPT !.generation = occupancy[s].generation + 1]
      BY <1>7, <2>3 DEF UpdateAuthority
    <3>2. Fades(s)
      BY <2>1, <3>1 DEF Fades, Occupancy
    <3> QED BY <3>2, FadingIsSafe
  <2>4. CASE s \notin Role \/ (s \in kept /\ agent[s] # "AI")
    <3>1. occupancy'[s] = occupancy[s]
      BY <1>7, <2>4 DEF UpdateAuthority
    <3> QED BY <3>1, SameFades, FadingIsSafe
  <2> QED BY <2>2, <2>3, <2>4
<1>8. ASSUME NEW r \in Role, NEW mode \in {"Human", "AI"}, NEW by \in Player,
             Configure(r, mode, by)
      PROVE  KeepsReservation(s) /\ CountsOn(s) /\ ValidatesOnlyNew(s)
  <2>1. occupancy[r] \in Occupancy /\ r \in Seat
    BY SeatKinds DEF IInv, TypeOK
  <2>2. CASE s # r
    <3>1. occupancy'[s] = occupancy[s]
      BY <1>8, <2>2 DEF Configure, IInv, TypeOK
    <3> QED BY <3>1, SameFades, FadingIsSafe
  <2>3. CASE s = r
    <3> DEFINE freed == Released(occupancy[r])
    <3>1. freed \in Occupancy /\ freed.owner = None /\ freed.generation >= occupancy[r].generation
      BY <2>1, TimeFacts DEF Released, Occupancy
    <3>2. occupancy'[r] = [freed EXCEPT !.generation = freed.generation + 1]
      BY <1>8, <2>1 DEF Configure, IInv, TypeOK
    <3>3. Fades(s)
      BY <2>1, <2>3, <3>1, <3>2 DEF Fades, Occupancy
    <3> QED BY <3>3, FadingIsSafe
  <2> QED BY <2>2, <2>3
<1> QED BY <1>1, <1>2, <1>3, <1>4, <1>5, <1>6, <1>7, <1>8 DEF Next, Editing

\* Nobody takes a seat that is in use or reserved by another.
THEOREM NobodyTakesAReservedSeatHolds == Spec => NobodyTakesAReservedSeat
<1>1. IInv /\ IInv' /\ [Next]_vars => [\A s \in Seat : KeepsReservation(s)]_vars
  BY StepIsSafe
<1> QED BY <1>1, Invariance, PTL DEF Spec, NobodyTakesAReservedSeat

\* A lease token that stopped validating never validates again, unless the host
\* removes the very role it was for.
THEOREM DeadTokensStayDeadHolds == Spec => DeadTokensStayDead
<1>1. IInv /\ IInv' /\ [Next]_vars => [\A s \in Seat : CountsOn(s) /\ ValidatesOnlyNew(s)]_vars
  BY StepIsSafe
<1> QED BY <1>1, Invariance, PTL DEF Spec, DeadTokensStayDead

================================================================================
