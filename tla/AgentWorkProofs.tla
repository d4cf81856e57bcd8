--------------------------- MODULE AgentWorkProofs ---------------------------
(***************************************************************************)
(* Theorems about AgentWork and the teams it extends, for any players,     *)
(* roles, requests, decisions, timeouts, speeds and scenes.                *)
(***************************************************************************)
EXTENDS AgentWork, SequenceTheorems, TLAPS

\* A role that is handed to an agent outside has a token.
Credentialed == \A r \in Role : mode[r] = "External" => credential[r] \in Nat

\* Open work is the last observation of the role; it was handed to whoever holds
\* the role's token and was not taken back.
OpenIsLast ==
    \A r \in Role : work[r] # None =>
        /\ work[r].number = Len(observed[r]) /\ Len(observed[r]) > 0
        /\ observed[r][work[r].number].credential = credential[r]
        /\ <<r, work[r].number>> \notin closed

\* Only what was handed out is taken back.
ClosedWasHanded == \A w \in closed : w[2] \in 1..Len(observed[w[1]])

\* What was decided was handed out, and is not open any more.
DecidedWasHanded ==
    \A d \in DecisionId : decisions[d] # None =>
        LET q == decisions[d]
        IN  /\ q.number \in 1..Len(observed[q.role])
            /\ work[q.role] = None \/ work[q.role].number # q.number

Answers == Credentialed /\ OpenIsLast /\ ClosedWasHanded /\ DecidedWasHanded
              /\ AnswersAreTimely

\* What was read of the controls is what they were; in a game with teams, whoever is
\* out of date has read a smaller revision.
ReadBefore ==
    \A p \in Player : seen[p] # None =>
        /\ seen[p].revision <= revision
        /\ seen[p].formed => formed
        /\ seen[p].formed /\ seen[p].stale => seen[p].revision < revision

\* The next frame is not due before the last one but one is older than a period.
Paced ==
    /\ Len(frames) <= 3
    /\ frames # <<>> => due # None /\ frames[1] + due > 0
    /\ Len(frames) > 1 => frames[2] > Period \/ frames[2] + due > Period

IInv == TypeOK /\ Answers /\ ReadBefore /\ Paced /\ NoBurstOfFrames

--------------------------------------------------------------------------------
(* Teams: type correctness and admission.                                   *)

Status == {"Pending", "Approved", "Declined", "Cancelled"}

LEMMA HostFacts == Host \in Player /\ Side \in [Role -> {"Blue", "Red"}]
  BY TeamAssumption

LEMMA RequestFacts ==
    ASSUME PeopleTypeOK, NEW id \in Filed
    PROVE  /\ id \in RequestId /\ request[id] \in TeamRequest
           /\ request[id].player \in Player /\ request[id].team \in Team
           /\ request[id].status \in Status
  BY DEF PeopleTypeOK, Filed, TeamRequest, Status

LEMMA AssignType ==
    ASSUME PeopleTypeOK, NEW p \in Player, NEW t \in Team, Assign(p, t)
    PROVE  /\ team' \in [Player -> Team \cup {None}] /\ formed' \in BOOLEAN
           /\ owner' \in [Role -> Player \cup {None}] /\ referee' \in [Player -> Seat]
  <1>1. CASE team[p] = t
    BY <1>1 DEF Assign, PeopleTypeOK
  <1>2. CASE team[p] # t
    BY <1>2 DEF Assign, PeopleTypeOK, Released, Seat
  <1>. QED  BY <1>1, <1>2

LEMMA PeopleStepType ==
    ASSUME PeopleTypeOK, People \/ Seats
    PROVE  PeopleTypeOK'
  <1>1. ASSUME NEW p \in Player, Join(p)
        PROVE  PeopleTypeOK'
    BY <1>1 DEF Join, PeopleTypeOK
  <1>2. ASSUME NEW p \in Player, NEW r \in Role, Take(p, r)
        PROVE  PeopleTypeOK'
    BY <1>2, HostFacts DEF Take, PeopleTypeOK, Team
  <1>3. ASSUME NEW p \in Player, Sit(p) \/ Fade(p)
        PROVE  PeopleTypeOK'
    BY <1>3 DEF Sit, Fade, PeopleTypeOK, Seat
  <1>4. ASSUME NEW p \in Player, Vacate(p)
        PROVE  PeopleTypeOK'
    BY <1>4 DEF Vacate, Released, PeopleTypeOK, Seat
  <1>5. ASSUME NEW p \in Player, NEW id \in RequestId, NEW t \in Team, Request(p, id, t)
        PROVE  PeopleTypeOK'
    <2>1. /\ team' \in [Player -> Team \cup {None}] /\ formed' \in BOOLEAN
          /\ owner' \in [Role -> Player \cup {None}] /\ referee' \in [Player -> Seat]
      BY <1>5, AssignType DEF Request, PeopleTypeOK
    <2>2. [player |-> p, team |-> t,
           status |-> IF Immediate(p, t) THEN "Approved" ELSE "Pending",
           by     |-> IF Immediate(p, t) THEN p ELSE None] \in TeamRequest
      BY DEF TeamRequest
    <2>3. request' \in [RequestId -> TeamRequest \cup {None}]
      BY <1>5, <2>2 DEF Request, PeopleTypeOK
    <2>. QED  BY <1>5, <2>1, <2>3 DEF Request, PeopleTypeOK
  <1>6. ASSUME NEW p \in Player, NEW id \in RequestId, NEW approve \in BOOLEAN,
               Decide(p, id, approve)
        PROVE  PeopleTypeOK'
    <2>1. id \in Filed
      BY <1>6 DEF Decide
    <2>2. /\ team' \in [Player -> Team \cup {None}] /\ formed' \in BOOLEAN
          /\ owner' \in [Role -> Player \cup {None}] /\ referee' \in [Player -> Seat]
      BY <1>6, <2>1, AssignType, RequestFacts DEF Decide, PeopleTypeOK
    <2>3. [request[id] EXCEPT !.status = IF approve THEN "Approved" ELSE "Declined",
                              !.by = p] \in TeamRequest
      BY <2>1, RequestFacts DEF TeamRequest
    <2>4. request' = [request EXCEPT ![id] =
              [request[id] EXCEPT !.status = IF approve THEN "Approved" ELSE "Declined",
                                  !.by = p]]
      BY <1>6 DEF Decide, PeopleTypeOK
    <2>5. request' \in [RequestId -> TeamRequest \cup {None}]
      BY <2>3, <2>4 DEF PeopleTypeOK
    <2>. QED  BY <1>6, <2>2, <2>5 DEF Decide, PeopleTypeOK
  <1>7. ASSUME NEW p \in Player, NEW id \in RequestId, Cancel(p, id)
        PROVE  PeopleTypeOK'
    <2>1. id \in Filed
      BY <1>7 DEF Cancel, PendingOf
    <2>2. [request[id] EXCEPT !.status = "Cancelled"] \in TeamRequest
      BY <2>1, RequestFacts DEF TeamRequest
    <2>3. request' \in [RequestId -> TeamRequest \cup {None}]
      BY <1>7, <2>2 DEF Cancel, PeopleTypeOK
    <2>. QED  BY <1>7, <2>3 DEF Cancel, PeopleTypeOK
  <1>8. ASSUME NEW by \in Player, NEW p \in Player, Remove(by, p)
        PROVE  PeopleTypeOK'
    <2>1. Withdrawn(p) \in [RequestId -> TeamRequest \cup {None}]
      <3>1. ASSUME NEW id \in PendingOf(p)
            PROVE  [request[id] EXCEPT !.status = "Cancelled"] \in TeamRequest
        BY RequestFacts DEF PendingOf, TeamRequest
      <3>. QED  BY <3>1 DEF Withdrawn, PeopleTypeOK
    <2>. QED  BY <1>8, <2>1 DEF Remove, Released, PeopleTypeOK, Seat
  <1>. QED  BY <1>1, <1>2, <1>3, <1>4, <1>5, <1>6, <1>7, <1>8 DEF People, Seats

\* Nobody comes into a team on their own word, and what was decided stays.
LEMMA PeopleAdmission ==
    ASSUME PeopleTypeOK, People \/ Seats
    PROVE  AdmissionIsVouched /\ DecidedOnce
  <1>1. ASSUME NEW p \in Player, Join(p) \/ Sit(p) \/ Fade(p) \/ Vacate(p)
        PROVE  AdmissionIsVouched /\ DecidedOnce
    BY <1>1 DEF Join, Sit, Fade, Vacate, AdmissionIsVouched, DecidedOnce
  <1>2. ASSUME NEW p \in Player, NEW r \in Role, Take(p, r)
        PROVE  AdmissionIsVouched /\ DecidedOnce
    <2>1. ASSUME NEW q \in Player, team'[q] # team[q]
          PROVE  FirstJoin(q)
      <3>1. q = p /\ team'[q] = Side[r]
        BY <1>2, <2>1 DEF Take, PeopleTypeOK
      <3>2. team[p] = None /\ p \notin former
        BY <1>2, <2>1, <3>1 DEF Take, Barred
      <3>. QED  BY <3>1, <3>2, HostFacts DEF FirstJoin
    <2>. QED  BY <1>2, <2>1 DEF Take, AdmissionIsVouched, DecidedOnce
  <1>3. ASSUME NEW p \in Player, NEW id \in RequestId, NEW t \in Team, Request(p, id, t)
        PROVE  AdmissionIsVouched /\ DecidedOnce
    <2>1. ASSUME NEW q \in Player \ {Host}, team'[q] # team[q]
          PROVE  FirstJoin(q)
      <3>1. Immediate(p, t) /\ Assign(p, t)
        BY <1>3, <2>1 DEF Request
      <3>2. q = p /\ team'[q] = t
        BY <2>1, <3>1 DEF Assign, PeopleTypeOK
      <3>. QED  BY <2>1, <3>1, <3>2 DEF Immediate, FirstJoin
    <2>2. DecidedOnce
      BY <1>3 DEF Request, DecidedOnce, Filed, PeopleTypeOK
    <2>. QED  BY <2>1, <2>2 DEF AdmissionIsVouched
  <1>4. ASSUME NEW by \in Player, NEW id \in RequestId, NEW approve \in BOOLEAN,
               Decide(by, id, approve)
        PROVE  AdmissionIsVouched /\ DecidedOnce
    <2>. DEFINE q == request[id].player
    <2>1. id \in Filed /\ q \in Player
      BY <1>4, RequestFacts DEF Decide
    <2>2. ASSUME NEW p \in Player \ {Host}, team'[p] # team[p]
          PROVE  Vouched(p)
      <3>1. approve /\ Assign(q, request[id].team)
        BY <1>4, <2>2 DEF Decide
      <3>2. p = q /\ team'[p] = request[id].team
        BY <2>1, <2>2, <3>1 DEF Assign, PeopleTypeOK
      <3>3. by # p
        BY <1>4, <2>2, <3>2 DEF Decide, MayDecide
      <3>4. request'[id].status = "Approved" /\ request'[id].by = by
        BY <1>4, <2>1, <3>1, RequestFacts DEF Decide, PeopleTypeOK, TeamRequest
      <3>5. id \in PendingOf(p)
        BY <1>4, <2>1, <3>2 DEF Decide, Undecided, PendingOf
      <3>. QED  BY <1>4, <3>2, <3>3, <3>4, <3>5 DEF Decide, MayDecide, Vouched
    <2>3. DecidedOnce
      BY <1>4, <2>1 DEF Decide, Undecided, DecidedOnce, Filed, PeopleTypeOK
    <2>. QED  BY <2>2, <2>3 DEF AdmissionIsVouched
  <1>5. ASSUME NEW p \in Player, NEW id \in RequestId, Cancel(p, id)
        PROVE  AdmissionIsVouched /\ DecidedOnce
    BY <1>5 DEF Cancel, PendingOf, AdmissionIsVouched, DecidedOnce, Filed, PeopleTypeOK
  <1>6. ASSUME NEW by \in Player, NEW p \in Player, Remove(by, p)
        PROVE  AdmissionIsVouched /\ DecidedOnce
    <2>1. AdmissionIsVouched
      BY <1>6 DEF Remove, AdmissionIsVouched, PeopleTypeOK
    <2>2. DecidedOnce
      BY <1>6 DEF Remove, Withdrawn, PendingOf, DecidedOnce, Filed, PeopleTypeOK
    <2>. QED  BY <2>1, <2>2
  <1>. QED  BY <1>1, <1>2, <1>3, <1>4, <1>5, <1>6 DEF People, Seats

--------------------------------------------------------------------------------
(* The game: type correctness.                                              *)

LEMMA BoundFacts ==
    /\ Period \in Nat \ {0} /\ Timeout \in Nat \ {0} /\ WorkEvery \in Nat \ {0}
    /\ 1 \in Scale /\ None \notin Int
  BY WorkAssumption

\* What the actions of AgentWork leave of the teams to change.
LEMMA PeopleTypeFrame ==
    ASSUME PeopleTypeOK, UNCHANGED <<members, formed, team, former, request, referee>>,
           revision' \in Nat, owner' \in [Role -> Player \cup {None}],
           mode' \in [Role -> {"Human", "Deterministic", "External"}]
    PROVE  PeopleTypeOK'
  BY DEF PeopleTypeOK

\* The ages of frames: the newest three are kept.
LEMMA NextFrames ==
    ASSUME TypeOK, Frame
    PROVE  /\ frames' \in Seq(0..Period + 1) /\ Len(frames') <= 3
           /\ Len(frames') = (IF Len(frames) < 2 THEN Len(frames) ELSE 2) + 1
           /\ frames'[1] = 0
           /\ \A i \in 1..Len(frames') : i > 1 => frames'[i] = frames[i - 1]
  <1>. DEFINE k == IF Len(frames) < 2 THEN Len(frames) ELSE 2
  <1>. DEFINE kept == SubSeq(frames, 1, k)
  <1>. DEFINE S == 0..Period + 1
  <1>1. frames \in Seq(S) /\ 0 \in S
    BY BoundFacts DEF TypeOK
  <1>2. k \in Nat /\ k <= Len(frames) /\ k <= 2
    BY <1>1, LenProperties
  <1>3. \A i \in 1..k : frames[i] \in S
    <2>. HIDE DEF k, S
    <2>1. Len(frames) \in Nat /\ \A i \in 1..Len(frames) : frames[i] \in S
      BY <1>1, ElementOfSeq, LenProperties
    <2>. QED  BY <1>2, <2>1
  <1>4. /\ kept \in Seq(S) /\ Len(kept) = k
        /\ \A i \in 1..k : kept[i] = frames[i]
    BY <1>2, <1>3, SubSeqProperties
  <1>5. <<0>> \in Seq(S) /\ Len(<<0>>) = 1 /\ <<0>>[1] = 0
    BY <1>1
  <1>6. frames' = <<0>> \o kept
    BY DEF Frame
  <1>. HIDE DEF kept, k, S
  <1>7. /\ frames' \in Seq(S) /\ Len(frames') = 1 + k
        /\ \A i \in 1..1 + k : frames'[i] = IF i <= 1 THEN <<0>>[i] ELSE kept[i - 1]
    BY <1>4, <1>5, <1>6, ConcatProperties
  <1>8. frames'[1] = 0
    BY <1>2, <1>5, <1>7
  <1>9. \A i \in 1..Len(frames') : i > 1 => frames'[i] = frames[i - 1]
    BY <1>2, <1>4, <1>7
  <1>10. Len(frames') = k + 1 /\ Len(frames') <= 3
    BY <1>2, <1>7
  <1>. QED  BY <1>7, <1>8, <1>9, <1>10 DEF k, S

\* Frames grow older; what is older than a period is not told apart.
LEMMA OlderFrames ==
    ASSUME TypeOK, Elapse
    PROVE  /\ frames' \in Seq(0..Period + 1) /\ Len(frames') = Len(frames)
           /\ \A i \in 1..Len(frames) :
                 frames'[i] = IF frames[i] <= Period THEN frames[i] + 1 ELSE frames[i]
  <1>1. /\ frames \in Seq(0..Period + 1) /\ Len(frames) \in Nat
        /\ DOMAIN frames = 1..Len(frames)
        /\ \A i \in 1..Len(frames) : frames[i] \in 0..Period + 1
    BY LenProperties, ElementOfSeq DEF TypeOK
  <1>2. frames' = [i \in 1..Len(frames) |->
                       IF frames[i] <= Period THEN frames[i] + 1 ELSE frames[i]]
    BY <1>1 DEF Elapse
  <1>3. frames' \in [1..Len(frames) -> 0..Period + 1]
    BY <1>1, <1>2, BoundFacts
  <1>4. frames' \in Seq(0..Period + 1)
    BY <1>1, <1>3, SeqDef
  <1>5. Len(frames') = Len(frames)
    BY <1>1, <1>3, <1>4, LenProperties
  <1>. QED  BY <1>2, <1>4, <1>5

LEMMA NextDueType ==
    ASSUME TypeOK, Frame
    PROVE  /\ NextDue \in 1..Period
           /\ due = None => NextDue = Period
           /\ due # None => due \in -Period..0 /\ NextDue \in {Period, due + Period}
  <1>1. Period \in Nat /\ Period >= 1
    BY BoundFacts
  <1>2. due \in -Period..Period \/ due = None
    BY DEF TypeOK
  <1>3. CASE due = None
    BY <1>1, <1>3 DEF NextDue
  <1>4. CASE due # None
    <2>1. due \in Int /\ -Period <= due /\ due <= 0
      BY <1>1, <1>2, <1>4 DEF Frame
    <2>2. CASE due + Period > 0
      <3>1. NextDue = due + Period
        BY <1>4, <2>2 DEF NextDue
      <3>2. due + Period \in 1..Period
        BY <1>1, <2>1, <2>2
      <3>. QED  BY <1>4, <2>1, <3>1, <3>2
    <2>3. CASE ~(due + Period > 0)
      BY <1>1, <1>4, <2>1, <2>3 DEF NextDue
    <2>. QED  BY <2>2, <2>3
  <1>. QED  BY <1>3, <1>4

\* Handing out work.
LEMMA AdvanceFacts ==
    ASSUME TypeOK, Credentialed, ~over, Advance
    PROVE  /\ observed' \in [Role -> Seq(Observation)]
           /\ \A r \in Role :
                 /\ ~Hands(r) => observed'[r] = observed[r]
                 /\ Hands(r) =>
                       /\ Len(observed'[r]) = Len(observed[r]) + 1
                       /\ observed'[r][Len(observed[r]) + 1].credential = credential[r]
                 /\ \A n \in 1..Len(observed[r]) : observed'[r][n] = observed[r][n]
           /\ \A r \in Role : Len(observed[r]) \in Nat /\ Len(observed'[r]) \in Nat
           /\ work' \in [Role -> Work \cup {None}]
           /\ since' \in [Role -> 0..WorkEvery \cup {None}]
  <1>. DEFINE o(r) == [generation |-> generation[r], credential |-> credential[r]]
  <1>1. \A r \in Role : observed[r] \in Seq(Observation) /\ Len(observed[r]) \in Nat
    BY LenProperties DEF TypeOK
  <1>2. \A r \in Role : Hands(r) => o(r) \in Observation
    BY DEF Hands, Credentialed, TypeOK, Observation
  <1>3. observed' = [r \in Role |-> IF Hands(r) THEN Append(observed[r], o(r))
                                    ELSE observed[r]]
    BY DEF Advance
  <1>4. ASSUME NEW r \in Role
        PROVE  /\ observed'[r] \in Seq(Observation) /\ Len(observed'[r]) \in Nat
               /\ ~Hands(r) => observed'[r] = observed[r]
               /\ Hands(r) =>
                     /\ Len(observed'[r]) = Len(observed[r]) + 1
                     /\ observed'[r][Len(observed[r]) + 1].credential = credential[r]
               /\ \A n \in 1..Len(observed[r]) : observed'[r][n] = observed[r][n]
    <2>1. CASE Hands(r)
      <3>1. observed'[r] = Append(observed[r], o(r)) /\ o(r) \in Observation
        BY <1>2, <1>3, <2>1
      <3>2. o(r).credential = credential[r]
        OBVIOUS
      <3>. HIDE DEF o
      <3>. QED  BY <1>1, <2>1, <3>1, <3>2, AppendProperties, LenProperties
    <2>2. CASE ~Hands(r)
      BY <1>1, <1>3, <2>2
    <2>. QED  BY <2>1, <2>2
  <1>5. observed' \in [Role -> Seq(Observation)]
    BY <1>3, <1>4
  <1>6. work' \in [Role -> Work \cup {None}]
    <2>1. ASSUME NEW r \in Role, Hands(r)
          PROVE  [number |-> Len(observed'[r]), left |-> Timeout] \in Work
      BY <1>4, BoundFacts DEF Work
    <2>2. work' = [r \in Role |->
                IF Hands(r) THEN [number |-> Len(observed'[r]), left |-> Timeout]
                ELSE IF TimedOut(r) THEN None ELSE work[r]]
      BY DEF Advance
    <2>3. \A r \in Role : work'[r] \in Work \cup {None}
      BY <2>1, <2>2 DEF TypeOK
    <2>. QED  BY <2>2, <2>3
  <1>7. since' \in [Role -> 0..WorkEvery \cup {None}]
    <2>1. since' = [r \in Role |-> IF Hands(r) THEN 0 ELSE since[r]]
      BY DEF Advance
    <2>2. 0 \in 0..WorkEvery
      BY BoundFacts
    <2>3. \A r \in Role : since'[r] \in 0..WorkEvery \cup {None}
      BY <2>1, <2>2 DEF TypeOK
    <2>. QED  BY <2>1, <2>3
  <1>. QED  BY <1>1, <1>4, <1>5, <1>6, <1>7

LEMMA OpenWorkType == TypeOK => OpenWork \subseteq Role \X Nat
  BY DEF OpenWork, TypeOK, Work

LEMMA InitTypeOK == Init => TypeOK
  <1>. SUFFICES ASSUME Init
                PROVE  TypeOK
    OBVIOUS
  <1>1. PeopleTypeOK
    BY HostFacts DEF Init, PeopleInit, PeopleTypeOK, Seat
  <1>2. <<>> \in Seq(Observation) /\ <<>> \in Seq(0..Period + 1)
    BY EmptySeq
  <1>. QED  BY <1>1, <1>2, BoundFacts DEF Init, NoWork, TypeOK

\* The steps of the game beside those of People and Seats.
GameStep == Managing \/ Agent \/ Server

LEMMA NextCases ==
    ASSUME Next
    PROVE  \/ (People \/ Seats) /\ UNCHANGED <<clock, agents, game, seen>>
           \/ GameStep
  BY DEF Next, GameStep

LEMMA NextTypeOK == TypeOK /\ Credentialed /\ [Next]_vars => TypeOK'
  <1>. SUFFICES ASSUME TypeOK, Credentialed, [Next]_vars
                PROVE  TypeOK'
    OBVIOUS
  <1>. USE BoundFacts
  <1>0. OpenWork \subseteq Role \X Nat
    BY OpenWorkType
  <1>1. CASE (People \/ Seats) /\ UNCHANGED <<clock, agents, game, seen>>
    BY <1>1, PeopleStepType DEF TypeOK, clock, agents, game
  <1>2. ASSUME NEW p \in Player, Read(p)
        PROVE  TypeOK'
    <2>1. [revision |-> revision, formed |-> formed, stale |-> FALSE] \in View
      BY DEF TypeOK, PeopleTypeOK, View
    <2>. QED  BY <1>2, <2>1 DEF Read, TypeOK, PeopleTypeOK, people, clock, agents, game
  <1>3. /\ revision \in Nat /\ Counted \in Nat
        /\ owner \in [Role -> Player \cup {None}]
        /\ mode \in [Role -> {"Human", "Deterministic", "External"}]
    BY DEF TypeOK, PeopleTypeOK, Counted
  <1>4. \A p \in Player : Overtaken(p) \in [Player -> View \cup {None}]
    BY DEF TypeOK, Overtaken, View
  <1>5. ASSUME Invalidated
        PROVE  /\ work' \in [Role -> Work \cup {None}]
               /\ since' \in [Role -> 0..WorkEvery \cup {None}]
    BY <1>5 DEF Invalidated, NoWork
  <1>6. ASSUME Reset
        PROVE  due' \in -Period..Period \cup {None} /\ frames' \in Seq(0..Period + 1)
    BY <1>6, EmptySeq DEF Reset
  <1>7. ASSUME NEW p \in Player, NEW s \in {"Running", "Paused"}, SetStatus(p, s)
        PROVE  TypeOK'
    <2>1. PeopleTypeOK'
      BY <1>3, <1>7, PeopleTypeFrame DEF SetStatus, TypeOK
    <2>. QED  BY <1>0, <1>4, <1>5, <1>6, <1>7, <2>1 DEF SetStatus, TypeOK
  <1>8. ASSUME NEW p \in Player, NEW x \in Scale, SetScale(p, x)
        PROVE  TypeOK'
    <2>1. PeopleTypeOK'
      BY <1>3, <1>8, PeopleTypeFrame DEF SetScale, TypeOK
    <2>. QED  BY <1>4, <1>6, <1>8, <2>1 DEF SetScale, TypeOK, agents
  <1>9. ASSUME NEW p \in Player, NEW r \in Role,
               NEW m \in {"Human", "Deterministic", "External"}, Configure(p, r, m)
        PROVE  TypeOK'
    <2>1. PeopleTypeOK'
      BY <1>3, <1>9, PeopleTypeFrame DEF Configure, TypeOK
    <2>2. generation' \in [Role -> Nat] /\ generation'[r] \in Nat
      BY <1>9 DEF Configure, TypeOK
    <2>3. credential' \in [Role -> Nat \cup {None}]
      BY <1>9, <2>2 DEF Configure, TypeOK
    <2>4. closed' \subseteq Role \X Nat
      BY <1>0, <1>9 DEF Configure, TypeOK
    <2>. QED  BY <1>4, <1>9, <2>1, <2>2, <2>3, <2>4 DEF Configure, TypeOK, clock, game
  <1>10. CASE AuthorityChanged
    <2>1. generation' \in [Role -> Nat]
      BY <1>10 DEF AuthorityChanged, TypeOK
    <2>2. PeopleTypeOK'
      BY <1>10 DEF AuthorityChanged, TypeOK, people, PeopleTypeOK
    <2>. QED  BY <1>0, <1>5, <1>10, <2>1, <2>2 DEF AuthorityChanged, TypeOK, clock, game
  <1>11. CASE Restart
    <2>1. PeopleTypeOK'
      BY <1>11 DEF Restart, TypeOK, people, PeopleTypeOK
    <2>. QED  BY <1>0, <1>5, <1>6, <1>11, <2>1 DEF Restart, TypeOK
  <1>12. CASE Frame
    <2>1. PeopleTypeOK'
      BY <1>12 DEF Frame, TypeOK, people, PeopleTypeOK
    <2>2. due' \in -Period..Period \cup {None}
      <3>1. due' = NextDue
        BY <1>12 DEF Frame
      <3>. QED  BY <1>12, <3>1, NextDueType
    <2>3. /\ observed' \in [Role -> Seq(Observation)] /\ fallback' \in [Role -> BOOLEAN]
          /\ work' \in [Role -> Work \cup {None}]
          /\ since' \in [Role -> 0..WorkEvery \cup {None}]
          /\ closed' \subseteq Role \X Nat
      <3>1. CASE over
        BY <1>0, <1>5, <1>12, <3>1 DEF Frame, Advance, TypeOK
      <3>2. CASE ~over
        <4>0. /\ fallback' = [r \in Role |-> fallback[r] \/ TimedOut(r)]
              /\ closed' = closed \cup {<<r, work[r].number>> : r \in {x \in Role : TimedOut(x)}}
          BY ONLY <1>12, <3>2 DEF Frame, Advance
        <4>1. fallback' \in [Role -> BOOLEAN]
          <5>1. \A r \in Role : (fallback[r] \/ TimedOut(r)) \in BOOLEAN
            OBVIOUS
          <5>. QED  BY ONLY <4>0, <5>1
        <4>2. closed' \subseteq Role \X Nat
          <5>1. ASSUME NEW r \in Role, TimedOut(r) PROVE work[r].number \in Nat
            BY <5>1 DEF TypeOK, TimedOut, Work
          <5>2. closed \subseteq Role \X Nat
            BY DEF TypeOK
          <5>. QED  BY ONLY <4>0, <5>1, <5>2
        <4>. QED  BY <1>12, <3>2, <4>1, <4>2, AdvanceFacts DEF Frame
      <3>. QED  BY <3>1, <3>2
    <2>4. status' \in {"Running", "Paused"} /\ over' \in BOOLEAN
      BY <1>12 DEF Frame, TypeOK
    <2>. QED  BY <1>12, <2>1, <2>2, <2>3, <2>4, NextFrames DEF Frame, TypeOK
  <1>13. CASE Second
    <2>1. PeopleTypeOK'
      BY <1>13 DEF Second, TypeOK, people, PeopleTypeOK
    <2>2. since' \in [Role -> 0..WorkEvery \cup {None}]
      BY <1>13 DEF Second, TypeOK
    <2>. QED  BY <1>13, <2>1, <2>2 DEF Second, TypeOK, clock, game
  <1>14. CASE Elapse
    <2>1. PeopleTypeOK'
      BY <1>14 DEF Elapse, TypeOK, people, PeopleTypeOK
    <2>2. due' \in -Period..Period \cup {None}
      <3>1. CASE due = None \/ due = -Period
        BY <1>14, <3>1 DEF Elapse, TypeOK
      <3>2. CASE due # None /\ due # -Period
        <4>1. due \in -Period..Period /\ due' = due - 1
          BY <1>14, <3>2 DEF Elapse, TypeOK
        <4>. QED  BY <3>2, <4>1
      <3>. QED  BY <3>1, <3>2
    <2>3. work' \in [Role -> Work \cup {None}]
      <3>1. ASSUME NEW r \in Role, work[r] # None, work[r].left > 0
            PROVE  [work[r] EXCEPT !.left = @ - 1] \in Work
        <4>1. work[r] \in [number : Nat, left : 0..Timeout]
          BY <3>1 DEF TypeOK, Work
        <4>2. work[r].left - 1 \in 0..Timeout
          BY <3>1, <4>1
        <4>. QED  BY <4>1, <4>2 DEF Work
      <3>. QED  BY <1>14, <3>1 DEF Elapse, TypeOK
    <2>. QED  BY <1>14, <2>1, <2>2, <2>3, OlderFrames DEF Elapse, TypeOK, game
  <1>15. ASSUME NEW r \in Role, NEW d \in DecisionId, NEW n \in DOMAIN observed[r],
                NEW k \in 0..generation[r], AgentDecides(r, k, n, d)
         PROVE  TypeOK'
    <2>1. PeopleTypeOK'
      BY <1>15 DEF AgentDecides, TypeOK, people, PeopleTypeOK
    <2>2. [role |-> r, number |-> n, credential |-> k] \in Stored
      <3>1. n \in Nat
        BY LenProperties DEF TypeOK
      <3>2. k \in Nat
        BY DEF TypeOK
      <3>. QED  BY <3>1, <3>2 DEF Stored
    <2>3. decisions' \in [DecisionId -> Stored \cup {None}]
      BY <1>15, <2>2 DEF AgentDecides, TypeOK
    <2>. QED  BY <1>15, <2>1, <2>3 DEF AgentDecides, TypeOK, clock, game
  <1>16. CASE UNCHANGED vars
    BY <1>16 DEF vars, TypeOK, PeopleTypeOK, people, clock, agents, game
  <1>17. CASE GameStep
    BY <1>2, <1>7, <1>8, <1>9, <1>10, <1>11, <1>12, <1>13, <1>14, <1>15, <1>17
       DEF GameStep, Managing, Agent, Server
  <1>. QED  BY <1>1, <1>16, <1>17, NextCases

--------------------------------------------------------------------------------
(* Answers: what is decided was open, for who decides it.                   *)

LEMMA AnswersInit == Init => Answers
  BY DEF Init, Answers, Credentialed, OpenIsLast, ClosedWasHanded, DecidedWasHanded,
         AnswersAreTimely, NoWork

\* All that the answers are about.
held == <<mode, credential, work, decisions, observed, closed>>

LEMMA AnswersStay ==
    ASSUME Answers, UNCHANGED held
    PROVE  Answers'
  BY DEF Answers, Credentialed, OpenIsLast, ClosedWasHanded, DecidedWasHanded,
         AnswersAreTimely, held

LEMMA OpenWorkFacts ==
    ASSUME TypeOK, Answers, NEW w \in OpenWork
    PROVE  /\ w[1] \in Role /\ work[w[1]] # None /\ w = <<w[1], work[w[1]].number>>
           /\ w[2] = work[w[1]].number /\ w[2] \in 1..Len(observed[w[1]])
  <1>1. PICK r \in Role : work[r] # None /\ w = <<r, work[r].number>>
    BY DEF OpenWork
  <1>2. Len(observed[r]) \in Nat
    BY LenProperties DEF TypeOK
  <1>. QED  BY <1>1, <1>2 DEF Answers, OpenIsLast

\* Work is taken back where it is closed: by a pause, an edit, a reassignment, a
\* restart or the end of the game, in any roles.
LEMMA TakenBack ==
    ASSUME TypeOK, Answers, NEW R \in SUBSET Role,
           UNCHANGED <<decisions, observed>>,
           \A r \in Role : work'[r] = IF r \in R THEN None ELSE work[r],
           \A r \in Role \ R : credential'[r] = credential[r],
           closed' = closed \cup {w \in OpenWork : w[1] \in R},
           Credentialed'
    PROVE  Answers'
  <1>1. OpenIsLast'
    <2>1. ASSUME NEW r \in Role, work'[r] # None
          PROVE  <<r, work'[r].number>> \notin closed'
      <3>1. r \notin R /\ work'[r] = work[r]
        BY <2>1
      <3>. QED  BY <2>1, <3>1 DEF Answers, OpenIsLast
    <2>. QED  BY <2>1 DEF Answers, OpenIsLast
  <1>2. ClosedWasHanded'
    BY OpenWorkFacts DEF Answers, ClosedWasHanded
  <1>3. DecidedWasHanded'
    <2>1. ASSUME NEW d \in DecisionId, decisions[d] # None
          PROVE  LET q == decisions[d]
                 IN  /\ q.number \in 1..Len(observed[q.role])
                     /\ work'[q.role] = None \/ work'[q.role].number # q.number
      <3>1. decisions[d].role \in Role
        BY <2>1 DEF TypeOK, Stored
      <3>. QED  BY <2>1, <3>1 DEF Answers, DecidedWasHanded
    <2>. QED  BY <2>1 DEF DecidedWasHanded
  <1>4. AnswersAreTimely'
    <2>1. ASSUME NEW d \in DecisionId, decisions[d] # None
          PROVE  <<decisions[d].role, decisions[d].number>> \notin closed'
      <3>1. <<decisions[d].role, decisions[d].number>> \notin OpenWork
        BY <2>1 DEF OpenWork, Answers, DecidedWasHanded
      <3>. QED  BY <2>1, <3>1 DEF Answers, AnswersAreTimely
    <2>. QED  BY <2>1 DEF Answers, AnswersAreTimely
  <1>. QED  BY <1>1, <1>2, <1>3, <1>4 DEF Answers

LEMMA AllTakenBack ==
    ASSUME TypeOK, Answers, Invalidated, closed' = closed \cup OpenWork,
           UNCHANGED <<decisions, observed, credential, mode>>
    PROVE  Answers'
  <1>1. \A r \in Role : work'[r] = None
    BY DEF Invalidated, NoWork
  <1>2. {w \in OpenWork : w[1] \in Role} = OpenWork
    BY OpenWorkFacts
  <1>3. Credentialed'
    BY DEF Answers, Credentialed
  <1>. QED  BY <1>1, <1>2, <1>3, TakenBack

\* A frame closes what timed out and hands out the next observation.
LEMMA AdvanceAnswers ==
    ASSUME TypeOK, Answers, ~over, Advance, UNCHANGED <<mode, credential, decisions>>
    PROVE  Answers'
  <1>. DEFINE out == {<<r, work[r].number>> : r \in {x \in Role : TimedOut(x)}}
  <1>1. /\ closed' = closed \cup out
        /\ work' = [r \in Role |->
                IF Hands(r) THEN [number |-> Len(observed'[r]), left |-> Timeout]
                ELSE IF TimedOut(r) THEN None ELSE work[r]]
    BY DEF Advance
  <1>2. Credentialed
    BY DEF Answers
  <1>3. \A r \in Role :
           /\ Len(observed[r]) \in Nat /\ Len(observed'[r]) \in Nat
           /\ ~Hands(r) => observed'[r] = observed[r]
           /\ Hands(r) =>
                 /\ Len(observed'[r]) = Len(observed[r]) + 1
                 /\ observed'[r][Len(observed[r]) + 1].credential = credential[r]
           /\ \A n \in 1..Len(observed[r]) : observed'[r][n] = observed[r][n]
    BY <1>2, AdvanceFacts
  <1>4. \A w \in out : /\ w[1] \in Role /\ TimedOut(w[1]) /\ w[2] = work[w[1]].number
                       /\ w \in OpenWork /\ w[2] \in 1..Len(observed[w[1]])
    <2>1. ASSUME NEW r \in Role, TimedOut(r)
          PROVE  <<r, work[r].number>> \in OpenWork
      BY <2>1 DEF TimedOut, OpenWork
    <2>2. \A w \in out : w[1] \in Role /\ TimedOut(w[1]) /\ w[2] = work[w[1]].number
                         /\ w \in OpenWork
      BY <2>1
    <2>. HIDE DEF out
    <2>. QED  BY <2>2, OpenWorkFacts
  <1>. HIDE DEF out
  <1>5. Credentialed'
    BY <1>2 DEF Credentialed
  <1>6. OpenIsLast'
    <2>1. ASSUME NEW r \in Role, work'[r] # None
          PROVE  /\ work'[r].number = Len(observed'[r]) /\ Len(observed'[r]) > 0
                 /\ observed'[r][work'[r].number].credential = credential'[r]
                 /\ <<r, work'[r].number>> \notin closed'
      <3>1. CASE Hands(r)
        <4>1. work'[r].number = Len(observed[r]) + 1 /\ work'[r].number = Len(observed'[r])
          BY <1>1, <1>3, <3>1
        <4>2. <<r, work'[r].number>> \notin closed
          BY <1>3, <4>1 DEF Answers, ClosedWasHanded
        <4>3. <<r, work'[r].number>> \notin out
          BY <1>3, <1>4, <4>1
        <4>. QED  BY <1>1, <1>3, <3>1, <4>1, <4>2, <4>3
      <3>2. CASE ~Hands(r)
        <4>1. work'[r] = work[r] /\ ~TimedOut(r)
          BY <1>1, <2>1, <3>2
        <4>2. <<r, work[r].number>> \notin out
          BY <1>4, <4>1
        <4>3. observed'[r] = observed[r]
          BY <1>3, <3>2
        <4>4. /\ work[r].number = Len(observed[r]) /\ Len(observed[r]) > 0
              /\ observed[r][work[r].number].credential = credential[r]
              /\ <<r, work[r].number>> \notin closed
          BY <2>1, <4>1 DEF Answers, OpenIsLast
        <4>. QED  BY <1>1, <4>1, <4>2, <4>3, <4>4
      <3>. QED  BY <3>1, <3>2
    <2>. QED  BY <2>1 DEF OpenIsLast
  <1>7. ClosedWasHanded'
    <2>1. ASSUME NEW w \in closed'
          PROVE  w[2] \in 1..Len(observed'[w[1]])
      <3>1. w[1] \in Role /\ w[2] \in 1..Len(observed[w[1]])
        BY <1>1, <1>4 DEF Answers, ClosedWasHanded, TypeOK
      <3>2. Len(observed'[w[1]]) >= Len(observed[w[1]])
        BY <1>3, <3>1
      <3>. QED  BY <1>3, <3>1, <3>2
    <2>. QED  BY <2>1 DEF ClosedWasHanded
  <1>8. ASSUME NEW d \in DecisionId, decisions[d] # None
        PROVE  /\ decisions[d].role \in Role
               /\ decisions[d].number \in 1..Len(observed[decisions[d].role])
               /\ \/ work[decisions[d].role] = None
                  \/ work[decisions[d].role].number # decisions[d].number
               /\ <<decisions[d].role, decisions[d].number>> \notin out
    <2>1. decisions[d].role \in Role
      BY <1>8 DEF TypeOK, Stored
    <2>2. /\ decisions[d].number \in 1..Len(observed[decisions[d].role])
          /\ \/ work[decisions[d].role] = None
             \/ work[decisions[d].role].number # decisions[d].number
      BY <1>8 DEF Answers, DecidedWasHanded
    <2>3. <<decisions[d].role, decisions[d].number>> \notin out
      BY <1>4, <2>2 DEF TimedOut
    <2>. QED  BY <2>1, <2>2, <2>3
  <1>9. DecidedWasHanded'
    <2>1. ASSUME NEW d \in DecisionId, decisions[d] # None
          PROVE  LET q == decisions[d]
                 IN  /\ q.number \in 1..Len(observed'[q.role])
                     /\ work'[q.role] = None \/ work'[q.role].number # q.number
      <3>. DEFINE r == decisions[d].role
      <3>1. /\ r \in Role /\ decisions[d].number \in 1..Len(observed[r])
            /\ work[r] = None \/ work[r].number # decisions[d].number
        BY <1>8, <2>1
      <3>2. Len(observed'[r]) >= Len(observed[r])
        BY <1>3, <3>1
      <3>3. decisions[d].number \in 1..Len(observed'[r])
        BY <1>3, <3>1, <3>2
      <3>4. work'[r] = None \/ work'[r].number # decisions[d].number
        <4>1. CASE Hands(r)
          BY <1>1, <1>3, <3>1, <4>1
        <4>2. CASE ~Hands(r)
          BY <1>1, <3>1, <4>2
        <4>. QED  BY <4>1, <4>2
      <3>. QED  BY <3>3, <3>4
    <2>. QED  BY <2>1 DEF DecidedWasHanded
  <1>10. AnswersAreTimely'
    <2>1. ASSUME NEW d \in DecisionId, decisions[d] # None
          PROVE  LET q == decisions[d]
                 IN  /\ observed'[q.role][q.number].credential = q.credential
                     /\ <<q.role, q.number>> \notin closed'
                     /\ \A e \in DecisionId \ {d} :
                            decisions[e] = None \/ decisions[e].role # q.role
                                               \/ decisions[e].number # q.number
      <3>1. /\ observed[decisions[d].role][decisions[d].number].credential
                   = decisions[d].credential
            /\ <<decisions[d].role, decisions[d].number>> \notin closed
            /\ \A e \in DecisionId \ {d} :
                   decisions[e] = None \/ decisions[e].role # decisions[d].role
                                      \/ decisions[e].number # decisions[d].number
        BY <2>1 DEF Answers, AnswersAreTimely
      <3>. QED  BY <1>1, <1>3, <1>8, <2>1, <3>1
    <2>. QED  BY <2>1 DEF AnswersAreTimely
  <1>. QED  BY <1>5, <1>6, <1>7, <1>9, <1>10 DEF Answers

LEMMA DecideAnswers ==
    ASSUME TypeOK, Answers, NEW r \in Role, NEW d \in DecisionId,
           NEW n \in DOMAIN observed[r], NEW k \in 0..generation[r], AgentDecides(r, k, n, d)
    PROVE  Answers'
  <1>. DEFINE new == [role |-> r, number |-> n, credential |-> k]
  <1>1. /\ work[r] # None /\ work[r].number = n /\ decisions[d] = None
        /\ credential[r] = k
        /\ decisions' = [decisions EXCEPT ![d] = new]
        /\ work' = [work EXCEPT ![r] = None]
        /\ UNCHANGED <<mode, credential, observed, closed>>
    BY DEF AgentDecides, Awaits
  <1>2. \A x \in Role : work'[x] = IF x = r THEN None ELSE work[x]
    BY <1>1 DEF TypeOK
  <1>3. /\ decisions'[d] = new
        /\ \A e \in DecisionId : e # d => decisions'[e] = decisions[e]
    BY <1>1 DEF TypeOK
  <1>4. new.role = r /\ new.number = n /\ new.credential = k
    OBVIOUS
  <1>. HIDE DEF new
  <1>5. n \in 1..Len(observed[r])
    BY LenProperties DEF TypeOK
  <1>6. Credentialed' /\ ClosedWasHanded'
    BY <1>1 DEF Answers, Credentialed, ClosedWasHanded
  <1>7. OpenIsLast'
    BY <1>1, <1>2 DEF Answers, OpenIsLast
  <1>8. DecidedWasHanded'
    BY <1>1, <1>2, <1>3, <1>4, <1>5 DEF Answers, DecidedWasHanded
  <1>9. AnswersAreTimely'
    <2>1. observed[r][n].credential = k /\ <<r, n>> \notin closed
      BY <1>1 DEF Answers, OpenIsLast
    <2>2. \A e \in DecisionId : decisions[e] # None =>
              decisions[e].role # r \/ decisions[e].number # n
      BY <1>1 DEF Answers, DecidedWasHanded
    <2>. QED  BY <1>1, <1>3, <1>4, <2>1, <2>2 DEF Answers, AnswersAreTimely
  <1>. QED  BY <1>6, <1>7, <1>8, <1>9 DEF Answers

LEMMA AnswersNext == TypeOK /\ Answers /\ [Next]_vars => Answers'
  <1>. SUFFICES ASSUME TypeOK, Answers, [Next]_vars
                PROVE  Answers'
    OBVIOUS
  <1>1. CASE (People \/ Seats) /\ UNCHANGED <<clock, agents, game, seen>>
    <2>1. ASSUME People PROVE UNCHANGED mode
      <3>1. PICK p \in Player :
                \/ Join(p) \/ Sit(p) \/ Fade(p) \/ Vacate(p)
                \/ \E id \in RequestId :
                      \/ Cancel(p, id)
                      \/ \E t \in Team : Request(p, id, t)
                      \/ \E approve \in BOOLEAN : Decide(p, id, approve)
                \/ \E q \in Player : Remove(p, q)
        BY <2>1 DEF People
      <3>2. CASE Join(p) \/ Sit(p) \/ Fade(p) \/ Vacate(p)
        BY ONLY <3>2 DEF Join, Sit, Fade, Vacate
      <3>3. ASSUME NEW id \in RequestId, Cancel(p, id) PROVE UNCHANGED mode
        BY ONLY <3>3 DEF Cancel
      <3>4. ASSUME NEW id \in RequestId, NEW t \in Team, Request(p, id, t)
            PROVE  UNCHANGED mode
        BY ONLY <3>4 DEF Request
      <3>5. ASSUME NEW id \in RequestId, NEW approve \in BOOLEAN, Decide(p, id, approve)
            PROVE  UNCHANGED mode
        BY ONLY <3>5 DEF Decide
      <3>6. ASSUME NEW q \in Player, Remove(p, q) PROVE UNCHANGED mode
        BY ONLY <3>6 DEF Remove
      <3>. QED  BY ONLY <3>1, <3>2, <3>3, <3>4, <3>5, <3>6
    <2>2. ASSUME Seats PROVE UNCHANGED mode
      <3>1. PICK p \in Player, r \in Role : Take(p, r)
        BY <2>2 DEF Seats
      <3>. QED  BY ONLY <3>1 DEF Take
    <2>. QED  BY <1>1, <2>1, <2>2, AnswersStay DEF held, agents
  <1>2. ASSUME NEW p \in Player, Read(p)
        PROVE  Answers'
    BY <1>2, AnswersStay DEF Read, held, agents
  <1>3. ASSUME NEW p \in Player, NEW s \in {"Running", "Paused"}, SetStatus(p, s)
        PROVE  Answers'
    BY <1>3, AllTakenBack DEF SetStatus
  <1>4. ASSUME NEW p \in Player, NEW x \in Scale, SetScale(p, x)
        PROVE  Answers'
    BY <1>4, AnswersStay DEF SetScale, held, agents
  <1>5. ASSUME NEW p \in Player, NEW r \in Role,
               NEW m \in {"Human", "Deterministic", "External"}, Configure(p, r, m)
        PROVE  Answers'
    <2>1. \A x \in Role : work'[x] = IF x \in {r} THEN None ELSE work[x]
      BY <1>5 DEF Configure, TypeOK
    <2>2. \A x \in Role \ {r} : credential'[x] = credential[x]
      BY <1>5 DEF Configure, TypeOK
    <2>3. closed' = closed \cup {w \in OpenWork : w[1] \in {r}}
      BY <1>5 DEF Configure
    <2>4. Credentialed'
      <3>1. generation'[r] \in Nat
        BY <1>5 DEF Configure, TypeOK
      <3>2. \A x \in Role : mode'[x] = "External" => credential'[x] \in Nat
        BY <1>5, <3>1 DEF Configure, TypeOK, PeopleTypeOK, Answers, Credentialed
      <3>. QED  BY <3>2 DEF Credentialed
    <2>5. UNCHANGED <<decisions, observed>>
      BY <1>5 DEF Configure
    <2>. QED  BY <2>1, <2>2, <2>3, <2>4, <2>5, TakenBack
  <1>6. CASE AuthorityChanged
    BY <1>6, AllTakenBack DEF AuthorityChanged
  <1>7. CASE Restart
    BY <1>7, AllTakenBack DEF Restart
  <1>8. CASE Frame
    <2>1. Advance /\ UNCHANGED <<mode, credential, decisions>>
      BY <1>8 DEF Frame
    <2>2. CASE over
      BY <2>1, <2>2, AllTakenBack DEF Advance
    <2>3. CASE ~over
      BY <2>1, <2>3, AdvanceAnswers
    <2>. QED  BY <2>2, <2>3
  <1>9. CASE Second
    BY <1>9, AnswersStay DEF Second, held
  <1>10. CASE Elapse
    <2>1. \A r \in Role : /\ work[r] = None => work'[r] = None
                          /\ work[r] # None => work'[r].number = work[r].number
      <3>1. ASSUME NEW r \in Role
            PROVE  \/ work'[r] = work[r]
                   \/ /\ work[r] # None
                      /\ work'[r] = [work[r] EXCEPT !.left = @ - 1]
        BY <1>10 DEF Elapse, TypeOK
      <3>2. ASSUME NEW r \in Role, work[r] # None
            PROVE  [work[r] EXCEPT !.left = @ - 1].number = work[r].number
        BY <3>2 DEF TypeOK, Work
      <3>. QED  BY <3>1, <3>2
    <2>2. UNCHANGED <<mode, credential, decisions, observed, closed>>
      BY <1>10 DEF Elapse
    <2>3. OpenIsLast'
      BY <2>1, <2>2 DEF Answers, OpenIsLast
    <2>4. DecidedWasHanded'
      <3>1. \A d \in DecisionId : decisions[d] # None => decisions[d].role \in Role
        BY DEF TypeOK, Stored
      <3>. QED  BY <2>1, <2>2, <3>1 DEF Answers, DecidedWasHanded
    <2>5. Credentialed' /\ ClosedWasHanded' /\ AnswersAreTimely'
      BY <2>2 DEF Answers, Credentialed, ClosedWasHanded, AnswersAreTimely
    <2>. QED  BY <2>3, <2>4, <2>5 DEF Answers
  <1>11. ASSUME NEW r \in Role, NEW d \in DecisionId, NEW n \in DOMAIN observed[r],
                NEW k \in 0..generation[r], AgentDecides(r, k, n, d)
         PROVE  Answers'
    BY <1>11, DecideAnswers
  <1>12. CASE UNCHANGED vars
    BY <1>12, AnswersStay DEF vars, held, agents
  <1>13. CASE GameStep
    BY <1>2, <1>3, <1>4, <1>5, <1>6, <1>7, <1>8, <1>9, <1>10, <1>11, <1>13
       DEF GameStep, Managing, Agent, Server
  <1>. QED  BY <1>1, <1>12, <1>13, NextCases

--------------------------------------------------------------------------------
(* Controls: a revision that was read tells whether it is out of date.      *)

LEMMA ReadBeforeInit == Init => ReadBefore
  BY DEF Init, ReadBefore

LEMMA CountedChange ==
    ASSUME TypeOK, ReadBefore, NEW p \in Player, revision' = Counted,
           seen' = Overtaken(p), UNCHANGED formed
    PROVE  ReadBefore'
  <1>1. revision \in Nat /\ formed \in BOOLEAN /\ (formed => revision' = revision + 1)
        /\ (~formed => revision' = revision)
    BY DEF Counted, TypeOK, PeopleTypeOK
  <1>2. ASSUME NEW q \in Player, seen'[q] # None
        PROVE  /\ seen[q] # None /\ seen[q].revision \in Nat
               /\ seen'[q].revision = seen[q].revision /\ seen'[q].formed = seen[q].formed
    <2>1. seen[q] # None /\ seen[q] \in View
      BY <1>2 DEF Overtaken, TypeOK
    <2>2. seen'[q] = seen[q] \/ seen'[q] = [seen[q] EXCEPT !.stale = TRUE]
      BY DEF Overtaken
    <2>. QED  BY <2>1, <2>2 DEF View
  <1>3. ASSUME NEW q \in Player, seen'[q] # None
        PROVE  /\ seen'[q].revision <= revision'
               /\ seen'[q].formed => formed'
               /\ seen'[q].formed /\ seen'[q].stale => seen'[q].revision < revision'
    <2>1. /\ seen[q].revision <= revision
          /\ seen[q].formed => formed
      BY <1>2, <1>3 DEF ReadBefore
    <2>. QED  BY <1>1, <1>2, <1>3, <2>1
  <1>. QED  BY <1>3 DEF ReadBefore

LEMMA ReadBeforeNext == TypeOK /\ ReadBefore /\ [Next]_vars => ReadBefore'
  <1>. SUFFICES ASSUME TypeOK, ReadBefore, [Next]_vars
                PROVE  ReadBefore'
    OBVIOUS
  <1>1. ASSUME UNCHANGED <<seen, revision>>, formed => formed'
        PROVE  ReadBefore'
    BY <1>1 DEF ReadBefore
  <1>2. CASE (People \/ Seats) /\ UNCHANGED <<clock, agents, game, seen>>
    <2>1. UNCHANGED revision /\ (formed => formed')
      <3>1. ASSUME NEW p \in Player, NEW id \in RequestId, NEW approve \in BOOLEAN,
                   Decide(p, id, approve)
            PROVE  UNCHANGED revision /\ (formed => formed')
        BY <3>1 DEF Decide, Assign
      <3>2. ASSUME NEW p \in Player, NEW id \in RequestId, NEW t \in Team, Request(p, id, t)
            PROVE  UNCHANGED revision /\ (formed => formed')
        BY <3>2 DEF Request
      <3>3. ASSUME NEW p \in Player, NEW r \in Role, Take(p, r)
            PROVE  UNCHANGED revision /\ (formed => formed')
        BY <3>3 DEF Take
      <3>4. ASSUME NEW p \in Player, NEW id \in RequestId, Cancel(p, id)
            PROVE  UNCHANGED <<revision, formed>>
        BY <3>4 DEF Cancel
      <3>5. ASSUME NEW p \in Player, NEW q \in Player,
                   Join(p) \/ Sit(p) \/ Fade(p) \/ Vacate(p) \/ Remove(p, q)
            PROVE  UNCHANGED <<revision, formed>>
        BY <3>5 DEF Join, Sit, Fade, Vacate, Remove
      <3>. QED  BY <1>2, <3>1, <3>2, <3>3, <3>4, <3>5 DEF People, Seats
    <2>. QED  BY <1>1, <1>2, <2>1
  <1>3. ASSUME NEW p \in Player, Read(p)
        PROVE  ReadBefore'
    <2>1. revision \in Nat /\ revision' = revision /\ formed' = formed
      BY <1>3 DEF Read, TypeOK, PeopleTypeOK, people
    <2>2. \A q \in Player : seen'[q] = IF q = p
              THEN [revision |-> revision, formed |-> formed, stale |-> FALSE] ELSE seen[q]
      BY <1>3 DEF Read, TypeOK
    <2>. QED  BY <2>1, <2>2 DEF ReadBefore
  <1>4. ASSUME NEW p \in Player, NEW s \in {"Running", "Paused"}, SetStatus(p, s)
        PROVE  ReadBefore'
    BY <1>4, CountedChange DEF SetStatus
  <1>5. ASSUME NEW p \in Player, NEW x \in Scale, SetScale(p, x)
        PROVE  ReadBefore'
    BY <1>5, CountedChange DEF SetScale
  <1>6. ASSUME NEW p \in Player, NEW r \in Role,
               NEW m \in {"Human", "Deterministic", "External"}, Configure(p, r, m)
        PROVE  ReadBefore'
    BY <1>6, CountedChange DEF Configure
  <1>7. CASE Agent \/ Server
    BY <1>1, <1>7 DEF Agent, Server, AgentDecides, Frame, Second, Elapse, AuthorityChanged,
                      Restart, people
  <1>8. CASE UNCHANGED vars
    BY <1>1, <1>8 DEF vars, people
  <1>9. CASE GameStep
    BY <1>3, <1>4, <1>5, <1>6, <1>7, <1>9 DEF GameStep, Managing
  <1>. QED  BY <1>2, <1>8, <1>9, NextCases

LEMMA ReadersKnow == TypeOK /\ ReadBefore => RevisionTellsChanges
  BY DEF TypeOK, PeopleTypeOK, ReadBefore, RevisionTellsChanges, View

--------------------------------------------------------------------------------
(* Frames.                                                                  *)

Timed == Paced /\ NoBurstOfFrames

LEMMA TimedInit == Init => Timed
  BY EmptySeq DEF Init, Timed, Paced, NoBurstOfFrames

LEMMA TimedAgain ==
    ASSUME Reset
    PROVE  Timed'
  <1>1. Len(frames') = 0 /\ frames' = <<>>
    BY EmptySeq DEF Reset
  <1>. QED  BY <1>1 DEF Timed, Paced, NoBurstOfFrames

LEMMA TimedNext == TypeOK /\ Timed /\ [Next]_vars => Timed'
  <1>. SUFFICES ASSUME TypeOK, Timed, [Next]_vars
                PROVE  Timed'
    OBVIOUS
  <1>1. /\ Len(frames) \in Nat /\ Len(frames) <= 3 /\ Period \in Nat /\ Period >= 1
        /\ \A i \in 1..Len(frames) : frames[i] \in 0..Period + 1
        /\ frames # <<>> <=> Len(frames) > 0
    BY LenProperties, ElementOfSeq, EmptySeq, BoundFacts DEF TypeOK, Timed, Paced
  <1>2. ASSUME UNCHANGED clock
        PROVE  Timed'
    BY <1>2 DEF clock, Timed, Paced, NoBurstOfFrames
  <1>3. CASE Frame
    <2>1. due' \in Int /\ due' > 0 /\ due' # None
      <3>1. due' = NextDue
        BY <1>3 DEF Frame
      <3>. QED  BY <1>3, <3>1, NextDueType, BoundFacts
    <2>2. /\ Len(frames') \in Nat /\ Len(frames') <= 3 /\ frames'[1] = 0
          /\ Len(frames') > 1 => Len(frames) > 0 /\ frames'[2] = frames[1]
          /\ Len(frames') = 3 => Len(frames) > 1 /\ frames'[3] = frames[2]
      <3>1. /\ Len(frames') = (IF Len(frames) < 2 THEN Len(frames) ELSE 2) + 1
            /\ frames'[1] = 0
            /\ \A i \in 1..Len(frames') : i > 1 => frames'[i] = frames[i - 1]
        BY <1>3, NextFrames
      <3>2. Len(frames') \in 1..3
        BY <1>1, <3>1
      <3>3. Len(frames') > 1 => Len(frames) > 0 /\ frames'[2] = frames[2 - 1]
        BY <1>1, <3>1, <3>2
      <3>4. Len(frames') = 3 => Len(frames) > 1 /\ frames'[3] = frames[3 - 1]
        BY <1>1, <3>1, <3>2
      <3>. QED  BY <3>1, <3>2, <3>3, <3>4
    <2>3. ASSUME Len(frames) > 0
          PROVE  /\ due \in -Period..0 /\ frames[1] + due > 0
                 /\ due' = Period \/ due' = due + Period
      <3>1. due # None /\ frames[1] + due > 0
        BY <1>1, <2>3 DEF Timed, Paced
      <3>2. due' = NextDue
        BY <1>3 DEF Frame
      <3>. QED  BY <1>3, <3>1, <3>2, NextDueType
    <2>4. Len(frames') > 1 => frames'[2] > Period \/ frames'[2] + due' > Period
      BY <1>1, <2>2, <2>3
    <2>5. Len(frames') = 3 => frames'[3] > Period
      <3>1. ASSUME Len(frames) > 1
            PROVE  frames[2] > Period
        <4>1. frames[2] > Period \/ frames[2] + due > Period
          BY <3>1 DEF Timed, Paced
        <4>2. frames[2] \in 0..Period + 1
          BY <1>1, <3>1
        <4>. QED  BY <1>1, <2>3, <3>1, <4>1, <4>2
      <3>. QED  BY <2>2, <3>1
    <2>6. Paced'
      <3>1. due' # None /\ frames'[1] + due' > 0
        <4>1. frames'[1] = 0
          BY <2>2
        <4>2. ASSUME NEW d \in Int, d > 0
              PROVE  0 + d > 0
          BY <4>2
        <4>. QED  BY <2>1, <4>1, <4>2
      <3>2. Len(frames') <= 3
        BY <2>2
      <3>. QED  BY <2>4, <3>1, <3>2 DEF Paced
    <2>7. NoBurstOfFrames'
      BY <2>5 DEF NoBurstOfFrames
    <2>. QED  BY <2>6, <2>7 DEF Timed
  <1>4. CASE Elapse
    <2>1. /\ Len(frames') = Len(frames)
          /\ \A i \in 1..Len(frames) :
                frames'[i] = IF frames[i] <= Period THEN frames[i] + 1 ELSE frames[i]
          /\ frames' # <<>> => Len(frames) > 0
      BY <1>4, OlderFrames, EmptySeq
    <2>2. ASSUME Len(frames) > 0
          PROVE  /\ due # None /\ due' # None /\ due' \in -Period..Period
                 /\ due \in -Period..Period /\ frames[1] + due > 0
                 /\ due' = due - 1 \/ (due' = due /\ due = -Period)
      <3>1. due # None /\ frames[1] + due > 0 /\ due \in -Period..Period
        BY <1>1, <2>2 DEF Timed, Paced, TypeOK
      <3>2. due' = IF due = -Period THEN due ELSE due - 1
        BY <1>4, <3>1 DEF Elapse
      <3>. QED  BY <1>1, <3>1, <3>2, BoundFacts
    <2>3. Paced'
      <3>1. ASSUME Len(frames) > 0
            PROVE  frames'[1] + due' > 0
        BY <1>1, <2>1, <2>2, <3>1
      <3>2. ASSUME Len(frames) > 1
            PROVE  frames'[2] > Period \/ frames'[2] + due' > Period
        <4>1. frames[2] > Period \/ frames[2] + due > Period
          BY <3>2 DEF Timed, Paced
        <4>. QED  BY <1>1, <2>1, <2>2, <3>2, <4>1
      <3>. QED  BY <1>1, <2>1, <2>2, <3>1, <3>2 DEF Paced
    <2>4. NoBurstOfFrames'
      BY <1>1, <2>1 DEF NoBurstOfFrames
    <2>. QED  BY <2>3, <2>4 DEF Timed
  <1>5. ASSUME NEW p \in Player, Read(p)
        PROVE  Timed'
    BY <1>2, <1>5 DEF Read
  <1>6. ASSUME NEW p \in Player, NEW s \in {"Running", "Paused"}, SetStatus(p, s)
        PROVE  Timed'
    BY <1>6, TimedAgain DEF SetStatus
  <1>7. ASSUME NEW p \in Player, NEW x \in Scale, SetScale(p, x)
        PROVE  Timed'
    BY <1>7, TimedAgain DEF SetScale
  <1>8. ASSUME NEW p \in Player, NEW r \in Role,
               NEW m \in {"Human", "Deterministic", "External"}, Configure(p, r, m)
        PROVE  Timed'
    BY <1>2, <1>8 DEF Configure
  <1>9. CASE Restart
    BY <1>9, TimedAgain DEF Restart
  <1>10. CASE AuthorityChanged \/ Second \/ Agent
    BY <1>2, <1>10 DEF AuthorityChanged, Second, Agent, AgentDecides
  <1>11. CASE GameStep
    BY <1>3, <1>4, <1>5, <1>6, <1>7, <1>8, <1>9, <1>10, <1>11 DEF GameStep, Managing, Server
  <1>12. CASE UNCHANGED vars
    BY <1>2, <1>12 DEF vars
  <1>13. CASE (People \/ Seats) /\ UNCHANGED <<clock, agents, game, seen>>
    BY <1>2, <1>13
  <1>. QED  BY <1>11, <1>12, <1>13, NextCases

--------------------------------------------------------------------------------
(* The theorems.                                                            *)

LEMMA Invariance == Spec => []IInv
  <1>1. Init => IInv
    BY InitTypeOK, AnswersInit, ReadBeforeInit, TimedInit DEF IInv, Timed
  <1>2. IInv /\ [Next]_vars => IInv'
    BY NextTypeOK, AnswersNext, ReadBeforeNext, TimedNext DEF IInv, Timed, Answers
  <1>. QED  BY <1>1, <1>2, PTL DEF Spec

\* The people, their requests, the roles, the agents' work and the frame clock keep
\* their types.
THEOREM TypeCorrect == Spec => []TypeOK
  BY Invariance, PTL DEF IInv

\* Nobody comes into a team on their own word and no request is decided twice, while
\* roles go to agents and come back.
THEOREM AdmissionHolds == Spec => Admission
  <1>1. TypeOK /\ [Next]_vars => [AdmissionIsVouched /\ DecidedOnce]_vars
    <2>. SUFFICES ASSUME TypeOK, Next
                  PROVE  AdmissionIsVouched /\ DecidedOnce
      OBVIOUS
    <2>1. CASE People \/ Seats
      BY <2>1, PeopleAdmission DEF TypeOK
    <2>2. CASE GameStep
      <3>1. UNCHANGED <<team, request>>
        BY <2>2 DEF GameStep, Managing, Agent, Server, Read, SetStatus, SetScale, Configure,
                    AgentDecides, Frame, Second, Elapse, AuthorityChanged, Restart, people
      <3>. QED  BY <3>1 DEF AdmissionIsVouched, DecidedOnce
    <2>. QED  BY <2>1, <2>2, NextCases
  <1>. QED  BY <1>1, Invariance, PTL DEF IInv, Spec, Admission

\* A decision that was acted upon is the only one for its observation, from the agent
\* that observation was handed to, and before it timed out or was taken back.
THEOREM AnswersAreTimelyHolds == Spec => []AnswersAreTimely
  BY Invariance, PTL DEF IInv, Answers

\* In a game with teams, whoever states the current revision has read what everybody
\* did to the controls.
THEOREM RevisionTellsChangesHolds == Spec => []RevisionTellsChanges
  <1>1. IInv => RevisionTellsChanges
    BY ReadersKnow DEF IInv
  <1>. QED  BY <1>1, Invariance, PTL

\* Three frames of a game never fall within one period, however late the loop comes.
THEOREM NoBurstOfFramesHolds == Spec => []NoBurstOfFrames
  BY Invariance, PTL DEF IInv

==============================================================================
