------------------------------ MODULE AgentWork ------------------------------
(***************************************************************************)
(* A game under several managers, with external agents in some of its      *)
(* roles: crates/server/src/agents.rs, the game's status and speed in      *)
(* main.rs and game_clock.rs, and the frames of run_simulation_loop, over  *)
(* the teams of TeamAdmission.                                             *)
(*                                                                         *)
(* An agent outside the server is handed observations of its role, each    *)
(* with a deadline by the wall clock, and answers them with decisions.  If *)
(* it does not, the built-in policy takes over until it answers again.     *)
(* Every authority edit, reassignment, pause and restart takes open work   *)
(* back.  Decisions carry the generation and the observation they are for, *)
(* and come late, twice, or from an agent that lost its role.              *)
(*                                                                         *)
(* Wall-clock times are kept as what is left of them.                      *)
(***************************************************************************)
EXTENDS TeamAdmission, Integers, Sequences

CONSTANTS
    DecisionId,
    MaxWork,         \* bound: observations of a role
    Period,          \* wall-clock time between frames (1/60 second in the code)
    Timeout,         \* Connection::timeout_ms
    WorkEvery,       \* ticks between two observations (5 in the code)
    Scale,           \* the speeds a game can run at
    Scenes           \* bounds: who takes part, and how far the numbers go

ASSUME WorkAssumption ==
    /\ 1 \in Scale /\ None \notin Int
    /\ {Period, Timeout, WorkEvery, MaxWork} \subseteq Nat \ {0}
    /\ Scenes \subseteq [players : SUBSET Player, requests : SUBSET RequestId,
                         external : SUBSET Role,
                         acts : SUBSET {"teams", "seats", "views", "frames"},
                         revision : Nat, generation : Nat, work : 0..MaxWork]

VARIABLES
    status, over,    \* Running or not; mission_complete
    scale,           \* Game::time_scale
    due,             \* Scheduler::next, as the time left, or None
    generation,      \* Role::lease_generation = Connection::generation
    credential,      \* Connection::token_hash: the number of the token, or None
    fallback,        \* Connection::fallback
    work,            \* Connection::work
    since,           \* ticks since Connection::last_work_tick, or None
    decisions,       \* AgentState::decisions
    \* history
    observed,        \* [Role -> Seq]: every observation and who it was for
    closed,          \* observations that timed out or were taken back
    seen,            \* what each manager's client last read of the controls
    frames,          \* ages of the last three frames since a reset, newest first
    scene            \* bound: the scene of this behaviour

clock  == <<due, frames>>
agents == <<generation, credential, fallback, work, since, decisions, observed, closed>>
game   == <<status, over, scale>>
vars   == <<people, mode, clock, agents, game, seen, scene>>

Running == status = "Running"

Observation == [generation : Nat, credential : Nat]
Work        == [number : Nat, left : 0..Timeout]
Stored      == [role : Role, number : Nat, credential : Nat]
View        == [revision : Nat, formed : BOOLEAN, stale : BOOLEAN]

NoWork == [r \in Role |-> None]
OpenWork == {<<r, work[r].number>> : r \in {x \in Role : work[x] # None}}

LeftOpen == UNCHANGED work /\ since' = NoWork   \* mutant: open work stays open

\* agents::invalidate_work.
Invalidated == work' = NoWork /\ since' = NoWork

--------------------------------------------------------------------------------
(* Controls.                                                               *)

CountsNot == revision   \* mutant: the change is not counted

\* record_control: the revision counts once there are teams.
Counted == IF formed THEN revision + 1 ELSE revision

\* What everybody else read of the controls is out of date.
Overtaken(p) == [q \in Player |-> IF q = p \/ seen[q] = None THEN seen[q]
                                  ELSE [seen[q] EXCEPT !.stale = TRUE]]

\* teams::read, and the view that every team operation answers with.
Read(p) ==
    /\ p \in members
    /\ seen' = [seen EXCEPT ![p] = [revision |-> revision, formed |-> formed, stale |-> FALSE]]
    /\ UNCHANGED <<people, mode, clock, agents, game>>

\* teams::control: a client may say which revision it has read.
Controls(p) ==
    /\ CanManage(p)
    /\ seen[p] # None => seen[p].revision = revision

Reset == due' = None /\ frames' = <<>>

\* set_game_status: open work is taken back whichever way the status goes.
SetStatus(p, s) ==
    /\ Controls(p)
    /\ status # s
    /\ status' = s
    /\ revision' = Counted
    /\ seen' = Overtaken(p)
    /\ Invalidated /\ closed' = closed \cup OpenWork
    /\ Reset
    /\ UNCHANGED <<members, formed, team, former, request, owner, referee, mode,
                   over, scale, generation, credential, fallback, decisions, observed>>

\* game_clock::set_scale.
SetScale(p, x) ==
    /\ Controls(p)
    /\ scale # x
    /\ scale' = x
    /\ revision' = Counted
    /\ seen' = Overtaken(p)
    /\ Reset
    /\ UNCHANGED <<members, formed, team, former, request, owner, referee, mode,
                   status, over, agents>>

\* agents::configure: whoever sits in the role loses it; an old token is void.
Configure(by, r, m) ==
    /\ CanManage(by)
    /\ mode' = [mode EXCEPT ![r] = m]
    /\ owner' = [owner EXCEPT ![r] = None]
    /\ generation' = [generation EXCEPT ![r] = @ + 1]
    /\ credential' = [credential EXCEPT ![r] = IF m = "External" THEN generation'[r] ELSE None]
    /\ fallback' = [fallback EXCEPT ![r] = FALSE]
    /\ work' = [work EXCEPT ![r] = None]
    /\ since' = [since EXCEPT ![r] = None]
    /\ closed' = closed \cup {w \in OpenWork : w[1] = r}
    /\ revision' = Counted
    /\ seen' = Overtaken(by)
    /\ UNCHANGED <<members, formed, team, former, request, referee,
                   clock, game, decisions, observed>>

\* update_authority: agents::authority_changed.  Agents keep their token and get
\* a new generation.
AuthorityChanged ==
    /\ Invalidated /\ closed' = closed \cup OpenWork
    /\ generation' = [r \in Role |-> IF mode[r] = "Human" THEN generation[r]
                                     ELSE generation[r] + 1]
    /\ UNCHANGED <<people, mode, clock, game, seen, credential, fallback,
                   decisions, observed>>

\* recovery::load: the game comes back paused, without work and deadlines.
Restart ==
    /\ status' = "Paused"
    /\ Invalidated /\ closed' = closed \cup OpenWork
    /\ Reset
    /\ UNCHANGED <<people, mode, over, scale, generation, credential, fallback,
                   decisions, observed, seen>>

--------------------------------------------------------------------------------
(* Frames.                                                                 *)

IncurDebt == IF due = None THEN Period ELSE due + Period   \* mutant: missed frames are made up for

\* Scheduler::advanced_frame: frames keep their phase, and a late one leaves no
\* debt.
NextDue == IF due = None THEN Period
           ELSE IF due + Period > 0 THEN due + Period ELSE Period

OutWithNext(r) ==   \* mutant: looks at the deadline when the next work is due
    work[r] # None /\ work[r].left = 0 /\ since[r] = WorkEvery

TimedOut(r) == work[r] # None /\ work[r].left = 0

\* agents::advance hands out work to an external role that has none.
Hands(r) ==
    /\ mode[r] = "External"
    /\ work[r] = None \/ TimedOut(r)
    /\ IF since[r] = None THEN TRUE ELSE since[r] >= WorkEvery

Advance ==
    IF over THEN /\ Invalidated /\ closed' = closed \cup OpenWork
                 /\ UNCHANGED <<fallback, observed>>
    ELSE /\ fallback' = [r \in Role |-> fallback[r] \/ TimedOut(r)]
         /\ closed' = closed \cup {<<r, work[r].number>> : r \in {x \in Role : TimedOut(x)}}
         /\ observed' = [r \in Role |->
                IF Hands(r) THEN Append(observed[r], [generation |-> generation[r],
                                                      credential |-> credential[r]])
                ELSE observed[r]]
         /\ work' = [r \in Role |->
                IF Hands(r) THEN [number |-> Len(observed'[r]), left |-> Timeout]
                ELSE IF TimedOut(r) THEN None ELSE work[r]]
         /\ since' = [r \in Role |-> IF Hands(r) THEN 0 ELSE since[r]]

\* run_simulation_loop for this game: one frame when it is due.
Frame ==
    /\ Running
    /\ IF due = None THEN TRUE ELSE due <= 0
    /\ due' = NextDue
    /\ frames' = <<0>> \o SubSeq(frames, 1, IF Len(frames) < 2 THEN Len(frames) ELSE 2)
    /\ Advance
    /\ \/ UNCHANGED <<status, over>>
       \/ ~over /\ over' = TRUE /\ UNCHANGED status
       \/ over /\ status' = "Paused" /\ UNCHANGED over
    /\ UNCHANGED <<people, mode, scale, generation, credential, decisions, seen>>

\* The world's clock completes a second.
Second ==
    /\ Running /\ ~over
    /\ \E r \in Role : since[r] # None /\ since[r] < WorkEvery
    /\ since' = [r \in Role |-> IF since[r] # None /\ since[r] < WorkEvery
                                THEN since[r] + 1 ELSE since[r]]
    /\ UNCHANGED <<people, mode, clock, game, seen, generation, credential, fallback,
                   work, decisions, observed, closed>>

\* Wall-clock time goes by, also while the loop waits for the gate or a commit.
Elapse ==
    /\ due' = IF due = None \/ due = -Period THEN due ELSE due - 1
    /\ frames' = [i \in DOMAIN frames |-> IF frames[i] <= Period THEN frames[i] + 1
                                          ELSE frames[i]]
    /\ work' = [r \in Role |-> IF work[r] # None /\ work[r].left > 0
                               THEN [work[r] EXCEPT !.left = @ - 1] ELSE work[r]]
    /\ UNCHANGED <<people, mode, game, seen, generation, credential, fallback, since,
                   decisions, observed, closed>>

--------------------------------------------------------------------------------
(* Decisions.                                                              *)

Awaits(r, n) == work[r] # None /\ work[r].number = n /\ work[r].left > 0

\* decide, by whoever presents token k for an observation they were handed: a known
\* id is answered as before or refused, and so is whatever is not for the role's
\* generation and open observation, before its deadline.
AgentDecides(r, k, n, d) ==
    /\ mode[r] = "External" /\ credential[r] = k
    /\ observed[r][n].generation = generation[r]
    /\ decisions[d] = None
    /\ Running /\ ~over
    /\ Awaits(r, n)
    /\ decisions' = [decisions EXCEPT ![d] = [role |-> r, number |-> n, credential |-> k]]
    /\ work' = [work EXCEPT ![r] = None]
    /\ fallback' = [fallback EXCEPT ![r] = FALSE]
    /\ UNCHANGED <<people, mode, clock, game, seen, generation, credential, since,
                   observed, closed>>

--------------------------------------------------------------------------------
Init ==
    /\ PeopleInit
    /\ mode \in [Role -> {"Human", "Deterministic"}]
    /\ \A r \in Role : Side[r] = "Blue" => mode[r] = "Human"
    /\ status = "Paused" /\ over = FALSE
    /\ scale = 1
    /\ due = None /\ frames = <<>>
    /\ generation = [r \in Role |-> 0]
    /\ credential = NoWork /\ work = NoWork /\ since = NoWork
    /\ fallback = [r \in Role |-> FALSE]
    /\ decisions = [d \in DecisionId |-> None]
    /\ observed = [r \in Role |-> <<>>]
    /\ closed = {}
    /\ seen = [p \in Player |-> None]
    /\ scene \in Scenes

Managing ==
    \E p \in Player :
        \/ "views" \in scene.acts /\ Read(p)
        \/ /\ {"views", "frames"} \cap scene.acts # {}
           /\ \/ \E s \in {"Running", "Paused"} : SetStatus(p, s)
              \/ \E x \in Scale : SetScale(p, x)
        \/ \E r \in Role, m \in {"Human", "Deterministic", "External"} : Configure(p, r, m)

Agent ==
    \E r \in Role, d \in DecisionId :
        \E n \in DOMAIN observed[r], k \in 0..generation[r] : AgentDecides(r, k, n, d)

Server == Frame \/ Second \/ Elapse \/ AuthorityChanged \/ Restart

\* Bounds.
Within ==
    /\ members \subseteq scene.players
    /\ Filed \subseteq scene.requests
    /\ \A r \in Role : /\ mode[r] = "External" => r \in scene.external
                       /\ generation[r] <= scene.generation
                       /\ Len(observed[r]) <= scene.work
    /\ revision <= scene.revision

Next ==
    /\ \/ /\ \/ "teams" \in scene.acts /\ People
             \/ "seats" \in scene.acts /\ Seats
          /\ UNCHANGED <<clock, agents, game, seen>>
       \/ Managing
       \/ "frames" \in scene.acts /\ (Agent \/ Server)
    /\ UNCHANGED scene
    /\ Within'

\* The wall clock runs, and the simulation loop comes round.
Fairness ==
    /\ WF_vars("frames" \in scene.acts /\ Elapse /\ UNCHANGED scene)
    /\ WF_vars("frames" \in scene.acts /\ Frame /\ UNCHANGED scene)

Spec == Init /\ [][Next]_vars /\ Fairness

--------------------------------------------------------------------------------
(* Properties.                                                             *)

TypeOK ==
    /\ PeopleTypeOK
    /\ status \in {"Running", "Paused"} /\ over \in BOOLEAN /\ scale \in Scale
    /\ due \in -Period..Period \cup {None}
    /\ generation \in [Role -> Nat]
    /\ credential \in [Role -> Nat \cup {None}]
    /\ fallback \in [Role -> BOOLEAN]
    /\ work \in [Role -> Work \cup {None}]
    /\ since \in [Role -> 0..WorkEvery \cup {None}]
    /\ decisions \in [DecisionId -> Stored \cup {None}]
    /\ observed \in [Role -> Seq(Observation)]
    /\ closed \subseteq Role \X Nat
    /\ seen \in [Player -> View \cup {None}]
    /\ frames \in Seq(0..Period + 1)

\* Nobody comes into a team on their own word and no request is decided twice
\* (AdmissionIsVouched, DecidedOnce), while roles go to agents and come back.
Admission == [][AdmissionIsVouched /\ DecidedOnce]_vars

\* A decision that was acted upon is the only one for its observation, came from
\* the agent the observation was handed to, and before that observation timed out
\* or was taken back by a pause, an edit, a reassignment or a restart.
AnswersAreTimely ==
    \A d \in DecisionId : decisions[d] # None =>
        LET q == decisions[d]
        IN  /\ observed[q.role][q.number].credential = q.credential
            /\ <<q.role, q.number>> \notin closed
            /\ \A e \in DecisionId \ {d} :
                   decisions[e] = None \/ decisions[e].role # q.role
                                      \/ decisions[e].number # q.number

\* A client that states the revision it read controls nothing that somebody else
\* controlled since: in a game with teams the same revision means that nobody did.
RevisionTellsChanges ==
    \A p \in Player :
        seen[p] # None /\ seen[p].formed /\ seen[p].revision = revision => ~seen[p].stale

\* However late the loop comes round, and however its phase is kept, three frames
\* of a game never fall within one period: missed frames are not made up for.
NoBurstOfFrames ==
    Len(frames) = 3 /\ frames[1] = 0 => frames[3] > Period

\* An observation does not stay open: it is answered, times out into the built-in
\* policy, or is taken back.
WorkEnds ==
    \A r \in Role : \A n \in 1..MaxWork :
        [](<<r, n>> \in OpenWork => <>(<<r, n>> \notin OpenWork))
==============================================================================
