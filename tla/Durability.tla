---- MODULE Durability ----
(***************************************************************************)
(* Games in memory, their journal in PostgreSQL, and the boundary between  *)
(* the two: crates/server/src/recovery.rs, the commit of storage.rs and    *)
(* the simulation loop of main.rs.                                         *)
(*                                                                         *)
(* Every mutating request and every cycle of the simulation loop takes the *)
(* gate, keeps a backup of all games, changes memory, numbers and encodes  *)
(* what changed and commits it, with the change to the sessions, in one    *)
(* transaction.  Only then is the session cache changed and the client     *)
(* answered.  If the commit fails the backup becomes the memory again,     *)
(* paused, and the server refuses mutations until it is restarted; a       *)
(* commit whose connection breaks may have happened all the same.          *)
(*                                                                         *)
(* A step of this module is what happens between two points at which       *)
(* another task, another server, the database or a crash can interfere.    *)
(* Hashes are collision free, so an event stores the state itself.  The    *)
(* journal holds the events after the snapshot, all that recovery reads.   *)
(***************************************************************************)
EXTENDS GameStates

CONSTANTS
    Server,            \* processes configured with the same database
    CheckpointEvery,   \* 60 journal entries in the code
    Panics             \* whether handlers may panic half way

ASSUME ServerAssumption ==
    /\ CheckpointEvery \in Nat \ {0}
    /\ Panics \in BOOLEAN

VARIABLES
    \* the database
    snapshot,    \* [Game -> GameState]: the latest checkpoint
    journal,     \* [Game -> Seq(Event)]: the ticks recorded after it
    rows,        \* players with a row in browser_sessions
    \* the servers
    serving,     \* servers that have loaded and answer requests
    linked,      \* the server whose connection holds the advisory lock
    memory,      \* [Server -> [Game -> GameState]]
    cache,       \* [Server -> SUBSET Player]: Sessions::entries
    failed,      \* servers whose durability.failed is set
    stopping,    \* servers whose durability.stopping is set
    waiting,     \* authenticated requests queued at a gate
    gate,        \* what holds the gate
    loose,       \* servers where a panic freed the gate over changed memory
    \* the clients
    answered     \* what they were told about their orders

database == <<snapshot, journal, rows>>
process  == <<serving, linked, failed, stopping, loose>>
vars == <<database, process, memory, cache, waiting, gate, answered>>

Event  == [input : TickInput, state : GameState]
Answer == [game : Game, command : Command, frame : 0..MaxFrame]

\* A boundary in progress: memory holds its outcome, `touched' its games.
Games    == [Game -> GameState]
Boundary == [by     : Request \cup [kind : {"tick", "shutdown"}],
             before : Games,
             inputs : [Game -> TickInput],
             touched : SUBSET Game]
Free     == [by |-> [kind |-> "nobody"]]
NoRequest == [kind |-> "nobody"]

TypeOK ==
    /\ snapshot \in Games
    /\ journal \in [Game -> Seq(Event)]
    /\ rows \subseteq Player
    /\ serving \subseteq Server
    /\ linked \subseteq Server
    /\ memory \in [Server -> Games]
    /\ cache \in [Server -> SUBSET Player]
    /\ failed \subseteq Server
    /\ stopping \subseteq Server
    /\ waiting \in [Server -> Request \cup {NoRequest}]
    /\ gate \in [Server -> Boundary \cup {Free}]
    /\ loose \subseteq Server
    /\ answered \subseteq Answer

\* The state at the head of the journal: games.current_sha256.
Latest(g) == IF journal[g] = <<>> THEN snapshot[g]
           ELSE journal[g][Len(journal[g])].state

NoGames == [g \in Game |-> NoGame]

Init ==
    /\ snapshot = NoGames
    /\ journal = [g \in Game |-> <<>>]
    /\ rows = {}
    /\ serving = {} /\ linked = {} /\ failed = {} /\ stopping = {} /\ loose = {}
    /\ memory = [s \in Server |-> NoGames]
    /\ cache = [s \in Server |-> {}]
    /\ waiting = [s \in Server |-> NoRequest]
    /\ gate = [s \in Server |-> Free]
    /\ answered = {}

-----------------------------------------------------------------------------
(* Boundaries.                                                             *)

\* The gate is free and the server takes mutations.
Open(s) == s \in serving /\ gate[s] = Free /\ s \notin failed /\ s \notin stopping

\* Boundary::new numbers the games that changed.
Numbered(games, touched) ==
    [g \in Game |-> IF g \in touched
                    THEN [games[g] EXCEPT !.sequence = games[g].sequence + 1]
                    ELSE games[g]]

Differing(before, after) == {g \in Game : after[g] # before[g]}

\* The handler's change stays in memory while its commit is on the way.
Hold(s, by, after, inputs, touched) ==
    /\ \A g \in touched : memory[s][g].sequence < MaxSequence
    /\ memory' = [memory EXCEPT ![s] = Numbered(after, touched)]
    /\ gate' = [gate EXCEPT ![s] = [by |-> by, before |-> memory[s],
                                    inputs |-> inputs, touched |-> touched]]

\* auth::guard copies the session before the request queues at the gate.
\* Bound: one request queues at a time, beside the one that holds the gate.
Arrive(s, r) ==
    /\ s \in serving
    /\ \A t \in Server : waiting[t] = NoRequest
    /\ Credentials(r) \subseteq cache[s]
    /\ waiting' = [waiting EXCEPT ![s] = r]
    /\ UNCHANGED <<database, process, memory, cache, gate, answered>>

\* The games that go into the boundary of a request.  A repeated order leaves
\* an audit record, so its game is journaled although it did not change.
TouchedWhenChanged(s, r) ==   \* mutant: a repeated order leaves no record
    Differing(memory[s], Handled(r, memory[s]))

Touched(s, r) ==
    Differing(memory[s], Handled(r, memory[s]))
        \cup (IF Known(r, memory[s]) THEN {r.game} ELSE {})

ValidOnArrival(s, r) == TRUE   \* mutant: no second look at the session

\* The session may have ended while the request waited.
StillValid(s, r) == Credentials(r) \subseteq cache[s]

\* The request whose turn it is, and that its handler accepts.
Taken(s, r) ==
    /\ r = waiting[s]
    /\ r # NoRequest
    /\ Open(s)
    /\ StillValid(s, r)
    /\ Accepts(r, memory[s])

NeedsCommit(s, r) == Touched(s, r) # {} \/ r.kind \in {"login", "logout"}

\* The client of an order learns the stored result, unless it has gone.
Respond(s, r) ==
    \/ UNCHANGED answered
    \/ /\ r.kind = "order"
       /\ answered' = answered \cup
              {[game |-> r.game, command |-> r.command,
                frame |-> memory[s][r.game].orders[r.command]]}

Handle(s) ==
    LET r == waiting[s]
    IN  /\ Taken(s, r)
        /\ NeedsCommit(s, r)
        /\ Hold(s, r, Handled(r, memory[s]),
                [g \in Game |-> Capture(memory[s][g], FALSE)], Touched(s, r))
        /\ waiting' = [waiting EXCEPT ![s] = NoRequest]
        /\ UNCHANGED <<database, process, cache, answered>>

\* Nothing to commit: the response goes out at once.
HandleUnchanged(s) ==
    LET r == waiting[s]
    IN  /\ Taken(s, r)
        /\ ~NeedsCommit(s, r)
        /\ Respond(s, r)
        /\ waiting' = [waiting EXCEPT ![s] = NoRequest]
        /\ UNCHANGED <<database, process, memory, cache, gate>>

\* Unauthorized, unavailable, or an error of the handler.
Refuse(s) ==
    LET r == waiting[s]
    IN  /\ r # NoRequest
        /\ gate[s] = Free
        /\ ~Taken(s, r)
        /\ waiting' = [waiting EXCEPT ![s] = NoRequest]
        /\ UNCHANGED <<database, process, memory, cache, gate, answered>>

\* A handler dies after changing some games.  Unwinding drops the gate; the
\* task that awaits the handler has yet to learn of it, if it still exists.
\* Bound: one panic at a time.
HandlerPanics(s) ==
    LET r == waiting[s]
    IN  /\ Panics
        /\ s \notin loose
        /\ Taken(s, r)
        /\ \E changed \in SUBSET Differing(memory[s], Handled(r, memory[s])) :
               memory' = [memory EXCEPT ![s] =
                   [g \in Game |-> IF g \in changed THEN Handled(r, memory[s])[g]
                                   ELSE memory[s][g]]]
        /\ loose' = loose \cup {s}
        /\ waiting' = [waiting EXCEPT ![s] = NoRequest]
        /\ UNCHANGED <<database, serving, linked, failed, stopping, cache,
                       gate, answered>>

\* The awaiting task marks the server failed; the games pause once no cycle or
\* commit holds them.
NoticePanic(s) ==
    /\ s \in loose
    /\ s \notin failed
    /\ failed' = failed \cup {s}
    /\ UNCHANGED <<database, serving, linked, stopping, loose, memory, cache,
                   waiting, gate, answered>>

\* Every created game shows as paused, with the operational error.
AllPaused(games) ==
    [g \in Game |-> IF games[g].status = "none" THEN games[g]
                    ELSE [games[g] EXCEPT !.status = "paused"]]

PauseAfterPanic(s) ==
    /\ s \in loose
    /\ s \in failed
    /\ gate[s] = Free
    /\ memory' = [memory EXCEPT ![s] = AllPaused(memory[s])]
    /\ loose' = loose \ {s}
    /\ UNCHANGED <<database, serving, linked, failed, stopping, cache,
                   waiting, gate, answered>>

\* One cycle of run_simulation_loop: seats of expired leases are released, the
\* input is captured, and the games that are due advance.
Expired(s, gone) == [g \in Game |-> Release(memory[s][g], gone[g])]
CapturedFirst(s, gone, due) ==   \* mutant: captured before the release
    [g \in Game |-> Capture(memory[s][g], g \in due)]
TickInputs(s, gone, due) ==
    [g \in Game |-> Capture(Expired(s, gone)[g], g \in due)]
Ticked(s, gone, due) ==
    [g \in Game |-> IF g \in due THEN Advance(Expired(s, gone)[g])
                    ELSE Expired(s, gone)[g]]

Tick(s) ==
    \E gone \in [Game -> SUBSET Player],
       due \in SUBSET {g \in Game : memory[s][g].status = "running"} :
        LET after   == Ticked(s, gone, due)
            touched == Differing(memory[s], after)
        IN  /\ Open(s)
            /\ \A g \in Game : gone[g] \subseteq memory[s][g].seats
            /\ \A g \in due : memory[s][g].frame < MaxFrame
            /\ touched # {}
            /\ Hold(s, [kind |-> "tick"], after, TickInputs(s, gone, due), touched)
            /\ UNCHANGED <<database, process, cache, waiting, answered>>

-----------------------------------------------------------------------------
(* The transaction.                                                        *)

IsTick(s) == gate[s].by.kind = "tick"
IsShutdown(s) == gate[s].by.kind = "shutdown"

\* A mutation stores its whole state; a tick does so every CheckpointEvery
\* entries.
Checkpoint(s, g) ==
    ~IsTick(s) \/ memory[s][g].sequence % CheckpointEvery = 0

\* UPDATE games ... WHERE sequence = $2 - 1, which must change one row.
Fenced(s) ==
    \A g \in gate[s].touched : Latest(g).sequence = memory[s][g].sequence - 1

SessionsAfterCommit(s, from) ==
    IF gate[s].by.kind \in {"tick", "shutdown"} THEN from
    ELSE SessionsAfter(gate[s].by, from)

Write(s) ==
    /\ s \in linked
    /\ Fenced(s)
    /\ snapshot' = [g \in Game |->
           IF g \in gate[s].touched /\ Checkpoint(s, g)
           THEN memory[s][g] ELSE snapshot[g]]
    /\ journal' = [g \in Game |->
           IF g \notin gate[s].touched THEN journal[g]
           ELSE IF Checkpoint(s, g) THEN <<>>
           ELSE Append(journal[g], [input |-> gate[s].inputs[g],
                                    state |-> memory[s][g]])]
    /\ rows' = SessionsAfterCommit(s, rows)

Vanish(s) ==
    /\ serving' = serving \ {s}
    /\ linked' = linked \ {s}
    /\ failed' = failed \ {s}
    /\ stopping' = stopping \ {s}
    /\ loose' = loose \ {s}
    /\ memory' = [memory EXCEPT ![s] = NoGames]
    /\ cache' = [cache EXCEPT ![s] = {}]
    /\ waiting' = [waiting EXCEPT ![s] = NoRequest]
    /\ gate' = [gate EXCEPT ![s] = Free]

\* recovery::rollback
Rollback(s) ==
    /\ memory' = [memory EXCEPT ![s] = AllPaused(gate[s].before)]
    /\ failed' = failed \cup {s}
    /\ gate' = [gate EXCEPT ![s] = Free]
    /\ UNCHANGED <<serving, stopping, loose, cache, waiting, answered>>

CommitSucceeds(s) ==
    /\ gate[s] # Free
    /\ Write(s)
    /\ IF IsShutdown(s)
       THEN Vanish(s) /\ UNCHANGED answered
       ELSE /\ cache' = [cache EXCEPT ![s] = SessionsAfterCommit(s, cache[s])]
            /\ gate' = [gate EXCEPT ![s] = Free]
            /\ Respond(s, gate[s].by)
            /\ UNCHANGED <<process, memory, waiting>>

CommitFails(s) ==
    /\ gate[s] # Free
    /\ IF IsShutdown(s)
       THEN Vanish(s) /\ UNCHANGED answered
       ELSE Rollback(s) /\ UNCHANGED linked
    /\ UNCHANGED database

\* The connection breaks after the database has committed.
CommitUnknown(s) ==
    /\ gate[s] # Free
    /\ Write(s)
    /\ IF IsShutdown(s)
       THEN Vanish(s) /\ UNCHANGED answered
       ELSE Rollback(s) /\ linked' = linked \ {s}

-----------------------------------------------------------------------------
(* Starting, stopping and failing.                                         *)

\* Replaying the journal from the snapshot reproduces every recorded state.
Verified(g) ==
    \A i \in DOMAIN journal[g] :
        LET from == IF i = 1 THEN snapshot[g] ELSE journal[g][i - 1].state
        IN  journal[g][i].state = Apply(journal[g][i].input, from)

RecoveredInPlace(g, gone) ==   \* mutant: the recovery has no number of its own
    IF Latest(g).status = "none" THEN Latest(g)
    ELSE Pause(Release(Latest(g), (Player \ rows) \cup gone[g]))

\* A game of the lobby or paused stays so; a running one is paused.  Players
\* without a session lose their seats, and so do expired leases.
Recovered(g, gone) ==
    IF Latest(g).status = "none" THEN Latest(g)
    ELSE [Pause(Release(Latest(g), (Player \ rows) \cup gone[g]))
             EXCEPT !.sequence = Latest(g).sequence + 1]

\* Store::connect takes the advisory lock; recovery::load verifies and commits
\* the recovery checkpoint of every game before the first request.  If that
\* commit is reported as failed the process exits, though it may have happened.
Start(s) ==
    /\ s \notin serving
    /\ linked = {}
    /\ \A g \in Game : /\ Verified(g)
                       /\ Latest(g).status # "none" => Latest(g).sequence < MaxSequence
    /\ \E gone \in [Game -> SUBSET Player] :
        /\ \A g \in Game : gone[g] \subseteq Latest(g).seats
        /\ snapshot' = [g \in Game |-> Recovered(g, gone)]
    /\ journal' = [g \in Game |-> <<>>]
    /\ \/ /\ serving' = serving \cup {s}
          /\ linked' = {s}
          /\ memory' = [memory EXCEPT ![s] = snapshot']
          /\ cache' = [cache EXCEPT ![s] = rows]
       \/ UNCHANGED <<serving, linked, memory, cache>>
    /\ UNCHANGED <<rows, failed, stopping, loose, waiting, gate, answered>>

\* SIGTERM: boundaries in progress finish, then every game is checkpointed.
Stop(s) ==
    /\ s \in serving
    /\ s \notin stopping
    /\ stopping' = stopping \cup {s}
    /\ UNCHANGED <<database, serving, linked, failed, loose, memory, cache,
                   waiting, gate, answered>>

Shutdown(s) ==
    LET created == {g \in Game : memory[s][g].status # "none"}
    IN  /\ s \in stopping
        /\ gate[s] = Free
        /\ s \notin failed
        /\ Hold(s, [kind |-> "shutdown"],
                [g \in Game |-> Pause(memory[s][g])],
                [g \in Game |-> Capture(memory[s][g], FALSE)], created)
        /\ UNCHANGED <<database, process, cache, waiting, answered>>

\* A crash, or the exit of a stopping server that has failed.
Crash(s) ==
    /\ s \in serving
    /\ Vanish(s)
    /\ UNCHANGED <<database, answered>>

\* The connection breaks and PostgreSQL gives up its advisory lock.
Disconnect(s) ==
    /\ s \in linked
    /\ linked' = linked \ {s}
    /\ UNCHANGED <<database, serving, failed, stopping, loose, memory, cache,
                   waiting, gate, answered>>

Next ==
    \E s \in Server :
        \/ \E r \in Request : Arrive(s, r)
        \/ Handle(s) \/ HandleUnchanged(s) \/ Refuse(s) \/ HandlerPanics(s) \/ NoticePanic(s)
        \/ PauseAfterPanic(s) \/ Tick(s)
        \/ CommitSucceeds(s) \/ CommitFails(s) \/ CommitUnknown(s)
        \/ Start(s) \/ Stop(s) \/ Shutdown(s) \/ Crash(s) \/ Disconnect(s)

Spec == Init /\ [][Next]_vars

-----------------------------------------------------------------------------
(* Properties.                                                             *)

\* Recovery can always read what was committed: replaying the ticks recorded
\* after the last checkpoint, from it, gives exactly the recorded states, across
\* failed and unknown commits, restarts and changes of server (load_internal
\* refuses to start otherwise).
JournalReplays == \A g \in Game : Verified(g)

\* An order a client was told of is in the database, accepted at the very frame
\* it was told, whatever crashed, failed, was retried or restored since.
AnswersAreDurable ==
    \A a \in answered : Latest(a.game).orders[a.command] = a.frame

\* A player who is signed out holds no seat in any committed game: the session
\* and the seats go in one transaction, and no request that queued behind it
\* takes one back.
SignedOutHoldNothing ==
    \A g \in Game : Latest(g).seats \subseteq rows

\* A committed game moves from one journal number to the next: no two writers
\* continue from the same state, and nothing committed is replaced.
HistoryNeverForks ==
    [][\A g \in Game : Latest(g)' # Latest(g) =>
           Latest(g)'.sequence = Latest(g).sequence + 1]_vars

\* The committed games, sessions and answers behave as a store without
\* servers, memory, failures and journals.
Unnumbered(game) == [game EXCEPT !.sequence = 0]
Committed == [g \in Game |-> Unnumbered(Latest(g))]
Store == INSTANCE DurableStore WITH store <- Committed, sessions <- rows

Implements == Store!StoreSpec

====
