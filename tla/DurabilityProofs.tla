---- MODULE DurabilityProofs ----
(***************************************************************************)
(* Proofs about Durability, for any servers, players, games, orders and    *)
(* bounds.                                                                 *)
(***************************************************************************)
EXTENDS Durability, TLAPS

Status == {"none", "lobby", "running", "paused"}
Orders == [Command -> {Never} \cup (0..MaxFrame)]

-----------------------------------------------------------------------------
(* Facts about the data.                                                   *)

LEMMA Bounds == MaxFrame \in Nat /\ MaxSequence \in Nat /\ Never = -1
  BY BoundsAssumption DEF Never

LEMMA Fields ==
  ASSUME NEW game \in GameState
  PROVE  /\ game.sequence \in 0..MaxSequence
         /\ game.status \in Status
         /\ game.seats \in SUBSET Player
         /\ game.orders \in Orders
         /\ game.frame \in 0..MaxFrame
  BY DEF GameState, Status, Orders

LEMMA NoGameType == NoGame \in GameState
<1>1. [c \in Command |-> Never] \in Orders
  BY DEF Orders
<1> QED
  BY <1>1, Bounds DEF NoGame, GameState, Orders

LEMMA RequestKinds ==
  ASSUME NEW r \in Request
  PROVE  /\ r.kind \in {"create", "claim", "start", "pause", "order", "login", "logout"}
         /\ r.kind \notin {"tick", "shutdown", "nobody"}
         /\ r.player \in Player
         /\ r.kind \notin {"login", "logout"} => r.game \in Game
         /\ r.kind = "order" => r.command \in Command
         /\ r.kind = "login" => r.previous \in SUBSET Player
<1>1. CASE r \in Create
  BY <1>1 DEF Create
<1>2. CASE r \in Claim
  BY <1>2 DEF Claim
<1>3. CASE r \in Control
  BY <1>3 DEF Control
<1>4. CASE r \in Submit
  BY <1>4 DEF Submit
<1>5. CASE r \in Login
  BY <1>5 DEF Login
<1>6. CASE r \in Logout
  BY <1>6 DEF Logout
<1> QED
  BY <1>1, <1>2, <1>3, <1>4, <1>5, <1>6 DEF Request

\* What holds a gate is told apart from a free gate, and a request from none.
LEMMA Kinds ==
  /\ \A r \in Request : r # NoRequest
  /\ \A b \in Boundary : /\ b # Free
                         /\ b.by.kind # "nobody"
                         /\ b.by.kind \notin {"tick", "shutdown"} => b.by \in Request
                         /\ b.before \in Games
                         /\ b.inputs \in [Game -> TickInput]
                         /\ b.touched \in SUBSET Game
<1>1. \A r \in Request : r # NoRequest
  BY RequestKinds DEF NoRequest
<1>2. ASSUME NEW b \in Boundary
      PROVE  /\ b # Free
             /\ b.by.kind # "nobody"
             /\ b.by.kind \notin {"tick", "shutdown"} => b.by \in Request
             /\ b.before \in Games
             /\ b.inputs \in [Game -> TickInput]
             /\ b.touched \in SUBSET Game
  <2>1. /\ b.by \in Request \cup [kind : {"tick", "shutdown"}]
        /\ b.before \in Games
        /\ b.inputs \in [Game -> TickInput]
        /\ b.touched \in SUBSET Game
    BY DEF Boundary
  <2>2. b.by.kind # "nobody"
    BY <2>1, RequestKinds
  <2>3. Free.by.kind = "nobody"
    BY DEF Free
  <2> QED
    BY <2>1, <2>2, <2>3
<1> QED
  BY <1>1, <1>2

\* A boundary in progress is well formed.
LEMMA Held ==
  ASSUME TypeOK, NEW s \in Server, gate[s] # Free
  PROVE  /\ gate[s] \in Boundary
         /\ gate[s].before \in Games
         /\ gate[s].inputs \in [Game -> TickInput]
         /\ gate[s].touched \in SUBSET Game
         /\ gate[s].by.kind \notin {"tick", "shutdown"} => gate[s].by \in Request
<1>1. gate[s] \in Boundary
  BY DEF TypeOK
<1> QED
  BY <1>1, Kinds

LEMMA AcceptType ==
  ASSUME NEW game \in GameState, NEW c \in Command
  PROVE  Accept(game, c) \in GameState
<1>1. game.orders \in Orders /\ game.frame \in 0..MaxFrame
  BY Fields
<1>2. [game.orders EXCEPT ![c] = game.frame] \in Orders
  BY <1>1 DEF Orders
<1>3. [game EXCEPT !.orders = [game.orders EXCEPT ![c] = game.frame]] \in GameState
  BY <1>2 DEF GameState, Orders
<1> QED
  BY <1>3 DEF Accept

LEMMA HandledGameType ==
  ASSUME NEW r \in Request, NEW g \in Game, NEW game \in GameState
  PROVE  HandledGame(r, g, game) \in GameState
<1>1. game.seats \in SUBSET Player
  BY Fields
<1>2. /\ [game EXCEPT !.seats = game.seats \ Leaving(r)] \in GameState
      /\ [game EXCEPT !.seats = game.seats \cup {r.player}] \in GameState
      /\ [game EXCEPT !.status = "lobby"] \in GameState
      /\ [game EXCEPT !.status = "running"] \in GameState
      /\ [game EXCEPT !.status = "paused"] \in GameState
  BY <1>1, RequestKinds DEF GameState
<1>3. r.kind = "order" => Accept(game, r.command) \in GameState
  BY AcceptType, RequestKinds
<1> QED
  BY <1>2, <1>3, RequestKinds DEF HandledGame

LEMMA HandledType ==
  ASSUME NEW r \in Request, NEW games \in Games
  PROVE  Handled(r, games) \in Games
<1>1. \A g \in Game : HandledGame(r, g, games[g]) \in GameState
  BY HandledGameType DEF Games
<1> QED
  BY <1>1 DEF Handled, Games

LEMMA SessionsAfterType ==
  ASSUME NEW r \in Request, NEW S \in SUBSET Player
  PROVE  SessionsAfter(r, S) \in SUBSET Player
<1>1. r.player \in Player
  BY RequestKinds
<1> QED
  BY <1>1 DEF SessionsAfter

LEMMA NumberedType ==
  ASSUME NEW games \in Games, NEW touched \in SUBSET Game,
         \A g \in touched : games[g].sequence < MaxSequence
  PROVE  Numbered(games, touched) \in Games
<1>1. ASSUME NEW g \in Game
      PROVE  (IF g \in touched
              THEN [games[g] EXCEPT !.sequence = games[g].sequence + 1]
              ELSE games[g]) \in GameState
  <2>1. games[g] \in GameState
    BY DEF Games
  <2>2. games[g].sequence \in 0..MaxSequence
    BY <2>1, Fields
  <2>3. CASE g \in touched
    <3>1. games[g].sequence + 1 \in 0..MaxSequence
      BY <2>2, <2>3, Bounds
    <3> QED
      BY <2>1, <2>3, <3>1 DEF GameState
  <2> QED
    BY <2>1, <2>3
<1> QED
  BY <1>1 DEF Numbered, Games

LEMMA ReleaseType ==
  ASSUME NEW game \in GameState, NEW gone
  PROVE  Release(game, gone) \in GameState
<1>1. game.seats \ gone \in SUBSET Player
  BY Fields
<1> QED
  BY <1>1 DEF Release, GameState

LEMMA PauseType ==
  ASSUME NEW game \in GameState
  PROVE  Pause(game) \in GameState
  BY DEF Pause, GameState

LEMMA AdvanceType ==
  ASSUME NEW game \in GameState, game.frame < MaxFrame
  PROVE  Advance(game) \in GameState
<1>1. game.frame + 1 \in 0..MaxFrame
  BY Fields, Bounds
<1> QED
  BY <1>1 DEF Advance, GameState

LEMMA CaptureType ==
  ASSUME NEW game \in GameState, NEW b \in BOOLEAN
  PROVE  Capture(game, b) \in TickInput
  BY Fields DEF Capture, TickInput, Status

LEMMA AllPausedType ==
  ASSUME NEW games \in Games
  PROVE  AllPaused(games) \in Games
<1>1. \A g \in Game : games[g] \in GameState
  BY DEF Games
<1>2. \A g \in Game : [games[g] EXCEPT !.status = "paused"] \in GameState
  BY <1>1 DEF GameState
<1> QED
  BY <1>1, <1>2 DEF AllPaused, Games

LEMMA LatestType ==
  ASSUME TypeOK, NEW g \in Game
  PROVE  Latest(g) \in GameState
<1>1. snapshot[g] \in GameState /\ journal[g] \in Seq(Event)
  BY DEF TypeOK, Games
<1>2. CASE journal[g] # <<>>
  <2>1. Len(journal[g]) \in DOMAIN journal[g]
    BY <1>1, <1>2
  <2>2. journal[g][Len(journal[g])] \in Event
    BY <1>1, <2>1
  <2> QED
    BY <1>2, <2>2 DEF Latest, Event
<1> QED
  BY <1>1, <1>2 DEF Latest

-----------------------------------------------------------------------------
(* What the operations leave alone.                                        *)

LEMMA HandledKeepsSequence ==
  ASSUME NEW r \in Request, NEW games \in Games, NEW g \in Game
  PROVE  Handled(r, games)[g].sequence = games[g].sequence
<1> DEFINE game == games[g]
<1>1. game \in GameState
  BY DEF Games
<1>2. HandledGame(r, g, game).sequence = game.sequence
  BY <1>1 DEF HandledGame, Accept, GameState
<1> QED
  BY <1>2 DEF Handled

LEMMA ReleaseFields ==
  ASSUME NEW game \in GameState, NEW gone
  PROVE  /\ Release(game, gone).sequence = game.sequence
         /\ Release(game, gone).status = game.status
         /\ Release(game, gone).seats = game.seats \ gone
         /\ Release(game, gone).orders = game.orders
         /\ Release(game, gone).frame = game.frame
  BY DEF Release, GameState

LEMMA PauseFields ==
  ASSUME NEW game \in GameState
  PROVE  /\ Pause(game).sequence = game.sequence
         /\ Pause(game).seats = game.seats
         /\ Pause(game).orders = game.orders
         /\ Pause(game).frame = game.frame
  BY DEF Pause, GameState

LEMMA AdvanceFields ==
  ASSUME NEW game \in GameState
  PROVE  /\ Advance(game).sequence = game.sequence
         /\ Advance(game).status = game.status
         /\ Advance(game).seats = game.seats
         /\ Advance(game).orders = game.orders
  BY DEF Advance, GameState

\* A cycle of the simulation loop on well-formed games.
LEMMA CycleType ==
  ASSUME TypeOK, NEW s \in Server, NEW gone \in [Game -> SUBSET Player],
         NEW due \in SUBSET Game,
         \A g \in due : memory[s][g].frame < MaxFrame
  PROVE  /\ Ticked(s, gone, due) \in Games
         /\ TickInputs(s, gone, due) \in [Game -> TickInput]
         /\ \A g \in Game :
               /\ memory[s][g] \in GameState
               /\ Ticked(s, gone, due)[g].sequence = memory[s][g].sequence
               /\ Ticked(s, gone, due)[g].orders = memory[s][g].orders
               /\ Ticked(s, gone, due)[g].seats = memory[s][g].seats \ gone[g]
<1> SUFFICES ASSUME NEW g \in Game
             PROVE  /\ Ticked(s, gone, due)[g] \in GameState
                    /\ TickInputs(s, gone, due)[g] \in TickInput
                    /\ memory[s][g] \in GameState
                    /\ Ticked(s, gone, due)[g].sequence = memory[s][g].sequence
                    /\ Ticked(s, gone, due)[g].orders = memory[s][g].orders
                    /\ Ticked(s, gone, due)[g].seats = memory[s][g].seats \ gone[g]
  BY DEF Ticked, TickInputs, Games
<1> DEFINE left == Release(memory[s][g], gone[g])
<1>1. memory[s][g] \in GameState
  BY DEF TypeOK, Games
<1>2. /\ left \in GameState
      /\ left.frame = memory[s][g].frame
      /\ left.sequence = memory[s][g].sequence
      /\ left.orders = memory[s][g].orders
      /\ left.seats = memory[s][g].seats \ gone[g]
  BY <1>1, ReleaseType, ReleaseFields
<1>3. /\ Expired(s, gone)[g] = left
      /\ Ticked(s, gone, due)[g] = IF g \in due THEN Advance(left) ELSE left
      /\ TickInputs(s, gone, due)[g] = Capture(left, g \in due)
  BY DEF Expired, Ticked, TickInputs
<1> HIDE DEF left
<1>4. g \in due => Advance(left) \in GameState
  BY <1>2, AdvanceType
<1>5. Capture(left, g \in due) \in TickInput
  <2>1. (g \in due) \in BOOLEAN
    OBVIOUS
  <2> QED
    BY <1>2, <2>1, CaptureType
<1> QED
  BY <1>1, <1>2, <1>3, <1>4, <1>5, AdvanceFields

LEMMA HoldType ==
  ASSUME TypeOK, NEW s \in Server,
         NEW by \in Request \cup [kind : {"tick", "shutdown"}],
         NEW after \in Games, NEW inputs \in [Game -> TickInput],
         NEW touched \in SUBSET Game,
         \A g \in Game : after[g].sequence = memory[s][g].sequence,
         Hold(s, by, after, inputs, touched)
  PROVE  /\ memory' \in [Server -> Games]
         /\ gate' \in [Server -> Boundary \cup {Free}]
<1>1. Numbered(after, touched) \in Games
  BY NumberedType DEF Hold
<1>2. memory[s] \in Games
  BY DEF TypeOK
<1>3. [by |-> by, before |-> memory[s], inputs |-> inputs, touched |-> touched]
          \in Boundary
  BY <1>2 DEF Boundary
<1> QED
  BY <1>1, <1>3 DEF Hold, TypeOK

LEMMA RespondType ==
  ASSUME TypeOK, NEW s \in Server, NEW r, r.kind = "order" => r \in Request,
         r.kind = "order" => memory[s][r.game].orders[r.command] # Never,
         Respond(s, r)
  PROVE  answered' \subseteq Answer
<1>1. CASE UNCHANGED answered
  BY <1>1 DEF TypeOK
<1>2. CASE ~UNCHANGED answered
  <2>1. /\ r.kind = "order"
        /\ answered' = answered \cup
               {[game |-> r.game, command |-> r.command,
                 frame |-> memory[s][r.game].orders[r.command]]}
    BY <1>2 DEF Respond
  <2>2. r.game \in Game /\ r.command \in Command
    BY <2>1, RequestKinds
  <2>3. memory[s][r.game].orders \in Orders
    BY <2>2, Fields DEF TypeOK, Games
  <2>4. memory[s][r.game].orders[r.command] \in 0..MaxFrame
    BY <2>1, <2>2, <2>3 DEF Orders
  <2> QED
    BY <2>1, <2>2, <2>4 DEF Answer, TypeOK
<1> QED
  BY <1>1, <1>2

-----------------------------------------------------------------------------
(* Type correctness.  An answer is a frame only because the order whose     *)
(* commit it waits for is recorded in memory, which TypeOK does not say.    *)

\* The order in a boundary is recorded, in a game that is being committed.
Recorded ==
  \A s \in Server :
    (gate[s] # Free /\ gate[s].by.kind = "order") =>
      /\ memory[s][gate[s].by.game].orders[gate[s].by.command] # Never
      /\ gate[s].by.game \in gate[s].touched

\* Only a server that runs has a boundary, or is stopping.
Attended ==
  /\ stopping \subseteq serving
  /\ \A s \in Server : gate[s] # Free => s \in serving

Typed == TypeOK /\ Recorded /\ Attended

LEMMA TypedInit == Init => Typed
<1> SUFFICES ASSUME Init PROVE Typed
  OBVIOUS
<1>1. NoGames \in Games
  BY NoGameType DEF NoGames, Games
<1>2. \A g \in Game : <<>> \in Seq(Event)
  OBVIOUS
<1> QED
  BY <1>1, <1>2 DEF Init, Typed, TypeOK, Recorded, Attended

\* An accepted order is recorded by its handler, and its game is journaled.
LEMMA OrderRecorded ==
  ASSUME TypeOK, NEW s \in Server, NEW r \in Request, r.kind = "order"
  PROVE  /\ Handled(r, memory[s])[r.game].orders[r.command] # Never
         /\ r.game \in Touched(s, r)
         /\ NeedsCommit(s, r)
<1> DEFINE game == memory[s][r.game]
<1>1. r.game \in Game /\ r.command \in Command
  BY RequestKinds
<1>2. game \in GameState
  BY <1>1 DEF TypeOK, Games
<1>3. Handled(r, memory[s])[r.game] = Accept(game, r.command)
  BY <1>1 DEF Handled, HandledGame
<1>4. /\ game.orders \in Orders
      /\ game.frame \in Nat
  BY <1>2, Fields, Bounds
<1>5. Accept(game, r.command).orders[r.command] # Never
  BY <1>1, <1>2, <1>4, Bounds DEF Accept, GameState, Orders
<1>6. r.game \in Touched(s, r)
  <2>1. CASE game.orders[r.command] # Never
    BY <2>1, <1>1 DEF Touched, Known
  <2>2. CASE game.orders[r.command] = Never
    <3>1. Accept(game, r.command) # game
      BY <2>2, <1>5
    <3> QED
      BY <3>1, <1>1, <1>3 DEF Touched, Differing
  <2> QED
    BY <2>1, <2>2
<1> QED
  BY <1>3, <1>5, <1>6 DEF NeedsCommit

LEMMA VanishTyped ==
  ASSUME Typed, NEW s \in Server, Vanish(s)
  PROVE  /\ serving' \subseteq Server /\ linked' \subseteq Server
         /\ failed' \subseteq Server /\ stopping' \subseteq Server
         /\ loose' \subseteq Server
         /\ memory' \in [Server -> Games]
         /\ cache' \in [Server -> SUBSET Player]
         /\ waiting' \in [Server -> Request \cup {NoRequest}]
         /\ gate' \in [Server -> Boundary \cup {Free}]
         /\ Recorded' /\ Attended'
<1>1. NoGames \in Games
  BY NoGameType DEF NoGames, Games
<1>2. Recorded' /\ Attended'
  BY DEF Vanish, Typed, TypeOK, Recorded, Attended
<1> QED
  BY <1>1, <1>2 DEF Vanish, Typed, TypeOK

LEMMA RollbackTyped ==
  ASSUME Typed, NEW s \in Server, gate[s] # Free, Rollback(s)
  PROVE  /\ serving' \subseteq Server
         /\ failed' \subseteq Server /\ stopping' \subseteq Server
         /\ loose' \subseteq Server
         /\ memory' \in [Server -> Games]
         /\ cache' \in [Server -> SUBSET Player]
         /\ waiting' \in [Server -> Request \cup {NoRequest}]
         /\ gate' \in [Server -> Boundary \cup {Free}]
         /\ answered' \subseteq Answer
         /\ Recorded' /\ Attended'
<1>1. AllPaused(gate[s].before) \in Games
  BY Held, AllPausedType DEF Typed
<1>2. Recorded' /\ Attended'
  BY DEF Rollback, Typed, TypeOK, Recorded, Attended
<1> QED
  BY <1>1, <1>2 DEF Rollback, Typed, TypeOK

LEMMA WriteTyped ==
  ASSUME TypeOK, NEW s \in Server, gate[s] # Free, Write(s)
  PROVE  /\ snapshot' \in Games
         /\ journal' \in [Game -> Seq(Event)]
         /\ rows' \subseteq Player
<1>1. /\ gate[s].inputs \in [Game -> TickInput]
      /\ gate[s].by.kind \notin {"tick", "shutdown"} => gate[s].by \in Request
  BY Held
<1>2. memory[s] \in [Game -> GameState]
  BY DEF TypeOK, Games
<1>3. \A g \in Game : [input |-> gate[s].inputs[g], state |-> memory[s][g]] \in Event
  BY <1>1, <1>2 DEF Event
<1>4. snapshot' \in Games
  BY <1>2 DEF Write, TypeOK, Games
<1>5. \A g \in Game : Append(journal[g], [input |-> gate[s].inputs[g],
                                        state |-> memory[s][g]]) \in Seq(Event)
  BY <1>3 DEF TypeOK
<1>6. journal' \in [Game -> Seq(Event)]
  BY <1>5 DEF Write, TypeOK
<1>7. rows' \subseteq Player
  BY <1>1, SessionsAfterType DEF Write, SessionsAfterCommit, TypeOK
<1> QED
  BY <1>4, <1>6, <1>7

LEMMA NumberedFields ==
  ASSUME NEW games \in Games, NEW touched, NEW g \in Game
  PROVE  /\ Numbered(games, touched)[g].status = games[g].status
         /\ Numbered(games, touched)[g].seats = games[g].seats
         /\ Numbered(games, touched)[g].orders = games[g].orders
         /\ Numbered(games, touched)[g].frame = games[g].frame
  BY DEF Numbered, Games, GameState

LEMMA HandleTyped ==
  ASSUME Typed, NEW s \in Server, Handle(s)
  PROVE  Typed'
<1> DEFINE r == waiting[s]
           after == Handled(r, memory[s])
<1>1. /\ r \in Request
      /\ Hold(s, r, after, [g \in Game |-> Capture(memory[s][g], FALSE)], Touched(s, r))
  BY DEF Handle, Taken, Typed, TypeOK
<1>2. memory[s] \in Games
  BY DEF Typed, TypeOK
<1>3. after \in Games
  BY <1>1, <1>2, HandledType
<1>4. \A g \in Game : after[g].sequence = memory[s][g].sequence
  BY <1>1, <1>2, HandledKeepsSequence
<1>5. [g \in Game |-> Capture(memory[s][g], FALSE)] \in [Game -> TickInput]
  BY <1>2, CaptureType DEF Games
<1>6. Touched(s, r) \in SUBSET Game
  BY <1>1, RequestKinds DEF Touched, Differing, Known
<1>7. r \in Request \cup [kind : {"tick", "shutdown"}]
  BY <1>1
<1>8. /\ memory' \in [Server -> Games]
      /\ gate' \in [Server -> Boundary \cup {Free}]
  <2> HIDE DEF r, after
  <2> QED
    BY <1>1, <1>3, <1>4, <1>5, <1>6, <1>7, HoldType DEF Typed
<1>9. TypeOK'
  BY <1>8 DEF Handle, Typed, TypeOK, database, process
<1>10. /\ gate'[s].by = r
       /\ gate'[s].touched = Touched(s, r)
       /\ memory'[s] = Numbered(after, Touched(s, r))
       /\ \A t \in Server \ {s} : gate'[t] = gate[t] /\ memory'[t] = memory[t]
  BY <1>1 DEF Hold, Typed, TypeOK
<1>11. r.kind = "order" =>
           /\ r.game \in Game
           /\ after[r.game].orders[r.command] # Never
           /\ r.game \in Touched(s, r)
  BY <1>1, OrderRecorded, RequestKinds DEF Typed
<1>12. r.kind = "order" => memory'[s][r.game].orders[r.command] # Never
  BY <1>3, <1>10, <1>11, NumberedFields
<1>13. Recorded'
  <2> SUFFICES ASSUME NEW t \in Server, gate'[t] # Free, gate'[t].by.kind = "order"
               PROVE  /\ memory'[t][gate'[t].by.game].orders[gate'[t].by.command] # Never
                      /\ gate'[t].by.game \in gate'[t].touched
    BY DEF Recorded
  <2>1. CASE t = s
    BY <2>1, <1>10, <1>11, <1>12
  <2>2. CASE t # s
    BY <2>2, <1>10 DEF Typed, Recorded
  <2> QED
    BY <2>1, <2>2
<1>14. Attended'
  BY <1>10 DEF Handle, Taken, Open, process, Typed, TypeOK, Attended
<1> QED
  BY <1>9, <1>13, <1>14 DEF Typed

\* The other boundaries carry no order.
LEMMA HoldsNoOrder ==
  ASSUME Typed, NEW s \in Server, NEW by \in [kind : {"tick", "shutdown"}],
         NEW after, NEW inputs, NEW touched,
         s \in serving,
         UNCHANGED process,
         Hold(s, by, after, inputs, touched)
  PROVE  Recorded' /\ Attended'
<1>1. /\ gate'[s].by.kind # "order"
      /\ \A t \in Server \ {s} : gate'[t] = gate[t] /\ memory'[t] = memory[t]
  BY DEF Hold, Typed, TypeOK
<1> QED
  BY <1>1 DEF Typed, Recorded, Attended, process

LEMMA TickTyped ==
  ASSUME Typed, NEW s \in Server, Tick(s)
  PROVE  Typed'
<1>1. PICK gone \in [Game -> SUBSET Player],
           due \in SUBSET {g \in Game : memory[s][g].status = "running"} :
        /\ \A g \in due : memory[s][g].frame < MaxFrame
        /\ Hold(s, [kind |-> "tick"], Ticked(s, gone, due), TickInputs(s, gone, due),
                Differing(memory[s], Ticked(s, gone, due)))
        /\ UNCHANGED <<database, process, cache, waiting, answered>>
        /\ s \in serving
  BY DEF Tick, Open
<1>2. due \in SUBSET Game
  OBVIOUS
<1>3. /\ Ticked(s, gone, due) \in Games
      /\ TickInputs(s, gone, due) \in [Game -> TickInput]
      /\ \A g \in Game : Ticked(s, gone, due)[g].sequence = memory[s][g].sequence
  BY <1>1, <1>2, CycleType DEF Typed
<1>4. Differing(memory[s], Ticked(s, gone, due)) \in SUBSET Game
  BY DEF Differing
<1>5. [kind |-> "tick"] \in [kind : {"tick", "shutdown"}]
  OBVIOUS
<1>6. /\ memory' \in [Server -> Games]
      /\ gate' \in [Server -> Boundary \cup {Free}]
  BY <1>1, <1>3, <1>4, <1>5, HoldType DEF Typed
<1>7. Recorded' /\ Attended'
  BY <1>1, <1>5, HoldsNoOrder
<1> QED
  BY <1>1, <1>6, <1>7 DEF Typed, TypeOK, database, process

LEMMA ShutdownTyped ==
  ASSUME Typed, NEW s \in Server, Shutdown(s)
  PROVE  Typed'
<1> DEFINE created == {g \in Game : memory[s][g].status # "none"}
           after == [g \in Game |-> Pause(memory[s][g])]
           inputs == [g \in Game |-> Capture(memory[s][g], FALSE)]
<1>1. /\ Hold(s, [kind |-> "shutdown"], after, inputs, created)
      /\ UNCHANGED <<database, process, cache, waiting, answered>>
      /\ s \in serving
  BY DEF Shutdown, Typed, Attended
<1>2. \A g \in Game : memory[s][g] \in GameState
  BY DEF Typed, TypeOK, Games
<1>3. /\ after \in Games
      /\ inputs \in [Game -> TickInput]
      /\ created \in SUBSET Game
      /\ \A g \in Game : after[g].sequence = memory[s][g].sequence
  BY <1>2, PauseType, PauseFields, CaptureType DEF Games
<1>4. [kind |-> "shutdown"] \in [kind : {"tick", "shutdown"}]
  OBVIOUS
<1> HIDE DEF after, inputs, created
<1>5. /\ memory' \in [Server -> Games]
      /\ gate' \in [Server -> Boundary \cup {Free}]
  BY <1>1, <1>3, <1>4, HoldType DEF Typed
<1>6. Recorded' /\ Attended'
  BY <1>1, <1>4, HoldsNoOrder
<1> QED
  BY <1>1, <1>5, <1>6 DEF Typed, TypeOK, database, process

LEMMA RecoveredType ==
  ASSUME TypeOK, NEW g \in Game, NEW gone,
         Latest(g).status # "none" => Latest(g).sequence < MaxSequence
  PROVE  Recovered(g, gone) \in GameState
<1>1. Latest(g) \in GameState
  BY LatestType
<1> DEFINE kept == Pause(Release(Latest(g), (Player \ rows) \cup gone[g]))
<1>2. kept \in GameState
  BY <1>1, ReleaseType, PauseType
<1>3. Latest(g).status # "none" => Latest(g).sequence + 1 \in 0..MaxSequence
  BY <1>1, Fields, Bounds
<1> HIDE DEF kept
<1>4. Latest(g).status # "none" =>
          [kept EXCEPT !.sequence = Latest(g).sequence + 1] \in GameState
  BY <1>2, <1>3 DEF GameState
<1> QED
  BY <1>1, <1>4 DEF Recovered, kept

LEMMA StartTyped ==
  ASSUME Typed, NEW s \in Server, Start(s)
  PROVE  Typed'
<1>1. PICK gone \in [Game -> SUBSET Player] :
        snapshot' = [g \in Game |-> Recovered(g, gone)]
  BY DEF Start
<1>2. \A g \in Game : Latest(g).status # "none" => Latest(g).sequence < MaxSequence
  BY DEF Start
<1>3. snapshot' \in Games
  BY <1>1, <1>2, RecoveredType DEF Typed, Games
<1>4. journal' \in [Game -> Seq(Event)]
  <2>1. <<>> \in Seq(Event)
    OBVIOUS
  <2> QED
    BY <2>1 DEF Start
<1>5. \/ /\ serving' = serving \cup {s}
         /\ linked' = {s}
         /\ memory' = [memory EXCEPT ![s] = snapshot']
         /\ cache' = [cache EXCEPT ![s] = rows]
      \/ UNCHANGED <<serving, linked, memory, cache>>
  BY DEF Start
<1>6. /\ serving' \subseteq Server
      /\ linked' \subseteq Server
      /\ memory' \in [Server -> Games]
      /\ cache' \in [Server -> SUBSET Player]
  BY <1>3, <1>5 DEF Typed, TypeOK
<1>7. UNCHANGED <<rows, failed, stopping, loose, waiting, gate, answered>>
  BY DEF Start
<1>8. TypeOK'
  BY <1>3, <1>4, <1>6, <1>7 DEF Typed, TypeOK
<1>9. s \notin serving /\ gate[s] = Free
  BY DEF Start, Typed, Attended
<1>10. Recorded' /\ Attended'
  BY <1>5, <1>7, <1>9 DEF Typed, TypeOK, Recorded, Attended
<1> QED
  BY <1>8, <1>10 DEF Typed

\* The result of a commit, however it is reported.
LEMMA CommitTyped ==
  ASSUME Typed, NEW s \in Server,
         CommitSucceeds(s) \/ CommitFails(s) \/ CommitUnknown(s)
  PROVE  Typed'
<1>1. gate[s] # Free
  BY DEF CommitSucceeds, CommitFails, CommitUnknown
<1>2. /\ snapshot' \in Games
      /\ journal' \in [Game -> Seq(Event)]
      /\ rows' \subseteq Player
  BY <1>1, WriteTyped DEF CommitSucceeds, CommitFails, CommitUnknown, database, Typed, TypeOK
<1>3. CASE Vanish(s) /\ UNCHANGED answered
  BY <1>2, <1>3, VanishTyped DEF Typed, TypeOK
<1>4. CASE Rollback(s) /\ (UNCHANGED linked \/ linked' = linked \ {s})
  BY <1>1, <1>2, <1>4, RollbackTyped DEF Typed, TypeOK
<1>5. CASE /\ cache' = [cache EXCEPT ![s] = SessionsAfterCommit(s, cache[s])]
           /\ gate' = [gate EXCEPT ![s] = Free]
           /\ Respond(s, gate[s].by)
           /\ UNCHANGED <<process, memory, waiting>>
  <2>1. SessionsAfterCommit(s, cache[s]) \in SUBSET Player
    BY <1>1, Held, SessionsAfterType DEF SessionsAfterCommit, Typed, TypeOK
  <2>2. gate[s].by.kind = "order" =>
            /\ gate[s].by \in Request
            /\ memory[s][gate[s].by.game].orders[gate[s].by.command] # Never
    BY <1>1, Held DEF Typed, Recorded
  <2>3. answered' \subseteq Answer
    BY <1>5, <2>2, RespondType DEF Typed
  <2>4. TypeOK'
    BY <1>2, <1>5, <2>1, <2>3 DEF Typed, TypeOK, process
  <2>5. Recorded' /\ Attended'
    BY <1>5 DEF Typed, TypeOK, Recorded, Attended, process
  <2> QED
    BY <2>4, <2>5 DEF Typed
<1> QED
  BY <1>3, <1>4, <1>5 DEF CommitSucceeds, CommitFails, CommitUnknown

LEMMA PanicTyped ==
  ASSUME Typed, NEW s \in Server, HandlerPanics(s)
  PROVE  Typed'
<1> DEFINE r == waiting[s]
<1>1. /\ r \in Request
      /\ gate[s] = Free
  BY DEF HandlerPanics, Taken, Open, Typed, TypeOK
<1>2. memory[s] \in Games
  BY DEF Typed, TypeOK
<1>3. Handled(r, memory[s]) \in Games
  BY <1>1, <1>2, HandledType
<1>4. PICK changed \in SUBSET Differing(memory[s], Handled(r, memory[s])) :
        memory' = [memory EXCEPT ![s] =
            [g \in Game |-> IF g \in changed THEN Handled(r, memory[s])[g]
                            ELSE memory[s][g]]]
  BY DEF HandlerPanics
<1> HIDE DEF r
<1>5. [g \in Game |-> IF g \in changed THEN Handled(r, memory[s])[g]
                      ELSE memory[s][g]] \in Games
  BY <1>2, <1>3 DEF Games
<1>6. memory' \in [Server -> Games]
  BY <1>4, <1>5 DEF Typed, TypeOK
<1>7. TypeOK'
  BY <1>6 DEF HandlerPanics, Typed, TypeOK, database
<1>8. \A t \in Server : gate[t] # Free => memory'[t] = memory[t]
  BY <1>1, <1>4 DEF Typed, TypeOK
<1>9. Recorded' /\ Attended'
  BY <1>8 DEF HandlerPanics, Typed, Recorded, Attended
<1> QED
  BY <1>7, <1>9 DEF Typed

LEMMA PausedTyped ==
  ASSUME Typed, NEW s \in Server, PauseAfterPanic(s)
  PROVE  Typed'
<1>1. AllPaused(memory[s]) \in Games
  BY AllPausedType DEF Typed, TypeOK
<1>2. TypeOK'
  BY <1>1 DEF PauseAfterPanic, Typed, TypeOK, database
<1>3. Recorded' /\ Attended'
  BY DEF PauseAfterPanic, Typed, TypeOK, Recorded, Attended
<1> QED
  BY <1>2, <1>3 DEF Typed

\* Steps that leave the database, the memories and the gates alone.
LEMMA OtherTyped ==
  ASSUME Typed, NEW s \in Server,
         \/ \E r \in Request : Arrive(s, r)
         \/ HandleUnchanged(s) \/ Refuse(s) \/ NoticePanic(s)
         \/ Stop(s) \/ Disconnect(s)
  PROVE  Typed'
<1>1. CASE \E r \in Request : Arrive(s, r)
  <2>1. PICK r \in Request : Arrive(s, r)
    BY <1>1
  <2>2. /\ s \in serving /\ waiting' = [waiting EXCEPT ![s] = r]
        /\ UNCHANGED <<database, process, memory, cache, gate, answered>>
    BY ONLY <2>1 DEF Arrive
  <2>3. TypeOK'
    BY <2>2 DEF Typed, TypeOK, database, process
  <2>4. Recorded' /\ Attended'
    BY <2>2 DEF Typed, TypeOK, Recorded, Attended, database, process
  <2> QED BY <2>3, <2>4 DEF Typed
<1>2. CASE HandleUnchanged(s)
  <2>1. waiting[s] \in Request
    BY <1>2 DEF HandleUnchanged, Taken, Typed, TypeOK
  <2>2. waiting[s].kind # "order"
    BY <1>2, <2>1, OrderRecorded DEF HandleUnchanged, Typed
  <2>3. UNCHANGED answered
    BY <1>2, <2>2 DEF HandleUnchanged, Respond
  <2> QED
    BY <1>2, <2>3 DEF HandleUnchanged, Typed, TypeOK, Recorded, Attended, database, process
<1>3. CASE Refuse(s)
  BY <1>3 DEF Refuse, Typed, TypeOK, Recorded, Attended, database, process
<1>4. CASE NoticePanic(s)
  BY <1>4 DEF NoticePanic, Typed, TypeOK, Recorded, Attended, database
<1>5. CASE Stop(s)
  BY <1>5 DEF Stop, Typed, TypeOK, Recorded, Attended, database
<1>6. CASE Disconnect(s)
  BY <1>6 DEF Disconnect, Typed, TypeOK, Recorded, Attended, database
<1> QED
  BY <1>1, <1>2, <1>3, <1>4, <1>5, <1>6

LEMMA TypedStep == Typed /\ [Next]_vars => Typed'
<1> SUFFICES ASSUME Typed, [Next]_vars PROVE Typed'
  OBVIOUS
<1>1. CASE UNCHANGED vars
  BY <1>1 DEF vars, database, process, Typed, TypeOK, Recorded, Attended
<1>2. ASSUME NEW s \in Server, Crash(s) PROVE Typed'
  BY <1>2, VanishTyped DEF Crash, Typed, TypeOK, database
<1> QED
  BY <1>1, <1>2, OtherTyped, HandleTyped, PanicTyped, PausedTyped, TickTyped,
     CommitTyped, StartTyped, ShutdownTyped DEF Next

\* The variables of the database, the servers and the clients keep their types.
THEOREM TypeCorrect == Spec => []TypeOK
<1>1. Spec => []Typed
  BY TypedInit, TypedStep, PTL DEF Spec
<1>2. Typed => TypeOK
  BY DEF Typed
<1> QED
  BY <1>1, <1>2, PTL

-----------------------------------------------------------------------------
(* What a commit does to the head of the journal.                          *)

LEMMA WriteLatest ==
  ASSUME TypeOK, NEW s \in Server, gate[s] # Free, Write(s), NEW g \in Game
  PROVE  Latest(g)' = IF g \in gate[s].touched THEN memory[s][g] ELSE Latest(g)
<1> DEFINE e == [input |-> gate[s].inputs[g], state |-> memory[s][g]]
<1>1. journal[g] \in Seq(Event)
  BY DEF TypeOK
<1>2. e \in Event
  BY Held DEF Event, TypeOK, Games
<1>3. CASE g \notin gate[s].touched
  <2>1. journal'[g] = journal[g] /\ snapshot'[g] = snapshot[g]
    BY <1>3 DEF Write
  <2> QED
    BY <1>3, <2>1 DEF Latest
<1>4. CASE g \in gate[s].touched /\ Checkpoint(s, g)
  <2>1. journal'[g] = <<>> /\ snapshot'[g] = memory[s][g]
    BY <1>4 DEF Write
  <2> QED
    BY <1>4, <2>1 DEF Latest
<1>5. CASE g \in gate[s].touched /\ ~Checkpoint(s, g)
  <2>1. journal'[g] = Append(journal[g], e)
    BY <1>5 DEF Write
  <2>2. e.state = memory[s][g]
    OBVIOUS
  <2> HIDE DEF e
  <2>3. /\ journal'[g] # <<>>
        /\ journal'[g][Len(journal'[g])] = e
    BY <1>1, <1>2, <2>1
  <2> QED
    BY <1>5, <2>2, <2>3 DEF Latest
<1> QED
  BY <1>3, <1>4, <1>5

LEMMA StartLatest ==
  ASSUME TypeOK, NEW s \in Server, Start(s), NEW g \in Game
  PROVE  \E gone \in [Game -> SUBSET Player] :
           /\ Latest(g)' = Recovered(g, gone)
           /\ snapshot'[g] = Latest(g)'
<1>1. PICK gone \in [Game -> SUBSET Player] :
        snapshot' = [h \in Game |-> Recovered(h, gone)]
  BY DEF Start
<1>2. journal'[g] = <<>>
  BY DEF Start
<1> QED
  BY <1>1, <1>2 DEF Latest

LEMMA UnchangedLatest ==
  ASSUME UNCHANGED database, NEW g \in Game
  PROVE  Latest(g)' = Latest(g)
  BY DEF database, Latest

\* The steps that write to the database.
LEMMA Writers ==
  ASSUME [Next]_vars
  PROVE  \/ UNCHANGED database
         \/ \E s \in Server : gate[s] # Free /\ Write(s)
         \/ \E s \in Server : Start(s)
<1>1. CASE UNCHANGED vars
  BY <1>1 DEF vars
<1>2. ASSUME NEW s \in Server,
             \/ CommitSucceeds(s) \/ CommitUnknown(s)
      PROVE  gate[s] # Free /\ Write(s)
  BY <1>2 DEF CommitSucceeds, CommitUnknown
<1>3. ASSUME NEW s \in Server,
             \/ \E r \in Request : Arrive(s, r)
             \/ Handle(s) \/ HandleUnchanged(s) \/ Refuse(s) \/ HandlerPanics(s)
             \/ NoticePanic(s) \/ PauseAfterPanic(s) \/ Tick(s) \/ CommitFails(s)
             \/ Stop(s) \/ Shutdown(s) \/ Crash(s) \/ Disconnect(s)
      PROVE  UNCHANGED database
  BY <1>3 DEF Arrive, Handle, HandleUnchanged, Refuse, HandlerPanics, NoticePanic,
              PauseAfterPanic, Tick, CommitFails, Stop, Shutdown, Crash, Disconnect
<1> QED
  BY <1>1, <1>2, <1>3 DEF Next

LEMMA RecoveredFields ==
  ASSUME TypeOK, NEW g \in Game, NEW gone
  PROVE  /\ Recovered(g, gone) # Latest(g) =>
               Recovered(g, gone).sequence = Latest(g).sequence + 1
         /\ Recovered(g, gone).orders = Latest(g).orders
         /\ Recovered(g, gone).seats \subseteq
               IF Latest(g).status = "none" THEN Latest(g).seats ELSE rows
<1> DEFINE left == Release(Latest(g), (Player \ rows) \cup gone[g])
           kept == Pause(left)
<1>1. Latest(g) \in GameState
  BY LatestType
<1>2. left \in GameState /\ kept \in GameState
  BY <1>1, ReleaseType, PauseType
<1>3. /\ left.orders = Latest(g).orders
      /\ left.seats = Latest(g).seats \ ((Player \ rows) \cup gone[g])
  BY <1>1, ReleaseFields
<1>4. kept.orders = Latest(g).orders /\ kept.seats = left.seats
  BY <1>2, <1>3, PauseFields
<1>5. kept.seats \subseteq rows
  BY <1>1, <1>3, <1>4, Fields
<1>6. CASE Latest(g).status = "none"
  BY <1>6 DEF Recovered
<1>7. CASE Latest(g).status # "none"
  <2>1. Recovered(g, gone) = [kept EXCEPT !.sequence = Latest(g).sequence + 1]
    BY <1>7 DEF Recovered
  <2> HIDE DEF kept, left
  <2> QED
    BY <1>2, <1>4, <1>5, <1>7, <2>1 DEF GameState
<1> QED
  BY <1>6, <1>7

LEMMA ForkFree ==
  ASSUME TypeOK, [Next]_vars, NEW g \in Game, Latest(g)' # Latest(g)
  PROVE  Latest(g)'.sequence = Latest(g).sequence + 1
<1>1. CASE UNCHANGED database
  BY <1>1, UnchangedLatest
<1>2. ASSUME NEW s \in Server, gate[s] # Free, Write(s)
      PROVE  Latest(g)'.sequence = Latest(g).sequence + 1
  <2>1. g \in gate[s].touched /\ Latest(g)' = memory[s][g]
    BY <1>2, WriteLatest
  <2>2. Latest(g).sequence = memory[s][g].sequence - 1
    BY <1>2, <2>1 DEF Write, Fenced
  <2>3. memory[s][g].sequence \in Nat
    BY Fields, Bounds DEF TypeOK, Games
  <2> QED
    BY <2>1, <2>2, <2>3
<1>3. ASSUME NEW s \in Server, Start(s)
      PROVE  Latest(g)'.sequence = Latest(g).sequence + 1
  BY <1>3, StartLatest, RecoveredFields
<1> QED
  BY <1>1, <1>2, <1>3, Writers

\* Two servers, one of which has lost its lock without knowing, never continue
\* from the same committed state: the guarded update is enough.
THEOREM HistoryNeverForksHolds == Spec => HistoryNeverForks
<1>1. TypeOK /\ [Next]_vars =>
        [\A g \in Game : Latest(g)' # Latest(g) =>
             Latest(g)'.sequence = Latest(g).sequence + 1]_vars
  BY ForkFree
<1> QED
  BY <1>1, TypeCorrect, PTL DEF Spec, HistoryNeverForks

-----------------------------------------------------------------------------
(* Answers.  The invariant follows an order from the handler that accepts  *)
(* it to the journal: what the only server that can commit has in memory   *)
(* is never behind the database, unless it has failed.                     *)

\* The orders of `old' are in `new', as they were.
Continues(old, new) ==
  \A c \in Command : old.orders[c] # Never => new.orders[c] = old.orders[c]

SoleWriter == \A s, t \in linked : s = t

Carried ==
  \A s \in linked : (gate[s] # Free \/ s \notin failed) =>
      \A g \in Game : Continues(Latest(g), memory[s][g])

Orderly == Typed /\ SoleWriter /\ Carried /\ AnswersAreDurable

LEMMA OrderlyInit == Init => Orderly
  BY TypedInit DEF Init, Orderly, SoleWriter, Carried, AnswersAreDurable

LEMMA HandledContinues ==
  ASSUME NEW r \in Request, NEW games \in Games, NEW g \in Game
  PROVE  Continues(games[g], Handled(r, games)[g])
<1> DEFINE game == games[g]
<1>1. game \in GameState
  BY DEF Games
<1>2. game.orders \in Orders
  BY <1>1, Fields
<1>3. ASSUME NEW c \in Command
      PROVE  Continues(game, Accept(game, c))
  BY <1>1, <1>2 DEF Continues, Accept, GameState, Orders
<1>4. Continues(game, HandledGame(r, g, game))
  BY <1>1, <1>3, RequestKinds DEF HandledGame, Continues, GameState
<1> QED
  BY <1>4 DEF Handled

\* A step that does not write: a server that can still commit keeps the orders
\* it had, and was able to commit before the step.
Quiet ==
  /\ linked' \subseteq linked
  /\ UNCHANGED answered
  /\ \A t \in linked' : (gate'[t] # Free \/ t \notin failed') =>
        /\ gate[t] # Free \/ t \notin failed
        /\ \A g \in Game : Continues(memory[t][g], memory'[t][g])

LEMMA HoldQuiet ==
  ASSUME Typed, NEW s \in Server, NEW by, NEW after \in Games, NEW inputs, NEW touched,
         s \notin failed, UNCHANGED <<process, answered>>,
         \A g \in Game : Continues(memory[s][g], after[g]),
         Hold(s, by, after, inputs, touched)
  PROVE  Quiet
<1>1. /\ memory'[s] = Numbered(after, touched)
      /\ \A t \in Server \ {s} : gate'[t] = gate[t] /\ memory'[t] = memory[t]
  BY DEF Hold, Typed, TypeOK
<1>2. \A g \in Game : Continues(memory[s][g], memory'[s][g])
  BY <1>1, NumberedFields DEF Continues
<1> QED
  BY <1>1, <1>2 DEF Quiet, Continues, process, Typed, TypeOK

LEMMA NonWritersAreQuiet ==
  ASSUME Typed, NEW s \in Server,
         \/ \E r \in Request : Arrive(s, r)
         \/ Handle(s) \/ HandleUnchanged(s) \/ Refuse(s) \/ HandlerPanics(s)
         \/ NoticePanic(s) \/ PauseAfterPanic(s) \/ Tick(s) \/ CommitFails(s)
         \/ Stop(s) \/ Shutdown(s) \/ Crash(s) \/ Disconnect(s)
  PROVE  Quiet
<1>1. CASE \/ \E r \in Request : Arrive(s, r)
           \/ Refuse(s) \/ NoticePanic(s) \/ Stop(s) \/ Disconnect(s)
  BY <1>1 DEF Arrive, Refuse, NoticePanic, Stop, Disconnect, Quiet, Continues, process
<1>2. CASE HandleUnchanged(s)
  <2>1. waiting[s] \in Request
    BY <1>2 DEF HandleUnchanged, Taken, Typed, TypeOK
  <2>2. UNCHANGED answered
    BY <1>2, <2>1, OrderRecorded DEF HandleUnchanged, Respond, Typed
  <2> QED
    BY <1>2, <2>2 DEF HandleUnchanged, Quiet, Continues, process
<1>3. CASE Handle(s)
  <2>1. /\ waiting[s] \in Request
        /\ s \notin failed
        /\ Hold(s, waiting[s], Handled(waiting[s], memory[s]),
               [g \in Game |-> Capture(memory[s][g], FALSE)], Touched(s, waiting[s]))
        /\ UNCHANGED <<process, answered>>
    BY <1>3 DEF Handle, Taken, Open, Typed, TypeOK
  <2>2. memory[s] \in Games
    BY DEF Typed, TypeOK
  <2>3. Handled(waiting[s], memory[s]) \in Games
    BY <2>1, <2>2, HandledType
  <2>4. \A g \in Game : Continues(memory[s][g], Handled(waiting[s], memory[s])[g])
    BY <2>1, <2>2, HandledContinues
  <2> QED
    BY <2>1, <2>3, <2>4, HoldQuiet
<1>4. CASE HandlerPanics(s)
  <2>1. waiting[s] \in Request /\ memory[s] \in Games /\ s \notin failed
    BY <1>4 DEF HandlerPanics, Taken, Open, Typed, TypeOK
  <2>2. PICK changed \in SUBSET Differing(memory[s], Handled(waiting[s], memory[s])) :
          memory' = [memory EXCEPT ![s] =
              [g \in Game |-> IF g \in changed THEN Handled(waiting[s], memory[s])[g]
                              ELSE memory[s][g]]]
    BY <1>4 DEF HandlerPanics
  <2>3. /\ \A g \in Game : \/ memory'[s][g] = Handled(waiting[s], memory[s])[g]
                           \/ memory'[s][g] = memory[s][g]
        /\ \A t \in Server \ {s} : memory'[t] = memory[t]
    BY <2>2 DEF Typed, TypeOK
  <2>4. \A g \in Game : Continues(memory[s][g], memory'[s][g])
    BY <2>1, <2>3, HandledContinues DEF Continues
  <2> QED
    BY <1>4, <2>1, <2>3, <2>4 DEF HandlerPanics, Quiet, Continues, Typed, TypeOK
<1>5. CASE PauseAfterPanic(s)
  <2>1. \A t \in Server : t # s => memory'[t] = memory[t]
    BY <1>5 DEF PauseAfterPanic, Typed, TypeOK
  <2> QED
    BY <1>5, <2>1 DEF PauseAfterPanic, Quiet, Continues, Typed, TypeOK
<1>6. CASE Tick(s)
  <2>1. PICK gone \in [Game -> SUBSET Player],
             due \in SUBSET {g \in Game : memory[s][g].status = "running"} :
          /\ \A g \in due : memory[s][g].frame < MaxFrame
          /\ Hold(s, [kind |-> "tick"], Ticked(s, gone, due), TickInputs(s, gone, due),
                  Differing(memory[s], Ticked(s, gone, due)))
          /\ UNCHANGED <<process, answered>>
          /\ s \notin failed
    BY <1>6 DEF Tick, Open
  <2>2. /\ Ticked(s, gone, due) \in Games
        /\ \A g \in Game : Ticked(s, gone, due)[g].orders = memory[s][g].orders
    BY <2>1, CycleType DEF Typed
  <2> QED
    BY <2>1, <2>2, HoldQuiet DEF Continues
<1>7. CASE Shutdown(s)
  <2> DEFINE after == [g \in Game |-> Pause(memory[s][g])]
  <2>1. /\ Hold(s, [kind |-> "shutdown"], after,
                [g \in Game |-> Capture(memory[s][g], FALSE)],
                {g \in Game : memory[s][g].status # "none"})
        /\ UNCHANGED <<process, answered>>
        /\ s \notin failed
    BY <1>7 DEF Shutdown
  <2>2. /\ after \in Games
        /\ \A g \in Game : after[g].orders = memory[s][g].orders
    BY PauseType, PauseFields DEF Typed, TypeOK, Games
  <2> HIDE DEF after
  <2> QED
    BY <2>1, <2>2, HoldQuiet DEF Continues
<1>8. CASE CommitFails(s) \/ Crash(s)
  <2>1. CASE Vanish(s) /\ UNCHANGED answered
    <3>1. \A t \in linked' : t # s /\ gate'[t] = gate[t] /\ memory'[t] = memory[t]
      BY <2>1 DEF Vanish, Typed, TypeOK
    <3> QED
      BY <2>1, <3>1 DEF Vanish, Quiet, Continues
  <2>2. CASE Rollback(s) /\ UNCHANGED linked
    <3>1. /\ gate'[s] = Free /\ s \in failed'
          /\ \A t \in Server \ {s} : gate'[t] = gate[t] /\ memory'[t] = memory[t]
      BY <2>2 DEF Rollback, Typed, TypeOK
    <3> QED
      BY <2>2, <3>1 DEF Rollback, Quiet, Continues, Typed, TypeOK
  <2> QED
    BY <1>8, <2>1, <2>2 DEF CommitFails, Crash
<1> QED
  BY <1>1, <1>2, <1>3, <1>4, <1>5, <1>6, <1>7, <1>8

LEMMA QuietOrderly ==
  ASSUME Orderly, Quiet, UNCHANGED database
  PROVE  SoleWriter' /\ Carried' /\ AnswersAreDurable'
<1>1. \A g \in Game : Latest(g)' = Latest(g)
  BY UnchangedLatest
<1>2. SoleWriter'
  BY DEF Orderly, SoleWriter, Quiet
<1>3. Carried'
  BY <1>1 DEF Orderly, Carried, Quiet, Continues
<1>4. AnswersAreDurable'
  BY <1>1 DEF Orderly, AnswersAreDurable, Quiet, Typed, TypeOK, Answer
<1> QED
  BY <1>2, <1>3, <1>4

\* The committed games never lose or change an order.
LEMMA WriteContinues ==
  ASSUME Orderly, NEW s \in Server, gate[s] # Free, Write(s), NEW g \in Game
  PROVE  /\ Continues(Latest(g), Latest(g)')
         /\ Continues(Latest(g)', memory[s][g])
         /\ g \in gate[s].touched => Latest(g)' = memory[s][g]
<1>1. Continues(Latest(g), memory[s][g])
  BY DEF Orderly, Carried, Write
<1>2. Latest(g)' = IF g \in gate[s].touched THEN memory[s][g] ELSE Latest(g)
  BY WriteLatest DEF Orderly, Typed
<1> QED
  BY <1>1, <1>2 DEF Continues

\* An answer that was durable stays so.
LEMMA OldAnswers ==
  ASSUME Orderly, \A g \in Game : Continues(Latest(g), Latest(g)'), NEW a \in answered
  PROVE  Latest(a.game)'.orders[a.command] = a.frame
<1>1. a.game \in Game /\ a.command \in Command /\ a.frame \in 0..MaxFrame
  BY DEF Orderly, Typed, TypeOK, Answer
<1>2. Latest(a.game).orders[a.command] = a.frame /\ a.frame # Never
  BY <1>1, Bounds DEF Orderly, AnswersAreDurable
<1> QED
  BY <1>1, <1>2 DEF Continues

LEMMA CommitOrderly ==
  ASSUME Orderly, NEW s \in Server, CommitSucceeds(s) \/ CommitUnknown(s)
  PROVE  SoleWriter' /\ Carried' /\ AnswersAreDurable'
<1>1. gate[s] # Free /\ Write(s) /\ s \in linked
  BY DEF CommitSucceeds, CommitUnknown, Write
<1>2. \A g \in Game : /\ Continues(Latest(g), Latest(g)')
                      /\ Continues(Latest(g)', memory[s][g])
                      /\ g \in gate[s].touched => Latest(g)' = memory[s][g]
  BY <1>1, WriteContinues
<1>3. \A t \in linked : t = s
  BY <1>1 DEF Orderly, SoleWriter
<1>4. CASE linked' = linked \ {s} /\ UNCHANGED answered
  <2>1. linked' = {}
    BY <1>3, <1>4
  <2>2. AnswersAreDurable'
    BY <1>2, <1>4, OldAnswers DEF AnswersAreDurable
  <2> QED
    BY <2>1, <2>2 DEF SoleWriter, Carried
<1>5. CASE Respond(s, gate[s].by) /\ UNCHANGED <<process, memory>>
  <2>1. Carried'
    BY <1>2, <1>3, <1>5 DEF Carried, process
  <2>2. SoleWriter'
    BY <1>5 DEF Orderly, SoleWriter, process
  <2>3. ASSUME NEW a \in answered', a \notin answered
        PROVE  Latest(a.game)'.orders[a.command] = a.frame
    <3>0. PICK r : r = gate[s].by
      OBVIOUS
    <3>1. /\ r.kind = "order"
          /\ answered' = answered \cup
                 {[game |-> r.game, command |-> r.command,
                   frame |-> memory[s][r.game].orders[r.command]]}
      BY <1>5, <2>3, <3>0 DEF Respond
    <3>2. a = [game |-> r.game, command |-> r.command,
               frame |-> memory[s][r.game].orders[r.command]]
      BY <2>3, <3>1
    <3>3. r.game \in gate[s].touched /\ r.game \in Game
      BY <1>1, <3>0, <3>1, Held, RequestKinds DEF Orderly, Typed, Recorded
    <3>4. Latest(r.game)' = memory[s][r.game]
      BY <1>2, <3>3
    <3> QED
      BY <3>2, <3>4
  <2>4. AnswersAreDurable'
    BY <1>2, <2>3, OldAnswers DEF AnswersAreDurable
  <2> QED
    BY <2>1, <2>2, <2>4
<1> QED
  BY <1>4, <1>5 DEF CommitSucceeds, CommitUnknown, Vanish, Rollback

LEMMA StartOrderly ==
  ASSUME Orderly, NEW s \in Server, Start(s)
  PROVE  SoleWriter' /\ Carried' /\ AnswersAreDurable'
<1>1. \A g \in Game : Latest(g)'.orders = Latest(g).orders /\ snapshot'[g] = Latest(g)'
  BY StartLatest, RecoveredFields DEF Orderly, Typed
<1>2. AnswersAreDurable'
  BY <1>1, OldAnswers DEF Start, AnswersAreDurable, Continues
<1>3. \/ linked' = {s} /\ memory' = [memory EXCEPT ![s] = snapshot']
      \/ linked' = {}
  BY DEF Start
<1>4. SoleWriter'
  BY <1>3 DEF SoleWriter
<1>5. Carried'
  BY <1>1, <1>3 DEF Carried, Continues, Orderly, Typed, TypeOK
<1> QED
  BY <1>2, <1>4, <1>5

LEMMA OrderlyStep == Orderly /\ [Next]_vars => Orderly'
<1> SUFFICES ASSUME Orderly, [Next]_vars PROVE Orderly'
  OBVIOUS
<1>1. Typed'
  BY TypedStep DEF Orderly
<1>2. CASE UNCHANGED vars
  <2>1. Quiet /\ UNCHANGED database
    BY <1>2 DEF vars, process, Quiet, Continues
  <2> QED
    BY <1>1, <2>1, QuietOrderly DEF Orderly
<1>3. ASSUME NEW s \in Server,
             \/ \E r \in Request : Arrive(s, r)
             \/ Handle(s) \/ HandleUnchanged(s) \/ Refuse(s) \/ HandlerPanics(s)
             \/ NoticePanic(s) \/ PauseAfterPanic(s) \/ Tick(s) \/ CommitFails(s)
             \/ Stop(s) \/ Shutdown(s) \/ Crash(s) \/ Disconnect(s)
      PROVE  SoleWriter' /\ Carried' /\ AnswersAreDurable'
  <2>1. Quiet
    BY <1>3, NonWritersAreQuiet DEF Orderly
  <2>2. UNCHANGED database
    BY <1>3 DEF Arrive, Handle, HandleUnchanged, Refuse, HandlerPanics, NoticePanic,
                PauseAfterPanic, Tick, CommitFails, Stop, Shutdown, Crash, Disconnect
  <2> QED
    BY <2>1, <2>2, QuietOrderly
<1> QED
  BY <1>1, <1>2, <1>3, CommitOrderly, StartOrderly DEF Next, Orderly

\* What a client was told of an order is in the database for good, whatever
\* panics, fails, disconnects, crashes or is recovered.
THEOREM AnswersAreDurableHolds == Spec => []AnswersAreDurable
<1>1. Spec => []Orderly
  BY OrderlyInit, OrderlyStep, PTL DEF Spec
<1>2. Orderly => AnswersAreDurable
  BY DEF Orderly
<1> QED
  BY <1>1, <1>2, PTL

-----------------------------------------------------------------------------
(* Without panics the memory of the only server that can commit is what    *)
(* the database holds, up to the boundary in progress; the panic runs show *)
(* that neither property below survives a handler that dies half way.      *)

\* The boundary a server holds changes exactly the games it commits, as their
\* recorded inputs say, and seats nobody who will be signed out.
Pending(s, g) ==
  /\ g \notin gate[s].touched => memory[s][g] = Latest(g)
  /\ (g \in gate[s].touched /\ IsTick(s)) =>
        memory[s][g] = Apply(gate[s].inputs[g], Latest(g))
  /\ memory[s][g].seats \subseteq SessionsAfterCommit(s, rows)

Mirrored ==
  \A s \in linked :
    /\ cache[s] = rows
    /\ (gate[s] = Free /\ s \notin failed) => \A g \in Game : memory[s][g] = Latest(g)
    /\ gate[s] # Free => \A g \in Game : Pending(s, g)

Exact == Typed /\ SoleWriter /\ Mirrored /\ JournalReplays /\ SignedOutHoldNothing

LEMMA ExactInit == Init => Exact
<1> SUFFICES ASSUME Init PROVE Exact
  OBVIOUS
<1>1. \A g \in Game : journal[g] = <<>> /\ Latest(g).seats = {}
  BY DEF Init, Latest, NoGames, NoGame
<1>2. SoleWriter /\ Mirrored
  BY DEF Init, SoleWriter, Mirrored
<1>3. JournalReplays /\ SignedOutHoldNothing
  BY <1>1 DEF JournalReplays, Verified, SignedOutHoldNothing
<1> QED
  BY <1>2, <1>3, TypedInit DEF Exact

\* A request seats only players who stay signed in.
LEMMA HandledSeats ==
  ASSUME NEW r \in Request, NEW games \in Games, NEW S \in SUBSET Player, NEW g \in Game,
         Credentials(r) \subseteq S, games[g].seats \subseteq S
  PROVE  Handled(r, games)[g].seats \subseteq SessionsAfter(r, S)
<1> DEFINE game == games[g]
<1>1. game \in GameState
  BY DEF Games
<1>2. CASE r.kind \in {"login", "logout"}
  <2>1. HandledGame(r, g, game).seats = game.seats \ Leaving(r)
    BY <1>1, <1>2 DEF HandledGame, GameState
  <2>2. game.seats \ Leaving(r) \subseteq SessionsAfter(r, S)
    BY <1>2 DEF Leaving, SessionsAfter
  <2> QED
    BY <2>1, <2>2 DEF Handled
<1>3. CASE r.kind \notin {"login", "logout"}
  <2>1. SessionsAfter(r, S) = S /\ r.player \in S
    BY <1>3 DEF SessionsAfter, Credentials
  <2>2. \A c : Accept(game, c).seats = game.seats
    BY <1>1 DEF Accept, GameState
  <2>3. HandledGame(r, g, game).seats \subseteq game.seats \cup {r.player}
    BY <1>1, <1>3, <2>2 DEF HandledGame, GameState
  <2> QED
    BY <2>1, <2>3 DEF Handled
<1> QED
  BY <1>2, <1>3

\* Applying the recorded input to the game as it was before the cycle gives the
\* game as the cycle left it.
LEMMA TickReplays ==
  ASSUME NEW game \in GameState, NEW gone, NEW due \in BOOLEAN,
         due => game.status = "running",
         due => game.frame < MaxFrame
  PROVE  LET left  == Release(game, gone)
             after == IF due THEN Advance(left) ELSE left
         IN  [after EXCEPT !.sequence = after.sequence + 1]
                 = Apply(Capture(left, due), game)
<1> DEFINE left == Release(game, gone)
           seated == [game EXCEPT !.sequence = game.sequence + 1,
                                  !.seats = game.seats \ gone,
                                  !.status = game.status]
<1>1. /\ left \in GameState
      /\ left.seats = game.seats \ gone
      /\ left.status = game.status
      /\ left.sequence = game.sequence
      /\ left.frame = game.frame
      /\ left = [game EXCEPT !.seats = game.seats \ gone]
  BY ReleaseType, ReleaseFields DEF Release
<1>2. Apply(Capture(left, due), game)
        = IF game.status = "running" /\ due THEN Advance(seated) ELSE seated
  BY <1>1 DEF Apply, Capture
<1>3. seated = [left EXCEPT !.sequence = left.sequence + 1]
  BY <1>1 DEF GameState
<1>4. Advance(seated) = [Advance(left) EXCEPT !.sequence = Advance(left).sequence + 1]
  BY <1>1, <1>3 DEF Advance, GameState
<1> QED
  BY <1>2, <1>3, <1>4

LEMMA HandleMirrors ==
  ASSUME Exact, NEW s \in Server, Handle(s), s \in linked
  PROVE  \A g \in Game : Pending(s, g)'
<1> PICK r : r = waiting[s]
  OBVIOUS
<1>1. /\ r \in Request
      /\ Hold(s, r, Handled(r, memory[s]),
              [g \in Game |-> Capture(memory[s][g], FALSE)], Touched(s, r))
      /\ Credentials(r) \subseteq cache[s]
      /\ gate[s] = Free /\ s \notin failed
      /\ UNCHANGED database
  BY DEF Handle, Taken, Open, StillValid, Exact, Typed, TypeOK
<1>2. /\ memory[s] \in Games
      /\ \A g \in Game : memory[s][g] = Latest(g)
      /\ cache[s] = rows /\ rows \in SUBSET Player
  BY <1>1 DEF Exact, Mirrored, Typed, TypeOK
<1>3. Handled(r, memory[s]) \in Games
  BY <1>1, <1>2, HandledType
<1>4. PICK touched : touched = Touched(s, r)
  OBVIOUS
<1>5. /\ memory'[s] = Numbered(Handled(r, memory[s]), touched)
      /\ gate'[s].by = r /\ gate'[s].touched = touched
  BY <1>1, <1>4 DEF Hold, Exact, Typed, TypeOK
<1> SUFFICES ASSUME NEW g \in Game PROVE Pending(s, g)'
  OBVIOUS
<1>6. Latest(g)' = Latest(g) /\ rows' = rows
  BY <1>1, UnchangedLatest DEF database
<1>7. g \notin touched => memory'[s][g] = Latest(g)'
  BY <1>2, <1>4, <1>5, <1>6 DEF Numbered, Touched, Differing
<1>8. ~IsTick(s)'
  BY <1>1, <1>5, RequestKinds DEF IsTick
<1>9. Latest(g).seats \subseteq rows
  BY DEF Exact, SignedOutHoldNothing
<1>10. Handled(r, memory[s])[g].seats \subseteq SessionsAfter(r, rows)
  BY <1>1, <1>2, <1>9, HandledSeats
<1>11. SessionsAfterCommit(s, rows)' = SessionsAfter(r, rows)
  BY <1>1, <1>5, <1>6, RequestKinds DEF SessionsAfterCommit
<1>12. memory'[s][g].seats \subseteq SessionsAfterCommit(s, rows)'
  BY <1>3, <1>5, <1>10, <1>11, NumberedFields
<1> QED
  BY <1>5, <1>7, <1>8, <1>12 DEF Pending

LEMMA TickMirrors ==
  ASSUME Exact, NEW s \in Server, Tick(s), s \in linked
  PROVE  \A g \in Game : Pending(s, g)'
<1>1. PICK gone \in [Game -> SUBSET Player],
           due \in SUBSET {g \in Game : memory[s][g].status = "running"} :
        /\ \A g \in due : memory[s][g].frame < MaxFrame
        /\ Hold(s, [kind |-> "tick"], Ticked(s, gone, due), TickInputs(s, gone, due),
                Differing(memory[s], Ticked(s, gone, due)))
        /\ gate[s] = Free /\ s \notin failed
        /\ UNCHANGED database
  BY DEF Tick, Open
<1>2. /\ memory[s] \in Games
      /\ \A g \in Game : memory[s][g] = Latest(g)
  BY <1>1 DEF Exact, Mirrored, Typed, TypeOK
<1> SUFFICES ASSUME NEW g \in Game PROVE Pending(s, g)'
  OBVIOUS
<1>3. PICK after, inputs, touched :
        /\ after = Ticked(s, gone, due)
        /\ inputs = TickInputs(s, gone, due)
        /\ touched = Differing(memory[s], Ticked(s, gone, due))
  OBVIOUS
<1>4. /\ memory'[s] = Numbered(after, touched)
      /\ gate'[s].by = [kind |-> "tick"]
      /\ gate'[s].touched = touched
      /\ gate'[s].inputs = inputs
  BY <1>1, <1>3 DEF Hold, Exact, Typed, TypeOK
<1>5. Latest(g)' = Latest(g) /\ rows' = rows
  BY <1>1, UnchangedLatest DEF database
<1>6. g \notin touched => memory'[s][g] = Latest(g)'
  BY <1>2, <1>3, <1>4, <1>5 DEF Numbered, Differing
<1>7. /\ after[g] = IF g \in due THEN Advance(Release(memory[s][g], gone[g]))
                    ELSE Release(memory[s][g], gone[g])
      /\ inputs[g] = Capture(Release(memory[s][g], gone[g]), g \in due)
  BY <1>3 DEF Ticked, TickInputs, Expired
<1>8. /\ (g \in due) \in BOOLEAN
      /\ g \in due => memory[s][g].status = "running"
      /\ memory[s][g] \in GameState
  BY <1>2 DEF Games
<1>9. [after[g] EXCEPT !.sequence = after[g].sequence + 1] = Apply(inputs[g], memory[s][g])
  <2>1. PICK advance \in BOOLEAN, game \in GameState :
          advance = (g \in due) /\ game = memory[s][g]
    BY <1>8
  <2>2. PICK left : left = Release(game, gone[g])
    OBVIOUS
  <2>3. /\ after[g] = IF advance THEN Advance(left) ELSE left
        /\ inputs[g] = Capture(left, advance)
    BY <1>7, <2>1, <2>2
  <2>4. /\ advance => game.status = "running"
        /\ advance => game.frame < MaxFrame
    BY <1>1, <1>8, <2>1
  <2>5. \A x : x = (IF advance THEN Advance(left) ELSE left) =>
          [x EXCEPT !.sequence = x.sequence + 1] = Apply(Capture(left, advance), game)
    BY <2>2, <2>4, TickReplays
  <2> QED
    BY <2>1, <2>3, <2>5
<1>10. g \in touched => memory'[s][g] = Apply(gate'[s].inputs[g], Latest(g)')
  BY <1>2, <1>4, <1>5, <1>9 DEF Numbered
<1>11. after \in Games /\ after[g].seats \subseteq memory[s][g].seats
  BY <1>1, <1>3, CycleType DEF Exact, Typed
<1>12. memory'[s][g].seats \subseteq rows
  BY <1>2, <1>4, <1>11, NumberedFields DEF Exact, SignedOutHoldNothing
<1>13. SessionsAfterCommit(s, rows)' = rows
  BY <1>4, <1>5 DEF SessionsAfterCommit
<1> QED
  BY <1>4, <1>6, <1>10, <1>12, <1>13 DEF Pending

LEMMA ShutdownMirrors ==
  ASSUME Exact, NEW s \in Server, Shutdown(s), s \in linked
  PROVE  \A g \in Game : Pending(s, g)'
<1>1. PICK after, inputs, created :
        /\ after = [g \in Game |-> Pause(memory[s][g])]
        /\ created = {g \in Game : memory[s][g].status # "none"}
        /\ Hold(s, [kind |-> "shutdown"], after, inputs, created)
        /\ gate[s] = Free /\ s \notin failed
        /\ UNCHANGED database
  BY DEF Shutdown
<1>2. /\ memory[s] \in Games
      /\ \A g \in Game : memory[s][g] = Latest(g)
  BY <1>1 DEF Exact, Mirrored, Typed, TypeOK
<1> SUFFICES ASSUME NEW g \in Game PROVE Pending(s, g)'
  OBVIOUS
<1>3. /\ memory'[s] = Numbered(after, created)
      /\ gate'[s].by = [kind |-> "shutdown"]
      /\ gate'[s].touched = created
  BY <1>1 DEF Hold, Exact, Typed, TypeOK
<1>4. Latest(g)' = Latest(g) /\ rows' = rows
  BY <1>1, UnchangedLatest DEF database
<1>5. g \notin created => memory'[s][g] = Latest(g)'
  BY <1>1, <1>2, <1>3, <1>4 DEF Numbered, Pause
<1>6. after \in Games /\ after[g].seats = memory[s][g].seats
  BY <1>1, <1>2, PauseType, PauseFields DEF Games
<1>7. memory'[s][g].seats \subseteq rows
  BY <1>2, <1>3, <1>6, NumberedFields DEF Exact, SignedOutHoldNothing
<1>8. SessionsAfterCommit(s, rows)' = rows
  BY <1>3, <1>4 DEF SessionsAfterCommit
<1> QED
  BY <1>3, <1>5, <1>7, <1>8 DEF Pending, IsTick

LEMMA PendingKept ==
  ASSUME NEW s \in Server, NEW g \in Game, UNCHANGED database,
         gate'[s] = gate[s], memory'[s] = memory[s], Pending(s, g)
  PROVE  Pending(s, g)'
<1>1. Latest(g)' = Latest(g) /\ rows' = rows
  BY UnchangedLatest DEF database
<1>2. IsTick(s)' = IsTick(s) /\ SessionsAfterCommit(s, rows)' = SessionsAfterCommit(s, rows)
  BY <1>1 DEF IsTick, SessionsAfterCommit
<1> QED
  BY <1>1, <1>2 DEF Pending

\* A server that the step does not touch, or that takes no part in what follows.
LEMMA MirroredKept ==
  ASSUME Exact, NEW s \in Server, UNCHANGED database, linked' \subseteq linked,
         \A t \in Server \ {s} :
             /\ gate'[t] = gate[t] /\ memory'[t] = memory[t] /\ cache'[t] = cache[t]
             /\ t \notin failed' => t \notin failed,
         s \in linked' =>
             /\ cache'[s] = cache[s]
             /\ \/ /\ gate'[s] = gate[s] /\ memory'[s] = memory[s]
                   /\ s \notin failed' => s \notin failed
                \/ gate'[s] = Free /\ s \in failed'
                \/ gate'[s] # Free /\ \A g \in Game : Pending(s, g)'
  PROVE  Mirrored'
<1> SUFFICES ASSUME NEW t \in linked'
             PROVE  /\ cache'[t] = rows'
                    /\ (gate'[t] = Free /\ t \notin failed') =>
                          \A g \in Game : memory'[t][g] = Latest(g)'
                    /\ gate'[t] # Free => \A g \in Game : Pending(t, g)'
  BY DEF Mirrored
<1>1. t \in Server /\ t \in linked
  BY DEF Exact, Typed, TypeOK
<1>2. /\ cache[t] = rows
      /\ (gate[t] = Free /\ t \notin failed) => \A g \in Game : memory[t][g] = Latest(g)
      /\ gate[t] # Free => \A g \in Game : Pending(t, g)
  BY <1>1 DEF Exact, Mirrored
<1>3. \A g \in Game : Latest(g)' = Latest(g)
  BY UnchangedLatest
<1>4. cache'[t] = rows'
  BY <1>1, <1>2 DEF database
<1>5. CASE gate'[t] = gate[t] /\ memory'[t] = memory[t] /\ (t \notin failed' => t \notin failed)
  BY <1>1, <1>2, <1>3, <1>4, <1>5, PendingKept
<1> QED
  BY <1>1, <1>4, <1>5

LEMMA NonWritersMirror ==
  ASSUME Exact, NEW s \in Server, ~Panics,
         \/ \E r \in Request : Arrive(s, r)
         \/ Handle(s) \/ HandleUnchanged(s) \/ Refuse(s) \/ HandlerPanics(s)
         \/ NoticePanic(s) \/ PauseAfterPanic(s) \/ Tick(s) \/ CommitFails(s)
         \/ Stop(s) \/ Shutdown(s) \/ Crash(s) \/ Disconnect(s)
  PROVE  Mirrored'
<1>1. CASE \/ \E r \in Request : Arrive(s, r)
           \/ HandleUnchanged(s) \/ Refuse(s) \/ NoticePanic(s)
           \/ Stop(s) \/ Disconnect(s)
  BY <1>1, MirroredKept DEF Arrive, HandleUnchanged, Refuse, NoticePanic, Stop,
                            Disconnect, process
<1>2. CASE Handle(s) \/ Tick(s) \/ Shutdown(s)
  <2>1. /\ UNCHANGED <<database, process, cache>>
        /\ gate'[s] # Free
        /\ \A t \in Server \ {s} : gate'[t] = gate[t] /\ memory'[t] = memory[t]
    <3>1. PICK by, after, inputs, touched :
            Hold(s, by, after, inputs, touched) /\ by.kind # "nobody"
      <4>1. CASE Handle(s)
        <5>1. waiting[s].kind # "nobody"
          BY <4>1, RequestKinds DEF Handle, Taken, Exact, Typed, TypeOK
        <5> QED
          BY <4>1, <5>1 DEF Handle
      <4>2. CASE Tick(s)
        BY <4>2 DEF Tick
      <4>3. CASE Shutdown(s)
        BY <4>3 DEF Shutdown
      <4> QED
        BY <1>2, <4>1, <4>2, <4>3
    <3>2. /\ gate'[s] = [by |-> by, before |-> memory[s],
                         inputs |-> inputs, touched |-> touched]
          /\ \A t \in Server \ {s} : gate'[t] = gate[t] /\ memory'[t] = memory[t]
      BY <3>1 DEF Hold, Exact, Typed, TypeOK
    <3>3. gate'[s].by = by
      BY <3>2
    <3>4. gate'[s] # Free
      BY <3>1, <3>3 DEF Free
    <3> QED
      BY <1>2, <3>2, <3>4 DEF Handle, Tick, Shutdown
  <2>2. s \in linked => \A g \in Game : Pending(s, g)'
    BY <1>2, HandleMirrors, TickMirrors, ShutdownMirrors
  <2> QED
    BY <2>1, <2>2, MirroredKept DEF process
<1>3. CASE PauseAfterPanic(s)
  <2>1. \A t \in Server \ {s} : memory'[t] = memory[t]
    BY <1>3 DEF PauseAfterPanic, Exact, Typed, TypeOK
  <2> QED
    BY <1>3, <2>1, MirroredKept DEF PauseAfterPanic
<1>4. CASE CommitFails(s) \/ Crash(s)
  <2>1. UNCHANGED database
    BY <1>4 DEF CommitFails, Crash
  <2>2. CASE Vanish(s)
    <3>1. /\ s \notin linked' /\ linked' \subseteq linked
          /\ \A t \in Server \ {s} :
               /\ gate'[t] = gate[t] /\ memory'[t] = memory[t] /\ cache'[t] = cache[t]
               /\ t \notin failed' => t \notin failed
      BY <2>2 DEF Vanish, Exact, Typed, TypeOK
    <3> QED
      BY <2>1, <3>1, MirroredKept
  <2>3. CASE Rollback(s) /\ UNCHANGED linked
    <3>1. /\ gate'[s] = Free /\ s \in failed'
          /\ UNCHANGED <<cache, linked>>
          /\ \A t \in Server \ {s} :
               /\ gate'[t] = gate[t] /\ memory'[t] = memory[t]
               /\ t \notin failed' => t \notin failed
      BY <2>3 DEF Rollback, Exact, Typed, TypeOK
    <3> QED
      BY <2>1, <3>1, MirroredKept
  <2> QED
    BY <1>4, <2>2, <2>3 DEF CommitFails, Crash
<1> QED
  BY <1>1, <1>2, <1>3, <1>4 DEF HandlerPanics

\* A commit leaves the database with what its server has in memory.
LEMMA CommittedIsMemory ==
  ASSUME Exact, NEW s \in Server, gate[s] # Free, Write(s), NEW g \in Game
  PROVE  /\ Latest(g)' = memory[s][g]
         /\ Latest(g)'.seats \subseteq rows'
<1>1. Pending(s, g) /\ rows' = SessionsAfterCommit(s, rows)
  BY DEF Write, Exact, Mirrored
<1>2. Latest(g)' = memory[s][g]
  BY <1>1, WriteLatest DEF Pending, Exact, Typed
<1> QED
  BY <1>1, <1>2 DEF Pending

LEMMA WriteReplays ==
  ASSUME Exact, NEW s \in Server, gate[s] # Free, Write(s), NEW g \in Game
  PROVE  Verified(g)'
<1> DEFINE e == [input |-> gate[s].inputs[g], state |-> memory[s][g]]
<1>1. journal[g] \in Seq(Event) /\ Verified(g) /\ Pending(s, g)
  BY DEF Write, Exact, Typed, TypeOK, JournalReplays, Mirrored
<1>2. CASE g \notin gate[s].touched
  <2>1. journal'[g] = journal[g] /\ snapshot'[g] = snapshot[g]
    BY <1>2 DEF Write
  <2> QED
    BY <1>1, <2>1 DEF Verified
<1>3. CASE g \in gate[s].touched /\ Checkpoint(s, g)
  <2>1. journal'[g] = <<>>
    BY <1>3 DEF Write
  <2> QED
    BY <2>1 DEF Verified
<1>4. CASE g \in gate[s].touched /\ ~Checkpoint(s, g)
  <2>1. /\ journal'[g] = Append(journal[g], e)
        /\ snapshot'[g] = snapshot[g]
        /\ IsTick(s)
    BY <1>4 DEF Write, Checkpoint
  <2>2. e \in Event
    BY Held DEF Event, Exact, Typed, TypeOK, Games
  <2>3. e.state = Apply(e.input, Latest(g))
    BY <1>1, <1>4, <2>1 DEF Pending
  <2> HIDE DEF e
  <2> SUFFICES ASSUME NEW i \in DOMAIN journal'[g]
               PROVE  journal'[g][i].state = Apply(journal'[g][i].input,
                         IF i = 1 THEN snapshot'[g] ELSE journal'[g][i - 1].state)
    BY DEF Verified
  <2>4. i \in 1..Len(journal[g]) + 1
    BY <1>1, <2>1, <2>2
  <2>5. CASE i = Len(journal[g]) + 1
    <3>1. journal'[g][i] = e
      BY <1>1, <2>1, <2>2, <2>5
    <3>2. Latest(g) = IF i = 1 THEN snapshot'[g] ELSE journal'[g][i - 1].state
      <4>1. CASE journal[g] = <<>>
        BY <2>1, <2>5, <4>1 DEF Latest
      <4>2. CASE journal[g] # <<>>
        <5>1. i - 1 = Len(journal[g]) /\ i # 1 /\ i - 1 \in 1..Len(journal[g])
          BY <1>1, <2>5, <4>2
        <5>2. journal'[g][i - 1] = journal[g][i - 1]
          BY <1>1, <2>1, <2>2, <5>1
        <5> QED
          BY <4>2, <5>1, <5>2 DEF Latest
      <4> QED
        BY <4>1, <4>2
    <3> QED
      BY <2>3, <3>1, <3>2
  <2>6. CASE i \in 1..Len(journal[g])
    <3>1. journal'[g][i] = journal[g][i] /\ i \in DOMAIN journal[g]
      BY <1>1, <2>1, <2>2, <2>6
    <3>2. i # 1 => journal'[g][i - 1] = journal[g][i - 1]
      BY <1>1, <2>1, <2>2, <2>6
    <3>3. journal[g][i].state = Apply(journal[g][i].input,
              IF i = 1 THEN snapshot[g] ELSE journal[g][i - 1].state)
      BY <1>1, <3>1 DEF Verified
    <3> QED
      BY <2>1, <3>1, <3>2, <3>3
  <2> QED
    BY <1>1, <2>4, <2>5, <2>6
<1> QED
  BY <1>2, <1>3, <1>4

LEMMA WriteExact ==
  ASSUME Exact, NEW s \in Server, CommitSucceeds(s) \/ CommitUnknown(s)
  PROVE  SoleWriter' /\ Mirrored' /\ JournalReplays' /\ SignedOutHoldNothing'
<1>1. gate[s] # Free /\ Write(s) /\ s \in linked
  BY DEF CommitSucceeds, CommitUnknown, Write
<1>2. JournalReplays' /\ SignedOutHoldNothing'
  BY <1>1, WriteReplays, CommittedIsMemory DEF JournalReplays, SignedOutHoldNothing
<1>3. \A t \in linked : t = s
  BY <1>1 DEF Exact, SoleWriter
<1>4. CASE linked' = linked \ {s}
  BY <1>2, <1>3, <1>4 DEF SoleWriter, Mirrored
<1>5. CASE /\ cache' = [cache EXCEPT ![s] = SessionsAfterCommit(s, cache[s])]
           /\ gate' = [gate EXCEPT ![s] = Free]
           /\ UNCHANGED <<process, memory>>
  <2>1. /\ cache'[s] = SessionsAfterCommit(s, rows)
        /\ gate'[s] = Free /\ memory'[s] = memory[s]
        /\ rows' = SessionsAfterCommit(s, rows)
        /\ linked' = linked
    BY <1>1, <1>5 DEF Write, Exact, Mirrored, Typed, TypeOK, process
  <2>2. \A g \in Game : memory'[s][g] = Latest(g)'
    BY <1>1, <2>1, CommittedIsMemory
  <2> QED
    BY <1>2, <1>3, <2>1, <2>2 DEF SoleWriter, Mirrored
<1> QED
  BY <1>4, <1>5 DEF CommitSucceeds, CommitUnknown, Vanish

LEMMA StartExact ==
  ASSUME Exact, NEW s \in Server, Start(s)
  PROVE  SoleWriter' /\ Mirrored' /\ JournalReplays' /\ SignedOutHoldNothing'
<1>1. \A g \in Game : /\ snapshot'[g] = Latest(g)'
                      /\ Latest(g)'.seats \subseteq rows
  BY StartLatest, RecoveredFields DEF Exact, Typed, SignedOutHoldNothing
<1>2. SignedOutHoldNothing'
  BY <1>1 DEF Start, SignedOutHoldNothing
<1>3. JournalReplays'
  BY DEF Start, JournalReplays, Verified
<1>4. gate'[s] = Free
  BY DEF Start, Exact, Typed, Attended
<1>5. CASE linked' = {s} /\ memory' = [memory EXCEPT ![s] = snapshot']
                /\ cache' = [cache EXCEPT ![s] = rows]
  <2>1. memory'[s] = snapshot' /\ cache'[s] = rows /\ rows' = rows
    BY <1>5 DEF Start, Exact, Typed, TypeOK
  <2> QED
    BY <1>1, <1>2, <1>3, <1>4, <1>5, <2>1 DEF SoleWriter, Mirrored
<1>6. CASE linked' = {}
  BY <1>2, <1>3, <1>6 DEF SoleWriter, Mirrored
<1> QED
  BY <1>5, <1>6 DEF Start

LEMMA ExactStep == Exact /\ ~Panics /\ [Next]_vars => Exact'
<1> SUFFICES ASSUME Exact, ~Panics, [Next]_vars PROVE Exact'
  OBVIOUS
<1>1. Typed'
  BY TypedStep DEF Exact
<1>2. ASSUME UNCHANGED database
      PROVE  JournalReplays' /\ SignedOutHoldNothing'
  BY <1>2, UnchangedLatest DEF database, Exact, JournalReplays, Verified, SignedOutHoldNothing
<1>3. CASE UNCHANGED vars
  <2>1. UNCHANGED database /\ SoleWriter'
    BY <1>3 DEF vars, process, Exact, SoleWriter
  <2>2. Mirrored'
    <3> SUFFICES ASSUME NEW s \in linked'
                 PROVE  /\ cache'[s] = rows'
                        /\ (gate'[s] = Free /\ s \notin failed') =>
                              \A g \in Game : memory'[s][g] = Latest(g)'
                        /\ gate'[s] # Free => \A g \in Game : Pending(s, g)'
      BY DEF Mirrored
    <3>1. s \in linked /\ s \in Server
      BY <1>3 DEF vars, process, Exact, Typed, TypeOK
    <3> QED
      BY <1>3, <2>1, <3>1, PendingKept, UnchangedLatest
      DEF vars, database, process, Exact, Mirrored
  <2> QED
    BY <1>1, <1>2, <2>1, <2>2 DEF Exact
<1>4. ASSUME NEW s \in Server,
             \/ \E r \in Request : Arrive(s, r)
             \/ Handle(s) \/ HandleUnchanged(s) \/ Refuse(s) \/ HandlerPanics(s)
             \/ NoticePanic(s) \/ PauseAfterPanic(s) \/ Tick(s) \/ CommitFails(s)
             \/ Stop(s) \/ Shutdown(s) \/ Crash(s) \/ Disconnect(s)
      PROVE  SoleWriter' /\ Mirrored' /\ JournalReplays' /\ SignedOutHoldNothing'
  <2>1. UNCHANGED database
    BY <1>4 DEF Arrive, Handle, HandleUnchanged, Refuse, HandlerPanics, NoticePanic,
                PauseAfterPanic, Tick, CommitFails, Stop, Shutdown, Crash, Disconnect
  <2>2. Mirrored'
    BY <1>4, NonWritersMirror
  <2>3. linked' \subseteq linked
    BY <1>4, NonWritersAreQuiet DEF Quiet, Exact
  <2>4. SoleWriter'
    BY <2>3 DEF Exact, SoleWriter
  <2> QED
    BY <1>2, <2>1, <2>2, <2>4
<1> QED
  BY <1>1, <1>3, <1>4, WriteExact, StartExact DEF Next, Exact

LEMMA ExactAlways == ~Panics => (Spec => []Exact)
<1>1. CASE ~Panics
  <2>1. Exact /\ [Next]_vars => Exact'
    BY <1>1, ExactStep
  <2> QED
    BY <2>1, ExactInit, PTL DEF Spec
<1> QED
  BY <1>1

\* As long as no handler panics, what was committed can be recovered: replaying
\* the recorded ticks from the last checkpoint gives the recorded states.
THEOREM JournalReplaysHolds == ~Panics => (Spec => []JournalReplays)
<1>1. Exact => JournalReplays
  BY DEF Exact
<1> QED
  BY <1>1, ExactAlways, PTL

\* As long as no handler panics, no committed game seats a player whose session
\* has ended.
THEOREM SignedOutHoldNothingHolds == ~Panics => (Spec => []SignedOutHoldNothing)
<1>1. Exact => SignedOutHoldNothing
  BY DEF Exact
<1> QED
  BY <1>1, ExactAlways, PTL

-----------------------------------------------------------------------------
(* The committed games are a DurableStore.  What a server holds under its    *)
(* gate while it can still commit is a whole step of the store, ready to be  *)
(* taken: the request, tick or pause happens when the transaction commits.   *)

Outcome(s) == [g \in Game |-> Unnumbered(memory[s][g])]

\* One game of a cycle: expired seats go, and it advances if it is due.
Cycled(game, gone, due) ==
  IF due THEN Advance(Release(game, gone)) ELSE Release(game, gone)

ReadyRequest(s) ==
  /\ Credentials(gate[s].by) \subseteq rows
  /\ Accepts(gate[s].by, Committed)
  /\ Outcome(s) = Handled(gate[s].by, Committed)

ReadyTick(s) ==
  \E gone \in [Game -> SUBSET Player],
     due \in SUBSET {g \in Game : Committed[g].status = "running"} :
      \A g \in Game : Outcome(s)[g] = Cycled(Committed[g], gone[g], g \in due)

ReadyStop(s) == \A g \in Game : Outcome(s)[g] = Pause(Committed[g])

Ready(s) ==
  /\ IsTick(s) => ReadyTick(s)
  /\ IsShutdown(s) => ReadyStop(s)
  /\ ~IsTick(s) /\ ~IsShutdown(s) => ReadyRequest(s)

Staged == \A s \in linked : gate[s] # Free => Ready(s)

\* The operators of DurableStore are those of Durability.
LEMMA SameOperators ==
  /\ Store!Request = Request
  /\ Store!NoGame = NoGame
  /\ \A r : Store!Credentials(r) = Credentials(r)
  /\ \A r, games : Store!Accepts(r, games) = Accepts(r, games)
  /\ \A r, games : Store!Handled(r, games) = Handled(r, games)
  /\ \A r, S : Store!SessionsAfter(r, S) = SessionsAfter(r, S)
  /\ \A game, gone : Store!Release(game, gone) = Release(game, gone)
  /\ \A game : Store!Advance(game) = Advance(game)
  /\ \A game : Store!Pause(game) = Pause(game)
<1>1. Store!Request = Request
  BY DEF Store!Request, Store!Create, Store!Claim, Store!Control, Store!Submit,
         Store!Login, Store!Logout, Request, Create, Claim, Control, Submit, Login, Logout
<1>2. Store!NoGame = NoGame
  BY DEF Store!NoGame, NoGame, Store!Never, Never
<1>3. \A r : Store!Credentials(r) = Credentials(r)
  BY DEF Store!Credentials, Credentials
<1>4. \A r, games : Store!Accepts(r, games) = Accepts(r, games)
  BY DEF Store!Accepts, Accepts, Store!Never, Never
<1>5. \A r, games : Store!Handled(r, games) = Handled(r, games)
  BY DEF Store!Handled, Handled, Store!HandledGame, HandledGame, Store!Leaving, Leaving,
         Store!Accept, Accept, Store!Never, Never
<1>6. \A r, S : Store!SessionsAfter(r, S) = SessionsAfter(r, S)
  BY DEF Store!SessionsAfter, SessionsAfter
<1>7. /\ \A game, gone : Store!Release(game, gone) = Release(game, gone)
      /\ \A game : Store!Advance(game) = Advance(game)
      /\ \A game : Store!Pause(game) = Pause(game)
  BY DEF Store!Release, Release, Store!Advance, Advance, Store!Pause, Pause
<1> QED
  BY <1>1, <1>2, <1>3, <1>4, <1>5, <1>6, <1>7

\* What Unnumbered leaves alone.
LEMMA UnnumberedFields ==
  ASSUME NEW game \in GameState
  PROVE  /\ Unnumbered(game) \in [sequence : {0}, status : Status, seats : SUBSET Player,
                                  orders : Orders, frame : 0..MaxFrame]
         /\ Unnumbered(game).status = game.status
         /\ Unnumbered(game).seats = game.seats
         /\ Unnumbered(game).orders = game.orders
         /\ Unnumbered(game).frame = game.frame
  BY DEF Unnumbered, GameState, Status, Orders

\* The journal's numbers change nothing in what the operations make of a game.
LEMMA UnnumberedOperations ==
  ASSUME NEW game \in GameState
  PROVE  /\ \A gone : Unnumbered(Release(game, gone)) = Release(Unnumbered(game), gone)
         /\ Unnumbered(Advance(game)) = Advance(Unnumbered(game))
         /\ Unnumbered(Pause(game)) = Pause(Unnumbered(game))
         /\ \A n : Unnumbered([game EXCEPT !.sequence = n]) = Unnumbered(game)
         /\ \A c : Unnumbered(Accept(game, c)) = Accept(Unnumbered(game), c)
<1>1. \A gone : Unnumbered(Release(game, gone)) = Release(Unnumbered(game), gone)
  BY DEF Unnumbered, Release, GameState
<1>2. Unnumbered(Advance(game)) = Advance(Unnumbered(game))
  BY DEF Unnumbered, Advance, GameState
<1>3. Unnumbered(Pause(game)) = Pause(Unnumbered(game))
  BY DEF Unnumbered, Pause, GameState
<1>4. \A n : Unnumbered([game EXCEPT !.sequence = n]) = Unnumbered(game)
  BY DEF Unnumbered, GameState
<1>5. \A c : Unnumbered(Accept(game, c)) = Accept(Unnumbered(game), c)
  BY DEF Unnumbered, Accept, GameState
<1> QED
  BY <1>1, <1>2, <1>3, <1>4, <1>5

LEMMA UnnumberedHandled ==
  ASSUME NEW r \in Request, NEW g \in Game, NEW game \in GameState
  PROVE  Unnumbered(HandledGame(r, g, game)) = HandledGame(r, g, Unnumbered(game))
<1>1. /\ Unnumbered(game).seats = game.seats
      /\ \A x : Unnumbered([game EXCEPT !.seats = x]) = [Unnumbered(game) EXCEPT !.seats = x]
      /\ \A x : Unnumbered([game EXCEPT !.status = x]) = [Unnumbered(game) EXCEPT !.status = x]
  BY DEF Unnumbered, GameState
<1>2. CASE r.kind \in {"login", "logout"}
  BY <1>1, <1>2 DEF HandledGame
<1>3. CASE r.kind \in {"create", "claim", "start", "pause"}
  BY <1>1, <1>3 DEF HandledGame
<1>4. CASE r.kind = "order"
  BY <1>4, UnnumberedOperations DEF HandledGame
<1> QED
  BY <1>2, <1>3, <1>4, RequestKinds

LEMMA UnnumberedAccepts ==
  ASSUME NEW r \in Request, NEW games \in Games, NEW bare,
         bare = [g \in Game |-> Unnumbered(games[g])]
  PROVE  Accepts(r, bare) <=> Accepts(r, games)
<1>1. \A g \in Game : /\ bare[g].status = games[g].status
                      /\ bare[g].seats = games[g].seats
                      /\ bare[g].orders = games[g].orders
  BY UnnumberedFields DEF Games
<1> QED
  BY <1>1, RequestKinds DEF Accepts

LEMMA UnnumberedNumbered ==
  ASSUME NEW games \in Games, NEW touched, NEW g \in Game
  PROVE  Unnumbered(Numbered(games, touched)[g]) = Unnumbered(games[g])
  BY UnnumberedOperations DEF Numbered, Games


LEMMA CommittedGame ==
  ASSUME TypeOK, NEW g \in Game
  PROVE  /\ Latest(g) \in GameState
         /\ Committed[g] = Unnumbered(Latest(g))
         /\ Committed[g].status = Latest(g).status
         /\ Committed[g].seats = Latest(g).seats
         /\ Committed[g].orders = Latest(g).orders
  BY LatestType, UnnumberedFields DEF Committed

LEMMA CommittedKept ==
  ASSUME UNCHANGED database
  PROVE  Committed' = Committed
<1>1. \A g \in Game : Latest(g)' = Latest(g)
  BY UnchangedLatest
<1> QED
  BY <1>1 DEF Committed

\* A server that can commit and has nothing under way has what is committed.
LEMMA InStep ==
  ASSUME Exact, NEW s \in linked, gate[s] = Free, s \notin failed
  PROVE  /\ memory[s] \in Games
         /\ \A g \in Game : memory[s][g] = Latest(g)
         /\ Committed = [g \in Game |-> Unnumbered(memory[s][g])]
         /\ cache[s] = rows
<1>1. s \in Server
  BY DEF Exact, Typed, TypeOK
<1>2. memory[s] \in Games /\ cache[s] = rows /\ \A g \in Game : memory[s][g] = Latest(g)
  BY <1>1 DEF Exact, Mirrored, Typed, TypeOK
<1> QED
  BY <1>2 DEF Committed

\* The outcome of a boundary, its number left out, is that of its handler.
LEMMA HoldOutcome ==
  ASSUME TypeOK, NEW s \in Server, NEW by, NEW after \in Games, NEW inputs, NEW touched,
         Hold(s, by, after, inputs, touched)
  PROVE  /\ Outcome(s)' = [g \in Game |-> Unnumbered(after[g])]
         /\ gate'[s].by = by
<1>1. memory'[s] = Numbered(after, touched) /\ gate'[s].by = by
  BY DEF Hold, TypeOK
<1>2. \A g \in Game : Unnumbered(memory'[s][g]) = Unnumbered(after[g])
  BY <1>1, UnnumberedNumbered
<1> QED
  BY <1>1, <1>2 DEF Outcome

LEMMA HandleReady ==
  ASSUME Exact, NEW s \in linked, Handle(s)
  PROVE  Ready(s)'
<1> PICK r : r = waiting[s]
  OBVIOUS
<1>0. s \in Server
  BY DEF Exact, Typed, TypeOK
<1>1. /\ r \in Request
      /\ Hold(s, r, Handled(r, memory[s]),
              [g \in Game |-> Capture(memory[s][g], FALSE)], Touched(s, r))
      /\ Credentials(r) \subseteq cache[s]
      /\ Accepts(r, memory[s])
      /\ gate[s] = Free /\ s \notin failed
      /\ UNCHANGED database
  BY <1>0 DEF Handle, Taken, Open, StillValid, Exact, Typed, TypeOK
<1>2. /\ memory[s] \in Games
      /\ \A g \in Game : memory[s][g] = Latest(g)
      /\ Committed = [g \in Game |-> Unnumbered(memory[s][g])]
      /\ cache[s] = rows
  BY <1>1, InStep
<1>3. Handled(r, memory[s]) \in Games
  BY <1>1, <1>2, HandledType
<1>4. /\ Outcome(s)' = [g \in Game |-> Unnumbered(Handled(r, memory[s])[g])]
      /\ gate'[s].by = r
  BY <1>0, <1>1, <1>3, HoldOutcome DEF Exact, Typed
<1>5. Handled(r, Committed) = [g \in Game |-> Unnumbered(Handled(r, memory[s])[g])]
  <2>1. \A g \in Game : /\ memory[s][g] \in GameState
                        /\ Unnumbered(HandledGame(r, g, memory[s][g]))
                              = HandledGame(r, g, Committed[g])
    BY <1>1, <1>2, UnnumberedHandled DEF Games
  <2> QED
    BY <2>1 DEF Handled
<1>6. Accepts(r, Committed)
  BY <1>1, <1>2, UnnumberedAccepts
<1>7. Committed' = Committed /\ rows' = rows
  BY <1>1, CommittedKept DEF database
<1>8. ReadyRequest(s)'
  BY <1>1, <1>2, <1>4, <1>5, <1>6, <1>7 DEF ReadyRequest
<1>9. ~IsTick(s)' /\ ~IsShutdown(s)'
  BY <1>1, <1>4, RequestKinds DEF IsTick, IsShutdown
<1> QED
  BY <1>8, <1>9 DEF Ready

LEMMA TickReady ==
  ASSUME Exact, NEW s \in linked, Tick(s)
  PROVE  Ready(s)'
<1>0. s \in Server
  BY DEF Exact, Typed, TypeOK
<1>1. PICK gone \in [Game -> SUBSET Player],
           due \in SUBSET {g \in Game : memory[s][g].status = "running"} :
        /\ \A g \in due : memory[s][g].frame < MaxFrame
        /\ Hold(s, [kind |-> "tick"], Ticked(s, gone, due), TickInputs(s, gone, due),
                Differing(memory[s], Ticked(s, gone, due)))
        /\ gate[s] = Free /\ s \notin failed
        /\ UNCHANGED database
  BY DEF Tick, Open
<1>2. /\ memory[s] \in Games
      /\ \A g \in Game : memory[s][g] = Latest(g)
      /\ Committed = [g \in Game |-> Unnumbered(memory[s][g])]
  BY <1>1, InStep
<1>3. PICK after, inputs, touched :
        /\ after = Ticked(s, gone, due)
        /\ Hold(s, [kind |-> "tick"], after, inputs, touched)
  BY <1>1
<1>4. after \in Games
  BY <1>0, <1>1, <1>3, CycleType DEF Exact, Typed
<1>5. /\ Outcome(s)' = [g \in Game |-> Unnumbered(after[g])]
      /\ gate'[s].by = [kind |-> "tick"]
  BY <1>0, <1>1, <1>3, <1>4, HoldOutcome DEF Exact, Typed
<1>6. Committed' = Committed
  BY <1>1, CommittedKept
<1>7. due \in SUBSET {g \in Game : Committed[g].status = "running"}
  BY <1>2, CommittedGame DEF Exact, Typed
<1>8. ASSUME NEW g \in Game
      PROVE  Unnumbered(after[g]) = Cycled(Committed[g], gone[g], g \in due)
  <2>1. memory[s][g] \in GameState /\ Committed[g] = Unnumbered(memory[s][g])
    BY <1>2 DEF Games
  <2>2. after[g] = IF g \in due THEN Advance(Release(memory[s][g], gone[g]))
                   ELSE Release(memory[s][g], gone[g])
    BY <1>3 DEF Ticked, Expired
  <2>3. PICK left : left = Release(memory[s][g], gone[g])
    OBVIOUS
  <2>4. /\ left \in GameState
        /\ Unnumbered(left) = Release(Committed[g], gone[g])
        /\ Unnumbered(Advance(left)) = Advance(Unnumbered(left))
    BY <2>1, <2>3, ReleaseType, UnnumberedOperations
  <2> QED
    BY <2>2, <2>3, <2>4 DEF Cycled
<1>9. ReadyTick(s)'
  BY <1>5, <1>6, <1>7, <1>8 DEF ReadyTick
<1>10. IsTick(s)' /\ ~IsShutdown(s)'
  BY <1>5 DEF IsTick, IsShutdown
<1> QED
  BY <1>9, <1>10 DEF Ready

LEMMA ShutdownReady ==
  ASSUME Exact, NEW s \in linked, Shutdown(s)
  PROVE  Ready(s)'
<1>0. s \in Server
  BY DEF Exact, Typed, TypeOK
<1>1. PICK after, inputs, created :
        /\ after = [g \in Game |-> Pause(memory[s][g])]
        /\ Hold(s, [kind |-> "shutdown"], after, inputs, created)
        /\ gate[s] = Free /\ s \notin failed
        /\ UNCHANGED database
  BY DEF Shutdown
<1>2. /\ memory[s] \in Games
      /\ Committed = [g \in Game |-> Unnumbered(memory[s][g])]
  BY <1>1, InStep
<1>3. after \in Games
  BY <1>1, <1>2, PauseType DEF Games
<1>4. /\ Outcome(s)' = [g \in Game |-> Unnumbered(after[g])]
      /\ gate'[s].by = [kind |-> "shutdown"]
  BY <1>0, <1>1, <1>3, HoldOutcome DEF Exact, Typed
<1>5. Committed' = Committed
  BY <1>1, CommittedKept
<1>6. \A g \in Game : Unnumbered(after[g]) = Pause(Committed[g])
  BY <1>1, <1>2, UnnumberedOperations DEF Games
<1>7. ReadyStop(s)'
  BY <1>4, <1>5, <1>6 DEF ReadyStop
<1>8. ~IsTick(s)' /\ IsShutdown(s)'
  BY <1>4 DEF IsTick, IsShutdown
<1> QED
  BY <1>7, <1>8 DEF Ready

LEMMA ReadyKept ==
  ASSUME NEW s, UNCHANGED database, gate'[s] = gate[s], memory'[s] = memory[s], Ready(s)
  PROVE  Ready(s)'
<1>1. Committed' = Committed /\ rows' = rows /\ Outcome(s)' = Outcome(s)
  BY CommittedKept DEF database, Outcome
<1>2. IsTick(s)' = IsTick(s) /\ IsShutdown(s)' = IsShutdown(s)
  BY DEF IsTick, IsShutdown
<1>3. (ReadyTick(s) => ReadyTick(s)') /\ (ReadyStop(s) => ReadyStop(s)')
  BY <1>1 DEF ReadyTick, ReadyStop
<1>4. ReadyRequest(s) => ReadyRequest(s)'
  BY <1>1 DEF ReadyRequest
<1> QED
  BY <1>2, <1>3, <1>4 DEF Ready


\* A server that the step does not touch, or that takes no part in what follows.
LEMMA StagedKept ==
  ASSUME Exact, Staged, NEW s \in Server, UNCHANGED database, linked' \subseteq linked,
         \A t \in Server \ {s} : gate'[t] = gate[t] /\ memory'[t] = memory[t],
         s \in linked' => \/ gate'[s] = gate[s] /\ memory'[s] = memory[s]
                          \/ gate'[s] = Free
                          \/ Ready(s)'
  PROVE  Staged'
<1> SUFFICES ASSUME NEW t \in linked', gate'[t] # Free PROVE Ready(t)'
  BY DEF Staged
<1>1. t \in Server /\ t \in linked
  BY DEF Exact, Typed, TypeOK
<1>2. CASE gate'[t] = gate[t] /\ memory'[t] = memory[t]
  BY <1>1, <1>2, ReadyKept DEF Staged
<1> QED
  BY <1>1, <1>2

LEMMA NonWritersStage ==
  ASSUME Exact, Staged, NEW s \in Server, ~Panics,
         \/ \E r \in Request : Arrive(s, r)
         \/ Handle(s) \/ HandleUnchanged(s) \/ Refuse(s) \/ HandlerPanics(s)
         \/ NoticePanic(s) \/ PauseAfterPanic(s) \/ Tick(s) \/ CommitFails(s)
         \/ Stop(s) \/ Shutdown(s) \/ Crash(s) \/ Disconnect(s)
  PROVE  Staged'
<1>1. CASE \/ \E r \in Request : Arrive(s, r)
           \/ HandleUnchanged(s) \/ Refuse(s) \/ NoticePanic(s)
           \/ Stop(s) \/ Disconnect(s)
  BY <1>1, StagedKept DEF Arrive, HandleUnchanged, Refuse, NoticePanic, Stop,
                          Disconnect, process
<1>2. CASE Handle(s) \/ Tick(s) \/ Shutdown(s)
  <2>1. /\ UNCHANGED <<database, process>>
        /\ \A t \in Server \ {s} : gate'[t] = gate[t] /\ memory'[t] = memory[t]
    BY <1>2 DEF Handle, Tick, Shutdown, Hold, Exact, Typed, TypeOK
  <2>2. s \in linked => Ready(s)'
    BY <1>2, HandleReady, TickReady, ShutdownReady
  <2> QED
    BY <2>1, <2>2, StagedKept DEF process
<1>3. CASE PauseAfterPanic(s)
  <2>1. \A t \in Server \ {s} : memory'[t] = memory[t]
    BY <1>3 DEF PauseAfterPanic, Exact, Typed, TypeOK
  <2> QED
    BY <1>3, <2>1, StagedKept DEF PauseAfterPanic
<1>4. CASE CommitFails(s) \/ Crash(s)
  <2>1. UNCHANGED database /\ (Vanish(s) \/ (Rollback(s) /\ UNCHANGED linked))
    BY <1>4 DEF CommitFails, Crash
  <2>2. /\ linked' \subseteq linked
        /\ gate'[s] = Free
        /\ \A t \in Server \ {s} : gate'[t] = gate[t] /\ memory'[t] = memory[t]
    BY <2>1 DEF Vanish, Rollback, Exact, Typed, TypeOK
  <2> QED
    BY <2>1, <2>2, StagedKept
<1> QED
  BY <1>1, <1>2, <1>3, <1>4 DEF HandlerPanics

Faithful == Exact /\ Staged

LEMMA FaithfulInit == Init => Faithful
<1>1. Init => Staged
  BY DEF Init, Staged
<1> QED
  BY <1>1, ExactInit DEF Faithful

LEMMA FaithfulStep == Faithful /\ ~Panics /\ [Next]_vars => Faithful'
<1> SUFFICES ASSUME Exact, Staged, ~Panics, [Next]_vars PROVE Staged'
  BY ExactStep DEF Faithful
<1>1. CASE UNCHANGED vars
  <2> SUFFICES ASSUME NEW s \in linked', gate'[s] # Free PROVE Ready(s)'
    BY DEF Staged
  <2> QED
    BY <1>1, ReadyKept DEF vars, database, process, Staged
<1>2. ASSUME NEW s \in Server, CommitSucceeds(s) \/ CommitUnknown(s) PROVE Staged'
  <2>1. s \in linked /\ gate'[s] = Free /\ linked' \subseteq linked
    BY <1>2 DEF CommitSucceeds, CommitUnknown, Write, Vanish, Rollback, process,
                Exact, Typed, TypeOK
  <2> QED
    BY <2>1 DEF Staged, Exact, SoleWriter
<1>3. ASSUME NEW s \in Server, Start(s) PROVE Staged'
  <2>1. linked' \subseteq {s} /\ gate'[s] = Free
    BY <1>3 DEF Start, Exact, Typed, Attended
  <2> QED
    BY <2>1 DEF Staged
<1> QED
  BY <1>1, <1>2, <1>3, NonWritersStage DEF Next

\* The step of the store that a commit takes.
LEMMA CommitPerforms ==
  ASSUME Faithful, NEW s \in Server, CommitSucceeds(s) \/ CommitUnknown(s)
  PROVE  Store!StoreNext
<1>1. gate[s] # Free /\ Write(s) /\ s \in linked /\ TypeOK
  BY DEF CommitSucceeds, CommitUnknown, Write, Faithful, Exact, Typed
<1>2. Committed' = Outcome(s) /\ Outcome(s) \in [Game -> {Outcome(s)[g] : g \in Game}]
  <2>1. \A g \in Game : Latest(g)' = memory[s][g]
    BY <1>1, CommittedIsMemory DEF Faithful
  <2> QED
    BY <2>1 DEF Committed, Outcome
<1>3. rows' = SessionsAfterCommit(s, rows) /\ Ready(s)
  BY <1>1 DEF Write, Faithful, Staged
<1>4. UNCHANGED answered \/ Respond(s, gate[s].by)
  BY DEF CommitSucceeds, CommitUnknown, Rollback
<1>5. CASE IsTick(s)
  <2>1. UNCHANGED answered /\ rows' = rows
    BY <1>3, <1>4, <1>5 DEF IsTick, Respond, SessionsAfterCommit
  <2>2. PICK gone \in [Game -> SUBSET Player],
             due \in SUBSET {g \in Game : Committed[g].status = "running"} :
          \A g \in Game : Outcome(s)[g] = Cycled(Committed[g], gone[g], g \in due)
    BY <1>3, <1>5 DEF Ready, ReadyTick
  <2>3. Committed' = [g \in Game |->
               LET left == Store!Release(Committed[g], gone[g])
               IN  IF g \in due THEN Store!Advance(left) ELSE left]
    BY <1>2, <2>2, SameOperators DEF Cycled, Outcome
  <2>4. Store!Pass
    BY <2>1, <2>3 DEF Store!Pass
  <2> QED
    BY <2>4 DEF Store!StoreNext
<1>6. CASE IsShutdown(s)
  <2>1. UNCHANGED answered /\ rows' = rows
    BY <1>3, <1>4, <1>6 DEF IsShutdown, Respond, SessionsAfterCommit
  <2>2. PICK gone \in [Game -> SUBSET Player] : gone = [g \in Game |-> {}]
    OBVIOUS
  <2>3. ASSUME NEW g \in Game
        PROVE  Outcome(s)[g] = Store!Pause(Store!Release(Committed[g], gone[g]))
    <3>1. Outcome(s)[g] = Pause(Committed[g])
      BY <1>3, <1>6 DEF Ready, ReadyStop, IsTick, IsShutdown
    <3>2. Release(Committed[g], gone[g]) = Committed[g]
      BY <1>1, <2>2, CommittedGame, UnnumberedFields DEF Release
    <3> QED
      BY <3>1, <3>2, SameOperators
  <2>4. Committed' = [g \in Game |-> Store!Pause(Store!Release(Committed[g], gone[g]))]
    BY <1>2, <2>3 DEF Outcome
  <2>5. Store!Resume
    BY <2>1, <2>4 DEF Store!Resume
  <2> QED
    BY <2>5 DEF Store!StoreNext
<1>7. CASE ~IsTick(s) /\ ~IsShutdown(s)
  <2>1. PICK r : r = gate[s].by
    OBVIOUS
  <2>2. /\ r \in Request
        /\ Credentials(r) \subseteq rows
        /\ Accepts(r, Committed)
        /\ Committed' = Handled(r, Committed)
        /\ rows' = SessionsAfter(r, rows)
    BY <1>1, <1>2, <1>3, <1>7, <2>1, Held
    DEF Ready, ReadyRequest, IsTick, IsShutdown, SessionsAfterCommit
  <2>3. \/ UNCHANGED answered
        \/ /\ r.kind = "order"
           /\ answered' = answered \cup
                  {[game |-> r.game, command |-> r.command,
                    frame |-> Committed'[r.game].orders[r.command]]}
    <3>1. CASE UNCHANGED answered
      BY <3>1
    <3>2. CASE ~UNCHANGED answered
      <4>1. /\ r.kind = "order"
            /\ answered' = answered \cup
                  {[game |-> r.game, command |-> r.command,
                    frame |-> memory[s][r.game].orders[r.command]]}
        BY <1>4, <2>1, <3>2 DEF Respond
      <4>2. r.game \in Game /\ memory[s][r.game] \in GameState
        BY <1>1, <2>2, <4>1, RequestKinds DEF TypeOK, Games
      <4>3. Committed'[r.game].orders = memory[s][r.game].orders
        BY <1>2, <4>2, UnnumberedFields DEF Outcome
      <4> QED
        BY <4>1, <4>3
    <3> QED
      BY <3>1, <3>2
  <2>4. Store!Perform
    BY <2>2, <2>3, SameOperators DEF Store!Perform
  <2> QED
    BY <2>4 DEF Store!StoreNext
<1> QED
  BY <1>5, <1>6, <1>7

\* Recovery pauses the games and lets go of seats: a pause of the store.
LEMMA StartResumes ==
  ASSUME Faithful, NEW s \in Server, Start(s)
  PROVE  Store!StoreNext
<1>1. TypeOK /\ rows' = rows /\ UNCHANGED answered
  BY DEF Start, Faithful, Exact, Typed
<1>2. PICK gone \in [Game -> SUBSET Player] :
        snapshot' = [g \in Game |-> Recovered(g, gone)]
  BY DEF Start
<1>3. PICK left \in [Game -> SUBSET Player] :
        left = [g \in Game |-> IF Latest(g).status = "none" THEN {}
                               ELSE (Player \ rows) \cup gone[g]]
  <2>1. \A g \in Game : (IF Latest(g).status = "none" THEN {}
                         ELSE (Player \ rows) \cup gone[g]) \in SUBSET Player
    OBVIOUS
  <2> QED
    BY <2>1
<1>4. ASSUME NEW g \in Game
      PROVE  Unnumbered(Recovered(g, gone)) = Pause(Release(Committed[g], left[g]))
  <2>1. Latest(g) \in GameState /\ Committed[g] = Unnumbered(Latest(g))
    BY <1>1, CommittedGame
  <2>2. CASE Latest(g).status = "none"
    <3>1. Recovered(g, gone) = Latest(g) /\ left[g] = {}
      BY <1>3, <2>2 DEF Recovered
    <3>2. Release(Committed[g], {}) = Committed[g] /\ Committed[g].status = "none"
      BY <2>1, <2>2, UnnumberedFields DEF Release
    <3> QED
      BY <2>1, <3>1, <3>2 DEF Pause
  <2>3. CASE Latest(g).status # "none"
    <3>1. PICK kept : kept = Release(Latest(g), left[g])
      OBVIOUS
    <3>2. kept \in GameState /\ Pause(kept) \in GameState
      BY <2>1, <3>1, ReleaseType, PauseType
    <3>3. Recovered(g, gone) = [Pause(kept) EXCEPT !.sequence = Latest(g).sequence + 1]
      BY <1>3, <2>3, <3>1 DEF Recovered
    <3>4. Unnumbered(Recovered(g, gone)) = Unnumbered(Pause(kept))
      BY <3>2, <3>3, UnnumberedOperations
    <3>5. Unnumbered(Pause(kept)) = Pause(Release(Committed[g], left[g]))
      BY <2>1, <3>1, <3>2, UnnumberedOperations
    <3> QED
      BY <3>4, <3>5
  <2> QED
    BY <2>2, <2>3
<1>5. \A g \in Game : Latest(g)' = Recovered(g, gone)
  BY <1>2 DEF Start, Latest
<1>6. Committed' = [g \in Game |-> Store!Pause(Store!Release(Committed[g], left[g]))]
  BY <1>4, <1>5, SameOperators DEF Committed
<1>7. Store!Resume
  BY <1>1, <1>6 DEF Store!Resume
<1> QED
  BY <1>7 DEF Store!StoreNext

LEMMA StoreInitially == Init => Store!StoreInit
<1> SUFFICES ASSUME Init PROVE Store!StoreInit
  OBVIOUS
<1>1. \A g \in Game : Latest(g) = NoGame
  BY DEF Init, Latest, NoGames
<1>2. Unnumbered(NoGame) = NoGame
  BY DEF Unnumbered, NoGame
<1>3. Committed = [g \in Game |-> Store!NoGame]
  BY <1>1, <1>2, SameOperators DEF Committed
<1> QED
  BY <1>3 DEF Init, Store!StoreInit

LEMMA StoreSteps == Faithful /\ [Next]_vars => [Store!StoreNext]_(Store!storeVars)
<1> SUFFICES ASSUME Faithful, [Next]_vars
             PROVE  Store!StoreNext \/ UNCHANGED <<Committed, rows, answered>>
  BY DEF Store!storeVars
<1>1. CASE UNCHANGED vars
  BY <1>1, CommittedKept DEF vars, database
<1>2. ASSUME NEW s \in Server,
             \/ \E r \in Request : Arrive(s, r)
             \/ Handle(s) \/ HandleUnchanged(s) \/ Refuse(s) \/ HandlerPanics(s)
             \/ NoticePanic(s) \/ PauseAfterPanic(s) \/ Tick(s) \/ CommitFails(s)
             \/ Stop(s) \/ Shutdown(s) \/ Crash(s) \/ Disconnect(s)
      PROVE  UNCHANGED <<Committed, rows, answered>>
  <2>1. UNCHANGED database
    BY <1>2 DEF Arrive, Handle, HandleUnchanged, Refuse, HandlerPanics, NoticePanic,
                PauseAfterPanic, Tick, CommitFails, Stop, Shutdown, Crash, Disconnect
  <2>2. UNCHANGED answered
    BY <1>2, NonWritersAreQuiet DEF Quiet, Faithful, Exact
  <2> QED
    BY <2>1, <2>2, CommittedKept DEF database
<1> QED
  BY <1>1, <1>2, CommitPerforms, StartResumes DEF Next

\* As long as no handler panics, what clients see of any number of servers, crashes,
\* lost connections and commits of unknown outcome is one store that changes by whole
\* requests, cycles and pauses.
THEOREM ImplementsHolds == ~Panics => (Spec => Implements)
<1>1. CASE ~Panics
  <2>1. Faithful /\ [Next]_vars => Faithful'
    BY <1>1, FaithfulStep
  <2> QED
    BY <2>1, FaithfulInit, StoreInitially, StoreSteps, PTL
    DEF Spec, Implements, Store!StoreSpec
<1> QED
  BY <1>1

====
