---- MODULE GameStates ----
(***************************************************************************)
(* What the persistence of the server keeps of a game, and what each       *)
(* operation does to it.  Both the durable store as its users see it       *)
(* (DurableStore) and the server that implements it (Durability) are       *)
(* written with these operators.                                           *)
(*                                                                         *)
(* A game is reduced to what recovery can tell apart: its journal          *)
(* sequence, status, who holds a seat, when each order was accepted, and   *)
(* how many frames were simulated.  An order's outcome depends on the      *)
(* frame at which it was accepted, so the frame stands for the stored      *)
(* result.  A player is identified with the session that speaks for it.    *)
(***************************************************************************)
EXTENDS Integers, Sequences, FiniteSets

CONSTANTS
    Player,
    Game,
    Command,       \* identifiers the clients give their orders
    MaxFrame,      \* bound: frames simulated per game
    MaxSequence    \* bound: journal entries per game

ASSUME BoundsAssumption == MaxFrame \in Nat /\ MaxSequence \in Nat

Never == -1

GameState == [sequence : 0..MaxSequence,
              status   : {"none", "lobby", "running", "paused"},
              seats    : SUBSET Player,
              orders   : [Command -> {Never} \cup (0..MaxFrame)],
              frame    : 0..MaxFrame]

\* A game nobody has created.
NoGame == [sequence |-> 0, status |-> "none", seats |-> {},
           orders |-> [c \in Command |-> Never], frame |-> 0]

-----------------------------------------------------------------------------
(* Requests that may change games or sessions.                             *)

Create  == [kind : {"create"}, player : Player, game : Game]
Claim   == [kind : {"claim"}, player : Player, game : Game]
Control == [kind : {"start", "pause"}, player : Player, game : Game]
Submit  == [kind : {"order"}, player : Player, game : Game, command : Command]
\* A browser that still has a session of another player replaces it.
Login   == [kind : {"login"}, player : Player,
            previous : {{}} \cup {{p} : p \in Player}]
Logout  == [kind : {"logout"}, player : Player]

Request == Create \cup Claim \cup Control \cup Submit \cup Login \cup Logout

\* The sessions a request was authenticated with.
Credentials(r) == IF r.kind = "login" THEN r.previous ELSE {r.player}

\* The players whose seats the request gives up.
Leaving(r) == CASE r.kind = "logout" -> {r.player}
                [] r.kind = "login"  -> r.previous \ {r.player}
                [] OTHER             -> {}

SessionsAfter(r, sessions) ==
    CASE r.kind = "logout" -> sessions \ {r.player}
      [] r.kind = "login"  -> (sessions \ r.previous) \cup {r.player}
      [] OTHER             -> sessions

\* The handler accepts the request: every other answer is an error that
\* changes nothing.
Accepts(r, games) ==
    CASE r.kind = "create" -> games[r.game].status = "none"
      [] r.kind = "claim"  -> games[r.game].status # "none"
      [] r.kind = "start"  -> games[r.game].status \in {"lobby", "paused"}
      [] r.kind = "pause"  -> games[r.game].status \in {"lobby", "running"}
      [] r.kind = "order"  -> /\ r.player \in games[r.game].seats
                              /\ \/ games[r.game].orders[r.command] # Never
                                 \/ games[r.game].status = "running"
      [] OTHER             -> TRUE

\* An order whose identifier is known answers with the stored result.
Known(r, games) ==
    r.kind = "order" /\ games[r.game].orders[r.command] # Never

Accept(game, c) ==
    IF game.orders[c] = Never
    THEN [game EXCEPT !.orders = [game.orders EXCEPT ![c] = game.frame]]
    ELSE game

HandledGame(r, g, game) ==
    IF r.kind \in {"login", "logout"}
    THEN [game EXCEPT !.seats = game.seats \ Leaving(r)]
    ELSE IF r.game # g THEN game
    ELSE CASE r.kind = "create" -> [game EXCEPT !.status = "lobby"]
           [] r.kind = "claim"  -> [game EXCEPT !.seats = game.seats \cup {r.player}]
           [] r.kind = "start"  -> [game EXCEPT !.status = "running"]
           [] r.kind = "pause"  -> [game EXCEPT !.status = "paused"]
           [] OTHER             -> Accept(game, r.command)

\* What the handler makes of all games.
Handled(r, games) == [g \in Game |-> HandledGame(r, g, games[g])]

-----------------------------------------------------------------------------
(* The clock.                                                              *)

\* One frame of the simulation.
Advance(game) == [game EXCEPT !.frame = game.frame + 1]

Release(game, gone) == [game EXCEPT !.seats = game.seats \ gone]

Pause(game) ==
    IF game.status = "running" THEN [game EXCEPT !.status = "paused"] ELSE game

\* What a tick records besides the state it led to.
TickInput == [seats : SUBSET Player, status : {"none", "lobby", "running", "paused"},
              advance : BOOLEAN]

Capture(game, advance) ==
    [seats |-> game.seats, status |-> game.status, advance |-> advance]

\* The state a recorded tick leads to when it is applied again.
Apply(input, game) ==
    LET seated == [game EXCEPT !.sequence = game.sequence + 1,
                               !.seats = input.seats,
                               !.status = input.status]
    IN  IF input.status = "running" /\ input.advance THEN Advance(seated) ELSE seated

====
