---- MODULE DurableStore ----
(***************************************************************************)
(* What the server promises of a configured database, in the words of      *)
(* docs/PERSISTENCE_IMPLEMENTATION.md but with the code's operations: one  *)
(* state of all games and sessions, which changes only by whole accepted   *)
(* requests, by ticks and by a pause; nothing a client was answered is     *)
(* ever lost or changed.  There are no servers, memories, failures or      *)
(* journals here: Durability shows that they do not show.                  *)
(***************************************************************************)
EXTENDS GameStates

VARIABLES
    store,      \* [Game -> GameState], the sequence left out
    sessions,   \* the players that are signed in
    answered    \* what clients were told about their orders

storeVars == <<store, sessions, answered>>

Answer == [game : Game, command : Command, frame : 0..MaxFrame]

StoreInit ==
    /\ store = [g \in Game |-> NoGame]
    /\ sessions = {}
    /\ answered = {}

\* The whole of a request, in every game, and its effect on the sessions.
Perform ==
    \E r \in Request :
        /\ Credentials(r) \subseteq sessions
        /\ Accepts(r, store)
        /\ store' = Handled(r, store)
        /\ sessions' = SessionsAfter(r, sessions)
        /\ \/ UNCHANGED answered
           \/ /\ r.kind = "order"
              /\ answered' = answered \cup
                     {[game |-> r.game, command |-> r.command,
                       frame |-> store'[r.game].orders[r.command]]}

\* Leases run out, and running games move by at most one frame.
Pass ==
    \E gone \in [Game -> SUBSET Player],
       due \in SUBSET {g \in Game : store[g].status = "running"} :
        /\ store' = [g \in Game |->
               LET left == Release(store[g], gone[g])
               IN  IF g \in due THEN Advance(left) ELSE left]
        /\ UNCHANGED <<sessions, answered>>

\* A server stops or another takes over: games pause, leases run out.
Resume ==
    \E gone \in [Game -> SUBSET Player] :
        /\ store' = [g \in Game |-> Pause(Release(store[g], gone[g]))]
        /\ UNCHANGED <<sessions, answered>>

StoreNext == Perform \/ Pass \/ Resume

StoreSpec == StoreInit /\ [][StoreNext]_storeVars

====
