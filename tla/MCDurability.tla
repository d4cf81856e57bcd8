---- MODULE MCDurability ----
(* Small instances of Durability. *)
EXTENDS Durability, TLC

\* Servers, players, games and orders are interchangeable.
Symmetry == Permutations(Server) \cup Permutations(Player)
                \cup Permutations(Game) \cup Permutations(Command)

====
