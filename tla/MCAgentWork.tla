----------------------------- MODULE MCAgentWork -----------------------------
(* Instances of AgentWork for TLC. *)
EXTENDS AgentWork, TLC

CONSTANTS host, anna, ben, blue, red, q1, q2

MCSide == [r \in Role |-> IF r = blue THEN "Blue" ELSE "Red"]

\* Three people and their teams while roles go to agents and back; two managers
\* who read and change the controls; a running game with an external agent.
MCScenes == {
    [players |-> {host, anna}, requests |-> {q1}, external |-> {},
     acts |-> {"teams", "seats"}, revision |-> 1, generation |-> 1, work |-> 0],
    [players |-> {host, anna, ben}, requests |-> {q1, q2}, external |-> {},
     acts |-> {"teams", "seats"}, revision |-> 0, generation |-> 0, work |-> 0],
    [players |-> {host, anna}, requests |-> {q1}, external |-> {},
     acts |-> {"teams", "views"}, revision |-> 1, generation |-> 1, work |-> 0],
    [players |-> {host}, requests |-> {}, external |-> {red},
     acts |-> {"frames"}, revision |-> 0, generation |-> 2, work |-> 2]}
==============================================================================
