-------------------------- MODULE MCReliableTransport --------------------------
(* Instances of ReliableTransport for TLC. *)
EXTENDS ReliableTransport, TLC

CONSTANTS long, short, brief, self

\* Either one message of two fragments, forwarded over a limited number of hops, and a
\* local one; or two of one fragment: the retirement of one while the packets of the
\* other are in the air.
MCTogether == {{long, self}, {short, brief}}

MCFrags    == [m \in Msg |-> IF m = long THEN 2 ELSE 1]
MCHopLimit == [m \in Msg |-> 2]
MCMaxHops  == [m \in Msg |-> IF m = long THEN 2 ELSE 1]
================================================================================
