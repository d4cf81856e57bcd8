---------------------------- MODULE MCSeatLeases ----------------------------
(* Instances of SeatLeases for TLC. *)
EXTENDS SeatLeases, TLC

CONSTANTS host, guest, blue, red, monitor, hostWhite, guestWhite

MCReferee == [p \in Player |-> IF p = host THEN hostWhite ELSE guestWhite]
MCScenes == {[players |-> {host, guest}, observers |-> {}, generation |-> 2, version |-> 1],
             [players |-> {host, guest}, observers |-> {}, generation |-> 1, version |-> 2],
             [players |-> {host}, observers |-> {monitor}, generation |-> 2, version |-> 1]}
==============================================================================
