---------------------------- MODULE MCWhotRooms -----------------------------
(* A small instance of WhotRooms: requests may be exchanged for each other. *)
EXTENDS WhotRooms

Requests == Permutations(Request)
=============================================================================
