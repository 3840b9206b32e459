---------------------------- MODULE MCServerLife ----------------------------
(* One place the owner types at, beside the supervisor and a restart's worker. *)
EXTENDS ServerLife
CONSTANTS o1, p1, p2
=============================================================================
