------------------------------- MODULE MCUsers ------------------------------
(* An instance of Users, and of Transport in it, for TLC. *)
EXTENDS Users, TLC

CONSTANTS w1, w2, open, closed

AnyOrder == Permutations(Workers)
=============================================================================
