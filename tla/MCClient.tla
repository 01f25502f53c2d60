------------------------------- MODULE MCClient ------------------------------
(* Instances of Client for TLC. *)
EXTENDS Client

MCSites == <<"one", "two", "one">>

\* Later comments first, an unknown parent, cycles with a comment below, to itself.
MCParents == {<<3, 3, 0>>, <<N + 1, 0, 1>>, <<2, 1, 1>>, <<2, 3, 1>>, <<1, 0, 2>>}
MCTimes == {<<1, 1, 0>>, <<2, 1, 1>>, <<0, 2, 1>>, <<1, 2, 3>>}
=============================================================================
