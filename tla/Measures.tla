------------------------------- MODULE Measures -------------------------------
(***************************************************************************)
(* The order in which measures of progress are compared.                   *)
(***************************************************************************)
EXTENDS Naturals

\* s comes before t, a tuple of numbers of the same length, the first entry counting most.
Smaller(s, t) == \E n \in DOMAIN t : s[n] < t[n] /\ \A m \in 1..(n - 1) : s[m] = t[m]
=============================================================================
