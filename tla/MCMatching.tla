----------------------------- MODULE MCMatching -----------------------------
(* Instances of Matching for TLC.                                          *)
EXTENDS Matching, TLC

Symmetry == Permutations(Trips) \union Permutations(Riders) \union Permutations(Calls)

\* A call may fail at every statement.
AnyStep == Steps \ {"idle"}
=============================================================================
