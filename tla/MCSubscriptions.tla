---------------------------- MODULE MCSubscriptions ----------------------------
(* Subscriptions on a small instance.                                        *)
EXTENDS Subscriptions, TLC

Symmetry == Permutations(Days) \union Permutations(Extra) \union Permutations(Procs)

=============================================================================
