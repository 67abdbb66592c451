------------------------------- MODULE MCLedger -------------------------------
(* Ledger on a small instance.                                              *)
EXTENDS Ledger, TLC

Symmetry == Permutations(Users) \union Permutations(Trips)
                \union Permutations(Requests)

=============================================================================
