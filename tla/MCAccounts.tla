------------------------------ MODULE MCAccounts ------------------------------
(* Accounts on a small instance.                                            *)
EXTENDS Accounts, TLC

Symmetry == Permutations(Docs) \union Permutations(Kinds) \union Permutations(Disputes)
                \union Permutations(Procs)

=============================================================================
