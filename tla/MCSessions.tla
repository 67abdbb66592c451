------------------------------ MODULE MCSessions ------------------------------
(* Sessions on a small instance: rows, links and slots are interchangeable.  *)
EXTENDS Sessions, TLC

Symmetry == Permutations(SessionIds) \union Permutations(Links)
                \union Permutations(Requests)

=============================================================================
