--------------------------- MODULE MCPoolOptimizer ---------------------------
(* Two riders on a road of six kilometres, three routes along a part of it. *)
EXTENDS PoolOptimizer

RoadPoints == 0..5
RoadRoutes == {<<1, 4>>, <<4, 1>>, <<1, 3, 4>>}
RiderSymmetry == Permutations(Requesters)
=============================================================================
