----------------------- MODULE MCGPUCollisionManager ------------------------
(* Instances of GPUCollisionManager for TLC: other managers hold one object *)
(* or two, in either order; no object differs from another.                 *)
EXTENDS GPUCollisionManager, TLC

CONSTANTS a, b, v, w

MCOthers == {<<v>>, <<w>>, <<v, w>>, <<w, v>>}
Swaps == Permutations({a, b}) \cup Permutations({v, w})

NoOthers == {}
MCPlaces == 1 .. 2
=============================================================================
