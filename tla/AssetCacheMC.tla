------------------------------- MODULE AssetCacheMC -------------------------------
(* Small instances of AssetCache: a build worker and a generate worker. *)
EXTENDS AssetCache, TLC

CONSTANTS b, g

MCKindOf == [w \in Worker |-> IF w = g THEN "generate" ELSE "build"]
Symmetry == Permutations(Project)
================================================================================
