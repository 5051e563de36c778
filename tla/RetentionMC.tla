------------------------------- MODULE RetentionMC -------------------------------
(* Small instances of Retention: a build and a generate job. *)
EXTENDS Retention

CONSTANTS b1, g1

MCKindOf == [j \in Job |-> IF j = g1 THEN "generate" ELSE "build"]
================================================================================
