----------------------------- MODULE JobLifecycleMC -----------------------------
(* Small instances of JobLifecycle: a build and a generate job. *)
EXTENDS JobLifecycle

CONSTANTS b1, b2, g1, wb, wg, wx, g2, h1, h2

MCKindOf == [j \in Job |-> IF j \in {g1, g2} THEN "generate" ELSE "build"]
MCServes == [w \in Worker |-> IF w = wb THEN "build" ELSE "generate"]
================================================================================
