------------------------------- MODULE WarmImageMC -------------------------------
(* Small instances of WarmImage.  All images, and all runs, are alike. *)
EXTENDS WarmImage, TLC

Symmetry == Permutations(Image) \cup Permutations(Run)
================================================================================
