--------------------------- MODULE MCBoundedChannel ---------------------------
(***************************************************************************)
(* A channel of capacity one or two under pushes and pulls that race.      *)
(***************************************************************************)
EXTENDS BoundedChannel, TLC

\* Calls carry nothing that tells them apart.
CallSymmetry == Permutations(PushCall) \cup Permutations(PullCall)
===============================================================================
