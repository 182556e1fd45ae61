---------------------------- MODULE MCCrosslistSaga ----------------------------
(***************************************************************************)
(* Small instances of cross-listing and delisting over one registry.       *)
(***************************************************************************)
EXTENDS CrosslistSaga, TLC

\* Calls of publish() are interchangeable, and so are sale events.
CallSymmetry == Permutations(Call) \cup Permutations(PubCall)
===============================================================================
