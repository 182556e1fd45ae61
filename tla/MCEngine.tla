------------------------------- MODULE MCEngine -------------------------------
(***************************************************************************)
(* A listing of the first key is first seen plain, or edited to be dropped *)
(* by the F0 filter, in any order; one of the second is weak.              *)
(***************************************************************************)
EXTENDS Engine

CONSTANTS plain, junk, weak, k1, k2, r1

MCPrice == [x \in Content |-> IF x = plain THEN 5 ELSE 4]

MCRaw == {<<k1, plain>>, <<k1, junk>>, <<k2, weak>>, Poisoned}

\* The first run sees two items, the other one.
MCSeen == [r \in Run |-> IF r = r1 THEN 2 ELSE 1]
===============================================================================
