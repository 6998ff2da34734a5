------------------------------ MODULE MCFinder ------------------------------
(* Small instances of Finder.                                              *)
EXTENDS Finder, TLC

CONSTANTS r1, r2, r3, s1, s2

AllUp == {[s \in Servers |-> "up"]}
\* s1 is up, down or gone from the table; s2 stays up, so that there is somebody to ask.
AnyTable == {[s \in Servers |-> IF s = s1 THEN st ELSE "up"] : st \in {"up", "down", "absent"}}
ShortBackoff == <<1, 1, 2, 2>>
Symmetry == Permutations(Requests)
BothSymmetry == Permutations(Requests) \cup Permutations(Servers)
=============================================================================
