---------------------------- MODULE MCFileCache ----------------------------
(* Small instances of FileCache: every request has a host of its own.      *)
EXTENDS FileCache, TLC

CONSTANTS r1, r2, r3, k1, k2

MCHostOf == [r \in Requests |-> r]
OneKey == [r \in Requests |-> k1]
Compressed == {<<1, TRUE>>}
Mixed == {<<0, FALSE>>, <<1, TRUE>>}
TwoSizes == {<<0, FALSE>>, <<0, TRUE>>}
Symmetry == Permutations(Requests)
=============================================================================
