---------------------------- MODULE MCDebSources ----------------------------
(* Small instances of DebSources.                                          *)
EXTENDS DebSources

CONSTANTS r1, r2, k1, k2

WantsOne == [r \in Requests |-> k1]
WantsBoth == [r \in Requests |-> IF r = r2 THEN k2 ELSE k1]
UnitSize == [k \in Keys |-> 1]
=============================================================================
