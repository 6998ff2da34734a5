----------------------------- MODULE MCSrcIndex -----------------------------
(* Small instances of SrcIndex: every overlay of at most one file and      *)
(* every source tree of at most two, with two names and three levels.      *)
EXTENDS SrcIndex, FiniteSets

CONSTANTS MaxDepth

BoundedFiles == UNION {[1..n -> Names] : n \in 1..MaxDepth}
TreesUpTo(n) == {t \in UNION {kSubset(k, BoundedFiles) : k \in 0..n} :
                   \A f, g \in t : f # g => ~IsPrefix(f, g)}
MCForests == TreesUpTo(1) \X TreesUpTo(2)
MCPaths == BoundedFiles \cup {<<>>, <<DotDot, 1, 2>>, <<1, DotDot, 2>>, <<Dot, 2, 1>>,
                              <<1, 2, DotDot>>, <<1, DotDot, DotDot, 2>>}
=============================================================================
