------------------------------ MODULE SrcIndex ------------------------------
(***************************************************************************)
(* The index both backends use to find the file a compiler meant           *)
(* (srcindex/srcindex.go): New walks the trees in priority order and files *)
(* every entry under its base name; Find picks the entry that shares most  *)
(* trailing components with the request.  One index answers any number of  *)
(* requests.  A path is the sequence of its components; names are numbers, *)
(* ordered the way WalkDir sorts a directory.                              *)
(***************************************************************************)
EXTENDS Naturals, Sequences, Functions, SequencesExt

CONSTANTS
    Names,          \* the components of file names, naturals
    Dot, DotDot,    \* "." and ".."
    NTrees,         \* how many roots New is given
    Forests,        \* the trees the roots may hold, each the set of its files
    Paths,          \* the requested paths, absolute, as clients spell them
    NoEntry         \* a nil entry, and the empty answer

Files == Seq(Names) \ {<<>>}

ASSUME NamesAssumption == Names \subseteq Nat /\ Dot \notin Names /\ DotDot \notin Names
ASSUME TreesAssumption ==
    /\ NTrees \in Nat
    /\ \A t \in Forests : t \in [1..NTrees -> SUBSET Files]
ASSUME PathsAssumption == Paths \subseteq Seq(Names \cup {Dot, DotDot})

VARIABLES
    trees,      \* [1..NTrees -> SUBSET Files]: the files that can be read under a root
    there,      \* the roots that can be resolved
    stage,      \* "walk" | "ready" | "find" | "done"
    prio,       \* the root that is being walked
    walked,     \* the files of it that have been visited
    byBase,     \* [Names -> Seq(Entries)]
    want,       \* the request's components, reversed
    i,          \* the candidate Find looks at
    best,       \* the position of the best candidate so far, 0 for nil
    bestScore,
    result      \* Find's answer

index == <<trees, there, prio, walked, byBase>>
search == <<want, i, best, bestScore, result>>
vars == <<index, stage, search>>

Entries == [parts : Files, prio : 1..NTrees]

(* WalkDir visits the entries of a directory in order and descends into    *)
(* each: a file comes first if its first different component is smaller.   *)
Precedes(f, g) ==
    \E k \in 1..Len(f) :
        /\ k <= Len(g)
        /\ f[k] < g[k]
        /\ \A l \in 1..(k - 1) : f[l] = g[l]

(* filepath.Clean of an absolute path: ".." takes back a component, and at *)
(* the root nothing.                                                       *)
Resolve(parts, part) ==
    CASE part = DotDot -> IF parts = <<>> THEN <<>> ELSE Front(parts)
      [] part = Dot -> parts
      [] OTHER -> Append(parts, part)

\* Mutant: only "." is dropped, as splitPath does for a relative path.
splitKeepingDotDot(p) == SelectSeq(p, LAMBDA part : part # Dot)

splitPath(p) == FoldLeft(Resolve, <<>>, p)

Least(n, m) == IF n <= m THEN n ELSE m
commonPrefixLen(a, b) ==
    LET n == Least(Len(a), Len(b))
    IN CHOOSE k \in 0..n : /\ \A l \in 1..k : a[l] = b[l]
                           /\ k < n => a[k + 1] # b[k + 1]

Init ==
    /\ trees \in Forests
    /\ there \in SUBSET (1..NTrees)
    /\ \A p \in 1..NTrees : p \notin there => trees[p] = {}
    /\ stage = "walk" /\ prio = 1 /\ walked = {}
    /\ byBase = [b \in Names |-> <<>>]
    /\ want = <<>> /\ i = 0 /\ best = 0 /\ bestScore = 0 /\ result = NoEntry

-----------------------------------------------------------------------------
(* New.                                                                    *)

Skip ==
    /\ stage = "walk" /\ prio <= NTrees /\ prio \notin there
    /\ prio' = prio + 1
    /\ UNCHANGED <<trees, there, stage, walked, byBase, search>>

Visit(f) ==
    LET parts == Reverse(f) IN
    /\ stage = "walk" /\ prio \in there
    /\ f \in trees[prio] \ walked
    /\ \A g \in (trees[prio] \ walked) \ {f} : Precedes(f, g)
    /\ walked' = walked \cup {f}
    /\ byBase' = [byBase EXCEPT ![parts[1]] = Append(@, [parts |-> parts, prio |-> prio])]
    /\ UNCHANGED <<trees, there, stage, prio, search>>

NextTree ==
    /\ stage = "walk" /\ prio \in there
    /\ walked = trees[prio]
    /\ prio' = prio + 1
    /\ walked' = {}
    /\ UNCHANGED <<trees, there, stage, byBase, search>>

Built ==
    /\ stage = "walk" /\ prio > NTrees
    /\ stage' = "ready"
    /\ UNCHANGED <<index, search>>

-----------------------------------------------------------------------------
(* Find.                                                                   *)

Ask(p) ==
    /\ stage \in {"ready", "done"}
    /\ want' = Reverse(splitPath(p))
    /\ stage' = IF want' = <<>> THEN "done" ELSE "find"
    /\ i' = 1 /\ best' = 0 /\ bestScore' = 0 /\ result' = NoEntry
    /\ UNCHANGED index

Candidates == byBase[want[1]]

\* Mutant: equal scores are settled by depth first and by tree second.
WinsByDepthFirst(cand, score) ==
    \/ score > bestScore
    \/ best = 0
    \/ /\ score = bestScore
       /\ IF Len(cand.parts) # Len(Candidates[best].parts)
          THEN Len(cand.parts) < Len(Candidates[best].parts)
          ELSE cand.prio < Candidates[best].prio

\* The switch: whether the candidate replaces the best one so far.
Wins(cand, score) ==
    \/ score > bestScore
    \/ best = 0
    \/ /\ score = bestScore
       /\ IF cand.prio # Candidates[best].prio
          THEN cand.prio < Candidates[best].prio
          ELSE Len(cand.parts) < Len(Candidates[best].parts)

Consider ==
    LET cand == Candidates[i]
        score == commonPrefixLen(cand.parts, want)
    IN /\ stage = "find" /\ i <= Len(Candidates)
       /\ i' = i + 1
       /\ best' = IF Wins(cand, score) THEN i ELSE best
       /\ bestScore' = IF Wins(cand, score) THEN score ELSE bestScore
       /\ UNCHANGED <<index, stage, want, result>>

Answer(e) == [file |-> Reverse(e.parts), root |-> e.prio]

Return ==
    /\ stage = "find" /\ i > Len(Candidates)
    /\ stage' = "done"
    /\ result' = IF best = 0 THEN NoEntry ELSE Answer(Candidates[best])
    /\ UNCHANGED <<index, want, i, best, bestScore>>

Next ==
    \/ Skip \/ (\E f \in UNION {trees[p] : p \in there} : Visit(f))
    \/ NextTree \/ Built
    \/ (\E p \in Paths : Ask(p)) \/ Consider \/ Return

Spec == Init /\ [][Next]_vars

-----------------------------------------------------------------------------
(* Properties.  The reference definitions read paths from the left and     *)
(* compare sets of files; they use neither the index nor its scores.       *)

\* Types; among them that no "." or ".." survives in the components Find compares.
TypeOK ==
    /\ trees \in [1..NTrees -> SUBSET Files] /\ there \subseteq 1..NTrees
    /\ stage \in {"walk", "ready", "find", "done"}
    /\ prio \in 1..(NTrees + 1)
    /\ walked \subseteq Files
    /\ byBase \in [Names -> Seq(Entries)]
    /\ want \in Seq(Names)
    /\ i \in Nat /\ best \in Nat /\ bestScore \in Nat
    /\ result \in [file : Files, root : 1..NTrees] \cup {NoEntry}

\* The request, as the file system would resolve it.
asked == Reverse(want)
EndsAlike(f, g, n) ==
    n <= Len(f) /\ n <= Len(g) /\ \A k \in 0..(n - 1) : f[Len(f) - k] = g[Len(g) - k]
Named(b) == {a \in [file : UNION {trees[p] : p \in 1..NTrees}, root : 1..NTrees] :
               a.file \in trees[a.root] /\ a.file[Len(a.file)] = b}

\* a shares a longer end with the request than c, or as long a one and comes from an
\* earlier tree, or lies less deep in the same tree, or is visited first.
Better(a, c) ==
    LET more == \E n \in 1..Len(asked) : EndsAlike(a.file, asked, n) /\ ~EndsAlike(c.file, asked, n)
        less == \E n \in 1..Len(asked) : EndsAlike(c.file, asked, n) /\ ~EndsAlike(a.file, asked, n)
    IN \/ more
       \/ ~less /\ \/ a.root < c.root
                   \/ /\ a.root = c.root
                      /\ \/ Len(a.file) < Len(c.file)
                         \/ Len(a.file) = Len(c.file) /\ Precedes(a.file, c.file)

\* Find answers with the one file, of all the trees that could be read, that is better
\* than every other file of the requested name, and with nothing only if there is none:
\* no order of the trees, of the walk or of the candidates changes the answer.
FindIsBest ==
    stage = "done" =>
        IF want = <<>> \/ Named(asked[Len(asked)]) = {}
        THEN result = NoEntry
        ELSE /\ result \in Named(asked[Len(asked)])
             /\ \A c \in Named(asked[Len(asked)]) \ {result} : Better(result, c)
=============================================================================
