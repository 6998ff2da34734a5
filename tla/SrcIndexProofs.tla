--------------------------- MODULE SrcIndexProofs ---------------------------
(***************************************************************************)
(* Proofs about the source index, for any trees, names and requests: the   *)
(* index holds exactly the files of the trees, in the order of the walk,   *)
(* and Find picks the best of them.                                        *)
(***************************************************************************)
EXTENDS SrcIndex, DataLemmas, SequenceTheorems

-----------------------------------------------------------------------------
(* The inductive invariant.                                                *)

\* The files of root p that have been filed.
Visited(p) ==
    CASE p < prio -> trees[p]
      [] p = prio -> walked
      [] OTHER -> {}

\* Where New stands.
Walking ==
    /\ \A p \in 1..NTrees : p \notin there => trees[p] = {}
    /\ IF prio \in 1..NTrees THEN walked \subseteq trees[prio] ELSE walked = {}
    /\ stage # "walk" => prio = NTrees + 1

\* What is left of a tree comes after what has been visited.
WalkOrdered ==
    prio \in 1..NTrees => \A f \in walked, g \in trees[prio] \ walked : Precedes(f, g)

\* Each list has the entries of the visited files of its name, and nothing else.
Filed ==
    \A b \in Names :
        /\ \A k \in 1..Len(byBase[b]) :
              /\ byBase[b][k].parts[1] = b
              /\ \E p \in 1..NTrees : /\ byBase[b][k].prio = p
                                     /\ Reverse(byBase[b][k].parts) \in Visited(p)
        /\ \A p \in 1..NTrees : \A f \in Visited(p) :
              f[Len(f)] = b => \E k \in 1..Len(byBase[b]) : byBase[b][k] = [parts |-> Reverse(f), prio |-> p]

\* Entries of one tree are in the order of the walk.
ListsOrdered ==
    \A b \in Names : \A k \in 1..Len(byBase[b]), m \in 1..Len(byBase[b]) :
        k < m /\ byBase[b][k].prio = byBase[b][m].prio
            => Precedes(Reverse(byBase[b][k].parts), Reverse(byBase[b][m].parts))

Score(e) == commonPrefixLen(e.parts, want)

\* The order Find puts the candidates in.
Beats(j, k) ==
    LET a == Candidates[j]
        c == Candidates[k]
    IN \/ Score(a) > Score(c)
       \/ /\ Score(a) = Score(c)
          /\ \/ a.prio < c.prio
             \/ /\ a.prio = c.prio
                /\ \/ Len(a.parts) < Len(c.parts)
                   \/ Len(a.parts) = Len(c.parts) /\ j < k

\* The best candidate beats all others that have been looked at.
Searching ==
    stage = "find" =>
        /\ want # <<>>
        /\ i \in 1..(Len(Candidates) + 1)
        /\ best = 0 => i = 1
        /\ best # 0 => /\ best \in 1..(i - 1)
                       /\ bestScore = Score(Candidates[best])
                       /\ \A k \in 1..(i - 1) : k # best => Beats(best, k)

IInv ==
    /\ TypeOK /\ Walking /\ WalkOrdered /\ Filed /\ ListsOrdered
    /\ Searching /\ FindIsBest

-----------------------------------------------------------------------------
(* Paths.                                                                  *)

\* Reversing keeps type and length, and twice gives the path back.
LEMMA Reversed ==
    ASSUME NEW X, NEW s \in Seq(X)
    PROVE  /\ Reverse(s) \in Seq(X)
           /\ Len(Reverse(s)) = Len(s)
           /\ \A k \in 1..Len(s) : Reverse(s)[k] = s[Len(s) - k + 1]
           /\ Reverse(Reverse(s)) = s
           /\ Reverse(s) = <<>> <=> s = <<>>
<1>1. Len(s) \in Nat /\ \A k \in 1..Len(s) : (Len(s) - k) + 1 \in 1..Len(s)
  OBVIOUS
<1>2. Reverse(s) \in Seq(X) /\ Len(Reverse(s)) = Len(s)
  BY <1>1 DEF Reverse
<1>3. \A k \in 1..Len(s) : Reverse(s)[k] = s[Len(s) - k + 1]
  BY <1>1 DEF Reverse
<1>4. Reverse(Reverse(s)) = s
  <2>1. Reverse(Reverse(s)) \in Seq(X) /\ Len(Reverse(Reverse(s))) = Len(s)
    BY <1>1, <1>2 DEF Reverse
  <2>2. ASSUME NEW k \in 1..Len(s) PROVE Reverse(Reverse(s))[k] = s[k]
    <3>1. Reverse(Reverse(s))[k] = Reverse(s)[(Len(s) - k) + 1]
      BY <1>2 DEF Reverse
    <3>2. Reverse(s)[(Len(s) - k) + 1] = s[Len(s) - ((Len(s) - k) + 1) + 1]
      BY <1>1, <1>3
    <3> QED BY <3>1, <3>2
  <2> QED BY <2>1, <2>2, SeqEqual
<1>5. Reverse(s) = <<>> <=> s = <<>>
  BY <1>2
<1> QED BY <1>2, <1>3, <1>4, <1>5

\* The length of the common prefix is the one number commonPrefixLen looks for.
LEMMA PrefixLen ==
    ASSUME NEW a \in Seq(Names), NEW b \in Seq(Names)
    PROVE  LET k == commonPrefixLen(a, b)
           IN /\ k \in Nat /\ k <= Len(a) /\ k <= Len(b)
              /\ \A l \in 1..k : a[l] = b[l]
              /\ k < Len(a) /\ k < Len(b) => a[k + 1] # b[k + 1]
<1> DEFINE n == Least(Len(a), Len(b))
           Same(k) == \A l \in 1..k : a[l] = b[l]
           S == {k \in 0..n : Same(k)}
<1>1. n \in Nat /\ n <= Len(a) /\ n <= Len(b) /\ (n = Len(a) \/ n = Len(b))
  BY DEF Least
<1>2. 0 \in S
  BY <1>1
<1>3. PICK k \in S : \A j \in S : k >= j
  <2>1. S \in SUBSET (0..n) /\ S # {}
    BY <1>2
  <2> HIDE DEF n, S
  <2> QED BY <1>1, <2>1, HasGreatest
<1>4. k < n => a[k + 1] # b[k + 1]
  <2> SUFFICES ASSUME k < n, a[k + 1] = b[k + 1] PROVE FALSE
    OBVIOUS
  <2>1. k + 1 \in 0..n /\ \A l \in 1..(k + 1) : l \in 1..k \/ l = k + 1
    BY <1>1, <1>3
  <2>2. k + 1 \in S
    BY <1>3, <2>1
  <2> QED BY <1>1, <1>3, <2>2
<1>5. \E j \in 0..n : Same(j) /\ (j < n => a[j + 1] # b[j + 1])
  BY <1>3, <1>4
<1>6. commonPrefixLen(a, b) = CHOOSE j \in 0..n : Same(j) /\ (j < n => a[j + 1] # b[j + 1])
  BY Zenon DEF commonPrefixLen
<1> DEFINE c == commonPrefixLen(a, b)
<1>7. c \in 0..n /\ Same(c) /\ (c < n => a[c + 1] # b[c + 1])
  <2> HIDE DEF n, Same
  <2> QED BY <1>5, <1>6, Zenon
<1> HIDE DEF c, n
<1> QED BY <1>1, <1>7 DEF c

\* What the reference says from the left, the score says of the reversed paths.
LEMMA ScoreMeaning ==
    ASSUME NEW f \in Seq(Names), NEW g \in Seq(Names), NEW n \in Nat
    PROVE  EndsAlike(f, g, n) <=> n <= commonPrefixLen(Reverse(f), Reverse(g))
<1> DEFINE a == Reverse(f)
           b == Reverse(g)
           k == commonPrefixLen(a, b)
<1>1. /\ a \in Seq(Names) /\ Len(a) = Len(f) /\ \A l \in 1..Len(f) : a[l] = f[Len(f) - l + 1]
      /\ b \in Seq(Names) /\ Len(b) = Len(g) /\ \A l \in 1..Len(g) : b[l] = g[Len(g) - l + 1]
  BY Reversed
<1>2. /\ k \in Nat /\ k <= Len(a) /\ k <= Len(b)
      /\ \A l \in 1..k : a[l] = b[l]
      /\ k < Len(a) /\ k < Len(b) => a[k + 1] # b[k + 1]
  BY <1>1, PrefixLen
<1>3. n <= Len(f) /\ n <= Len(g) =>
         ((\A l \in 0..(n - 1) : f[Len(f) - l] = g[Len(g) - l]) <=> \A l \in 1..n : a[l] = b[l])
  <2> SUFFICES ASSUME n <= Len(f), n <= Len(g)
               PROVE (\A l \in 0..(n - 1) : f[Len(f) - l] = g[Len(g) - l]) <=> \A l \in 1..n : a[l] = b[l]
    OBVIOUS
  <2> HIDE DEF a, b
  <2>1. ASSUME NEW l \in 1..n
        PROVE  a[l] = f[Len(f) - (l - 1)] /\ b[l] = g[Len(g) - (l - 1)]
    <3>1. l \in 1..Len(f) /\ l \in 1..Len(g)
      OBVIOUS
    <3>2. a[l] = f[Len(f) - l + 1] /\ b[l] = g[Len(g) - l + 1]
      BY <1>1, <3>1
    <3>3. Len(f) - l + 1 = Len(f) - (l - 1) /\ Len(g) - l + 1 = Len(g) - (l - 1)
      BY <3>1
    <3> QED BY <3>2, <3>3
  <2>2. \A l \in 1..n : l - 1 \in 0..(n - 1)
    OBVIOUS
  <2>3. \A l \in 0..(n - 1) : l + 1 \in 1..n /\ (l + 1) - 1 = l
    OBVIOUS
  <2>4. (\A l \in 0..(n - 1) : f[Len(f) - l] = g[Len(g) - l]) => \A l \in 1..n : a[l] = b[l]
    BY <2>1, <2>2
  <2>5. (\A l \in 1..n : a[l] = b[l]) => \A l \in 0..(n - 1) : f[Len(f) - l] = g[Len(g) - l]
    BY <2>1, <2>3
  <2> QED BY <2>4, <2>5
<1> HIDE DEF a, b, k
<1>4. EndsAlike(f, g, n) <=> n <= Len(a) /\ n <= Len(b) /\ \A l \in 1..n : a[l] = b[l]
  BY <1>1, <1>3 DEF EndsAlike
<1>5. n <= k => n <= Len(a) /\ n <= Len(b) /\ \A l \in 1..n : a[l] = b[l]
  BY <1>1, <1>2
<1>6. n > k /\ n <= Len(a) /\ n <= Len(b) => ~ \A l \in 1..n : a[l] = b[l]
  <2> SUFFICES ASSUME n > k, n <= Len(a), n <= Len(b) PROVE \E l \in 1..n : a[l] # b[l]
    OBVIOUS
  <2>1. Len(a) \in Nat /\ Len(b) \in Nat
    BY <1>1
  <2>2. k < Len(a) /\ k < Len(b) /\ k + 1 \in 1..n
    BY <1>2, <2>1
  <2> QED BY <1>2, <2>2
<1>7. EndsAlike(f, g, n) <=> n <= k
  BY <1>1, <1>2, <1>4, <1>5, <1>6
<1> QED BY <1>7 DEF a, b, k

\* One component of a requested path, resolved, leaves only names.
LEMMA ResolveTyped ==
    ASSUME NEW parts \in Seq(Names), NEW part \in Names \cup {Dot, DotDot}
    PROVE  Resolve(parts, part) \in Seq(Names)
<1>1. parts # <<>> => Front(parts) \in Seq(Names)
  <2> SUFFICES ASSUME parts # <<>> PROVE Front(parts) \in Seq(Names)
    OBVIOUS
  <2>1. Len(parts) - 1 \in Nat /\ \A k \in 1..(Len(parts) - 1) : parts[k] \in Names
    OBVIOUS
  <2>2. Front(parts) = [k \in 1..(Len(parts) - 1) |-> parts[k]]
    BY <2>1 DEF Front
  <2> QED BY <2>1, <2>2
<1> QED BY <1>1 DEF Resolve

CleanStep(p, g) ==
    [s \in SUBSET (DOMAIN p) |-> IF s = {} THEN <<>> ELSE Resolve(g[s \ {Max(s)}], p[Max(s)])]
Clean(p) == CHOOSE g : g = CleanStep(p, g)

\* splitPath is the recursion over the positions of the path, the last one first.
LEMMA SplitIsFold == \A p : splitPath(p) = Clean(p)[DOMAIN p]
BY DEF splitPath, FoldLeft, MapThenFoldSet, Clean, CleanStep

\* No "." and no ".." gets into the index or into the request Find compares.
LEMMA SplitTyped ==
    ASSUME NEW p \in Seq(Names \cup {Dot, DotDot})
    PROVE  splitPath(p) \in Seq(Names)
<1> DEFINE D == DOMAIN p
           Take == [s \in SUBSET D |-> Max(s)]
           Op == [xv \in D \X Seq(Names) |-> Resolve(xv[2], p[xv[1]])]
<1>1. D = 1..Len(p) /\ Len(p) \in Nat /\ IsFiniteSet(D)
  BY FS_Interval
<1>2. ASSUME NEW s \in SUBSET D, s # {} PROVE Max(s) \in s
  <2>1. s \in SUBSET (0..Len(p))
    BY <1>1
  <2> QED BY <1>1, <1>2, <2>1, HasMax
<1>3. \A x \in D, v \in Seq(Names) : Op[<<x, v>>] = Resolve(v, p[x]) /\ Op[<<x, v>>] \in Seq(Names)
  <2> SUFFICES ASSUME NEW x \in D, NEW v \in Seq(Names)
               PROVE  Op[<<x, v>>] = Resolve(v, p[x]) /\ Op[<<x, v>>] \in Seq(Names)
    OBVIOUS
  <2>1. p[x] \in Names \cup {Dot, DotDot}
    BY <1>1
  <2>2. Op[<<x, v>>] = Resolve(v, p[x])
    OBVIOUS
  <2> QED BY <2>1, <2>2, ResolveTyped
<1>4. \A s \in SUBSET D : Take[s] = Max(s)
  OBVIOUS
<1>5. <<>> \in Seq(Names)
  OBVIOUS
<1> HIDE DEF Take, Op
<1>6. Foldable(D, Seq(Names), <<>>, Take, Op)
  BY <1>1, <1>2, <1>3, <1>4, <1>5 DEF Foldable
<1>7. PICK g \in [SUBSET D -> Seq(Names)] : IsFold(g, D, <<>>, Take, Op)
  BY <1>6, FoldExists
<1>8. g = CleanStep(p, g)
  <2>1. ASSUME NEW s \in SUBSET D, s # {} PROVE g[s] = Resolve(g[s \ {Max(s)}], p[Max(s)])
    <3>1. Max(s) \in D /\ g[s \ {Max(s)}] \in Seq(Names)
      BY <1>2, <1>7, <2>1
    <3>2. g[s] = Op[<<Max(s), g[s \ {Max(s)}]>>]
      BY <1>4, <1>7, <2>1 DEF IsFold
    <3> QED BY <1>3, <3>1, <3>2
  <2>2. \A s \in SUBSET D : g[s] = IF s = {} THEN <<>> ELSE Resolve(g[s \ {Max(s)}], p[Max(s)])
    BY <1>7, <2>1 DEF IsFold
  <2> QED BY <1>7, <2>2 DEF CleanStep
<1>9. Clean(p) = CleanStep(p, Clean(p))
  BY <1>8 DEF Clean
<1> DEFINE h == Clean(p)
<1>10. \A s \in SUBSET D : h[s] = IF s = {} THEN <<>> ELSE Resolve(h[s \ {Max(s)}], p[Max(s)])
  BY <1>9 DEF CleanStep
<1> HIDE DEF h
<1>11. h[{}] \in Seq(Names)
  BY <1>5, <1>10
<1>12. ASSUME NEW s \in SUBSET D, s # {}
       PROVE  \E x \in s : h[s \ {x}] \in Seq(Names) => h[s] \in Seq(Names)
  <2>1. Max(s) \in s /\ p[Max(s)] \in Names \cup {Dot, DotDot}
    BY <1>1, <1>2, <1>12
  <2>2. h[s] = Resolve(h[s \ {Max(s)}], p[Max(s)])
    BY <1>10, <1>12
  <2>3. h[s \ {Max(s)}] \in Seq(Names) => h[s] \in Seq(Names)
    BY <2>1, <2>2, ResolveTyped
  <2> QED BY <2>1, <2>3
<1>13. \A s \in SUBSET D : h[s] \in Seq(Names)
  BY <1>1, <1>11, <1>12, FoldTyped
<1> QED BY <1>13, SplitIsFold DEF h

-----------------------------------------------------------------------------
(* New: the walk.                                                          *)

\* An entry is a nonempty reversed path and a root.
LEMMA EntryTyped ==
    ASSUME NEW e \in Entries
    PROVE  /\ e.parts \in Seq(Names) /\ e.parts # <<>> /\ Len(e.parts) \in Nat \ {0}
           /\ e.prio \in 1..NTrees
BY DEF Entries, Files

\* A file ends with the name under which it is filed.
LEMMA FileBase ==
    ASSUME NEW f \in Files
    PROVE  /\ f \in Seq(Names) /\ Reverse(f) \in Files /\ Reverse(Reverse(f)) = f
           /\ Len(f) \in Nat \ {0} /\ Len(Reverse(f)) = Len(f)
           /\ Reverse(f)[1] = f[Len(f)] /\ f[Len(f)] \in Names
<1>1. f \in Seq(Names) /\ f # <<>> /\ Len(f) \in Nat \ {0}
  BY DEF Files
<1>2. /\ Reverse(f) \in Seq(Names) /\ Len(Reverse(f)) = Len(f) /\ Reverse(Reverse(f)) = f
      /\ Reverse(f) # <<>>
      /\ \A k \in 1..Len(f) : Reverse(f)[k] = f[Len(f) - k + 1]
  BY <1>1, Reversed
<1>3. 1 \in 1..Len(f) /\ Len(f) \in 1..Len(f) /\ Len(f) - 1 + 1 = Len(f)
  BY <1>1
<1> QED BY <1>1, <1>2, <1>3 DEF Files

\* New starts with nothing filed.
LEMMA InitInv == Init => IInv
<1> SUFFICES ASSUME Init PROVE IInv
  OBVIOUS
<1>1. TypeOK
  <2>1. trees \in [1..NTrees -> SUBSET Files]
    BY TreesAssumption DEF Init
  <2>2. 1 \in 1..(NTrees + 1)
    BY TreesAssumption
  <2>3. byBase \in [Names -> Seq(Entries)]
    BY DEF Init
  <2> QED BY <2>1, <2>2, <2>3 DEF Init, TypeOK
<1>2. Walking /\ WalkOrdered
  BY DEF Init, Walking, WalkOrdered
<1>3. Filed
  <2>1. \A p \in 1..NTrees : Visited(p) = {}
    BY TreesAssumption DEF Init, Visited
  <2>2. \A b \in Names : Len(byBase[b]) = 0
    BY DEF Init
  <2> QED BY <2>1, <2>2 DEF Filed
<1>4. ListsOrdered
  <2>1. \A b \in Names : Len(byBase[b]) = 0
    BY DEF Init
  <2> QED BY <2>1 DEF ListsOrdered
<1>5. Searching /\ FindIsBest
  BY DEF Init, Searching, FindIsBest
<1> QED BY <1>1, <1>2, <1>3, <1>4, <1>5 DEF IInv

\* An action that does not touch what has been filed leaves the lists as they should be.
LEMMA ListsKept ==
    ASSUME Filed, ListsOrdered, byBase' = byBase, \A p \in 1..NTrees : Visited(p)' = Visited(p)
    PROVE  Filed' /\ ListsOrdered'
<1>1. Filed'
  BY DEF Filed
<1>2. ListsOrdered'
  BY DEF ListsOrdered
<1> QED BY <1>1, <1>2

\* A root that cannot be resolved is passed over.
LEMMA SkipKeeps == IInv /\ Skip => IInv'
<1> SUFFICES ASSUME IInv, Skip PROVE IInv'
  OBVIOUS
<1> USE DEF IInv
<1>0. TypeOK /\ prio \in 1..NTrees /\ NTrees \in Nat /\ walked = {} /\ trees[prio] = {}
  BY TreesAssumption DEF TypeOK, Skip, Walking
<1>1. TypeOK'
  <2>1. prio' \in 1..(NTrees + 1) /\ walked' \subseteq Files
    BY <1>0 DEF TypeOK, Skip
  <2>2. UNCHANGED <<trees, there, stage, byBase, search>>
    BY DEF Skip
  <2> QED BY <1>0, <2>1, <2>2 DEF TypeOK, search
<1>2. Walking' /\ WalkOrdered'
  BY <1>0 DEF Skip, Walking, WalkOrdered
<1>3. \A p \in 1..NTrees : Visited(p)' = Visited(p)
  BY <1>0 DEF Skip, Visited
<1>4. Filed' /\ ListsOrdered'
  BY <1>0, <1>3, ListsKept DEF Skip
<1>5. Searching' /\ FindIsBest'
  BY DEF Skip, Searching, FindIsBest
<1> QED BY <1>1, <1>2, <1>4, <1>5

\* A root is left when all its files have been visited.
LEMMA NextTreeKeeps == IInv /\ NextTree => IInv'
<1> SUFFICES ASSUME IInv, NextTree PROVE IInv'
  OBVIOUS
<1> USE DEF IInv
<1>0. TypeOK /\ prio \in 1..NTrees /\ NTrees \in Nat
  BY TreesAssumption DEF TypeOK, NextTree
<1>1. TypeOK'
  <2>1. prio' \in 1..(NTrees + 1) /\ walked' \subseteq Files
    BY <1>0 DEF TypeOK, NextTree
  <2>2. UNCHANGED <<trees, there, stage, byBase, search>>
    BY DEF NextTree
  <2> QED BY <1>0, <2>1, <2>2 DEF TypeOK, search
<1>2. Walking' /\ WalkOrdered'
  BY <1>0 DEF NextTree, Walking, WalkOrdered
<1>3. \A p \in 1..NTrees : Visited(p)' = Visited(p)
  BY <1>0 DEF NextTree, Visited
<1>4. Filed' /\ ListsOrdered'
  BY <1>0, <1>3, ListsKept DEF NextTree
<1>5. Searching' /\ FindIsBest'
  BY DEF NextTree, Searching, FindIsBest
<1> QED BY <1>1, <1>2, <1>4, <1>5

\* The index is ready when every root has been left.
LEMMA BuiltKeeps == IInv /\ Built => IInv'
<1> SUFFICES ASSUME IInv, Built PROVE IInv'
  OBVIOUS
<1> USE DEF IInv
<1>0. TypeOK /\ NTrees \in Nat /\ prio = NTrees + 1 /\ UNCHANGED <<trees, there, prio, walked, byBase>>
  BY TreesAssumption DEF TypeOK, Built, index
<1>1. TypeOK'
  BY <1>0 DEF TypeOK, Built, search
<1>2. Walking' /\ WalkOrdered'
  BY <1>0 DEF Built, Walking, WalkOrdered
<1>3. \A p \in 1..NTrees : Visited(p)' = Visited(p)
  BY <1>0 DEF Visited
<1>4. Filed' /\ ListsOrdered'
  BY <1>0, <1>3, ListsKept
<1>5. Searching' /\ FindIsBest'
  BY DEF Built, Searching, FindIsBest
<1> QED BY <1>1, <1>2, <1>4, <1>5

\* A visited file is added at the end of the list of its base name.
LEMMA VisitKeeps == \A f : IInv /\ Visit(f) => IInv'
<1> SUFFICES ASSUME NEW f, IInv, Visit(f) PROVE IInv'
  OBVIOUS
<1> DEFINE b0 == f[Len(f)]
           e0 == [parts |-> Reverse(f), prio |-> prio]
<1>1. /\ TypeOK /\ Walking /\ WalkOrdered /\ Filed /\ ListsOrdered
      /\ stage = "walk" /\ prio \in 1..NTrees /\ NTrees \in Nat
      /\ f \in Files /\ f \in trees[prio] \ walked /\ walked \subseteq trees[prio]
  BY TreesAssumption DEF IInv, Visit, TypeOK, Walking
<1>2. /\ Reverse(f) \in Files /\ Reverse(f)[1] = b0 /\ b0 \in Names
      /\ Reverse(Reverse(f)) = f
  BY <1>1, FileBase
<1>3. /\ byBase' = [byBase EXCEPT ![b0] = Append(byBase[b0], e0)]
      /\ walked' = walked \cup {f}
      /\ UNCHANGED <<trees, there, stage, prio, want, i, best, bestScore, result>>
  BY <1>2 DEF Visit, search
<1>4. /\ e0 \in Entries /\ e0.parts = Reverse(f) /\ e0.prio = prio
  BY <1>1, <1>2 DEF Entries
<1>5. /\ \A b \in Names : byBase[b] \in Seq(Entries)
      /\ \A b \in Names : byBase'[b] = IF b = b0 THEN Append(byBase[b], e0) ELSE byBase[b]
      /\ byBase' \in [Names -> Seq(Entries)]
  BY <1>1, <1>2, <1>3, <1>4 DEF TypeOK
<1> HIDE DEF b0, e0
\* What is in a list afterwards: what was in it, and the new entry at the end of one.
<1>6. ASSUME NEW b \in Names
      PROVE  /\ Len(byBase[b]) \in Nat /\ Len(byBase'[b]) \in Nat
             /\ b # b0 => byBase'[b] = byBase[b] /\ Len(byBase'[b]) = Len(byBase[b])
             /\ b = b0 => /\ Len(byBase'[b]) = Len(byBase[b]) + 1
                          /\ byBase'[b][Len(byBase[b]) + 1] = e0
             /\ \A k \in 1..Len(byBase[b]) : k \in 1..Len(byBase'[b]) /\ byBase'[b][k] = byBase[b][k]
             /\ \A k \in 1..Len(byBase[b]) : byBase[b][k] \in Entries /\ byBase[b][k].prio \in 1..NTrees
  <2>1. byBase[b] \in Seq(Entries)
    BY <1>5
  <2>2. \A k \in 1..Len(byBase[b]) : byBase[b][k] \in Entries /\ byBase[b][k].prio \in 1..NTrees
    BY <2>1, EntryTyped
  <2>3. CASE b # b0
    BY <1>5, <2>1, <2>2, <2>3
  <2>4. CASE b = b0
    <3>1. byBase'[b] = Append(byBase[b], e0)
      BY <1>5, <2>4
    <3> QED BY <1>4, <2>1, <2>2, <2>4, <3>1
  <2> QED BY <2>3, <2>4
<1>7. TypeOK'
  <2>1. walked' \subseteq Files
    BY <1>1, <1>3 DEF TypeOK
  <2> QED BY <1>1, <1>3, <1>5, <2>1 DEF TypeOK
<1>8. Walking'
  BY <1>1, <1>3 DEF Walking
<1>9. WalkOrdered'
  <2>1. \A g \in (trees[prio] \ walked) \ {f} : Precedes(f, g)
    BY DEF Visit
  <2> QED BY <1>1, <1>3, <2>1 DEF WalkOrdered
<1>10. /\ \A p \in 1..NTrees : Visited(p)' = IF p = prio THEN walked \cup {f} ELSE Visited(p)
       /\ Visited(prio) = walked
  BY <1>1, <1>3 DEF Visited
<1>11. Filed'
  <2> SUFFICES ASSUME NEW b \in Names
               PROVE  /\ \A k \in 1..Len(byBase'[b]) :
                           /\ byBase'[b][k].parts[1] = b
                           /\ \E p \in 1..NTrees : /\ byBase'[b][k].prio = p
                                                  /\ Reverse(byBase'[b][k].parts) \in Visited(p)'
                      /\ \A p \in 1..NTrees : \A g \in Visited(p)' :
                           g[Len(g)] = b => \E k \in 1..Len(byBase'[b]) :
                                              byBase'[b][k] = [parts |-> Reverse(g), prio |-> p]
    BY DEF Filed
  <2>1. ASSUME NEW k \in 1..Len(byBase'[b])
        PROVE  /\ byBase'[b][k].parts[1] = b
               /\ \E p \in 1..NTrees : /\ byBase'[b][k].prio = p
                                      /\ Reverse(byBase'[b][k].parts) \in Visited(p)'
    <3>1. CASE k \in 1..Len(byBase[b])
      <4>1. /\ byBase[b][k].parts[1] = b
            /\ \E p \in 1..NTrees : /\ byBase[b][k].prio = p
                                   /\ Reverse(byBase[b][k].parts) \in Visited(p)
        BY <1>1, <3>1 DEF Filed
      <4>2. byBase'[b][k] = byBase[b][k]
        BY <1>6, <3>1
      <4> QED BY <1>10, <4>1, <4>2
    <3>2. CASE k \notin 1..Len(byBase[b])
      <4>1. b = b0 /\ byBase'[b][k] = e0
        BY <1>6, <3>2
      <4> QED BY <1>1, <1>2, <1>4, <1>10, <4>1
    <3> QED BY <3>1, <3>2
  <2>2. ASSUME NEW p \in 1..NTrees, NEW g \in Visited(p)', g[Len(g)] = b
        PROVE  \E k \in 1..Len(byBase'[b]) : byBase'[b][k] = [parts |-> Reverse(g), prio |-> p]
    <3>1. CASE g \in Visited(p)
      <4>1. PICK k \in 1..Len(byBase[b]) : byBase[b][k] = [parts |-> Reverse(g), prio |-> p]
        BY <1>1, <2>2, <3>1 DEF Filed
      <4> QED BY <1>6, <4>1
    <3>2. CASE g \notin Visited(p)
      <4>1. g = f /\ p = prio /\ b = b0
        BY <1>10, <2>2, <3>2 DEF b0
      <4>2. Len(byBase[b]) + 1 \in 1..Len(byBase'[b]) /\ byBase'[b][Len(byBase[b]) + 1] = e0
        BY <1>6, <4>1
      <4> QED BY <4>1, <4>2 DEF e0
    <3> QED BY <3>1, <3>2
  <2> QED BY <2>1, <2>2
<1>12. ListsOrdered'
  <2> SUFFICES ASSUME NEW b \in Names, NEW k \in 1..Len(byBase'[b]), NEW m \in 1..Len(byBase'[b]),
                      k < m, byBase'[b][k].prio = byBase'[b][m].prio
               PROVE  Precedes(Reverse(byBase'[b][k].parts), Reverse(byBase'[b][m].parts))
    BY DEF ListsOrdered
  <2>1. CASE m \in 1..Len(byBase[b])
    <3>1. k \in 1..Len(byBase[b])
      BY <1>6, <2>1
    <3>2. byBase'[b][k] = byBase[b][k] /\ byBase'[b][m] = byBase[b][m]
      BY <1>6, <2>1, <3>1
    <3> QED BY <1>1, <2>1, <3>1, <3>2 DEF ListsOrdered
  <2>2. CASE m \notin 1..Len(byBase[b])
    <3>1. b = b0 /\ byBase'[b][m] = e0 /\ k \in 1..Len(byBase[b])
      BY <1>6, <2>2
    <3>2. byBase'[b][k] = byBase[b][k] /\ byBase[b][k].prio = prio
      BY <1>4, <1>6, <3>1
    <3>3. Reverse(byBase[b][k].parts) \in walked
      BY <1>1, <1>10, <3>1, <3>2 DEF Filed
    <3>4. Precedes(Reverse(byBase[b][k].parts), f)
      BY <1>1, <3>3 DEF WalkOrdered
    <3> QED BY <1>2, <1>4, <3>1, <3>2, <3>4
  <2> QED BY <2>1, <2>2
<1>13. Searching' /\ FindIsBest'
  BY <1>1, <1>3 DEF Searching, FindIsBest
<1> QED BY <1>7, <1>8, <1>9, <1>11, <1>12, <1>13 DEF IInv

-----------------------------------------------------------------------------
(* Find: the search.                                                       *)

\* What an action of Find leaves as it was.
LEMMA IndexKept ==
    ASSUME IInv, UNCHANGED index, stage # "walk", stage' # "walk"
    PROVE  (Walking /\ WalkOrdered /\ Filed /\ ListsOrdered)'
<1>1. UNCHANGED <<trees, there, prio, walked, byBase>> /\ Walking /\ WalkOrdered /\ Filed /\ ListsOrdered
  BY DEF IInv, index
<1>2. Walking' /\ WalkOrdered'
  BY <1>1 DEF Walking, WalkOrdered
<1>3. \A p \in 1..NTrees : Visited(p)' = Visited(p)
  BY <1>1 DEF Visited
<1> QED BY <1>1, <1>2, <1>3, ListsKept

\* A request is taken apart; the root has no name and gets the empty answer.
LEMMA AskKeeps == \A p \in Paths : IInv /\ Ask(p) => IInv'
<1> SUFFICES ASSUME NEW p \in Paths, IInv, Ask(p) PROVE IInv'
  OBVIOUS
<1>1. TypeOK /\ UNCHANGED <<trees, there, prio, walked, byBase>> /\ stage # "walk" /\ stage' # "walk"
  BY DEF IInv, Ask, index
<1>2. want' \in Seq(Names)
  <2>1. splitPath(p) \in Seq(Names)
    BY PathsAssumption, SplitTyped
  <2> QED BY <2>1, Reversed DEF Ask
<1>3. TypeOK'
  BY <1>1, <1>2 DEF TypeOK, Ask
<1>4. Walking' /\ WalkOrdered' /\ Filed' /\ ListsOrdered'
  BY <1>1, IndexKept DEF Ask
<1>5. Searching'
  <2> SUFFICES ASSUME stage' = "find" PROVE Searching'
    BY DEF Searching
  <2>1. want' # <<>> /\ i' = 1 /\ best' = 0
    BY DEF Ask
  <2>2. want'[1] \in Names
    BY <1>2, <2>1
  <2>3. byBase'[want'[1]] \in Seq(Entries)
    BY <1>3, <2>2 DEF TypeOK
  <2>4. i' \in 1..(Len(Candidates') + 1)
    BY <2>1, <2>3 DEF Candidates
  <2> QED BY <2>1, <2>4 DEF Searching
<1>6. FindIsBest'
  BY DEF FindIsBest, Ask
<1> QED BY <1>3, <1>4, <1>5, <1>6 DEF IInv

\* The candidates of a request are entries of its last component.
LEMMA CandidatesTyped ==
    ASSUME TypeOK, want # <<>>
    PROVE  /\ want[1] \in Names
           /\ Candidates \in Seq(Entries) /\ Len(Candidates) \in Nat
           /\ \A k \in 1..Len(Candidates) :
                 /\ Candidates[k].prio \in Nat /\ Len(Candidates[k].parts) \in Nat
                 /\ Candidates[k].parts \in Seq(Names)
                 /\ Score(Candidates[k]) \in Nat
<1>1. want \in Seq(Names) /\ want[1] \in Names
  BY DEF TypeOK
<1>2. Candidates \in Seq(Entries) /\ Len(Candidates) \in Nat
  BY <1>1 DEF TypeOK, Candidates
<1> SUFFICES ASSUME NEW k \in 1..Len(Candidates)
             PROVE  /\ Candidates[k].prio \in Nat /\ Len(Candidates[k].parts) \in Nat
                    /\ Candidates[k].parts \in Seq(Names)
                    /\ Score(Candidates[k]) \in Nat
  BY <1>1, <1>2
<1>3. Candidates[k] \in Entries
  BY <1>2
<1>4. Candidates[k].parts \in Seq(Names) /\ Len(Candidates[k].parts) \in Nat /\ Candidates[k].prio \in Nat
  <2>1. Candidates[k].prio \in 1..NTrees
    BY <1>3, EntryTyped
  <2> QED BY <1>3, <2>1, EntryTyped
<1>5. Score(Candidates[k]) \in Nat
  BY <1>1, <1>4, PrefixLen DEF Score
<1> QED BY <1>4, <1>5

\* The switch compares the way Beats does: no candidate is both passed over and better,
\* and what the best one has beaten stays beaten when it is replaced.
LEMMA ConsiderKeeps == IInv /\ Consider => IInv'
<1> SUFFICES ASSUME IInv, Consider PROVE IInv'
  OBVIOUS
<1> DEFINE cand == Candidates[i]
           score == commonPrefixLen(cand.parts, want)
<1>1. /\ TypeOK /\ Searching /\ stage = "find" /\ stage' = "find" /\ want # <<>>
      /\ i <= Len(Candidates) /\ i' = i + 1
      /\ UNCHANGED <<trees, there, prio, walked, byBase, want, result>>
  BY DEF IInv, Consider, Searching, index
<1>2. /\ best' = IF Wins(cand, score) THEN i ELSE best
      /\ bestScore' = IF Wins(cand, score) THEN score ELSE bestScore
  BY DEF Consider
<1>3. /\ Candidates \in Seq(Entries) /\ Len(Candidates) \in Nat
      /\ \A k \in 1..Len(Candidates) :
            /\ Candidates[k].prio \in Nat /\ Len(Candidates[k].parts) \in Nat
            /\ Score(Candidates[k]) \in Nat
      /\ i \in 1..Len(Candidates) /\ score = Score(cand)
  BY <1>1, CandidatesTyped DEF Searching, Score
<1>4. /\ Candidates' = Candidates
      /\ \A e : Score(e)' = Score(e)
      /\ \A j, k : Beats(j, k)' = Beats(j, k)
  BY <1>1 DEF Candidates, Score, Beats
<1> HIDE DEF cand, score
<1>5. TypeOK'
  <2>1. score \in Nat /\ i \in Nat /\ best \in Nat /\ bestScore \in Nat
    BY <1>1, <1>3 DEF TypeOK, cand
  <2>2. i' \in Nat /\ best' \in Nat /\ bestScore' \in Nat
    BY <1>1, <1>2, <2>1
  <2> QED BY <1>1, <2>2 DEF TypeOK
<1>6. Walking' /\ WalkOrdered' /\ Filed' /\ ListsOrdered'
  BY <1>1, IndexKept DEF index
<1>7. best # 0 =>
         /\ best \in 1..(i - 1) /\ best \in 1..Len(Candidates)
         /\ bestScore = Score(Candidates[best])
         /\ \A k \in 1..(i - 1) : k # best => Beats(best, k)
  BY <1>1, <1>3 DEF Searching
\* The candidate that wins beats the best one, and one that does not is beaten by it.
<1>8. best # 0 => IF Wins(cand, score) THEN Beats(i, best) ELSE Beats(best, i)
  <2> SUFFICES ASSUME best # 0 PROVE IF Wins(cand, score) THEN Beats(i, best) ELSE Beats(best, i)
    OBVIOUS
  <2>1. /\ best \in 1..Len(Candidates) /\ best < i /\ i \in 1..Len(Candidates)
        /\ bestScore = Score(Candidates[best]) /\ score = Score(Candidates[i]) /\ cand = Candidates[i]
    BY <1>3, <1>7 DEF cand
  <2> QED BY <1>3, <2>1 DEF Wins, Beats
<1>9. Searching'
  <2>1. i' \in 1..(Len(Candidates) + 1) /\ best' # 0
    BY <1>1, <1>2, <1>3 DEF Wins
  <2>2. CASE Wins(cand, score)
    <3>1. best' = i /\ bestScore' = Score(Candidates[i]) /\ i \in 1..(i' - 1)
      BY <1>1, <1>2, <1>3, <2>2 DEF cand
    <3>2. ASSUME NEW k \in 1..(i' - 1), k # i PROVE Beats(i, k)
      <4>1. k \in 1..(i - 1) /\ best # 0 /\ k \in 1..Len(Candidates)
        BY <1>1, <1>3, <3>2 DEF Searching
      <4>2. CASE k = best
        BY <1>8, <2>2, <4>1, <4>2
      <4>3. CASE k # best
        <5>1. Beats(i, best) /\ Beats(best, k)
          BY <1>7, <1>8, <2>2, <4>1, <4>3
        <5>2. i \in 1..Len(Candidates) /\ best \in 1..Len(Candidates) /\ best < i /\ k < i
          BY <1>3, <1>7, <4>1
        <5> QED BY <1>3, <4>1, <5>1, <5>2 DEF Beats
      <4> QED BY <4>2, <4>3
    <3> QED BY <1>1, <1>4, <2>1, <3>1, <3>2 DEF Searching
  <2>3. CASE ~Wins(cand, score)
    <3>1. best' = best /\ bestScore' = bestScore /\ best # 0 /\ best \in 1..(i' - 1)
      BY <1>1, <1>2, <1>3, <1>7, <2>1, <2>3
    <3>2. ASSUME NEW k \in 1..(i' - 1), k # best PROVE Beats(best, k)
      <4>1. k \in 1..(i - 1) \/ k = i
        BY <1>1, <1>3
      <4> QED BY <1>7, <1>8, <2>3, <3>1, <3>2, <4>1
    <3> QED BY <1>1, <1>4, <1>7, <2>1, <3>1, <3>2 DEF Searching
  <2> QED BY <2>2, <2>3
<1>10. FindIsBest'
  BY <1>1 DEF FindIsBest
<1> QED BY <1>5, <1>6, <1>9, <1>10 DEF IInv

\* For files of the requested name the scores say which shares the longer end.
LEMMA LongerEnd ==
    ASSUME want \in Seq(Names), want # <<>>, NEW f \in Files, NEW g \in Files
    PROVE  /\ commonPrefixLen(Reverse(f), want) > commonPrefixLen(Reverse(g), want)
                => \E n \in 1..Len(asked) : EndsAlike(f, asked, n) /\ ~EndsAlike(g, asked, n)
           /\ commonPrefixLen(Reverse(f), want) = commonPrefixLen(Reverse(g), want)
                => ~ \E n \in 1..Len(asked) : EndsAlike(g, asked, n) /\ ~EndsAlike(f, asked, n)
<1>1. asked \in Seq(Names) /\ Len(asked) \in Nat /\ Len(asked) = Len(want) /\ Reverse(asked) = want
  BY Reversed DEF asked
<1>2. /\ f \in Seq(Names) /\ Reverse(f) \in Seq(Names)
      /\ g \in Seq(Names) /\ Reverse(g) \in Seq(Names)
  BY Reversed DEF Files
<1> DEFINE sf == commonPrefixLen(Reverse(f), want)
           sg == commonPrefixLen(Reverse(g), want)
<1>3. sf \in Nat /\ sf <= Len(asked) /\ sg \in Nat
  BY <1>1, <1>2, PrefixLen
<1>4. \A n \in Nat : (EndsAlike(f, asked, n) <=> n <= sf) /\ (EndsAlike(g, asked, n) <=> n <= sg)
  BY <1>1, <1>2, ScoreMeaning
<1> HIDE DEF sf, sg
<1>5. sf > sg => \E n \in 1..Len(asked) : EndsAlike(f, asked, n) /\ ~EndsAlike(g, asked, n)
  <2> SUFFICES ASSUME sf > sg PROVE sf \in 1..Len(asked) /\ EndsAlike(f, asked, sf) /\ ~EndsAlike(g, asked, sf)
    OBVIOUS
  <2> QED BY <1>1, <1>3, <1>4
<1>6. sf = sg => \A n \in 1..Len(asked) : EndsAlike(g, asked, n) => EndsAlike(f, asked, n)
  BY <1>1, <1>4
<1> QED BY <1>5, <1>6 DEF sf, sg

\* The answer is a file of the requested name, and better than every other one.
LEMMA ReturnKeeps == IInv /\ Return => IInv'
<1> SUFFICES ASSUME IInv, Return PROVE IInv'
  OBVIOUS
<1>1. /\ TypeOK /\ Walking /\ Filed /\ ListsOrdered /\ Searching
      /\ stage = "find" /\ stage' = "done" /\ want # <<>> /\ want \in Seq(Names)
      /\ UNCHANGED <<trees, there, prio, walked, byBase, want, i, best, bestScore>>
      /\ result' = IF best = 0 THEN NoEntry ELSE Answer(Candidates[best])
      /\ i > Len(Candidates)
  BY DEF IInv, Return, Searching, TypeOK, index
<1>2. /\ want[1] \in Names
      /\ Candidates \in Seq(Entries) /\ Len(Candidates) \in Nat
      /\ \A k \in 1..Len(Candidates) :
            /\ Candidates[k].prio \in Nat /\ Len(Candidates[k].parts) \in Nat
            /\ Candidates[k].parts \in Seq(Names)
            /\ Score(Candidates[k]) \in Nat
  BY <1>1, CandidatesTyped
<1>3. i = Len(Candidates) + 1
  BY <1>1, <1>2 DEF Searching
<1>4. \A p \in 1..NTrees : Visited(p) = trees[p]
  BY <1>1, TreesAssumption DEF Walking, Visited
<1>5. asked # <<>> /\ asked[Len(asked)] = want[1] /\ asked' = asked
  <2>1. Len(asked) = Len(want) /\ Len(want) \in Nat \ {0}
    BY <1>1, Reversed DEF asked
  <2>2. asked[Len(asked)] = want[Len(want) - Len(want) + 1]
    BY <1>1, <2>1, Reversed DEF asked
  <2> QED BY <1>1, <2>1, <2>2 DEF asked
<1> DEFINE b == want[1]
\* A file of the name is a candidate, and a candidate is a file of the name.
<1>6. ASSUME NEW c \in Named(b)
      PROVE  /\ c.root \in 1..NTrees /\ c.file \in Files /\ c = [file |-> c.file, root |-> c.root]
             /\ \E k \in 1..Len(Candidates) : Candidates[k] = [parts |-> Reverse(c.file), prio |-> c.root]
  <2>1. c.root \in 1..NTrees /\ c.file \in trees[c.root] /\ c.file[Len(c.file)] = b
    BY DEF Named
  <2>2. c.file \in Files
    BY <1>1, <2>1 DEF TypeOK
  <2>3. c = [file |-> c.file, root |-> c.root]
    BY DEF Named
  <2>4. c.file \in Visited(c.root) /\ b \in Names
    BY <1>2, <1>4, <2>1
  <2>5. \E k \in 1..Len(byBase[b]) : byBase[b][k] = [parts |-> Reverse(c.file), prio |-> c.root]
    BY <1>1, <2>1, <2>4 DEF Filed
  <2> QED BY <2>1, <2>2, <2>3, <2>5 DEF Candidates
<1>7. ASSUME NEW k \in 1..Len(Candidates)
      PROVE  /\ Answer(Candidates[k]) \in Named(b)
             /\ Answer(Candidates[k]).file \in Files
             /\ Answer(Candidates[k]).root = Candidates[k].prio
             /\ Reverse(Answer(Candidates[k]).file) = Candidates[k].parts
             /\ Len(Answer(Candidates[k]).file) = Len(Candidates[k].parts)
  <2> DEFINE e == Candidates[k]
  <2>1. e \in Entries
    BY <1>2
  <2>2. e.parts \in Files /\ e.prio \in 1..NTrees
    BY <2>1 DEF Entries
  <2>3. /\ e.parts[1] = b
        /\ \E p \in 1..NTrees : e.prio = p /\ Reverse(e.parts) \in Visited(p)
    BY <1>1, <1>2 DEF Filed, Candidates
  <2>4. Reverse(e.parts) \in trees[e.prio]
    BY <1>4, <2>3
  <2>5. /\ Reverse(e.parts) \in Files /\ Reverse(Reverse(e.parts)) = e.parts
        /\ Len(Reverse(e.parts)) = Len(e.parts)
    BY <2>2, FileBase
  <2>6. Reverse(e.parts)[Len(Reverse(e.parts))] = b
    BY <2>3, <2>5, FileBase
  <2> HIDE DEF e
  <2>7. Answer(e).file = Reverse(e.parts) /\ Answer(e).root = e.prio
    BY DEF Answer
  <2>8. Answer(e) \in Named(b)
    BY <2>2, <2>4, <2>6 DEF Named, Answer
  <2> QED BY <2>5, <2>7, <2>8 DEF e
<1> HIDE DEF b
<1>8. TypeOK'
  <2>1. result' \in [file : Files, root : 1..NTrees] \cup {NoEntry}
    <3>1. CASE best = 0
      BY <1>1, <3>1
    <3>2. CASE best # 0
      <4>1. best \in 1..Len(Candidates)
        BY <1>1, <1>2, <1>3, <3>2 DEF Searching
      <4>2. Candidates[best].prio \in 1..NTrees
        BY <1>2, <4>1, EntryTyped
      <4>3. Answer(Candidates[best]) \in [file : Files, root : 1..NTrees]
        BY <1>7, <4>1, <4>2 DEF Answer
      <4> QED BY <1>1, <3>2, <4>3
    <3> QED BY <3>1, <3>2
  <2> QED BY <1>1, <2>1 DEF TypeOK
<1>9. Walking' /\ WalkOrdered' /\ Filed' /\ ListsOrdered'
  BY <1>1, IndexKept DEF index
<1>10. Searching'
  BY <1>1 DEF Searching
<1>11. CASE best = 0
  <2>1. Len(Candidates) = 0
    BY <1>1, <1>2, <1>3, <1>11 DEF Searching
  <2>2. Named(b) = {}
    BY <1>6, <2>1
  <2>3. Named(b)' = {}
    BY <1>1, <2>2 DEF Named, b
  <2>4. FindIsBest'
    BY <1>1, <1>5, <1>11, <2>3 DEF FindIsBest, b
  <2> QED BY <1>8, <1>9, <1>10, <2>4 DEF IInv
<1>12. CASE best # 0
  <2>1. /\ best \in 1..Len(Candidates)
        /\ \A k \in 1..Len(Candidates) : k # best => Beats(best, k)
    BY <1>1, <1>2, <1>3, <1>12 DEF Searching
  <2> DEFINE r == Answer(Candidates[best])
  <2>2. /\ r \in Named(b) /\ r.file \in Files /\ r.root = Candidates[best].prio
        /\ Reverse(r.file) = Candidates[best].parts /\ Len(r.file) = Len(Candidates[best].parts)
    BY <1>7, <2>1
  <2>3. result' = r
    BY <1>1, <1>12
  <2> HIDE DEF r
  <2>4. ASSUME NEW c \in Named(b) \ {r} PROVE Better(r, c)
    <3>1. PICK k \in 1..Len(Candidates) : Candidates[k] = [parts |-> Reverse(c.file), prio |-> c.root]
      BY <1>6
    <3>2. k # best
      <4>1. Answer(Candidates[k]) = c
        BY <1>6, <3>1, FileBase DEF Answer
      <4> QED BY <4>1 DEF r
    <3>3. Beats(best, k)
      BY <2>1, <3>2
    <3>4. /\ c.file \in Files /\ c.root = Candidates[k].prio
          /\ Reverse(c.file) = Candidates[k].parts /\ Len(c.file) = Len(Candidates[k].parts)
      BY <1>6, <3>1, FileBase
    <3>5. /\ Score(Candidates[best]) = commonPrefixLen(Reverse(r.file), want)
          /\ Score(Candidates[k]) = commonPrefixLen(Reverse(c.file), want)
      BY <2>2, <3>4 DEF Score
    <3>6. CASE Score(Candidates[best]) > Score(Candidates[k])
      BY <1>1, <2>2, <3>4, <3>5, <3>6, LongerEnd DEF Better
    <3>7. CASE ~(Score(Candidates[best]) > Score(Candidates[k]))
      <4>1. /\ Score(Candidates[best]) = Score(Candidates[k])
            /\ \/ r.root < c.root
               \/ /\ r.root = c.root
                  /\ Len(r.file) < Len(c.file) \/ (Len(r.file) = Len(c.file) /\ best < k)
        BY <2>2, <3>3, <3>4, <3>7 DEF Beats
      <4>2. r.root = c.root /\ best < k => Precedes(r.file, c.file)
        <5> SUFFICES ASSUME r.root = c.root, best < k PROVE Precedes(r.file, c.file)
          OBVIOUS
        <5>1. Precedes(Reverse(Candidates[best].parts), Reverse(Candidates[k].parts))
          BY <1>1, <1>2, <2>1, <2>2, <3>4 DEF ListsOrdered, Candidates
        <5> QED BY <2>2, <3>4, <5>1, FileBase
      <4>3. ~ \E n \in 1..Len(asked) : EndsAlike(c.file, asked, n) /\ ~EndsAlike(r.file, asked, n)
        BY <1>1, <2>2, <3>4, <3>5, <4>1, LongerEnd
      <4> QED BY <4>1, <4>2, <4>3 DEF Better
    <3> QED BY <3>6, <3>7
  <2>5. Named(b)' = Named(b) /\ \A a, c : Better(a, c)' = Better(a, c)
    BY <1>1, <1>5 DEF Named, b, Better, EndsAlike
  <2>6. FindIsBest'
    BY <1>1, <1>5, <2>2, <2>3, <2>4, <2>5 DEF FindIsBest, b
  <2> QED BY <1>8, <1>9, <1>10, <2>6 DEF IInv
<1> QED BY <1>11, <1>12

-----------------------------------------------------------------------------
(* The theorems.                                                           *)

\* Every step of New and of Find keeps the invariant.
LEMMA StepKeeps == IInv /\ [Next]_vars => IInv'
<1> SUFFICES ASSUME IInv, [Next]_vars PROVE IInv'
  OBVIOUS
<1>1. CASE Skip
  BY <1>1, SkipKeeps
<1>2. CASE \E f \in UNION {trees[p] : p \in there} : Visit(f)
  BY <1>2, VisitKeeps
<1>3. CASE NextTree
  BY <1>3, NextTreeKeeps
<1>4. CASE Built
  BY <1>4, BuiltKeeps
<1>5. CASE \E p \in Paths : Ask(p)
  BY <1>5, AskKeeps
<1>6. CASE Consider
  BY <1>6, ConsiderKeeps
<1>7. CASE Return
  BY <1>7, ReturnKeeps
<1>8. CASE UNCHANGED vars
  <2>1. UNCHANGED <<trees, there, prio, walked, byBase, stage, want, i, best, bestScore, result>>
    BY <1>8 DEF vars, index, search
  <2>2. TypeOK' /\ Walking' /\ WalkOrdered'
    BY <2>1 DEF IInv, TypeOK, Walking, WalkOrdered
  <2>3. Filed' /\ ListsOrdered'
    BY <2>1 DEF IInv, Filed, Visited, ListsOrdered
  <2>4. Searching'
    BY <2>1 DEF IInv, Searching, Candidates, Score, Beats
  <2>5. FindIsBest'
    <3>1. asked' = asked /\ (\A b : Named(b)' = Named(b)) /\ \A a, c : Better(a, c)' = Better(a, c)
      BY <2>1 DEF asked, Named, Better, EndsAlike
    <3>2. FindIsBest
      BY DEF IInv
    <3> QED BY <2>1, <3>1, <3>2 DEF FindIsBest
  <2> QED BY <2>2, <2>3, <2>4, <2>5 DEF IInv
<1> QED BY <1>1, <1>2, <1>3, <1>4, <1>5, <1>6, <1>7, <1>8 DEF Next

\* The invariant holds in every state of every run.
THEOREM Invariance == Spec => []IInv
BY InitInv, StepKeeps, PTL DEF Spec

\* For every forest and every request the state has its types; in particular splitPath
\* leaves neither "." nor ".." in what Find compares with the index.
THEOREM TypeCorrect == Spec => []TypeOK
<1>1. IInv => TypeOK
  BY DEF IInv
<1> QED BY <1>1, Invariance, PTL

\* For any number of trees of any shape, Find answers with the file that is better than
\* every other file of the requested base name, and with nothing only if there is none.
THEOREM FindPicksBest == Spec => []FindIsBest
<1>1. IInv => FindIsBest
  BY DEF IInv
<1> QED BY <1>1, Invariance, PTL
=============================================================================
