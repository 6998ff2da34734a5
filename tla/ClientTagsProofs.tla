-------------------------- MODULE ClientTagsProofs --------------------------
(***************************************************************************)
(* Proofs about the attribution of addresses, for any width of address,    *)
(* any services and any documents: the masked lookup that tries long       *)
(* masks first finds the narrowest of the ranges, read as intervals.       *)
(***************************************************************************)
EXTENDS ClientTags, DataLemmas

-----------------------------------------------------------------------------
(* The invariants of the list.                                             *)

Names == {Services[n] : n \in 1..Len(Services)}

\* A list that is loaded names configured services only.
ListOK == gh # NoSet => \A k \in DOMAIN gh : gh[k] \in Names

\* It was made from the last document that could be used, once there was one.
ListMade ==
    ghDoc # Unavailable => /\ ghDoc \in MetaDocs /\ Parses(ghDoc)
                  /\ gh = newIPTagSet(parseGitHubMeta(ghDoc))

-----------------------------------------------------------------------------
(* Blocks of addresses.                                                    *)

\* The recursion for the size of a block has a solution.
LEMMA Pow2Def ==
    Pow2 = [k \in 0..Width |-> IF k = 0 THEN 1 ELSE 2 * Pow2[k - 1]]
<1> DEFINE Solves(g, n) == g = [k \in 0..n |-> IF k = 0 THEN 1 ELSE 2 * g[k - 1]]
           Good == {n \in Nat : \E g : Solves(g, n)}
<1>1. 0 \in Good
  <2> DEFINE g == [k \in 0..0 |-> 1]
  <2>1. Solves(g, 0)
    OBVIOUS
  <2> HIDE DEF g, Solves
  <2> QED BY <2>1
<1>2. ASSUME NEW n \in Nat, n \in Good PROVE n + 1 \in Good
  <2>1. PICK g : Solves(g, n)
    BY <1>2
  <2> DEFINE h == [k \in 0..(n + 1) |-> IF k = 0 THEN 1 ELSE 2 * g[k - 1]]
  <2>2. \A k \in 0..n : h[k] = g[k]
    BY <2>1
  <2>3. \A k \in 0..(n + 1) : k # 0 => k - 1 \in 0..n
    OBVIOUS
  <2>4. h = [k \in 0..(n + 1) |-> IF k = 0 THEN 1 ELSE 2 * h[k - 1]]
    BY <2>2, <2>3
  <2>5. Solves(h, n + 1)
    BY <2>4
  <2> HIDE DEF h, Solves
  <2> QED BY <2>5
<1> HIDE DEF Good
<1>3. \A n \in Nat : n \in Good
  BY <1>1, <1>2, SetInduction
<1>4. \E g : Solves(g, Width)
  BY <1>3, TagsAssumption DEF Good
<1> QED BY <1>4 DEF Pow2

\* Blocks have a positive size, and one more bit of mask halves them.
LEMMA Pow2Grows ==
    /\ \A k \in 0..Width : Pow2[k] \in Nat \ {0}
    /\ \A j, k \in 0..Width : j < k => Pow2[j] < Pow2[k]
<1>0. Width \in Nat
  BY TagsAssumption
<1>1. \A k \in 0..Width : Pow2[k] = IF k = 0 THEN 1 ELSE 2 * Pow2[k - 1]
  <2> DEFINE P == Pow2
  <2> HIDE DEF P
  <2>1. P = [k \in 0..Width |-> IF k = 0 THEN 1 ELSE 2 * P[k - 1]]
    BY Pow2Def DEF P
  <2>2. \A k \in 0..Width : P[k] = IF k = 0 THEN 1 ELSE 2 * P[k - 1]
    BY <2>1
  <2> QED BY <2>2 DEF P
<1> DEFINE Good == {k \in Nat : k <= Width => /\ Pow2[k] \in Nat \ {0}
                                              /\ \A j \in 0..Width : j < k => Pow2[j] \in Nat /\ Pow2[j] < Pow2[k]}
<1>2. 0 \in Good
  BY <1>0, <1>1
<1>3. ASSUME NEW k \in Nat, k \in Good PROVE k + 1 \in Good
  <2> SUFFICES ASSUME k + 1 <= Width
               PROVE  /\ Pow2[k + 1] \in Nat \ {0}
                      /\ \A j \in 0..Width : j < k + 1 => Pow2[j] \in Nat /\ Pow2[j] < Pow2[k + 1]
    OBVIOUS
  <2>1. Pow2[k] \in Nat \ {0} /\ \A j \in 0..Width : j < k => Pow2[j] \in Nat /\ Pow2[j] < Pow2[k]
    BY <1>0, <1>3
  <2>2. Pow2[k + 1] = 2 * Pow2[k]
    BY <1>0, <1>1
  <2>3. Pow2[k + 1] \in Nat \ {0} /\ Pow2[k] < Pow2[k + 1]
    BY <2>1, <2>2
  <2>4. ASSUME NEW j \in 0..Width, j < k + 1 PROVE Pow2[j] \in Nat /\ Pow2[j] < Pow2[k + 1]
    <3>1. CASE j = k
      BY <2>1, <2>3, <3>1
    <3>2. CASE j < k
      <4>1. Pow2[j] \in Nat /\ Pow2[j] < Pow2[k]
        BY <2>1, <3>2
      <4> DEFINE x == Pow2[j]
                 y == Pow2[k]
                 z == Pow2[k + 1]
      <4>2. x \in Nat /\ y \in Nat /\ x < y /\ z \in Nat /\ y < z
        BY <2>1, <2>3, <4>1
      <4> HIDE DEF x, y, z
      <4>3. x \in Nat /\ x < z
        BY <4>2
      <4> QED BY <4>3 DEF x, z
    <3> QED BY <2>4, <3>1, <3>2
  <2> QED BY <2>3, <2>4
<1> HIDE DEF Good
<1>4. \A k \in Nat : k \in Good
  BY <1>2, <1>3, SetInduction
<1> QED BY <1>0, <1>4 DEF Good

\* Dividing by the size of a block is asking for the interval.
LEMMA SameBlock ==
    ASSUME NEW a \in Nat, NEW p \in Nat, NEW s \in Nat \ {0}
    PROVE  (p \div s = a \div s) <=> (p - (p % s) <= a /\ a < (p - (p % s)) + s)
<1> DEFINE q == p \div s
           r == a \div s
<1>1. q \in Nat /\ r \in Nat
  OBVIOUS
<1>2. p - (p % s) = s * q
  BY SMT
<1>3. s * r <= a /\ a < s * r + s
  BY SMT
<1> HIDE DEF q, r
<1>4. q < r => s * q + s <= s * r
  BY <1>1
<1>5. r < q => s * r + s <= s * q
  BY <1>1
<1>6. s * q \in Nat /\ s * r \in Nat
  BY <1>1
<1>7. q = r <=> (s * q <= a /\ a < s * q + s)
  BY <1>1, <1>3, <1>4, <1>5, <1>6
<1> QED BY <1>2, <1>7 DEF q, r

-----------------------------------------------------------------------------
(* The list.                                                               *)

\* What newIPTagSet gives a prefix is a configured service.
LEMMA ListNames ==
    ASSUME NEW doc
    PROVE  \A k \in DOMAIN newIPTagSet(parseGitHubMeta(doc)) :
              newIPTagSet(parseGitHubMeta(doc))[k] \in Names
<1> DEFINE ranges == parseGitHubMeta(doc)
<1>1. \A e \in ranges : e.s \in 1..Len(Services)
  BY DEF parseGitHubMeta
<1>2. Len(Services) \in Nat
  BY TagsAssumption
<1> HIDE DEF ranges
<1> SUFFICES ASSUME NEW k \in {Key(e.p) : e \in ranges}
             PROVE  newIPTagSet(ranges)[k] \in Names
  BY DEF newIPTagSet, ranges
<1> DEFINE S == {e.s : e \in {e \in ranges : Key(e.p) = k}}
<1>3. S \in SUBSET (0..Len(Services)) /\ S \subseteq 1..Len(Services) /\ S # {}
  BY <1>1, <1>2
<1>4. Max(S) \in 1..Len(Services)
  <2> HIDE DEF S
  <2> QED BY <1>2, <1>3, HasMax
<1>5. newIPTagSet(ranges)[k] = Services[Max(S)]
  BY DEF newIPTagSet
<1> HIDE DEF S
<1> QED BY <1>4, <1>5 DEF Names

\* So is what is looked up, if anything is.
LEMMA LookupNames ==
    ASSUME NEW ip, ListOK, gh # NoSet
    PROVE  Lookup(gh, ip) \in Names \cup {""}
<1> DEFINE a == Unmap(ip)
           KeyAt(b) == <<a.fam, b, a.n \div Pow2[Width - b]>>
           hits == {b \in 0..Width : KeyAt(b) \in DOMAIN gh}
<1>1. Lookup(gh, ip) = IF hits = {} THEN "" ELSE gh[KeyAt(Max(hits))]
  BY DEF Lookup
<1>2. hits # {} => Max(hits) \in hits
  <2>1. hits \in SUBSET (0..Width)
    OBVIOUS
  <2> HIDE DEF hits
  <2> QED BY <2>1, HasMax, TagsAssumption
<1>3. hits # {} => KeyAt(Max(hits)) \in DOMAIN gh
  BY <1>2
<1> HIDE DEF KeyAt, hits
<1> QED BY <1>1, <1>3 DEF ListOK, Names

\* What parseGitHubMeta keeps of a document are prefixes with their services.
LEMMA RangesTyped ==
    ASSUME NEW doc \in MetaDocs, Parses(doc)
    PROVE  \A e \in parseGitHubMeta(doc) :
              /\ e.s \in 1..Len(Services) /\ Services[e.s] # ""
              /\ e.p.n \in Nat /\ e.p.bits \in 0..Width
<1> SUFFICES ASSUME NEW e \in parseGitHubMeta(doc)
             PROVE  /\ e.s \in 1..Len(Services) /\ Services[e.s] # ""
                    /\ e.p.n \in Nat /\ e.p.bits \in 0..Width
  OBVIOUS
<1>0. PICK k \in 1..Len(Services) : \E p \in doc[Services[k]] \ {Bad} : e = [p |-> p, s |-> k]
  BY DEF parseGitHubMeta
<1>1. PICK p \in doc[Services[k]] \ {Bad} : e = [p |-> p, s |-> k]
  BY <1>0
<1>2. doc # Unavailable /\ Services[k] \in DOMAIN doc
  BY DEF Parses
<1>3. p.n \in Nat /\ p.bits \in 0..Width
  BY <1>1, <1>2, DocsAssumption
<1>4. Services[k] # ""
  BY ServicesAssumption
<1> QED BY <1>1, <1>3, <1>4

\* Only a document that can be used replaces the list.
LEMMA TagsKeep ==
    ASSUME ListOK, ListMade, [TagsNext]_tags
    PROVE  ListOK' /\ ListMade'
<1>1. CASE UNCHANGED <<gh, ghDoc>>
  BY <1>1 DEF ListOK, ListMade
<1>2. CASE \E list \in CFLists : CFRefresh(list)
  BY <1>1, <1>2 DEF CFRefresh
<1>3. ASSUME NEW doc \in MetaDocs, GHRefresh(doc) PROVE ListOK' /\ ListMade'
  <2>1. CASE Parses(doc)
    <3>1. gh' = newIPTagSet(parseGitHubMeta(doc)) /\ ghDoc' = doc
      BY <1>3, <2>1 DEF GHRefresh
    <3>2. ListOK'
      BY <3>1, ListNames DEF ListOK
    <3>3. ListMade'
      BY <2>1, <3>1 DEF ListMade
    <3> QED BY <3>2, <3>3
  <2>2. CASE ~Parses(doc)
    BY <1>1, <1>3, <2>2 DEF GHRefresh
  <2> QED BY <2>1, <2>2
<1> QED BY <1>1, <1>2, <1>3 DEF TagsNext, tags

-----------------------------------------------------------------------------
(* The lookup.                                                             *)

\* A range covers an address exactly if the address, masked, is its network.
LEMMA CoversIsKey ==
    ASSUME NEW p, p.n \in Nat, p.bits \in 0..Width, NEW ip, Unmap(ip).n \in Nat
    PROVE  Covers(p, ip) <=> /\ p.fam = Unmap(ip).fam
                             /\ Network(p) = Unmap(ip).n \div Pow2[Width - p.bits]
<1> DEFINE a == Unmap(ip).n
           s == Pow2[Width - p.bits]
<1>1. s \in Nat \ {0}
  <2>1. Width - p.bits \in 0..Width
    BY TagsAssumption
  <2> QED BY <2>1, Pow2Grows
<1>2. Network(p) = p.n \div s /\ Span(p) = s
  BY DEF Network, Span
<1>3. (p.n \div s = a \div s) <=> (p.n - (p.n % s) <= a /\ a < (p.n - (p.n % s)) + s)
  <2> HIDE DEF a, s
  <2> QED BY <1>1, SameBlock DEF a
<1> HIDE DEF s
<1> QED BY <1>2, <1>3 DEF Covers, s

\* The lookup finds the narrowest range that covers an address, and of those that are the
\* same range the one of the last service.
LEMMA LookupIsNarrowest ==
    ASSUME NEW doc \in MetaDocs, Parses(doc), NEW ip, Unmap(ip).n \in Nat
    PROVE  LET ranges == parseGitHubMeta(doc)
               owners == {e \in ranges : Covers(e.p, ip)}
           IN IF owners = {} THEN Lookup(newIPTagSet(ranges), ip) = ""
              ELSE \E e \in owners :
                      /\ Lookup(newIPTagSet(ranges), ip) = Services[e.s]
                      /\ \A f \in owners : \/ Span(e.p) < Span(f.p)
                                           \/ Span(e.p) = Span(f.p) /\ e.s >= f.s
<1> DEFINE ranges == parseGitHubMeta(doc)
           owners == {e \in ranges : Covers(e.p, ip)}
           set == newIPTagSet(ranges)
           a == Unmap(ip)
           KeyAt(b) == <<a.fam, b, a.n \div Pow2[Width - b]>>
           hits == {b \in 0..Width : KeyAt(b) \in DOMAIN set}
<1>0. Width \in Nat /\ Len(Services) \in Nat
  BY TagsAssumption
<1>1. \A e \in ranges : e.s \in 1..Len(Services) /\ e.p.n \in Nat /\ e.p.bits \in 0..Width
  BY RangesTyped
<1>2. DOMAIN set = {Key(e.p) : e \in ranges}
  BY DEF newIPTagSet
<1>3. \A e \in ranges : e \in owners <=> Key(e.p) = KeyAt(e.p.bits)
  <2> SUFFICES ASSUME NEW e \in ranges PROVE Covers(e.p, ip) <=> Key(e.p) = KeyAt(e.p.bits)
    OBVIOUS
  <2>1. Covers(e.p, ip) <=> e.p.fam = a.fam /\ Network(e.p) = a.n \div Pow2[Width - e.p.bits]
    BY <1>1, CoversIsKey
  <2> QED BY <2>1 DEF Key
<1>4. Lookup(set, ip) = IF hits = {} THEN "" ELSE set[KeyAt(Max(hits))]
  BY DEF Lookup
<1>5. \A e \in ranges : \A b : Key(e.p) = KeyAt(b) => e.p.bits = b
  BY DEF Key
<1> HIDE DEF ranges, set, a, KeyAt
<1>6. \A e \in owners : e.p.bits \in hits
  BY <1>1, <1>2, <1>3
<1>7. CASE owners = {}
  <2>1. hits = {}
    <3> SUFFICES ASSUME NEW b \in hits PROVE FALSE
      OBVIOUS
    <3>1. PICK e \in ranges : Key(e.p) = KeyAt(b)
      BY <1>2
    <3> QED BY <1>3, <1>5, <1>7, <3>1
  <2> QED BY <1>4, <1>7, <2>1 DEF ranges, set
<1>8. CASE owners # {}
  <2>1. hits # {} /\ hits \in SUBSET (0..Width)
    BY <1>6, <1>8
  <2> DEFINE top == Max(hits)
  <2> HIDE DEF hits
  <2>2. top \in hits /\ \A b \in hits : b <= top
    BY <1>0, <2>1, HasMax
  <2> HIDE DEF top
  <2>3. top \in 0..Width /\ KeyAt(top) \in DOMAIN set
    BY <2>2 DEF hits
  <2> DEFINE at == {e \in ranges : Key(e.p) = KeyAt(top)}
             S == {e.s : e \in at}
  <2>4. S # {} /\ S \in SUBSET (0..Len(Services))
    BY <1>0, <1>1, <1>2, <2>3
  <2>5. Max(S) \in S /\ \A k \in S : k <= Max(S)
    <3> HIDE DEF S
    <3> QED BY <1>0, <2>4, HasMax
  <2>6. set[KeyAt(top)] = Services[Max(S)]
    BY <1>2, <2>3 DEF newIPTagSet, set
  <2>7. PICK e \in at : e.s = Max(S)
    BY <2>5
  <2>8. e \in owners /\ e.p.bits = top
    BY <1>3, <1>5, <2>7
  <2>9. ASSUME NEW f \in owners
        PROVE  Span(e.p) < Span(f.p) \/ (Span(e.p) = Span(f.p) /\ e.s >= f.s)
    <3>1. f.p.bits \in 0..Width /\ f.p.bits <= top
      BY <1>1, <1>6, <2>2
    <3>2. CASE f.p.bits = top
      <4>1. f \in at
        BY <1>3, <3>2
      <4>2. e.s >= f.s
        <5>1. f.s <= Max(S) /\ f.s \in Nat /\ e.s \in Nat
          BY <1>0, <1>1, <2>5, <4>1, <2>7
        <5> QED BY <2>7, <5>1
      <4> QED BY <2>8, <3>2, <4>2 DEF Span
    <3>3. CASE f.p.bits # top
      <4>1. /\ Width - top \in 0..Width /\ Width - f.p.bits \in 0..Width
            /\ Width - top < Width - f.p.bits
        BY <1>0, <2>3, <3>1, <3>3
      <4>2. Pow2[Width - top] < Pow2[Width - f.p.bits]
        BY <4>1, Pow2Grows
      <4> QED BY <2>8, <4>2 DEF Span
    <3> QED BY <3>2, <3>3
  <2>10. Lookup(set, ip) = Services[e.s]
    BY <1>4, <2>1, <2>6, <2>7 DEF top
  <2> HIDE DEF owners
  <2> QED BY <1>8, <2>8, <2>9, <2>10 DEF owners, ranges, set
<1> QED BY <1>7, <1>8

\* The tag of an address is that of the narrowest range of the list that is loaded.
LEMMA TagsAreRight ==
    ASSUME NEW A, \A ip \in A : Unmap(ip).n \in Nat, ListMade
    PROVE  TagMostSpecific(A)
<1> SUFFICES ASSUME ghDoc # Unavailable, NEW ip \in A
             PROVE  LET owners == {e \in parseGitHubMeta(ghDoc) : Covers(e.p, ip)}
                    IN IF owners = {}
                       THEN TagFor(ip) = "direct"
                       ELSE \E e \in owners :
                               /\ TagFor(ip) = Services[e.s]
                               /\ \A f \in owners : \/ Span(e.p) < Span(f.p)
                                                    \/ Span(e.p) = Span(f.p) /\ e.s >= f.s
  BY DEF TagMostSpecific
<1> DEFINE owners == {e \in parseGitHubMeta(ghDoc) : Covers(e.p, ip)}
<1>1. /\ ghDoc \in MetaDocs /\ Parses(ghDoc) /\ gh = newIPTagSet(parseGitHubMeta(ghDoc))
      /\ Unmap(ip).n \in Nat
  BY DEF ListMade
<1>7. gh # NoSet
  BY <1>1, NoSetAssumption
<1>2. TagFor(ip) = IF Lookup(gh, ip) = "" THEN "direct" ELSE Lookup(gh, ip)
  BY <1>7 DEF TagFor
<1>3. IF owners = {} THEN Lookup(gh, ip) = ""
      ELSE \E e \in owners :
              /\ Lookup(gh, ip) = Services[e.s]
              /\ \A f \in owners : \/ Span(e.p) < Span(f.p)
                                   \/ Span(e.p) = Span(f.p) /\ e.s >= f.s
  BY <1>1, LookupIsNarrowest
<1>4. \A e \in owners : Services[e.s] # ""
  BY <1>1, RangesTyped
<1> HIDE DEF owners
<1>5. CASE owners = {}
  BY <1>2, <1>3, <1>5 DEF owners
<1>6. CASE owners # {}
  <2>1. PICK e \in owners :
              /\ Lookup(gh, ip) = Services[e.s]
              /\ \A f \in owners : \/ Span(e.p) < Span(f.p)
                                   \/ Span(e.p) = Span(f.p) /\ e.s >= f.s
    BY <1>3, <1>6
  <2>2. TagFor(ip) = Services[e.s]
    BY <1>2, <1>4, <2>1
  <2> QED BY <1>6, <2>1, <2>2 DEF owners
<1> QED BY <1>5, <1>6
=============================================================================
