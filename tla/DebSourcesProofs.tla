-------------------------- MODULE DebSourcesProofs --------------------------
(***************************************************************************)
(* Crash safety of the source trees, for any packages, requests, sizes and *)
(* any number of kills and failed removals.                                *)
(***************************************************************************)
EXTENDS DebSources, DataLemmas

DirStates == {"none", "whole", "half", "bare"}

\* Names that no reader and no unpack ever looks up.
DoomedNames == {n \in Names : n[2] > 0}

VolumeTyped ==
    /\ dir \in [Names -> DirStates]
    /\ stage \in [Keys -> {"none", "partial", "whole"}]
    /\ unp \in [Keys -> [pc: {"idle", "check", "work", "publish"}, cancelled: BOOLEAN]]

\* What is about to be renamed into place is complete.
StagedIsWhole == \A k \in Keys : unp[k].pc = "publish" => stage[k] = "whole"

\* Only names with the suffix are ever removed.
RemovesDoomed ==
    /\ orphans \subseteq DoomedNames
    /\ DOMAIN ev = {"pc", "todo", "cur", "total", "freed"}
    /\ ev.todo \subseteq Names
    /\ ev.pc \in {"rename", "remove"} => ev.cur \in Names
    /\ ev.pc = "remove" => ev.cur[2] < MaxDepth

IInv == VolumeTyped /\ StagedIsWhole /\ RemovesDoomed /\ FinalIsWhole

-----------------------------------------------------------------------------
\* The name a deletion renames to is one that only deletions use.
LEMMA DoomedName ==
    ASSUME NEW n \in Names, n[2] < MaxDepth
    PROVE  Doomed(n) \in DoomedNames
  BY SizeAssumption DEF Names, Doomed, DoomedNames

\* ... and never the name of a package.
LEMMA FinalName ==
    ASSUME NEW k \in Keys
    PROVE  Final(k) \in Names /\ Final(k) \notin DoomedNames
  BY SizeAssumption DEF Names, Final, DoomedNames

\* What is being removed has the suffix.
LEMMA RemovedNames ==
    ASSUME RemovesDoomed
    PROVE  BeingRemoved \subseteq DoomedNames
  BY DoomedName DEF BeingRemoved, RemovesDoomed

\* The invariant holds when both processes start.
LEMMA InitIInv == Init => IInv
<1> SUFFICES ASSUME Init PROVE IInv
    OBVIOUS
<1>1. VolumeTyped
  BY DEF Init, VolumeTyped, DirStates, NoUnpack
<1>2. StagedIsWhole
  BY DEF Init, StagedIsWhole, NoUnpack
<1>3. RemovesDoomed
  BY DEF Init, RemovesDoomed, NoPass, DoomedNames
<1>4. FinalIsWhole
  BY FinalName DEF Init, FinalIsWhole
<1> QED BY <1>1, <1>2, <1>3, <1>4 DEF IInv

-----------------------------------------------------------------------------
\* Steps of requests and of the flights leave volume, unpacks and deletions alone.
LEMMA QuietMove ==
    ASSUME IInv, UNCHANGED <<volume, unp, orphans, ev>>
    PROVE  IInv'
  BY DEF IInv, volume, VolumeTyped, StagedIsWhole, RemovesDoomed, FinalIsWhole

\* A step that touches only names with the suffix keeps the packages' trees.
LEMMA DoomedMove ==
    ASSUME IInv, dir' \in [Names -> DirStates],
           \A n \in Names \ DoomedNames : dir'[n] = dir[n],
           UNCHANGED <<stage, unp>>, RemovesDoomed'
    PROVE  IInv'
<1>1. VolumeTyped' /\ StagedIsWhole'
  BY DEF IInv, VolumeTyped, StagedIsWhole
<1>2. FinalIsWhole'
  BY FinalName DEF IInv, FinalIsWhole
<1> QED BY <1>1, <1>2 DEF IInv

\* An unpack that ends, or its caller leaving, disturbs nothing else.
LEMMA UnpackMove ==
    ASSUME IInv, NEW k \in Keys, UNCHANGED <<orphans, ev>>,
           NEW u \in [pc: {"idle", "check", "work", "publish"}, cancelled: BOOLEAN],
           unp' = [unp EXCEPT ![k] = u],
           NEW x \in {"none", "partial", "whole"},
           stage' = [stage EXCEPT ![k] = x],
           u.pc = "publish" => x = "whole",
           dir' \in [Names -> DirStates], FinalIsWhole'
    PROVE  IInv'
<1>1. VolumeTyped'
  BY DEF IInv, VolumeTyped
<1>2. StagedIsWhole'
  BY DEF IInv, VolumeTyped, StagedIsWhole
<1>3. RemovesDoomed'
  BY DEF IInv, RemovesDoomed
<1> QED BY <1>1, <1>2, <1>3 DEF IInv

\* The record of a package that nothing unpacks.
LEMMA NoUnpackTyped ==
    /\ NoUnpack \in [pc: {"idle", "check", "work", "publish"}, cancelled: BOOLEAN]
    /\ NoUnpack.pc = "idle"
  BY DEF NoUnpack

-----------------------------------------------------------------------------
(* deb-unpack.                                                             *)

\* A request joins or starts a flight.
LEMMA DoKeeps == ASSUME IInv, NEW r \in Requests, Do(r) PROVE IInv'
<1> DEFINE k == Wants[r]
<1>0. k \in Keys
  BY KeysAssumption
<1>1. CASE unp' = unp
  BY <1>1, QuietMove DEF Do
<1>2. CASE unp' # unp
  <2>1. unp' = [unp EXCEPT ![k] = [unp[k] EXCEPT !.pc = "check"]]
    BY <1>0, <1>2 DEF Do, IInv, VolumeTyped
  <2>2. [unp[k] EXCEPT !.pc = "check"] \in [pc: {"idle", "check", "work", "publish"}, cancelled: BOOLEAN]
    BY <1>0 DEF IInv, VolumeTyped
  <2>3. stage' = [stage EXCEPT ![k] = stage[k]] /\ stage[k] \in {"none", "partial", "whole"}
    BY <1>0 DEF Do, volume, IInv, VolumeTyped
  <2>4. dir' \in [Names -> DirStates] /\ FinalIsWhole' /\ UNCHANGED <<orphans, ev>>
    BY DEF Do, volume, IInv, VolumeTyped, FinalIsWhole
  <2>5. [unp[k] EXCEPT !.pc = "check"].pc # "publish"
    BY <1>0 DEF IInv, VolumeTyped
  <2> QED BY <1>0, <2>1, <2>2, <2>3, <2>4, <2>5, UnpackMove
<1> QED BY <1>1, <1>2

\* The leader's context ends.
LEMMA LeaderLeavesKeeps == ASSUME IInv, NEW k \in Keys, LeaderLeaves(k) PROVE IInv'
<1>1. unp' = [unp EXCEPT ![k] = [unp[k] EXCEPT !.cancelled = TRUE]]
  BY DEF LeaderLeaves, IInv, VolumeTyped
<1>2. /\ [unp[k] EXCEPT !.cancelled = TRUE] \in [pc: {"idle", "check", "work", "publish"}, cancelled: BOOLEAN]
      /\ [unp[k] EXCEPT !.cancelled = TRUE].pc = unp[k].pc
  BY DEF IInv, VolumeTyped
<1>3. stage' = [stage EXCEPT ![k] = stage[k]] /\ stage[k] \in {"none", "partial", "whole"}
  BY DEF LeaderLeaves, volume, IInv, VolumeTyped
<1>4. dir' \in [Names -> DirStates] /\ FinalIsWhole' /\ UNCHANGED <<orphans, ev>>
  BY DEF LeaderLeaves, volume, IInv, VolumeTyped, FinalIsWhole
<1>5. unp[k].pc = "publish" => stage[k] = "whole"
  BY DEF IInv, StagedIsWhole
<1> QED BY <1>1, <1>2, <1>3, <1>4, <1>5, UnpackMove

\* unpack finds the marker.
LEMMA UnpackCachedKeeps == ASSUME IInv, NEW k \in Keys, UnpackCached(k) PROVE IInv'
<1>1. unp' = [unp EXCEPT ![k] = NoUnpack]
  BY DEF UnpackCached, Reply
<1>2. stage' = [stage EXCEPT ![k] = stage[k]] /\ stage[k] \in {"none", "partial", "whole"}
  BY DEF UnpackCached, volume, IInv, VolumeTyped
<1>3. dir' \in [Names -> DirStates] /\ FinalIsWhole' /\ UNCHANGED <<orphans, ev>>
  BY DEF UnpackCached, volume, IInv, VolumeTyped, FinalIsWhole
<1> QED BY <1>1, <1>2, <1>3, UnpackMove, NoUnpackTyped

\* unpack makes its staging directory.
LEMMA UnpackStartKeeps == ASSUME IInv, NEW k \in Keys, UnpackStart(k) PROVE IInv'
<1>1. unp' = [unp EXCEPT ![k] = [unp[k] EXCEPT !.pc = "work"]]
  BY DEF UnpackStart, IInv, VolumeTyped
<1>2. /\ [unp[k] EXCEPT !.pc = "work"] \in [pc: {"idle", "check", "work", "publish"}, cancelled: BOOLEAN]
      /\ [unp[k] EXCEPT !.pc = "work"].pc = "work"
  BY DEF IInv, VolumeTyped
<1>3. dir' \in [Names -> DirStates] /\ FinalIsWhole' /\ UNCHANGED <<orphans, ev>>
  BY DEF UnpackStart, IInv, VolumeTyped, FinalIsWhole
<1>4. stage' = [stage EXCEPT ![k] = "partial"]
  BY DEF UnpackStart
<1> QED BY <1>1, <1>2, <1>3, <1>4, UnpackMove

\* dpkg-source and the marker: the staged tree is whole from here on.
LEMMA UnpackTreeKeeps == ASSUME IInv, NEW k \in Keys, UnpackTree(k) PROVE IInv'
<1>1. unp' = [unp EXCEPT ![k] = [unp[k] EXCEPT !.pc = "publish"]]
  BY DEF UnpackTree, IInv, VolumeTyped
<1>2. [unp[k] EXCEPT !.pc = "publish"] \in [pc: {"idle", "check", "work", "publish"}, cancelled: BOOLEAN]
  BY DEF IInv, VolumeTyped
<1>3. dir' \in [Names -> DirStates] /\ FinalIsWhole' /\ UNCHANGED <<orphans, ev>>
  BY DEF UnpackTree, IInv, VolumeTyped, FinalIsWhole
<1>4. stage' = [stage EXCEPT ![k] = "whole"]
  BY DEF UnpackTree
<1> QED BY <1>1, <1>2, <1>3, <1>4, UnpackMove

\* An error before the rename.
LEMMA UnpackFailsKeeps == ASSUME IInv, NEW k \in Keys, UnpackFails(k) PROVE IInv'
<1>1. unp' = [unp EXCEPT ![k] = NoUnpack]
  BY DEF UnpackFails, Reply
<1>2. stage' = [stage EXCEPT ![k] = "none"]
  BY DEF UnpackFails, CleanStage
<1>3. dir' \in [Names -> DirStates] /\ FinalIsWhole' /\ UNCHANGED <<orphans, ev>>
  BY DEF UnpackFails, IInv, VolumeTyped, FinalIsWhole
<1> QED BY <1>1, <1>2, <1>3, UnpackMove, NoUnpackTyped

\* The one step that gives a directory a package's name.
LEMMA PublishKeeps == ASSUME IInv, NEW k \in Keys, Publish(k) PROVE IInv'
<1>1. unp' = [unp EXCEPT ![k] = NoUnpack]
  BY DEF Publish, Reply
<1>2. stage' = [stage EXCEPT ![k] = "none"]
  BY DEF Publish, CleanStage
<1>3. stage[k] = "whole"
  BY DEF Publish, IInv, StagedIsWhole
<1>4. dir' \in [Names -> DirStates]
  BY <1>3, FinalName DEF Publish, IInv, VolumeTyped, DirStates
<1>5. FinalIsWhole'
  BY <1>3, FinalName DEF Publish, IInv, VolumeTyped, FinalIsWhole
<1>6. UNCHANGED <<orphans, ev>>
  BY DEF Publish
<1> QED BY <1>1, <1>2, <1>4, <1>5, <1>6, UnpackMove, NoUnpackTyped

-----------------------------------------------------------------------------
(* Eviction and deletion.                                                  *)

\* A pass starts with what /trees reports.
LEMMA ListTreesKeeps == ASSUME IInv, ListTrees PROVE IInv'
<1>1. RemovesDoomed'
  BY DEF ListTrees, IInv, RemovesDoomed, NoPass, Trees
<1> QED BY <1>1, DoomedMove DEF ListTrees, volume, IInv, VolumeTyped

\* A pass ends.
LEMMA PassEndsKeeps == ASSUME IInv, PassEnds PROVE IInv'
<1>1. RemovesDoomed'
  BY DEF PassEnds, IInv, RemovesDoomed, NoPass
<1> QED BY <1>1, DoomedMove DEF PassEnds, volume, IInv, VolumeTyped

\* The next tree of the pass.
LEMMA DropIndexKeeps == ASSUME IInv, NEW n \in Names, DropIndex(n) PROVE IInv'
<1>1. RemovesDoomed'
  BY DEF DropIndex, IInv, RemovesDoomed
<1> QED BY <1>1, DoomedMove DEF DropIndex, volume, IInv, VolumeTyped

\* deleteTree returns.
LEMMA DeletedKeeps ==
    ASSUME IInv, NEW ok, ev' = Deleted(ok), orphans' \subseteq DoomedNames
    PROVE  RemovesDoomed'
  BY DEF IInv, RemovesDoomed, Deleted

\* handleDelete up to the rename: a package's name disappears with its tree.
LEMMA RenameDoomedKeeps == ASSUME IInv, RenameDoomed PROVE IInv'
<1> DEFINE n == ev.cur
<1>0. n \in Names
  BY DEF RenameDoomed, IInv, RemovesDoomed
<1>1. CASE UNCHANGED dir /\ \E ok \in BOOLEAN : ev' = Deleted(ok)
  <2>1. RemovesDoomed'
    BY <1>1, DeletedKeeps DEF RenameDoomed, IInv, RemovesDoomed
  <2> QED BY <1>1, <2>1, DoomedMove DEF RenameDoomed, IInv, VolumeTyped
<1>2. CASE /\ n[2] < MaxDepth
           /\ dir' = [dir EXCEPT ![Doomed(n)] = dir[n], ![n] = "none"]
           /\ ev' = [ev EXCEPT !.pc = "remove"]
  <2>1. RemovesDoomed'
    BY <1>0, <1>2 DEF RenameDoomed, IInv, RemovesDoomed
  <2>2. dir' \in [Names -> DirStates]
    BY <1>0, <1>2, DoomedName DEF IInv, VolumeTyped, DirStates, DoomedNames
  <2>3. FinalIsWhole'
    BY <1>0, <1>2, DoomedName, FinalName DEF IInv, VolumeTyped, FinalIsWhole
  <2>4. UNCHANGED <<stage, unp>>
    BY DEF RenameDoomed
  <2> QED BY <2>1, <2>2, <2>3, <2>4 DEF IInv, VolumeTyped, StagedIsWhole
<1> QED BY <1>1, <1>2 DEF RenameDoomed

\* RemoveAll of a name with the suffix leaves every other name alone, also if it fails.
LEMMA RemoveAllDoomed ==
    ASSUME IInv, NEW n \in DoomedNames, RemoveAll(n)
    PROVE  /\ dir' \in [Names -> DirStates]
           /\ \A m \in Names \ DoomedNames : dir'[m] = dir[m]
  BY DEF RemoveAll, IInv, VolumeTyped, DirStates, DoomedNames

\* handleDelete removes.
LEMMA RemoveDoomedKeeps == ASSUME IInv, RemoveDoomed PROVE IInv'
<1>1. RemovesDoomed'
  BY DeletedKeeps DEF RemoveDoomed, IInv, RemovesDoomed
<1>2. Doomed(ev.cur) \in DoomedNames
  BY DoomedName DEF RemoveDoomed, IInv, RemovesDoomed
<1> QED BY <1>1, <1>2, RemoveAllDoomed, DoomedMove DEF RemoveDoomed

\* handleDelete removes, its caller is gone.
LEMMA RemoveOrphanKeeps == ASSUME IInv, NEW n \in Names, RemoveOrphan(n) PROVE IInv'
<1>1. RemovesDoomed'
  BY DEF RemoveOrphan, IInv, RemovesDoomed
<1>2. n \in DoomedNames
  BY DEF RemoveOrphan, IInv, RemovesDoomed
<1> QED BY <1>1, <1>2, RemoveAllDoomed, DoomedMove DEF RemoveOrphan

-----------------------------------------------------------------------------
(* Sweeps and kills.                                                       *)

\* sweepStale on .tmp-*.
LEMMA SweepStageKeeps == ASSUME IInv, NEW a \in abandoned, SweepStage(a) PROVE IInv'
<1>1. VolumeTyped' /\ StagedIsWhole'
  BY DEF SweepStage, IInv, VolumeTyped, StagedIsWhole
<1> QED BY <1>1 DEF SweepStage, IInv, RemovesDoomed, FinalIsWhole

\* sweepStale on *.deleting.
LEMMA SweepDoomedKeeps == ASSUME IInv, NEW n \in Names, SweepDoomed(n) PROVE IInv'
<1>1. RemovesDoomed'
  BY DEF SweepDoomed, IInv, RemovesDoomed
<1>2. dir' \in [Names -> DirStates]
  BY DEF SweepDoomed, IInv, VolumeTyped, DirStates
<1>3. \A m \in Names \ DoomedNames : dir'[m] = dir[m]
  BY DEF SweepDoomed, IInv, VolumeTyped, DoomedNames
<1> QED BY <1>1, <1>2, <1>3, DoomedMove DEF SweepDoomed

\* A kill of deb-unpack cuts removals short, all of names with the suffix.
LEMMA KillUnpackerKeeps == ASSUME IInv, KillUnpacker PROVE IInv'
<1>1. RemovesDoomed'
  <2>1. CASE ev' = ev
    BY <2>1 DEF KillUnpacker, IInv, RemovesDoomed
  <2>2. CASE ev' = Deleted(FALSE)
    BY <2>2, DeletedKeeps DEF KillUnpacker
  <2> QED BY <2>1, <2>2 DEF KillUnpacker
<1>2. dir' \in [Names -> DirStates]
  BY DEF KillUnpacker, IInv, VolumeTyped, DirStates
<1>3. FinalIsWhole'
  BY RemovedNames, FinalName DEF KillUnpacker, IInv, FinalIsWhole
<1>4. VolumeTyped' /\ StagedIsWhole'
  BY <1>2, NoUnpackTyped DEF KillUnpacker, IInv, VolumeTyped, StagedIsWhole
<1> QED BY <1>1, <1>3, <1>4 DEF IInv

\* A kill of deb-debuginfod.
LEMMA KillServerKeeps == ASSUME IInv, KillServer PROVE IInv'
<1>1. RemovesDoomed'
  BY RemovedNames DEF KillServer, IInv, RemovesDoomed, NoPass
<1>2. VolumeTyped' /\ StagedIsWhole'
  BY DEF KillServer, volume, IInv, VolumeTyped, StagedIsWhole
<1> QED BY <1>1, <1>2 DEF KillServer, volume, IInv, FinalIsWhole

-----------------------------------------------------------------------------
\* Every step keeps the invariant.
LEMMA NextIInv == IInv /\ [Next]_vars => IInv'
<1> SUFFICES ASSUME IInv, [Next]_vars PROVE IInv'
    OBVIOUS
<1>1. CASE UNCHANGED vars
  BY <1>1, QuietMove DEF vars
<1>2. ASSUME NEW r \in Requests,
             \/ Resolve(r) \/ ResolveFails(r)
             \/ HaveIndex(r) \/ FindHit(r) \/ FindMiss(r) \/ Open(r)
      PROVE  IInv'
  BY <1>2, QuietMove DEF Resolve, ResolveFails, HaveIndex, FindHit, FindMiss, Open
<1>3. ASSUME NEW k \in Keys, FlightStep(k) PROVE IInv'
  BY <1>3, QuietMove DEF FlightStep, Walk, Store
<1>4. ASSUME NEW k \in Keys, UnpackStep(k) PROVE IInv'
  BY <1>4, UnpackCachedKeeps, UnpackStartKeeps, UnpackTreeKeeps, UnpackFailsKeeps, PublishKeeps
     DEF UnpackStep
<1>5. CASE EvictStep
  BY <1>5, ListTreesKeeps, PassEndsKeeps, DropIndexKeeps, RenameDoomedKeeps, RemoveDoomedKeeps
     DEF EvictStep
<1> QED BY <1>1, <1>2, <1>3, <1>4, <1>5, DoKeeps, LeaderLeavesKeeps, SweepStageKeeps,
           RemoveOrphanKeeps, SweepDoomedKeeps, KillUnpackerKeeps, KillServerKeeps
        DEF Next, RequestStep

\* Whatever the interleaving of requests, unpacks, evictions and sweeps, and wherever
\* either process is killed, a package's name leads to a complete tree or to nothing.
THEOREM CrashSafe == Spec => []FinalIsWhole
<1>1. IInv => FinalIsWhole
  BY DEF IInv
<1> QED BY <1>1, InitIInv, NextIInv, PTL DEF Spec

-----------------------------------------------------------------------------
(* The bytes of a set of trees.                                            *)

Weight == [n \in Names |-> Bytes(n)]

\* There are finitely many directories, each with its bytes.
LEMMA NamesFinite ==
    IsFiniteSet(Names) /\ \A n \in Names : Bytes(n) \in Nat /\ Weight[n] = Bytes(n)
<1>1. IsFiniteSet(0..MaxDepth)
  BY SizeAssumption, FS_Interval
<1>2. IsFiniteSet(Keys)
  BY KeysAssumption
<1>3. IsFiniteSet(Keys \X (0..MaxDepth))
  BY <1>1, <1>2, FS_Product
<1>4. \A n \in Names : Bytes(n) \in Nat
  BY SizeAssumption DEF Names, Bytes
<1> QED BY <1>3, <1>4 DEF Names, Weight

\* SumBytes is the sum over a set, taken in any order.
LEMMA SumBytesIsSum == \A S \in SUBSET Names : SumBytes(S) = Sum(S, Weight)
<1> SUFFICES ASSUME NEW S \in SUBSET Names PROVE SumBytes(S) = Sum(S, Weight)
    OBVIOUS
<1> DEFINE Step(g) == [s \in SUBSET S |-> IF s = {} THEN 0 ELSE LET x == CHOOSE x \in s : TRUE IN g[s \ {x}] + Bytes(x)]
           iter == CHOOSE g : g = Step(g)
<1>1. SumBytes(S) = iter[S]
  BY DEF SumBytes, FoldSet, MapThenFoldSet
<1>2. ASSUME NEW g PROVE Step(g) = SumStep(S, Weight, g)
  <2>1. ASSUME NEW s \in SUBSET S, s # {}
        PROVE  Bytes(CHOOSE x \in s : TRUE) = Weight[CHOOSE x \in s : TRUE]
    BY <2>1, NamesFinite
  <2> QED BY <2>1 DEF SumStep
<1>3. IsFiniteSet(S) /\ \A n \in S : Weight[n] \in Nat
  BY NamesFinite, FS_Subset
<1>4. PICK g : g = SumStep(S, Weight, g)
  BY <1>3, SumRecursion
<1>5. g = Step(g)
  BY <1>2, <1>4
<1> HIDE DEF Step
<1>6. iter = Step(iter)
  BY <1>5
<1> HIDE DEF iter
<1>7. iter = SumStep(S, Weight, iter)
  BY <1>2, <1>6
<1>8. iter[S] = Sum(S, Weight)
  BY <1>3, <1>7, SumRecursion
<1> QED BY <1>1, <1>8
-----------------------------------------------------------------------------
(* What deb-debuginfod keeps.                                              *)

IndexStates == {"none", "full", "part"}

FlightType == [pc: {"idle", "post", "walk", "store"}, ix: IndexStates]

RequestType ==
    [pc: {"idle", "index", "join", "wait", "find", "open", "end"}, ix: IndexStates, res: Results]

ServerTyped ==
    /\ indexes \in [Keys -> IndexStates]
    /\ flight \in [Keys -> FlightType]
    /\ rq \in [Requests -> RequestType]

\* An answered request.
LEMMA AnswerTyped ==
    ASSUME rq \in [Requests -> RequestType], NEW r \in Requests, NEW res \in Results
    PROVE  Answer(r, res) \in [Requests -> RequestType] /\ Answer(r, res)[r] \in RequestType
  BY DEF Answer, RequestType, IndexStates

\* A call that fails answers those who wait for it.
LEMMA FlightFailsTyped ==
    ASSUME ServerTyped, NEW k \in Keys, FlightFails(k), UNCHANGED indexes
    PROVE  ServerTyped'
<1>1. flight' \in [Keys -> FlightType]
  BY DEF FlightFails, NoFlight, ServerTyped, FlightType, IndexStates
<1>2. \A r \in Requests : Answer(r, "unavailable")[r] \in RequestType
  BY AnswerTyped DEF ServerTyped, Results
<1>3. rq' \in [Requests -> RequestType]
  BY <1>2 DEF FlightFails, ServerTyped
<1> QED BY <1>1, <1>3 DEF ServerTyped

\* The answer of the unpacker.
LEMMA ReplyTyped ==
    ASSUME ServerTyped, NEW k \in Keys, NEW ok, Reply(k, ok), UNCHANGED indexes
    PROVE  ServerTyped'
<1>1. CASE FlightFails(k)
  BY <1>1, FlightFailsTyped
<1>2. CASE UNCHANGED rq /\ (UNCHANGED flight \/ flight' = [flight EXCEPT ![k].pc = "walk"])
  BY <1>2 DEF ServerTyped, FlightType
<1> QED BY <1>1, <1>2 DEF Reply

\* The steps of a request.
LEMMA RequestTyped ==
    ASSUME IInv, ServerTyped, NEW r \in Requests, Resolve(r) \/ ResolveFails(r) \/ RequestStep(r)
    PROVE  ServerTyped'
<1>0. Wants[r] \in Keys /\ {"unknown", "miss", "ok", "unavailable"} \subseteq Results
  BY KeysAssumption DEF Results
<1>1. CASE Resolve(r)
  BY <1>1 DEF Resolve, ServerTyped, RequestType
<1>2. CASE ResolveFails(r)
  BY <1>0, <1>2, AnswerTyped DEF ResolveFails, ServerTyped
<1>3. CASE HaveIndex(r)
  <2>1. indexes[Wants[r]] \in IndexStates
    BY <1>0 DEF ServerTyped
  <2>2. rq' \in [Requests -> RequestType]
    BY <1>3, <2>1 DEF HaveIndex, ServerTyped, RequestType
  <2> QED BY <1>3, <2>2 DEF HaveIndex, ServerTyped
<1>4. CASE Do(r)
  <2>1. rq' \in [Requests -> RequestType]
    BY <1>4 DEF Do, ServerTyped, RequestType
  <2>2. flight' \in [Keys -> FlightType]
    BY <1>0, <1>4 DEF Do, ServerTyped, FlightType, IndexStates
  <2> QED BY <1>4, <2>1, <2>2 DEF Do, ServerTyped
<1>5. CASE FindHit(r)
  <2>1. rq' = [rq EXCEPT ![r].pc = "open", ![r].ix = "none"] /\ UNCHANGED <<indexes, flight>>
    BY <1>5 DEF FindHit
  <2>2. [rq[r] EXCEPT !.pc = "open", !.ix = "none"] \in RequestType
    BY DEF ServerTyped, RequestType, IndexStates
  <2>3. rq' = [rq EXCEPT ![r] = [rq[r] EXCEPT !.pc = "open", !.ix = "none"]]
    BY <2>1 DEF ServerTyped, RequestType
  <2> QED BY <2>1, <2>2, <2>3 DEF ServerTyped
<1>6. CASE FindMiss(r)
  BY <1>0, <1>6, AnswerTyped DEF FindMiss, ServerTyped
<1>7. CASE Open(r)
  <2>1. PICK res \in Results : rq' = Answer(r, res)
    BY <1>0, <1>7 DEF Open
  <2> QED BY <1>7, <2>1, AnswerTyped DEF Open, ServerTyped
<1> QED BY <1>1, <1>2, <1>3, <1>4, <1>5, <1>6, <1>7 DEF RequestStep

\* The walk of a tree, and its index published.
LEMMA FlightTyped ==
    ASSUME ServerTyped, NEW k \in Keys, FlightStep(k)
    PROVE  ServerTyped'
<1>1. CASE Walk(k)
  <2>1. flight' \in [Keys -> FlightType]
    BY <1>1 DEF Walk, ServerTyped, FlightType, IndexStates
  <2> QED BY <1>1, <2>1 DEF Walk, ServerTyped
<1>2. CASE Store(k)
  <2>0. flight[k].ix \in IndexStates
    BY DEF ServerTyped, FlightType
  <2>1. indexes' = [indexes EXCEPT ![k] = flight[k].ix]
    BY <1>2, Zenon DEF Store
  <2>2. indexes' \in [Keys -> IndexStates]
    BY <2>0, <2>1 DEF ServerTyped
  <2>3. flight' = [flight EXCEPT ![k] = NoFlight]
    BY <1>2, Zenon DEF Store
  <2>4. flight' \in [Keys -> FlightType]
    BY <2>3 DEF ServerTyped, NoFlight, FlightType, IndexStates
  <2> DEFINE told == [r \in Requests |-> [rq[r] EXCEPT !.pc = "find", !.ix = flight[k].ix]]
  <2>5. rq' = [r \in Requests |-> IF r \in Waiting(k) THEN told[r] ELSE rq[r]]
    BY <1>2, Zenon DEF Store
  <2>6. ASSUME NEW r \in Requests PROVE told[r] \in RequestType
    BY <2>0 DEF ServerTyped, RequestType
  <2> HIDE DEF told
  <2>7. rq' \in [Requests -> RequestType]
    BY <2>5, <2>6 DEF ServerTyped
  <2> QED BY <2>2, <2>4, <2>7 DEF ServerTyped
<1> QED BY <1>1, <1>2 DEF FlightStep

\* A kill of deb-unpack fails what was posted to it.
LEMMA KillUnpackerTyped == ASSUME ServerTyped, KillUnpacker PROVE ServerTyped'
<1>1. NoFlight \in FlightType
  BY DEF NoFlight, FlightType, IndexStates
<1>2. flight' \in [Keys -> FlightType]
  BY <1>1 DEF KillUnpacker, ServerTyped
<1>3. \A r \in Requests : Answer(r, "unavailable")[r] \in RequestType
  BY AnswerTyped DEF ServerTyped, Results
<1>4. rq' \in [Requests -> RequestType]
  BY <1>3 DEF KillUnpacker, ServerTyped
<1>5. UNCHANGED indexes
  BY DEF KillUnpacker
<1> QED BY <1>2, <1>4, <1>5 DEF ServerTyped

\* A kill of deb-debuginfod starts it afresh.
LEMMA KillServerTyped == ASSUME ServerTyped, KillServer PROVE ServerTyped'
<1>1. NoFlight \in FlightType
  BY DEF NoFlight, FlightType, IndexStates
<1>2. \A r \in Requests : Answer(r, "killed")[r] \in RequestType
  BY AnswerTyped DEF ServerTyped, Results
<1>3. rq' \in [Requests -> RequestType]
  BY <1>2 DEF KillServer, ServerTyped
<1>4. flight' \in [Keys -> FlightType]
  BY <1>1 DEF KillServer
<1>5. indexes' \in [Keys -> IndexStates]
  BY DEF KillServer, IndexStates
<1> QED BY <1>3, <1>4, <1>5 DEF ServerTyped
-----------------------------------------------------------------------------
(* evictOnce, and what it knows of the bytes on the volume.                *)

PassType ==
    [pc: {"idle", "next", "rename", "remove"}, todo: SUBSET Names,
     cur: Names \cup {NoName}, total: Nat, freed: Nat]

\* The bytes of the tree whose deletion is under way.
Pending == IF ev.pc \in {"rename", "remove"} THEN Bytes(ev.cur) ELSE 0

\* What counts as freed, is on its way or was not tried was all there when the pass began.
Accounted == ev.pc # "idle" => ev.freed + Pending + SumBytes(ev.todo) <= ev.total

PassInv == ev \in PassType /\ Accounted

\* A set of trees has a size, and each tree of it has its share.
LEMMA SumBytesFacts ==
    ASSUME NEW S \in SUBSET Names
    PROVE  /\ SumBytes(S) \in Nat
           /\ \A n \in S : SumBytes(S) = SumBytes(S \ {n}) + Bytes(n)
<1>1. IsFiniteSet(S) /\ \A n \in S : Weight[n] \in Nat
  BY NamesFinite, FS_Subset
<1>2. SumBytes(S) \in Nat
  BY <1>1, SumType, SumBytesIsSum
<1>3. ASSUME NEW n \in S PROVE SumBytes(S) = SumBytes(S \ {n}) + Bytes(n)
  <2>1. Sum(S, Weight) = Sum(S \ {n}, Weight) + Weight[n]
    BY <1>1, SumRemove
  <2>2. Weight[n] = Bytes(n)
    BY NamesFinite
  <2>3. S \ {n} \in SUBSET Names
    OBVIOUS
  <2> QED BY <2>1, <2>2, <2>3, SumBytesIsSum
<1> QED BY <1>2, <1>3

\* No pass.
LEMMA NoPassInv == ev' = NoPass => PassInv'
<1> SUFFICES ASSUME ev' = NoPass PROVE PassInv'
    OBVIOUS
<1>1. ev' \in PassType
  BY DEF NoPass, PassType
<1>2. ev'.pc = "idle"
  BY DEF NoPass
<1> QED BY <1>1, <1>2 DEF PassInv, Accounted

\* A pass begins with every tree that is reported.
LEMMA ListTreesPass == ASSUME ListTrees PROVE PassInv'
<1>1. Trees \in SUBSET Names
  BY DEF Trees
<1> DEFINE all == SumBytes(Trees)
<1>2. all \in Nat
  BY <1>1, SumBytesFacts
<1>3. ev' = [NoPass EXCEPT !.pc = "next", !.todo = Trees, !.total = all]
  BY DEF ListTrees
<1>4. SumBytes(Trees) = all
  OBVIOUS
<1> HIDE DEF all
<1>5. /\ ev' = [pc |-> "next", todo |-> Trees, cur |-> NoName, total |-> all, freed |-> 0]
  BY <1>3 DEF NoPass
<1>6. ev' \in PassType
  BY <1>1, <1>2, <1>5 DEF PassType
<1>7. SumBytes(ev'.todo) = all /\ ev'.total = all /\ ev'.freed = 0 /\ ev'.pc = "next"
  BY <1>4, <1>5
<1>8. Pending' = 0
  BY <1>7 DEF Pending
<1>9. Accounted'
  BY <1>2, <1>7, <1>8 DEF Accounted
<1> QED BY <1>6, <1>9 DEF PassInv

\* The next tree moves from what is left to what is being deleted.
LEMMA DropIndexPass == ASSUME PassInv, NEW n \in Names, DropIndex(n) PROVE PassInv'
<1>1. /\ ev.pc = "next" /\ n \in ev.todo /\ ev.todo \in SUBSET Names
      /\ ev' = [ev EXCEPT !.pc = "rename", !.cur = n, !.todo = ev.todo \ {n}]
  BY DEF DropIndex, PassInv, PassType
<1>2. ev' \in PassType
  BY <1>1 DEF PassInv, PassType
<1>3. /\ ev'.pc = "rename" /\ ev'.cur = n /\ ev'.todo = ev.todo \ {n}
      /\ ev'.total = ev.total /\ ev'.freed = ev.freed /\ ev.total \in Nat /\ ev.freed \in Nat
  BY <1>1 DEF PassInv, PassType
<1>4. SumBytes(ev.todo) = SumBytes(ev.todo \ {n}) + Bytes(n)
  BY <1>1, SumBytesFacts
<1>5. SumBytes(ev.todo \ {n}) \in Nat /\ Bytes(n) \in Nat
  BY <1>1, SumBytesFacts, NamesFinite
<1>6. Pending' = Bytes(n) /\ Pending = 0
  BY <1>1, <1>3 DEF Pending, Bytes
<1>7. SumBytes(ev'.todo) = SumBytes(ev.todo \ {n})
  BY <1>3
<1>8. ev.freed + Pending + SumBytes(ev.todo) <= ev.total
  BY <1>1 DEF PassInv, Accounted
<1>9. ev'.freed + Pending' + SumBytes(ev'.todo) <= ev'.total
  BY <1>3, <1>4, <1>5, <1>6, <1>7, <1>8
<1> QED BY <1>2, <1>9 DEF PassInv, Accounted

\* A deletion ends, counted or not.
LEMMA DeletedPass ==
    ASSUME PassInv, ev.pc \in {"rename", "remove"}, ev.cur \in Names, NEW ok \in BOOLEAN,
           ev' = Deleted(ok)
    PROVE  PassInv'
<1> DEFINE b == Bytes(ev.cur)
<1>1. b \in Nat
  BY NamesFinite
<1>2. ev' = [ev EXCEPT !.pc = "next", !.cur = NoName, !.freed = IF ok THEN ev.freed + b ELSE ev.freed]
  BY DEF Deleted
<1>3. Pending = b
  BY DEF Pending
<1> HIDE DEF b
<1> DEFINE freed == IF ok THEN ev.freed + b ELSE ev.freed
<1>4. freed \in Nat
  BY <1>1 DEF PassInv, PassType
<1>5. ev' = [ev EXCEPT !.pc = "next", !.cur = NoName, !.freed = freed]
  BY <1>2
<1>6. freed = IF ok THEN ev.freed + b ELSE ev.freed
  OBVIOUS
<1> HIDE DEF freed
<1>7. ev' \in PassType
  BY <1>4, <1>5 DEF PassInv, PassType
<1>8. /\ ev'.pc = "next" /\ ev'.todo = ev.todo /\ ev'.total = ev.total
      /\ ev'.freed = freed
      /\ ev.total \in Nat /\ ev.freed \in Nat /\ ev.todo \in SUBSET Names
  BY <1>5 DEF PassInv, PassType
<1>9. Pending' = 0
  BY <1>8 DEF Pending
<1>10. SumBytes(ev'.todo) = SumBytes(ev.todo) /\ SumBytes(ev.todo) \in Nat
  BY <1>8, SumBytesFacts
<1>11. ev.freed + b + SumBytes(ev.todo) <= ev.total
  BY <1>3 DEF PassInv, Accounted
<1>12. ev'.freed + Pending' + SumBytes(ev'.todo) <= ev'.total
  BY <1>1, <1>8, <1>9, <1>10, <1>11, <1>6
<1> QED BY <1>7, <1>12 DEF PassInv, Accounted

\* The rename of a tree that is there.
LEMMA RenamedPass ==
    ASSUME PassInv, ev.pc = "rename", ev' = [ev EXCEPT !.pc = "remove"]
    PROVE  PassInv'
<1>1. ev' \in PassType
  BY DEF PassInv, PassType
<1>2. /\ ev'.pc = "remove" /\ ev'.cur = ev.cur /\ ev'.todo = ev.todo
      /\ ev'.total = ev.total /\ ev'.freed = ev.freed
  BY DEF PassInv, PassType
<1>3. Pending' = Pending
  BY <1>2 DEF Pending, Bytes
<1>4. SumBytes(ev'.todo) = SumBytes(ev.todo)
  BY <1>2
<1> QED BY <1>1, <1>2, <1>3, <1>4 DEF PassInv, Accounted

\* Every step.
LEMMA NextPassInv == ASSUME IInv, PassInv, [Next]_vars PROVE PassInv'
<1>1. CASE UNCHANGED ev
  BY <1>1 DEF PassInv, Accounted, Pending
<1>2. CASE ListTrees
  BY <1>2, ListTreesPass
<1>3. CASE PassEnds
  BY <1>3, NoPassInv DEF PassEnds
<1>4. ASSUME NEW n \in Names, DropIndex(n) PROVE PassInv'
  BY <1>4, DropIndexPass
<1>5. CASE RenameDoomed
  <2>1. ev.pc = "rename" /\ ev.cur \in Names
    BY <1>5 DEF RenameDoomed, IInv, RemovesDoomed
  <2>2. \/ ev' = Deleted(TRUE) \/ ev' = Deleted(FALSE)
        \/ ev' = [ev EXCEPT !.pc = "remove"]
    BY <1>5 DEF RenameDoomed
  <2> QED BY <2>1, <2>2, DeletedPass, RenamedPass
<1>6. CASE RemoveDoomed
  <2>1. ev.pc = "remove" /\ ev.cur \in Names /\ ev' = Deleted(TRUE)
    BY <1>6 DEF RemoveDoomed, IInv, RemovesDoomed
  <2> QED BY <2>1, DeletedPass
<1>7. CASE KillUnpacker
  <2>1. CASE ev.pc \in {"rename", "remove"}
    <3>1. ev.cur \in Names /\ ev' = Deleted(FALSE)
      BY <1>7, <2>1 DEF KillUnpacker, IInv, RemovesDoomed
    <3> QED BY <2>1, <3>1, DeletedPass
  <2>2. CASE ev.pc \notin {"rename", "remove"}
    BY <1>1, <1>7, <2>2 DEF KillUnpacker
  <2> QED BY <2>1, <2>2
<1>8. CASE KillServer
  BY <1>8, NoPassInv DEF KillServer
<1>9. CASE UNCHANGED vars
  BY <1>1, <1>9 DEF vars
<1>10. ASSUME NEW r \in Requests, Resolve(r) \/ ResolveFails(r) \/ RequestStep(r) PROVE PassInv'
  BY <1>1, <1>10 DEF Resolve, ResolveFails, RequestStep, HaveIndex, Do, FindHit, FindMiss, Open
<1>11. ASSUME NEW k \in Keys, FlightStep(k) \/ LeaderLeaves(k) \/ UnpackStep(k) PROVE PassInv'
  BY <1>1, <1>11, Zenon DEF FlightStep, Walk, Store, LeaderLeaves, UnpackStep, UnpackCached,
                            UnpackStart, UnpackTree, UnpackFails, Publish
<1>12. ASSUME NEW n \in Names, RemoveOrphan(n) \/ SweepDoomed(n) PROVE PassInv'
  BY <1>1, <1>12 DEF RemoveOrphan, SweepDoomed
<1>13. ASSUME NEW a \in abandoned, SweepStage(a) PROVE PassInv'
  BY <1>1, <1>13 DEF SweepStage
<1> QED BY <1>2, <1>3, <1>4, <1>5, <1>6, <1>7, <1>8, <1>9, <1>10, <1>11, <1>12, <1>13 DEF Next, EvictStep
-----------------------------------------------------------------------------
\* Mishaps are counted, and a staging directory is left by one of them.
MishapsTyped == mishaps \in 0 .. MaxMishaps /\ abandoned \subseteq Leftovers

\* The initial state has all of it.
LEMMA InitTyped == Init => ServerTyped /\ PassInv /\ MishapsTyped
<1> SUFFICES ASSUME Init PROVE ServerTyped /\ PassInv /\ MishapsTyped
    OBVIOUS
<1>1. ServerTyped
  BY DEF Init, ServerTyped, NoFlight, FlightType, RequestType, IndexStates, Results
<1>2. PassInv
  <2>1. ev \in PassType
    BY DEF Init, NoPass, PassType
  <2>2. ev.pc = "idle"
    BY DEF Init, NoPass
  <2> QED BY <2>1, <2>2 DEF PassInv, Accounted
<1>3. MishapsTyped
  BY SizeAssumption DEF Init, MishapsTyped
<1> QED BY <1>1, <1>2, <1>3

\* Every step keeps the types of deb-debuginfod's memory.
LEMMA NextServerTyped == ASSUME IInv, ServerTyped, [Next]_vars PROVE ServerTyped'
<1>1. CASE UNCHANGED server
  BY <1>1 DEF server, ServerTyped
<1>2. ASSUME NEW r \in Requests, Resolve(r) \/ ResolveFails(r) \/ RequestStep(r) PROVE ServerTyped'
  BY <1>2, RequestTyped
<1>3. ASSUME NEW k \in Keys, FlightStep(k) \/ LeaderLeaves(k) \/ UnpackStep(k) PROVE ServerTyped'
  <2>1. CASE FlightStep(k)
    BY <2>1, FlightTyped
  <2>2. CASE LeaderLeaves(k)
    BY <2>2, FlightFailsTyped DEF LeaderLeaves
  <2>3. CASE UnpackCached(k)
    BY <2>3, ReplyTyped DEF UnpackCached
  <2>4. CASE UnpackFails(k)
    BY <2>4, ReplyTyped DEF UnpackFails
  <2>5. CASE Publish(k)
    BY <2>5, ReplyTyped DEF Publish
  <2>6. CASE UnpackStart(k) \/ UnpackTree(k)
    BY <1>1, <2>6 DEF UnpackStart, UnpackTree
  <2> QED BY <1>3, <2>1, <2>2, <2>3, <2>4, <2>5, <2>6 DEF UnpackStep
<1>4. CASE ListTrees \/ PassEnds \/ RenameDoomed \/ RemoveDoomed
  BY <1>1, <1>4, Zenon DEF ListTrees, PassEnds, RenameDoomed, RemoveDoomed
<1>5. ASSUME NEW n \in Names, DropIndex(n) PROVE ServerTyped'
  <2>1. n[1] \in Keys
    BY DEF Names
  <2>2. indexes' \in [Keys -> IndexStates] /\ UNCHANGED <<flight, rq>>
    BY <1>5, <2>1 DEF DropIndex, ServerTyped, IndexStates
  <2> QED BY <2>2 DEF ServerTyped
<1>6. ASSUME NEW n \in Names, RemoveOrphan(n) \/ SweepDoomed(n) PROVE ServerTyped'
  BY <1>1, <1>6 DEF RemoveOrphan, SweepDoomed
<1>7. CASE UNCHANGED vars
  BY <1>1, <1>7 DEF vars
<1>8. ASSUME NEW a \in abandoned, SweepStage(a) PROVE ServerTyped'
  BY <1>1, <1>8 DEF SweepStage
<1> QED BY <1>2, <1>3, <1>4, <1>5, <1>6, <1>7, <1>8, KillUnpackerTyped, KillServerTyped DEF Next, EvictStep

\* Mishaps are counted up to their bound, and what they leave is named after them.
LEMMA NextMishaps == ASSUME MishapsTyped, [Next]_vars PROVE MishapsTyped'
<1>1. CASE UNCHANGED <<mishaps, abandoned>>
  BY <1>1 DEF MishapsTyped
<1>2. ASSUME NEW f, Mishap(f) PROVE mishaps' \in 1 .. MaxMishaps
  BY <1>2, SizeAssumption DEF Mishap, MishapsTyped
<1>3. ASSUME NEW k \in Keys, CleanStage(k) PROVE MishapsTyped'
  <2>1. CASE Mishap("remove") /\ abandoned' = abandoned \cup {<<k, mishaps'>>}
    BY <1>2, <2>1 DEF MishapsTyped, Leftovers
  <2> QED BY <1>1, <1>3, <2>1 DEF CleanStage
<1>4. CASE KillUnpacker
  <2>1. mishaps' \in 1 .. MaxMishaps
    BY <1>2, <1>4 DEF KillUnpacker
  <2>2. abandoned' = abandoned \cup {<<k, mishaps'>> : k \in {x \in Keys : stage[x] # "none"}}
    BY <1>4 DEF KillUnpacker
  <2> QED BY <2>1, <2>2 DEF MishapsTyped, Leftovers
<1>5. CASE KillServer
  BY <1>2, <1>5 DEF KillServer, volume, MishapsTyped
<1>6. ASSUME NEW n, RemoveAll(n), UNCHANGED abandoned PROVE MishapsTyped'
  BY <1>1, <1>2, <1>6 DEF RemoveAll, MishapsTyped
<1>7. CASE RemoveDoomed \/ \E n \in Names : RemoveOrphan(n)
  BY <1>6, <1>7 DEF RemoveDoomed, RemoveOrphan
<1>8. ASSUME NEW r \in Requests, Resolve(r) \/ ResolveFails(r) \/ RequestStep(r) PROVE MishapsTyped'
  BY <1>1, <1>8, Zenon DEF Resolve, ResolveFails, RequestStep, HaveIndex, Do, FindHit, FindMiss, Open, volume
<1>9. ASSUME NEW k \in Keys, FlightStep(k) \/ LeaderLeaves(k) \/ UnpackCached(k) \/ UnpackStart(k) \/ UnpackTree(k)
      PROVE  MishapsTyped'
  BY <1>1, <1>9, Zenon DEF FlightStep, Walk, Store, LeaderLeaves, UnpackCached, UnpackStart, UnpackTree, volume
<1>10. ASSUME NEW k \in Keys, UnpackFails(k) \/ Publish(k) PROVE MishapsTyped'
  BY <1>3, <1>10, Zenon DEF UnpackFails, Publish
<1>11. ASSUME NEW n \in Names, DropIndex(n) \/ SweepDoomed(n) PROVE MishapsTyped'
  BY <1>1, <1>11, Zenon DEF DropIndex, SweepDoomed, volume
<1>12. CASE ListTrees \/ PassEnds \/ RenameDoomed
  BY <1>1, <1>12, Zenon DEF ListTrees, PassEnds, RenameDoomed, volume
<1>13. ASSUME NEW a \in abandoned, SweepStage(a) PROVE MishapsTyped'
  BY <1>13 DEF SweepStage, MishapsTyped
<1>14. CASE UNCHANGED vars
  BY <1>1, <1>14 DEF vars, volume
<1> QED BY <1>4, <1>5, <1>7, <1>8, <1>9, <1>10, <1>11, <1>12, <1>13, <1>14 DEF Next, EvictStep, UnpackStep

\* The invariant with the memory of deb-debuginfod and the bytes of a pass.
Whole == IInv /\ ServerTyped /\ PassInv /\ MishapsTyped

\* It holds throughout.
LEMMA Invariance == Spec => []Whole
<1>1. Init => Whole
  BY InitIInv, InitTyped DEF Whole
<1>2. Whole /\ [Next]_vars => Whole'
  BY NextIInv, NextServerTyped, NextPassInv, NextMishaps DEF Whole
<1> QED BY <1>1, <1>2, PTL DEF Spec

\* Every variable of the server, the unpacker and their volume keeps its type; the sizes
\* of evictOnce are natural numbers and the tree it deletes is a directory of the volume.
THEOREM TypeCorrect == Spec => []TypeOK
<1>1. Whole => TypeOK
  BY DEF Whole, TypeOK, IInv, VolumeTyped, DirStates, RemovesDoomed, DoomedNames, ServerTyped,
         IndexStates, FlightType, RequestType, PassInv, PassType, MishapsTyped
<1> QED BY <1>1, Invariance, PTL

\* evictOnce never stops too early: the trees that a pass leaves untried fit the budget,
\* whatever failed on the way, because nothing counts as freed twice.
UntriedFits == [][PassEnds => SumBytes(ev.todo) <= Budget]_vars

\* What a pass counted as freed, is about to free and has not tried never exceeds the total
\* it began with, so its last step leaves untried only what fits.
THEOREM PassFreesEnough == Spec => UntriedFits
<1>1. ASSUME Whole, [Next]_vars PROVE [PassEnds => SumBytes(ev.todo) <= Budget]_vars
  <2> SUFFICES ASSUME PassEnds PROVE SumBytes(ev.todo) <= Budget
    OBVIOUS
  <2>1. ev.pc = "next" /\ (ev.total - ev.freed <= Budget \/ ev.todo = {})
    BY DEF PassEnds, Enough
  <2>2. ev.todo \in SUBSET Names /\ ev.total \in Nat /\ ev.freed \in Nat
    BY <1>1 DEF Whole, PassInv, PassType
  <2>3. Pending = 0
    BY <2>1 DEF Pending
  <2>4. ev.freed + Pending + SumBytes(ev.todo) <= ev.total
    BY <1>1, <2>1 DEF Whole, PassInv, Accounted
  <2>5. SumBytes(ev.todo) \in Nat
    BY <2>2, SumBytesFacts
  <2>6. CASE ev.total - ev.freed <= Budget
    BY <2>2, <2>3, <2>4, <2>5, <2>6, SizeAssumption
  <2>7. CASE ev.todo = {}
    <3>1. SumBytes(ev.todo) = Sum({}, Weight)
      BY <2>2, <2>7, SumBytesIsSum
    <3>2. Sum({}, Weight) = 0
      BY SumType, FS_EmptySet
    <3> QED BY <3>1, <3>2, SizeAssumption
  <2> QED BY <2>1, <2>6, <2>7
<1> QED BY <1>1, Invariance, PTL DEF UntriedFits, Spec

-----------------------------------------------------------------------------
(* The two singleflight groups.                                            *)

\* Collapsing concurrent work forgets nobody: whoever waits for a package's index has a call
\* in flight, and a call that posted /unpack has an unpack that will reply to it, whichever
\* side has failed, left or been restarted in between.
NobodyForgotten ==
    /\ \A r \in Requests : rq[r].pc = "wait" => flight[Wants[r]].pc # "idle"
    /\ \A k \in Keys : flight[k].pc = "post" => unp[k].pc # "idle"

\* A flight that fails answers everybody who waits for it.
LEMMA FlightFailsForgetsNobody ==
    ASSUME NobodyForgotten, ServerTyped, NEW k \in Keys, FlightFails(k),
           \A j \in Keys \ {k} : unp'[j].pc = unp[j].pc
    PROVE  NobodyForgotten'
<1>1. /\ flight'[k].pc = "idle" /\ \A j \in Keys \ {k} : flight'[j] = flight[j]
  BY DEF FlightFails, NoFlight, ServerTyped
<1>2. ASSUME NEW r \in Requests, rq'[r].pc = "wait" PROVE flight'[Wants[r]].pc # "idle"
  <2>1. rq' = [x \in Requests |-> IF x \in Waiting(k) THEN Answer(x, "unavailable")[x] ELSE rq[x]]
    BY Zenon DEF FlightFails
  <2>2. Answer(r, "unavailable")[r].pc = "end"
    BY DEF Answer, ServerTyped
  <2>3. r \notin Waiting(k) /\ rq[r].pc = "wait"
    BY <1>2, <2>1, <2>2
  <2>4. Wants[r] \in Keys \ {k}
    BY <2>3, KeysAssumption DEF Waiting
  <2> QED BY <1>1, <2>3, <2>4 DEF NobodyForgotten
<1>3. \A j \in Keys : flight'[j].pc = "post" => unp'[j].pc # "idle"
  BY <1>1 DEF NobodyForgotten
<1> QED BY <1>2, <1>3 DEF NobodyForgotten

\* The unpack that ends replies to the call that waits for it.
LEMMA ReplyForgetsNobody ==
    ASSUME NobodyForgotten, IInv, ServerTyped, NEW k \in Keys, NEW ok, Reply(k, ok)
    PROVE  NobodyForgotten'
<1>1. \A j \in Keys \ {k} : unp'[j].pc = unp[j].pc
  BY DEF Reply, IInv, VolumeTyped
<1>2. CASE FlightFails(k)
  BY <1>1, <1>2, FlightFailsForgetsNobody
<1>3. CASE UNCHANGED rq /\ flight[k].pc = "post" /\ flight' = [flight EXCEPT ![k].pc = "walk"]
  <2>1. /\ flight'[k].pc = "walk" /\ \A j \in Keys \ {k} : flight'[j] = flight[j]
    BY <1>3 DEF ServerTyped, FlightType
  <2>2. \A r \in Requests : rq'[r].pc = "wait" => flight'[Wants[r]].pc # "idle"
    BY <1>3, <2>1, KeysAssumption DEF NobodyForgotten
  <2> QED BY <1>1, <2>1, <2>2 DEF NobodyForgotten
<1>4. CASE UNCHANGED <<rq, flight>> /\ flight[k].pc # "post"
  BY <1>1, <1>4 DEF NobodyForgotten
<1> QED BY <1>2, <1>3, <1>4 DEF Reply

\* A request that starts to wait has a flight, old or new.
LEMMA DoForgetsNobody ==
    ASSUME NobodyForgotten, IInv, ServerTyped, NEW r \in Requests, Do(r)
    PROVE  NobodyForgotten'
<1> DEFINE k == Wants[r]
<1>0. k \in Keys
  BY KeysAssumption
<1>1. \A x \in Requests : (x # r => rq'[x] = rq[x])
  BY DEF Do, ServerTyped
<1>2. CASE flight[k].pc # "idle"
  <2>1. UNCHANGED <<flight, unp>>
    BY <1>2 DEF Do
  <2>2. \A x \in Requests : rq'[x].pc = "wait" => flight[Wants[x]].pc # "idle"
    BY <1>1, <1>2 DEF NobodyForgotten
  <2> QED BY <2>1, <2>2 DEF NobodyForgotten
<1>3. CASE flight[k].pc = "idle"
  <2>1. /\ flight' = [flight EXCEPT ![k] = [pc |-> "post", ix |-> "none"]]
        /\ unp' = IF unp[k].pc = "idle" THEN [unp EXCEPT ![k].pc = "check"] ELSE unp
    BY <1>3 DEF Do
  <2>2. /\ flight'[k].pc = "post" /\ \A j \in Keys \ {k} : flight'[j] = flight[j]
    BY <1>0, <2>1 DEF ServerTyped
  <2>3. /\ unp'[k].pc # "idle" /\ \A j \in Keys \ {k} : unp'[j] = unp[j]
    BY <1>0, <2>1 DEF IInv, VolumeTyped
  <2>4. ASSUME NEW x \in Requests, rq'[x].pc = "wait" PROVE flight'[Wants[x]].pc # "idle"
    <3>1. CASE Wants[x] = k
      BY <2>2, <3>1
    <3>2. CASE Wants[x] # k
      BY <1>1, <2>2, <2>4, <3>2, KeysAssumption DEF NobodyForgotten
    <3> QED BY <3>1, <3>2
  <2>5. \A j \in Keys : flight'[j].pc = "post" => unp'[j].pc # "idle"
    BY <2>2, <2>3 DEF NobodyForgotten
  <2> QED BY <2>4, <2>5 DEF NobodyForgotten
<1> QED BY <1>2, <1>3

\* The other steps of a request.
LEMMA RequestForgetsNobody ==
    ASSUME NobodyForgotten, IInv, ServerTyped, NEW r \in Requests,
           Resolve(r) \/ ResolveFails(r) \/ RequestStep(r)
    PROVE  NobodyForgotten'
<1>1. ASSUME UNCHANGED <<flight, unp>>, \A x \in Requests \ {r} : rq'[x] = rq[x], rq'[r].pc # "wait"
      PROVE  NobodyForgotten'
  <2>1. \A x \in Requests : rq'[x].pc = "wait" => rq[x].pc = "wait"
    BY <1>1
  <2> QED BY <1>1, <2>1 DEF NobodyForgotten
<1>2. rq \in [Requests -> RequestType]
  BY DEF ServerTyped
<1>3. CASE \E res : rq' = Answer(r, res) /\ UNCHANGED <<flight, unp>>
  BY <1>1, <1>2, <1>3 DEF Answer
<1>4. CASE \E pc \in {"index", "join"} : rq' = [rq EXCEPT ![r].pc = pc] /\ UNCHANGED <<flight, unp>>
  BY <1>1, <1>2, <1>4 DEF RequestType
<1>5. CASE \E pc \in {"find", "open"} : \E ix : /\ rq' = [rq EXCEPT ![r].pc = pc, ![r].ix = ix]
                                                /\ UNCHANGED <<flight, unp>>
  BY <1>1, <1>2, <1>5 DEF RequestType
<1>6. CASE Resolve(r) \/ ResolveFails(r)
  BY <1>3, <1>4, <1>6 DEF Resolve, ResolveFails
<1>7. CASE HaveIndex(r)
  BY <1>4, <1>5, <1>7 DEF HaveIndex
<1>8. CASE FindHit(r) \/ FindMiss(r) \/ Open(r)
  BY <1>3, <1>5, <1>8 DEF FindHit, FindMiss, Open
<1> QED BY <1>6, <1>7, <1>8, DoForgetsNobody DEF RequestStep

\* The walk, and the index handed to everybody who waits.
LEMMA FlightForgetsNobody ==
    ASSUME NobodyForgotten, IInv, ServerTyped, NEW k \in Keys, FlightStep(k)
    PROVE  NobodyForgotten'
<1>1. CASE Walk(k)
  <2>1. UNCHANGED <<rq, unp>> /\ flight'[k].pc = "store" /\ \A j \in Keys \ {k} : flight'[j] = flight[j]
    BY <1>1 DEF Walk, ServerTyped, FlightType
  <2> QED BY <2>1, KeysAssumption DEF NobodyForgotten
<1>2. CASE Store(k)
  <2>0. rq' = [r \in Requests |-> IF r \in Waiting(k)
                                  THEN [rq[r] EXCEPT !.pc = "find", !.ix = flight[k].ix]
                                  ELSE rq[r]]
    BY <1>2, Zenon DEF Store
  <2>1. flight' = [flight EXCEPT ![k] = NoFlight] /\ UNCHANGED unp
    BY <1>2, Zenon DEF Store
  <2>2. flight'[k].pc = "idle" /\ \A j \in Keys \ {k} : flight'[j] = flight[j]
    BY <2>1 DEF NoFlight, ServerTyped
  <2>3. ASSUME NEW r \in Requests, rq'[r].pc = "wait" PROVE flight'[Wants[r]].pc # "idle"
    <3>1. [rq[r] EXCEPT !.pc = "find", !.ix = flight[k].ix].pc = "find"
      BY DEF ServerTyped, RequestType
    <3> DEFINE told == [rq[r] EXCEPT !.pc = "find", !.ix = flight[k].ix]
    <3>2. rq'[r] = IF r \in Waiting(k) THEN told ELSE rq[r]
      BY <2>0, Zenon
    <3> HIDE DEF told
    <3>3. r \notin Waiting(k) /\ rq[r].pc = "wait"
      BY <2>3, <3>1, <3>2 DEF told
    <3>4. Wants[r] \in Keys \ {k}
      BY <3>3, KeysAssumption DEF Waiting
    <3> QED BY <2>2, <3>3, <3>4 DEF NobodyForgotten
  <2>4. \A j \in Keys : flight'[j].pc = "post" => unp'[j].pc # "idle"
    BY <2>1, <2>2 DEF NobodyForgotten
  <2> QED BY <2>3, <2>4 DEF NobodyForgotten
<1> QED BY <1>1, <1>2 DEF FlightStep

\* A kill of deb-unpack fails the calls that posted to it, with their waiters.
LEMMA KillUnpackerForgetsNobody ==
    ASSUME NobodyForgotten, ServerTyped, KillUnpacker
    PROVE  NobodyForgotten'
<1>1. /\ flight' = [k \in Keys |-> IF flight[k].pc = "post" THEN NoFlight ELSE flight[k]]
      /\ rq' = [r \in Requests |-> IF rq[r].pc = "wait" /\ flight[Wants[r]].pc = "post"
                                   THEN Answer(r, "unavailable")[r] ELSE rq[r]]
  BY Zenon DEF KillUnpacker
<1>2. \A k \in Keys : flight'[k].pc # "post" /\ (flight[k].pc # "post" => flight'[k] = flight[k])
  BY <1>1 DEF NoFlight
<1>3. ASSUME NEW r \in Requests, rq'[r].pc = "wait" PROVE flight'[Wants[r]].pc # "idle"
  <2>1. Answer(r, "unavailable")[r].pc = "end"
    BY DEF Answer, ServerTyped
  <2>2. rq[r].pc = "wait" /\ flight[Wants[r]].pc # "post"
    BY <1>1, <1>3, <2>1
  <2> QED BY <1>2, <2>2, KeysAssumption DEF NobodyForgotten
<1> QED BY <1>2, <1>3 DEF NobodyForgotten

\* No step forgets anybody.
LEMMA NextForgetsNobody ==
    ASSUME NobodyForgotten, IInv, ServerTyped, [Next]_vars
    PROVE  NobodyForgotten'
<1>1. CASE UNCHANGED <<rq, flight, unp>>
  BY <1>1 DEF NobodyForgotten
<1>2. ASSUME NEW k \in Keys, FlightStep(k) \/ LeaderLeaves(k) \/ UnpackStep(k) PROVE NobodyForgotten'
  <2>1. CASE LeaderLeaves(k)
    <3>1. \A j \in Keys \ {k} : unp'[j].pc = unp[j].pc
      BY <2>1 DEF LeaderLeaves, IInv, VolumeTyped
    <3> QED BY <2>1, <3>1, FlightFailsForgetsNobody DEF LeaderLeaves
  <2>2. CASE UnpackCached(k) \/ UnpackFails(k) \/ Publish(k)
    BY <2>2, ReplyForgetsNobody DEF UnpackCached, UnpackFails, Publish
  <2>3. CASE UnpackStart(k) \/ UnpackTree(k)
    <3>1. UNCHANGED <<rq, flight>> /\ \A j \in Keys : unp[j].pc # "idle" => unp'[j].pc # "idle"
      BY <2>3 DEF UnpackStart, UnpackTree, server, IInv, VolumeTyped
    <3> QED BY <3>1 DEF NobodyForgotten
  <2> QED BY <1>2, <2>1, <2>2, <2>3, FlightForgetsNobody DEF UnpackStep
<1>3. ASSUME NEW n \in Names, DropIndex(n) \/ RemoveOrphan(n) \/ SweepDoomed(n) PROVE NobodyForgotten'
  BY <1>1, <1>3, Zenon DEF DropIndex, RemoveOrphan, SweepDoomed, server
<1>4. CASE ListTrees \/ PassEnds \/ RenameDoomed \/ RemoveDoomed
  BY <1>1, <1>4, Zenon DEF ListTrees, PassEnds, RenameDoomed, RemoveDoomed, server
<1>5. CASE KillServer
  <2>1. /\ \A k \in Keys : flight'[k] = NoFlight
        /\ rq' = [r \in Requests |-> IF rq[r].pc \in {"idle", "end"} THEN rq[r] ELSE Answer(r, "killed")[r]]
    BY <1>5, Zenon DEF KillServer
  <2>2. \A r \in Requests : Answer(r, "killed")[r].pc = "end"
    BY DEF Answer, ServerTyped
  <2>3. \A r \in Requests : rq'[r].pc \in {"idle", "end"}
    BY <2>1, <2>2
  <2> QED BY <2>1, <2>3 DEF NobodyForgotten, NoFlight
<1>6. CASE UNCHANGED vars
  BY <1>1, <1>6 DEF vars, server
<1>7. ASSUME NEW a \in abandoned, SweepStage(a) PROVE NobodyForgotten'
  BY <1>1, <1>7 DEF SweepStage, server
<1> QED BY <1>2, <1>3, <1>4, <1>5, <1>6, <1>7, RequestForgetsNobody, KillUnpackerForgetsNobody
        DEF Next, EvictStep

\* For any number of requests and packages nobody waits for a reply that will not come.
THEOREM ForgetsNobody == Spec => []NobodyForgotten
<1>1. Init => NobodyForgotten
  BY DEF Init, NobodyForgotten, NoFlight
<1>2. Whole => IInv /\ ServerTyped
  BY DEF Whole
<1> QED BY <1>1, <1>2, Invariance, NextForgetsNobody, PTL DEF Spec
=============================================================================
