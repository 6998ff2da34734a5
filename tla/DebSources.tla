----------------------------- MODULE DebSources -----------------------------
(***************************************************************************)
(* Debian sources: cmd/deb-debuginfod, which serves files out of unpacked  *)
(* source packages, and cmd/deb-unpack, which makes and deletes the trees  *)
(* on the volume they share.                                               *)
(*                                                                         *)
(* deb-debuginfod keeps an index per package and evicts the trees that     *)
(* were used least recently; it never touches the volume but asks the      *)
(* unpacker to.  Both collapse concurrent work on one package              *)
(* (singleflight), and either process may be killed and restarted.         *)
(***************************************************************************)
EXTENDS Integers, FiniteSetsExt

CONSTANTS Requests,   \* /buildid/<id>/source/<path>
          Keys,       \* source packages
          Wants,      \* the package each request's build id belongs to
          Has,        \* the requests whose path the package contains
          Kept,       \* the packages unpacked by earlier processes
          Size,       \* bytes of each unpacked package
          Budget,     \* CACHE_MAX_BYTES
          MaxDepth,   \* repeated ".deleting" suffixes until the name is too long
          MaxMishaps, \* bound on restarts and failed removals
          Faults      \* what may go wrong

ASSUME KeysAssumption ==
    /\ Wants \in [Requests -> Keys] /\ Has \subseteq Requests
    /\ IsFiniteSet(Keys) /\ Kept \subseteq Keys
ASSUME SizeAssumption ==
    /\ Size \in [Keys -> Nat] /\ Budget \in Nat \ {0}
    /\ MaxDepth \in Nat \ {0} /\ MaxMishaps \in Nat
ASSUME FaultsAssumption == Faults \subseteq {"mirror", "disconnect", "remove", "kill"}

VARIABLES
    dir,      \* the volume: what lies under each name
    stage,    \* the staging directory (.tmp-*) of each unpack that runs
    abandoned, \* staging directories nobody works in: <<package, mishap that left it>>
    unp,      \* deb-unpack: the unpack running for each package
    orphans,  \* deb-unpack: names being removed for a caller that is gone
    indexes,  \* deb-debuginfod: the index of each package
    flight,   \* deb-debuginfod: indexFor's singleflight call for each package
    rq,       \* deb-debuginfod: handleSource of each request
    ev,       \* deb-debuginfod: evictOnce
    mishaps

volume == <<dir, stage, abandoned>>
server == <<indexes, flight, rq>>
vars == <<volume, unp, orphans, server, ev, mishaps>>

\* <<k, d>> is the directory of package k with ".deleting" appended d times.
Names == Keys \X (0 .. MaxDepth)
Final(k) == <<k, 0>>
Leftovers == Keys \X (1 .. MaxMishaps)
NoName == <<>>
Doomed(n) == <<n[1], n[2] + 1>>

\* A directory is "whole", may lack files but has its done marker ("half"), or has lost
\* the marker ("bare").  A "half" one counts with the bytes of the whole.
Marked(n) == dir[n] \in {"whole", "half"}
Bytes(n) == Size[n[1]]
SumBytes(S) == FoldSet(LAMBDA n, sum : sum + Bytes(n), 0, S)

NoFlight == [pc |-> "idle", ix |-> "none"]
NoUnpack == [pc |-> "idle", cancelled |-> FALSE]
NoPass == [pc |-> "idle", todo |-> {}, cur |-> NoName, total |-> 0, freed |-> 0]

\* Both processes start; the volume holds what earlier ones unpacked.
Init ==
    /\ dir = [n \in Names |-> IF n \in {Final(k) : k \in Kept} THEN "whole" ELSE "none"]
    /\ stage = [k \in Keys |-> "none"]
    /\ abandoned = {}
    /\ unp = [k \in Keys |-> NoUnpack]
    /\ orphans = {}
    /\ indexes = [k \in Keys |-> "none"]
    /\ flight = [k \in Keys |-> NoFlight]
    /\ rq = [r \in Requests |-> [pc |-> "idle", ix |-> "none", res |-> "none"]]
    /\ ev = NoPass
    /\ mishaps = 0

-----------------------------------------------------------------------------
(* handleSource.                                                           *)

\* 200, 404 from the lookup of the build id or from the index, 502, or the server is gone.
Results == {"none", "ok", "unknown", "miss", "unavailable", "killed"}

Answer(r, res) == [rq EXCEPT ![r] = [pc |-> "end", ix |-> "none", res |-> res]]

\* resolve and touch: the package is known, or Debian tells it (or does not).
Resolve(r) ==
    /\ rq[r].pc = "idle"
    /\ rq' = [rq EXCEPT ![r].pc = "index"]
    /\ UNCHANGED <<volume, unp, orphans, indexes, flight, ev, mishaps>>

ResolveFails(r) ==
    /\ "mirror" \in Faults
    /\ rq[r].pc = "idle"
    /\ rq' = Answer(r, "unknown")
    /\ UNCHANGED <<volume, unp, orphans, indexes, flight, ev, mishaps>>

\* indexFor: the index there is ...
HaveIndex(r) ==
    /\ rq[r].pc = "index"
    /\ rq' = IF indexes[Wants[r]] = "none"
             THEN [rq EXCEPT ![r].pc = "join"]
             ELSE [rq EXCEPT ![r].pc = "find", ![r].ix = indexes[Wants[r]]]
    /\ UNCHANGED <<volume, unp, orphans, indexes, flight, ev, mishaps>>

\* ... or the result of the call in flight, or of a new one, which posts /unpack.
Do(r) ==
    LET k == Wants[r] IN
    /\ rq[r].pc = "join"
    /\ rq' = [rq EXCEPT ![r].pc = "wait"]
    /\ IF flight[k].pc # "idle"
       THEN UNCHANGED <<flight, unp>>
       ELSE /\ flight' = [flight EXCEPT ![k] = [pc |-> "post", ix |-> "none"]]
            /\ unp' = IF unp[k].pc = "idle" THEN [unp EXCEPT ![k].pc = "check"] ELSE unp
    /\ UNCHANGED <<volume, orphans, indexes, ev, mishaps>>

\* Everybody who waits for package k.
Waiting(k) == {r \in Requests : rq[r].pc = "wait" /\ Wants[r] = k}

FlightFails(k) ==
    /\ flight' = [flight EXCEPT ![k] = NoFlight]
    /\ rq' = [r \in Requests |-> IF r \in Waiting(k) THEN Answer(r, "unavailable")[r] ELSE rq[r]]

\* The call runs under the context of the request that leads it.
LeaderLeaves(k) ==
    /\ "disconnect" \in Faults
    /\ flight[k].pc = "post"
    /\ FlightFails(k)
    /\ unp' = [unp EXCEPT ![k].cancelled = TRUE]
    /\ UNCHANGED <<volume, orphans, indexes, ev, mishaps>>

\* srcindex.New: files that have gone when the walk gets there are skipped silently.
Walk(k) ==
    /\ flight[k].pc = "walk"
    /\ flight' = [flight EXCEPT ![k].pc = "store",
                                ![k].ix = IF dir[Final(k)] = "whole" THEN "full" ELSE "part"]
    /\ UNCHANGED <<volume, unp, orphans, indexes, rq, ev, mishaps>>

Store(k) ==
    /\ flight[k].pc = "store"
    /\ indexes' = [indexes EXCEPT ![k] = flight[k].ix]
    /\ flight' = [flight EXCEPT ![k] = NoFlight]
    /\ rq' = [r \in Requests |-> IF r \in Waiting(k)
                                 THEN [rq[r] EXCEPT !.pc = "find", !.ix = flight[k].ix]
                                 ELSE rq[r]]
    /\ UNCHANGED <<volume, unp, orphans, ev, mishaps>>

\* Index.Find: what the tree has is found unless the index misses it.
FindHit(r) ==
    /\ rq[r].pc = "find"
    /\ r \in Has
    /\ rq' = [rq EXCEPT ![r].pc = "open", ![r].ix = "none"]
    /\ UNCHANGED <<volume, unp, orphans, indexes, flight, ev, mishaps>>

FindMiss(r) ==
    /\ rq[r].pc = "find"
    /\ r \notin Has \/ rq[r].ix = "part"
    /\ rq' = Answer(r, "miss")
    /\ UNCHANGED <<volume, unp, orphans, indexes, flight, ev, mishaps>>

\* An open file stays readable; ServeContent follows.
Open(r) ==
    /\ rq[r].pc = "open"
    /\ rq' = Answer(r, IF dir[Final(Wants[r])] = "whole" THEN "ok" ELSE "unavailable")
    /\ UNCHANGED <<volume, unp, orphans, indexes, flight, ev, mishaps>>

-----------------------------------------------------------------------------
(* deb-unpack: handleUnpack and unpack.                                    *)

\* A plausible mistake: a failed unpack is not answered.
ReplyOnlyWhenDone(k, ok) ==
    /\ unp' = [unp EXCEPT ![k] = NoUnpack]
    /\ flight' = IF ok /\ flight[k].pc = "post" THEN [flight EXCEPT ![k].pc = "walk"] ELSE flight
    /\ UNCHANGED rq

Reply(k, ok) ==
    /\ unp' = [unp EXCEPT ![k] = NoUnpack]
    /\ IF flight[k].pc # "post" THEN UNCHANGED <<flight, rq>>
       ELSE IF ok THEN flight' = [flight EXCEPT ![k].pc = "walk"] /\ UNCHANGED rq
       ELSE FlightFails(k)

UnpackCached(k) ==
    /\ unp[k].pc = "check"
    /\ Marked(Final(k))
    /\ Reply(k, TRUE)
    /\ UNCHANGED <<volume, orphans, indexes, ev, mishaps>>

\* os.MkdirTemp: every unpack has a directory of its own, whatever earlier ones left.
UnpackStart(k) ==
    /\ unp[k].pc = "check"
    /\ ~Marked(Final(k))
    /\ unp' = [unp EXCEPT ![k].pc = "work"]
    /\ stage' = [stage EXCEPT ![k] = "partial"]
    /\ UNCHANGED <<dir, abandoned, orphans, server, ev, mishaps>>

\* A plausible mistake: the tree is renamed into place without its marker.
UnpackUnmarked(k) ==
    /\ unp[k].pc = "work"
    /\ unp' = [unp EXCEPT ![k].pc = "publish"]
    /\ UNCHANGED <<volume, orphans, server, ev, mishaps>>

\* The downloads, dpkg-source and the done marker.
UnpackTree(k) ==
    /\ unp[k].pc = "work"
    /\ unp' = [unp EXCEPT ![k].pc = "publish"]
    /\ stage' = [stage EXCEPT ![k] = "whole"]
    /\ UNCHANGED <<dir, abandoned, orphans, server, ev, mishaps>>

Mishap(f) == f \in Faults /\ mishaps < MaxMishaps /\ mishaps' = mishaps + 1

\* The deferred RemoveAll, of this unpack's directory only; when it fails, what is left of
\* that directory has no owner any more.
CleanStage(k) ==
    /\ stage' = [stage EXCEPT ![k] = "none"]
    /\ \/ UNCHANGED <<abandoned, mishaps>>
       \/ Mishap("remove") /\ abandoned' = abandoned \cup {<<k, mishaps'>>}

UnpackFails(k) ==
    /\ "mirror" \in Faults \/ unp[k].cancelled
    /\ unp[k].pc = "work"
    /\ CleanStage(k)
    /\ Reply(k, FALSE)
    /\ UNCHANGED <<dir, orphans, indexes, ev>>

\* Rename into place.
Publish(k) ==
    /\ unp[k].pc = "publish"
    /\ IF dir[Final(k)] = "none"
       THEN /\ dir' = [dir EXCEPT ![Final(k)] = stage[k]]
            /\ Reply(k, TRUE)
       ELSE Reply(k, Marked(Final(k))) /\ UNCHANGED dir
    /\ CleanStage(k)
    /\ UNCHANGED <<orphans, indexes, ev>>

-----------------------------------------------------------------------------
(* evictOnce, and handleTrees and handleDelete, which it calls.            *)

\* handleTrees reports every directory that has its marker.
Trees == {n \in Names : Marked(n)}

\* Least recently used first; no property depends on the order, so it is left open, and
\* lastUsed and touch with it.
ListTrees ==
    /\ ev.pc = "idle"
    /\ SumBytes(Trees) > Budget
    /\ ev' = [NoPass EXCEPT !.pc = "next", !.todo = Trees, !.total = SumBytes(Trees)]
    /\ UNCHANGED <<volume, unp, orphans, server, mishaps>>

\* A plausible mistake: the pass stops one byte early.
AlmostEnough == ev.total - ev.freed <= Budget + 1

Enough == ev.total - ev.freed <= Budget

PassEnds ==
    /\ ev.pc = "next"
    /\ Enough \/ ev.todo = {}
    /\ ev' = NoPass
    /\ UNCHANGED <<volume, unp, orphans, server, mishaps>>

\* The index goes first, then the request to delete the tree.
DropIndex(n) ==
    /\ ev.pc = "next"
    /\ ~Enough
    /\ n \in ev.todo
    /\ indexes' = IF n = Final(n[1]) THEN [indexes EXCEPT ![n[1]] = "none"] ELSE indexes
    /\ ev' = [ev EXCEPT !.pc = "rename", !.cur = n, !.todo = @ \ {n}]
    /\ UNCHANGED <<volume, unp, orphans, flight, rq, mishaps>>

\* deleteTree returns: the bytes count as freed, or the tree is skipped.
Deleted(ok) == [ev EXCEPT !.pc = "next", !.cur = NoName,
                          !.freed = IF ok THEN @ + Bytes(ev.cur) ELSE @]

\* A plausible mistake: the tree is removed where it is.
RemoveInPlace ==
    /\ ev.pc = "rename"
    /\ \/ /\ dir[ev.cur] = "none"
          /\ ev' = Deleted(TRUE)
          /\ UNCHANGED dir
       \/ /\ dir[ev.cur] # "none"
          /\ dir' = [dir EXCEPT ![ev.cur] = "half"]
          /\ ev' = [ev EXCEPT !.pc = "remove"]
    /\ UNCHANGED <<stage, abandoned, unp, orphans, server, mishaps>>

\* Rename replaces an empty directory and fails for any other, and for a name too long.
RenameDoomed ==
    /\ ev.pc = "rename"
    /\ \/ /\ dir[ev.cur] = "none"
          /\ ev' = Deleted(TRUE)
          /\ UNCHANGED dir
       \/ /\ dir[ev.cur] # "none"
          /\ ev.cur[2] < MaxDepth => dir[Doomed(ev.cur)] # "none"
          /\ ev' = Deleted(FALSE)
          /\ UNCHANGED dir
       \/ /\ dir[ev.cur] # "none"
          /\ ev.cur[2] < MaxDepth /\ ~Marked(Doomed(ev.cur))
          /\ dir' = [dir EXCEPT ![Doomed(ev.cur)] = dir[ev.cur], ![ev.cur] = "none"]
          /\ ev' = [ev EXCEPT !.pc = "remove"]
    /\ UNCHANGED <<stage, abandoned, unp, orphans, server, mishaps>>

\* os.RemoveAll removes everything or fails somewhere.
RemoveAll(n) ==
    \/ dir' = [dir EXCEPT ![n] = "none"] /\ UNCHANGED mishaps
    \/ /\ Mishap("remove") /\ dir[n] # "none"
       /\ \E left \in {"bare"} \cup IF Marked(n) THEN {"half"} ELSE {} :
             dir' = [dir EXCEPT ![n] = left]

RemoveDoomed ==
    /\ ev.pc = "remove"
    /\ RemoveAll(Doomed(ev.cur))
    /\ ev' = Deleted(TRUE)
    /\ UNCHANGED <<stage, abandoned, unp, orphans, server>>

\* The directories that RemoveAll is working on.
BeingRemoved == orphans \cup IF ev.pc = "remove" THEN {Doomed(ev.cur)} ELSE {}

\* The same for a DELETE whose caller is gone.
RemoveOrphan(n) ==
    /\ n \in orphans
    /\ RemoveAll(n)
    /\ orphans' = orphans \ {n}
    /\ UNCHANGED <<stage, abandoned, unp, server, ev>>

-----------------------------------------------------------------------------
(* sweepStale and restarts.                                                *)

\* Two hours old, which no running unpack leaves its directory alone for.  A RemoveAll that
\* fails changes nothing: the next sweep tries again.
SweepStage(a) ==
    /\ a \in abandoned
    /\ abandoned' = abandoned \ {a}
    /\ UNCHANGED <<dir, stage, unp, orphans, server, ev, mishaps>>

\* A plausible mistake: only .tmp-* is swept.
SweepOnlyStaging(n) == FALSE /\ UNCHANGED vars

\* A renamed directory keeps its old mtime: this one may be in the middle of its removal.
SweepDoomed(n) ==
    /\ n[2] > 0 /\ dir[n] # "none"
    /\ dir' = [dir EXCEPT ![n] = "none"]
    /\ UNCHANGED <<stage, abandoned, unp, orphans, server, ev, mishaps>>

\* deb-unpack dies: whatever it was doing stops where it is.
KillUnpacker ==
    /\ Mishap("kill")
    /\ unp' = [k \in Keys |-> NoUnpack]
    /\ stage' = [k \in Keys |-> "none"]
    /\ abandoned' = abandoned \cup {<<k, mishaps'>> : k \in {x \in Keys : stage[x] # "none"}}
    /\ orphans' = {}
    /\ flight' = [k \in Keys |-> IF flight[k].pc = "post" THEN NoFlight ELSE flight[k]]
    /\ rq' = [r \in Requests |-> IF rq[r].pc = "wait" /\ flight[Wants[r]].pc = "post"
                                 THEN Answer(r, "unavailable")[r] ELSE rq[r]]
    /\ ev' = IF ev.pc \in {"rename", "remove"} THEN Deleted(FALSE) ELSE ev
    /\ \E keep \in SUBSET {n \in BeingRemoved : Marked(n)} :
          dir' = [n \in Names |-> IF n \notin BeingRemoved \/ dir[n] = "none" THEN dir[n]
                                  ELSE IF n \in keep THEN "half" ELSE "bare"]
    /\ UNCHANGED indexes

\* deb-debuginfod dies: its memory is gone, what it asked for is cancelled.
KillServer ==
    /\ Mishap("kill")
    /\ indexes' = [k \in Keys |-> "none"]
    /\ flight' = [k \in Keys |-> NoFlight]
    /\ rq' = [r \in Requests |-> IF rq[r].pc \in {"idle", "end"} THEN rq[r] ELSE Answer(r, "killed")[r]]
    /\ ev' = NoPass
    /\ orphans' = BeingRemoved
    /\ unp' = [k \in Keys |-> IF unp[k].pc = "idle" THEN unp[k] ELSE [unp[k] EXCEPT !.cancelled = TRUE]]
    /\ UNCHANGED volume

-----------------------------------------------------------------------------
RequestStep(r) == HaveIndex(r) \/ Do(r) \/ FindHit(r) \/ FindMiss(r) \/ Open(r)
FlightStep(k) == Walk(k) \/ Store(k)
UnpackStep(k) ==
    UnpackCached(k) \/ UnpackStart(k) \/ UnpackTree(k) \/ UnpackFails(k) \/ Publish(k)
EvictStep ==
    \/ ListTrees \/ PassEnds \/ (\E n \in Names : DropIndex(n))
    \/ RenameDoomed \/ RemoveDoomed

Next ==
    \/ \E r \in Requests : Resolve(r) \/ ResolveFails(r) \/ RequestStep(r)
    \/ \E k \in Keys : FlightStep(k) \/ LeaderLeaves(k) \/ UnpackStep(k)
    \/ EvictStep
    \/ \E n \in Names : RemoveOrphan(n) \/ SweepDoomed(n)
    \/ \E a \in abandoned : SweepStage(a)
    \/ KillUnpacker \/ KillServer

Spec == Init /\ [][Next]_vars

\* Goroutines are scheduled, downloads and dpkg-source end, both tickers tick.
FairSpec ==
    /\ Spec
    /\ \A r \in Requests : WF_vars(RequestStep(r))
    /\ \A k \in Keys : WF_vars(FlightStep(k)) /\ WF_vars(UnpackStep(k))
    /\ WF_vars(EvictStep)
    /\ \A n \in Names : WF_vars(RemoveOrphan(n)) /\ WF_vars(SweepDoomed(n))
    /\ \A a \in Leftovers : WF_vars(SweepStage(a))

-----------------------------------------------------------------------------
TypeOK ==
    /\ dir \in [Names -> {"none", "whole", "half", "bare"}]
    /\ stage \in [Keys -> {"none", "partial", "whole"}]
    /\ abandoned \subseteq Leftovers
    /\ unp \in [Keys -> [pc: {"idle", "check", "work", "publish"}, cancelled: BOOLEAN]]
    /\ orphans \subseteq Names
    /\ indexes \in [Keys -> {"none", "full", "part"}]
    /\ flight \in [Keys -> [pc: {"idle", "post", "walk", "store"}, ix: {"none", "full", "part"}]]
    /\ rq \in [Requests -> [pc: {"idle", "index", "join", "wait", "find", "open", "end"},
                            ix: {"none", "full", "part"}, res: Results]]
    /\ ev \in [pc: {"idle", "next", "rename", "remove"}, todo: SUBSET Names,
               cur: Names \cup {NoName}, total: Nat, freed: Nat]
    /\ mishaps \in 0 .. MaxMishaps

\* A package's final name only ever leads to a complete tree, whatever is killed in the
\* middle of an unpack or of a deletion.
FinalIsWhole == \A k \in Keys : dir[Final(k)] \in {"none", "whole"}

\* Every request for a source file is answered.
RequestsAnswered == \A r \in Requests : rq[r].pc # "idle" ~> rq[r].pc = "end"

\* A volume that is over its budget comes back within it.
BudgetRestored == SumBytes(Trees) > Budget ~> SumBytes(Trees) <= Budget

\* What killed or failed unpacks and deletions leave behind disappears, although no later
\* unpack of the package reuses or removes it.
LeftoversReclaimed ==
    /\ \A a \in Leftovers : a \in abandoned ~> a \notin abandoned
    /\ \A n \in Names : n[2] > 0 /\ dir[n] # "none" ~> dir[n] = "none"

\* What indexFor's comment says of the indexes it keeps, and what evictOnce drops the
\* index first for: an index never offers files of a tree that is gone.
IndexNeverStale == \A k \in Keys : indexes[k] # "none" => dir[Final(k)] = "whole"
=============================================================================
