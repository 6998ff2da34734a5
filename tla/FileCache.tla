------------------------------ MODULE FileCache ------------------------------
(***************************************************************************)
(* The proxy's on-disk cache of upstream files (src/cmd/proxy/filecache.go).*)
(*                                                                         *)
(* A client request runs Serve: it opens the pair blob + .meta on disk     *)
(* (HIT), or joins the download in flight for its key (COALESCED), or      *)
(* becomes the leader of a new one (MISS), or is refused because every     *)
(* download slot is taken (ErrCacheBusy).  The leader's download runs in   *)
(* a goroutine of its own, detached from the client; the leader and every  *)
(* joiner then follow the file it is still appending to.  EvictLoop        *)
(* removes pairs behind everybody's back, clients disconnect, the disk     *)
(* fails, and the process is killed and restarted on the same directory.   *)
(*                                                                         *)
(* A request leads at most one download, so the download led by request r, *)
(* its cacheEntry and the inode it writes are all named r.                 *)
(***************************************************************************)
EXTENDS Naturals, FiniteSets

CONSTANTS Requests,      \* client requests, each served once
          Keys,          \* cache keys (endpoint, build id, path)
          KeyOf,         \* the key each request asks for
          HostOf,        \* the host each request resolved
          Hosts,
          MaxDownloads,  \* maxConcurrentDownloads
          Bodies,        \* what upstreams send: <<chunks, not compressed yet>>
          Faults,        \* what the environment of the cache may do: clients disconnect,
                         \* writes, .meta files, close(2) and reads fail, EvictLoop
                         \* runs, SIGKILL
          NoOne,         \* no request: no entry, no file, no descriptor
          NoKey

ASSUME RequestsAssumption == IsFiniteSet(Requests) /\ NoOne \notin Requests
ASSUME KeysAssumption == NoKey \notin Keys /\ KeyOf \in [Requests -> Keys]
ASSUME HostsAssumption == HostOf \in [Requests -> Hosts]
ASSUME BoundsAssumption == MaxDownloads \in Nat /\ Bodies \subseteq Nat \X BOOLEAN
ASSUME FaultsAssumption == Faults \subseteq {"disconnect", "disk", "meta", "close", "evict", "kill", "read"}

VARIABLES
    inflight,   \* c.inflight: the entry published under each key
    entry,      \* the cacheEntry of each leader
    sem,        \* slots taken in c.sem
    dl,         \* the download goroutine of each leader
    tmp,        \* the downloads whose .tmp- path exists
    blob,       \* the inode under each key's final name
    meta,       \* the download that wrote each key's .meta
    lost,       \* the inodes whose tail a failing close(2) gave up
    rq,         \* the request goroutines
    cancelled,  \* requests whose context is done
    waking,     \* requests whose context.AfterFunc callback has been started
    cur         \* the key whose blob the evictor removed and whose .meta it has not

memory == <<inflight, entry, sem>>
disk == <<tmp, blob, meta, lost>>
contexts == <<cancelled, waking>>
vars == <<memory, dl, disk, rq, contexts, cur>>

Opt(S) == S \cup {NoOne}

Errors == {"nil", "upstream", "disk"}
Entries == [tmpFile: BOOLEAN, headersReady: BOOLEAN, size: Nat, done: BOOLEAN, err: Errors]
newCacheEntry == [tmpFile |-> FALSE, headersReady |-> FALSE, size |-> 0, done |-> FALSE,
                  err |-> "nil"]

\* Where a download goroutine is.  Before "settle" it produces the file, from
\* "settle" on it runs the deferred teardown; "dead" was killed with the process.
Producing == {"fetch", "body", "flush", "last", "rename", "meta", "rollback"}
Teardown == {"settle", "unlist", "release"}
Downloads == [pc: Producing \cup Teardown \cup {"none", "end", "dead"},
              body: Nat, zip: BOOLEAN, written: Nat, complete: BOOLEAN, err: Errors]
NoDownload == [pc |-> "none", body |-> 0, zip |-> FALSE, written |-> 0, complete |-> FALSE,
               err |-> "nil"]

\* Where a request is: openCached (three file system calls, called a second time
\* by follow) and the sending of what it found, Serve's critical section, follow and
\* entryReader.Read.
PreEntry == {"idle", "openBlob", "send", "rmMeta", "enter", "reopen"}
Following == {"check", "parking", "parked", "stream"}
Results == {"none", "ok", "busy", "ctx", "io", "noheaders", "unpublished", "killed"} \cup Errors
Handlers == [pc: PreEntry \cup Following \cup {"end"}, e: Opt(Requests), m: Opt(Requests),
             fd: Opt(Requests), got: Nat, res: Results]
NoHandler == [pc |-> "idle", e |-> NoOne, m |-> NoOne, fd |-> NoOne, got |-> 0, res |-> "none"]

\* The size of the stored stream once complete: compression on ingest appends a
\* gzip footer after the last byte of the body.
FullSize(d) == dl[d].body + (IF dl[d].zip THEN 1 ELSE 0)

Live(d) == dl[d].pc \in Producing \cup Teardown
Downloading == {d \in Requests : Live(d)}

Init ==
    /\ inflight = [k \in Keys |-> NoOne]
    /\ entry = [r \in Requests |-> newCacheEntry]
    /\ sem = 0
    /\ dl = [r \in Requests |-> NoDownload]
    /\ tmp = {}
    /\ blob = [k \in Keys |-> NoOne]
    /\ meta = [k \in Keys |-> NoOne]
    /\ lost = {}
    /\ rq = [r \in Requests |-> NoHandler]
    /\ cancelled = {}
    /\ waking = {}
    /\ cur = NoKey

-----------------------------------------------------------------------------
(* e.mu and its condition variable.  Every critical section is one action, *)
(* except the one that ends in cond.Wait: a waiter tests its predicate     *)
(* ("parking", holding the mutex) and then queues itself and unlocks       *)
(* ("parked").  A broadcast reaches only the waiters already queued.       *)

MuFree(e) == \A r \in Requests : ~(rq[r].pc = "parking" /\ rq[r].e = e)

\* A woken waiter goes back to the head of its wait loop, in follow while it has
\* no descriptor and in Read afterwards.
ResumeAt(r) == IF rq[r].fd = NoOne THEN "check" ELSE "stream"

NoBroadcast(e) == rq

Broadcast(e) ==
    [r \in Requests |-> IF rq[r].pc = "parked" /\ rq[r].e = e
                        THEN [rq[r] EXCEPT !.pc = ResumeAt(r)]
                        ELSE rq[r]]

SpinUnderMutex(r) == FALSE

Park(r) ==
    /\ rq[r].pc = "parking"
    /\ rq' = [rq EXCEPT ![r].pc = "parked"]
    /\ UNCHANGED <<memory, dl, disk, contexts, cur>>

\* The client goes away.  If follow has registered its callback it is started.
Cancel(r) ==
    /\ "disconnect" \in Faults
    /\ rq[r].pc \notin {"idle", "end"}
    /\ r \notin cancelled
    /\ cancelled' = cancelled \cup {r}
    /\ waking' = IF rq[r].e # NoOne THEN waking \cup {r} ELSE waking
    /\ UNCHANGED <<memory, dl, disk, rq, cur>>

CallbackIgnoresMutex(r) == TRUE

CallbackMayRun(r) == MuFree(rq[r].e)

WakeFollower(r) ==
    /\ r \in waking
    /\ CallbackMayRun(r)
    /\ waking' = waking \ {r}
    /\ rq' = Broadcast(rq[r].e)
    /\ UNCHANGED <<memory, dl, disk, cancelled, cur>>

-----------------------------------------------------------------------------
(* openCached and Serve.                                                   *)

Ended(r, res) == [rq EXCEPT ![r].pc = "end", ![r].res = res]

\* openCached answers "not there": Serve goes on to the in-flight table, follow
\* gives up with "was not published; retry".
Missed(r) ==
    [IF rq[r].e = NoOne THEN [rq EXCEPT ![r].pc = "enter"] ELSE Ended(r, "unpublished")
     EXCEPT ![r].m = NoOne]

\* Any of the reads may also fail for a reason that says nothing about the file
\* (EMFILE, EIO, a .meta that does not parse): discard, which is a miss.
ReadMeta(r) ==
    /\ \/ /\ meta[KeyOf[r]] # NoOne
          /\ rq' = [rq EXCEPT ![r].pc = "openBlob", ![r].m = meta[KeyOf[r]]]
       \/ (meta[KeyOf[r]] = NoOne \/ "read" \in Faults) /\ rq' = Missed(r)
    /\ UNCHANGED <<memory, dl, disk, contexts, cur>>

Arrive(r) == rq[r].pc = "idle" /\ ReadMeta(r)
Reopen(r) == rq[r].pc = "reopen" /\ ReadMeta(r)

AnySize(r, d) == TRUE

\* st.Size() = meta.Size.
SizeMatches(r, d) == dl[d].written = FullSize(rq[r].m)

OpenBlob(r) ==
    LET d == blob[KeyOf[r]] IN
    /\ rq[r].pc = "openBlob"
    /\ \/ d = NoOne /\ rq' = [rq EXCEPT ![r].pc = "rmMeta"]
       \/ /\ d # NoOne /\ SizeMatches(r, d)
          /\ rq' = [rq EXCEPT ![r].pc = "send", ![r].fd = d]
       \/ d # NoOne /\ (~SizeMatches(r, d) \/ "read" \in Faults) /\ rq' = Missed(r)
    /\ UNCHANGED <<memory, dl, disk, contexts, cur>>

\* writeBody of a hit: all that the open file has, unless a read fails or the client
\* is gone.
SendBlob(r) ==
    /\ rq[r].pc = "send"
    /\ \/ rq' = [Ended(r, "ok") EXCEPT ![r].got = dl[rq[r].fd].written]
       \/ r \in cancelled /\ rq' = Ended(r, "ctx")
       \/ "read" \in Faults /\ rq' = Ended(r, "io")
    /\ UNCHANGED <<memory, dl, disk, contexts, cur>>

RemoveOrphanMeta(r) ==
    /\ rq[r].pc = "rmMeta"
    /\ meta' = [meta EXCEPT ![KeyOf[r]] = NoOne]
    /\ rq' = Missed(r)
    /\ UNCHANGED <<memory, dl, tmp, blob, lost, contexts, cur>>

Joinable(k) == inflight[k] # NoOne /\ ~entry[inflight[k]].done

\* Serve's critical section under c.mu, and follow's AfterFunc registration: with
\* a context already done the callback starts at once.
Follows(r, e) ==
    /\ rq' = [rq EXCEPT ![r].pc = "check", ![r].e = e]
    /\ waking' = IF r \in cancelled THEN waking \cup {r} ELSE waking

Join(r) ==
    /\ rq[r].pc = "enter"
    /\ Joinable(KeyOf[r])
    /\ MuFree(inflight[KeyOf[r]])
    /\ Follows(r, inflight[KeyOf[r]])
    /\ UNCHANGED <<memory, dl, disk, cancelled, cur>>

AnySlot == TRUE
SlotFree == sem < MaxDownloads

SlotNotTaken == sem
SlotTaken == sem + 1

Lead(r) ==
    LET k == KeyOf[r] IN
    /\ rq[r].pc = "enter"
    /\ ~Joinable(k)
    /\ SlotFree
    /\ sem' = SlotTaken
    /\ inflight' = [inflight EXCEPT ![k] = r]
    /\ entry' = [entry EXCEPT ![r] = newCacheEntry]
    /\ dl' = [dl EXCEPT ![r].pc = "fetch"]
    /\ Follows(r, r)
    /\ UNCHANGED <<disk, cancelled, cur>>

Busy(r) ==
    /\ rq[r].pc = "enter"
    /\ ~Joinable(KeyOf[r])
    /\ ~SlotFree
    /\ rq' = Ended(r, "busy")
    /\ UNCHANGED <<memory, dl, disk, contexts, cur>>

-----------------------------------------------------------------------------
(* follow and entryReader.Read.                                            *)

\* follow's wait for headers and what it does once the wait is over: the error, a
\* download that ended without headers, a dup of the leader's descriptor, or the
\* published blob when the descriptor is already gone.  The dup may fail (EMFILE).
Check(r) ==
    LET e == entry[rq[r].e] IN
    /\ rq[r].pc = "check"
    /\ MuFree(rq[r].e)
    /\ \/ rq' = IF ~e.headersReady /\ ~e.done /\ r \notin cancelled
                THEN [rq EXCEPT ![r].pc = "parking"]
                ELSE IF e.err # "nil" THEN Ended(r, e.err)
                ELSE IF ~e.headersReady
                THEN Ended(r, IF r \in cancelled THEN "ctx" ELSE "noheaders")
                ELSE IF e.tmpFile THEN [rq EXCEPT ![r].pc = "stream", ![r].fd = rq[r].e]
                ELSE [rq EXCEPT ![r].pc = "reopen"]
       \/ /\ "read" \in Faults /\ e.tmpFile /\ e.headersReady /\ e.err = "nil"
          /\ rq' = Ended(r, "io")
    /\ UNCHANGED <<memory, dl, disk, contexts, cur>>

\* One pread of a published range, written to the client.  A file that ends before the
\* announced size once the download is over is io.ErrUnexpectedEOF; while it runs its
\* bytes are always ahead of the size.
ReadChunk(r) ==
    LET e == entry[rq[r].e] IN
    /\ rq[r].pc = "stream"
    /\ MuFree(rq[r].e)
    /\ e.size > rq[r].got
    /\ \/ \E n \in rq[r].got + 1 .. e.size :
             n <= dl[rq[r].e].written /\ rq' = [rq EXCEPT ![r].got = n]
       \/ /\ dl[rq[r].e].written <= rq[r].got
          /\ rq' = Ended(r, IF e.err # "nil" THEN e.err ELSE "io")
       \/ r \in cancelled /\ rq' = Ended(r, "ctx")
       \/ "read" \in Faults /\ rq' = Ended(r, "io")
    /\ UNCHANGED <<memory, dl, disk, contexts, cur>>

\* Read has caught up with the leader: it waits, or it ends the body.
CatchUp(r) ==
    LET e == entry[rq[r].e] IN
    /\ rq[r].pc = "stream"
    /\ MuFree(rq[r].e)
    /\ e.size <= rq[r].got
    /\ rq' = IF r \in cancelled THEN Ended(r, "ctx")
             ELSE IF ~e.done THEN [rq EXCEPT ![r].pc = "parking"]
             ELSE Ended(r, IF e.err # "nil" THEN e.err ELSE "ok")
    /\ UNCHANGED <<memory, dl, disk, contexts, cur>>

-----------------------------------------------------------------------------
(* download.                                                               *)

FailWith(r, err) ==
    /\ dl' = [dl EXCEPT ![r].pc = "settle", ![r].err = err]
    /\ UNCHANGED <<memory, disk, rq, contexts, cur>>

\* The upstream says there is no such file, or cannot be reached.
FetchError(r) == dl[r].pc = "fetch" /\ FailWith(r, "upstream")

\* The upstream answers, the temporary file is created, and the headers and the
\* descriptor are published together.
Fetch(r) ==
    /\ dl[r].pc = "fetch"
    /\ MuFree(r)
    /\ \E b \in Bodies : dl' = [dl EXCEPT ![r].pc = "body", ![r].body = b[1], ![r].zip = b[2]]
    /\ tmp' = tmp \cup {r}
    /\ entry' = [entry EXCEPT ![r].tmpFile = TRUE, ![r].headersReady = TRUE]
    /\ rq' = Broadcast(r)
    /\ UNCHANGED <<inflight, sem, blob, meta, lost, contexts, cur>>

\* The read loop: bytes reach the file before their size is published.
WriteChunk(r) ==
    /\ dl[r].pc = "body"
    /\ \E n \in dl[r].written + 1 .. dl[r].body :
          dl' = [dl EXCEPT ![r].pc = "flush", ![r].written = n]
    /\ UNCHANGED <<memory, disk, rq, contexts, cur>>

WithoutFooter(r) == dl[r].body
WithFooter(r) == FullSize(r)

\* io.EOF: zw.Close appends the footer, if there is one.
EndOfBody(r) ==
    /\ dl[r].pc = "body"
    /\ dl[r].written = dl[r].body
    /\ dl' = [dl EXCEPT ![r].pc = "last", ![r].written = WithFooter(r)]
    /\ UNCHANGED <<memory, disk, rq, contexts, cur>>

\* The upstream breaks off, or the 30 minutes of cacheFetchTimeout are over.
BreakOff(r) == dl[r].pc = "body" /\ FailWith(r, "upstream")

DiskError(r) ==
    /\ "disk" \in Faults
    /\ dl[r].pc \in {"fetch", "body", "flush", "last", "rename"}
    /\ FailWith(r, "disk")

\* publishSize; after the last one the body is complete.
PublishSize(r) ==
    /\ dl[r].pc \in {"flush", "last"}
    /\ MuFree(r)
    /\ entry' = [entry EXCEPT ![r].size = dl[r].written]
    /\ rq' = Broadcast(r)
    /\ dl' = IF dl[r].pc = "flush"
             THEN [dl EXCEPT ![r].pc = "body"]
             ELSE [dl EXCEPT ![r].pc = "rename", ![r].complete = TRUE]
    /\ UNCHANGED <<inflight, sem, disk, contexts, cur>>

Rename(r) ==
    /\ dl[r].pc = "rename"
    /\ blob' = [blob EXCEPT ![KeyOf[r]] = r]
    /\ tmp' = tmp \ {r}
    /\ dl' = [dl EXCEPT ![r].pc = "meta"]
    /\ UNCHANGED <<memory, meta, lost, rq, contexts, cur>>

\* writeFileAtomic of the .meta; its failure rolls the blob back.
WriteMeta(r) ==
    /\ dl[r].pc = "meta"
    /\ \/ meta' = [meta EXCEPT ![KeyOf[r]] = r] /\ dl' = [dl EXCEPT ![r].pc = "settle"]
       \/ "meta" \in Faults /\ meta' = meta /\ dl' = [dl EXCEPT ![r].pc = "rollback", ![r].err = "disk"]
    /\ UNCHANGED <<memory, tmp, blob, lost, rq, contexts, cur>>

RollBack(r) ==
    /\ dl[r].pc = "rollback"
    /\ blob' = [blob EXCEPT ![KeyOf[r]] = NoOne]
    /\ dl' = [dl EXCEPT ![r].pc = "settle"]
    /\ UNCHANGED <<memory, tmp, meta, lost, rq, contexts, cur>>

\* The teardown defer, in its order: publish the outcome ...
ErrorAfterBodyToo(r) == dl[r].err

\* An error after a complete body concerns only the cache, never the clients.
Outcome(r) == IF dl[r].complete THEN "nil" ELSE dl[r].err

Settle(r) ==
    /\ dl[r].pc = "settle"
    /\ MuFree(r)
    /\ entry' = [entry EXCEPT ![r].tmpFile = FALSE, ![r].done = TRUE, ![r].err = Outcome(r)]
    /\ rq' = Broadcast(r)
    /\ dl' = [dl EXCEPT ![r].pc = "unlist"]
    /\ UNCHANGED <<inflight, sem, disk, contexts, cur>>

DeleteAlways(r) == [inflight EXCEPT ![KeyOf[r]] = NoOne]

\* ... take the entry out of the table, but only its own ...
DeleteOwn(r) ==
    [inflight EXCEPT ![KeyOf[r]] = IF inflight[KeyOf[r]] = r THEN NoOne ELSE inflight[KeyOf[r]]]

Unlist(r) ==
    /\ dl[r].pc = "unlist"
    /\ inflight' = DeleteOwn(r)
    /\ dl' = [dl EXCEPT ![r].pc = "release"]
    /\ UNCHANGED <<entry, sem, disk, rq, contexts, cur>>

\* ... close and remove the temporary file unless the rename took it away, and give
\* the slot back (the defer registered first runs last).  Without an fsync close(2) is
\* where a write that failed late comes out: the tail of the file is gone, at the old
\* length or at a shorter one, and all the code does is log it.
TailKept(r) == dl' = [dl EXCEPT ![r].pc = "end"] /\ lost' = lost

TailLost(r) ==
    /\ "close" \in Faults /\ dl[r].complete /\ dl[r].written > 0
    /\ \E n \in 0 .. dl[r].written : dl' = [dl EXCEPT ![r].pc = "end", ![r].written = n]
    /\ lost' = lost \cup {r}

Release(r) ==
    /\ dl[r].pc = "release"
    /\ TailKept(r) \/ TailLost(r)
    /\ tmp' = tmp \ {r}
    /\ sem' = sem - 1
    /\ UNCHANGED <<inflight, entry, blob, meta, rq, contexts, cur>>

-----------------------------------------------------------------------------
(* EvictLoop and the operator.                                             *)

NothingAbandoned == {}
Abandoned == {r \in tmp : ~Live(r)}

\* The walk removes the temporary files older than cacheFetchTimeout, which no live
\* download can have.
SweepTemps(old) ==
    /\ "evict" \in Faults
    /\ cur = NoKey
    /\ old # {} /\ old \subseteq Abandoned
    /\ tmp' = tmp \ old
    /\ UNCHANGED <<memory, dl, blob, meta, lost, rq, contexts, cur>>

\* Over budget: os.Remove of a blob the walk listed.  What the list says is stale by
\* now, so the file removed is whichever has the name; one that has gone already is
\* skipped together with its .meta.  Which blobs are listed, and in which order, is
\* the subject of CacheEviction.
EvictBlob(k) ==
    /\ "evict" \in Faults
    /\ cur = NoKey /\ blob[k] # NoOne
    /\ blob' = [blob EXCEPT ![k] = NoOne]
    /\ cur' = k
    /\ UNCHANGED <<memory, dl, tmp, meta, lost, rq, contexts>>

EvictMeta ==
    /\ cur # NoKey
    /\ meta' = [meta EXCEPT ![cur] = NoOne]
    /\ cur' = NoKey
    /\ UNCHANGED <<memory, dl, tmp, blob, lost, rq, contexts>>

\* SIGKILL (docker rm -f) and a restart on the same directory.
Crash ==
    /\ "kill" \in Faults
    /\ inflight' = [k \in Keys |-> NoOne]
    /\ entry' = [r \in Requests |-> newCacheEntry]
    /\ sem' = 0
    /\ dl' = [r \in Requests |-> IF Live(r) THEN [dl[r] EXCEPT !.pc = "dead"] ELSE dl[r]]
    /\ rq' = [r \in Requests |-> IF rq[r].pc \in {"idle", "end"} THEN rq[r]
                                 ELSE [rq[r] EXCEPT !.pc = "end", !.res = "killed"]]
    /\ cancelled' = {}
    /\ waking' = {}
    /\ cur' = NoKey
    /\ UNCHANGED disk

-----------------------------------------------------------------------------
RequestStep(r) ==
    \/ Reopen(r) \/ OpenBlob(r) \/ SendBlob(r) \/ RemoveOrphanMeta(r)
    \/ Join(r) \/ Lead(r) \/ Busy(r) \/ Check(r) \/ Park(r) \/ ReadChunk(r) \/ CatchUp(r)

DownloadStep(r) ==
    \/ FetchError(r) \/ Fetch(r) \/ WriteChunk(r) \/ EndOfBody(r) \/ BreakOff(r) \/ DiskError(r)
    \/ PublishSize(r) \/ Rename(r) \/ WriteMeta(r) \/ RollBack(r)
    \/ Settle(r) \/ Unlist(r) \/ Release(r)

EvictStep ==
    \/ \E old \in SUBSET tmp : SweepTemps(old)
    \/ \E k \in Keys : EvictBlob(k)
    \/ EvictMeta

Next ==
    \/ \E r \in Requests : Arrive(r) \/ RequestStep(r) \/ DownloadStep(r)
                           \/ Cancel(r) \/ WakeFollower(r)
    \/ EvictStep
    \/ Crash

Spec == Init /\ [][Next]_vars

(* Goroutines are scheduled, file system calls return, clients are cut off *)
(* by the server's WriteTimeout and fetches by cacheFetchTimeout, so every *)
(* enabled step of a started request or download is eventually taken.      *)
(* Nobody has to arrive, to disconnect or to crash.                        *)
RequestFairness == \A r \in Requests : WF_vars(RequestStep(r)) /\ WF_vars(WakeFollower(r))
DownloadFairness == \A r \in Requests : WF_vars(DownloadStep(r))

(* EvictLoop runs for ever, and a walk made late enough finds every        *)
(* abandoned file past the age threshold.                                  *)
EvictorFairness ==
    /\ WF_vars(EvictMeta)
    /\ \A r \in Requests : SF_vars(\E old \in SUBSET tmp : r \in old /\ SweepTemps(old))

FairSpec == Spec /\ RequestFairness /\ DownloadFairness /\ EvictorFairness

\* Upstreams and the disk may hang for as long as they like.
StalledSpec == Spec /\ RequestFairness

-----------------------------------------------------------------------------
(* Properties.                                                             *)

TypeOK ==
    /\ inflight \in [Keys -> Opt(Requests)]
    /\ entry \in [Requests -> Entries]
    /\ sem \in Nat
    /\ dl \in [Requests -> Downloads]
    /\ tmp \subseteq Requests
    /\ blob \in [Keys -> Opt(Requests)]
    /\ meta \in [Keys -> Opt(Requests)]
    /\ lost \subseteq Requests
    /\ rq \in [Requests -> Handlers]
    /\ cancelled \subseteq Requests
    /\ waking \subseteq Requests
    /\ cur \in Keys \cup {NoKey}

\* A client whose response ends cleanly has received every byte of one complete
\* download of its own key, and on a hit exactly as many as content-length (the .meta's
\* size) announced: Serve never turns a broken, overtaken or half-published
\* file into a 200 with incomplete content, and never "ends without headers".  The one
\* exception, in the code too, is the file whose close(2) failed.
NoTruncated200 ==
    \A r \in Requests :
        /\ rq[r].res = "ok" =>
              /\ rq[r].fd # NoOne
              /\ KeyOf[rq[r].fd] = KeyOf[r]
              /\ dl[rq[r].fd].complete
              /\ \/ rq[r].fd \in lost
                 \/ /\ rq[r].got = FullSize(rq[r].fd)
                    /\ rq[r].m # NoOne => rq[r].got = FullSize(rq[r].m)
        /\ rq[r].res # "noheaders"

\* Under its final name the cache holds only files written to their last byte: a
\* broken download never enters it, whoever is still following and whatever fails.
\* Bytes are missing only after the download is over, and only where close(2) of that
\* very file failed.
PublishedIsWhole ==
    \A k \in Keys : blob[k] # NoOne =>
        /\ KeyOf[blob[k]] = k
        /\ dl[blob[k]].complete
        /\ \/ dl[blob[k]].written = FullSize(blob[k]) /\ blob[k] \notin lost
           \/ blob[k] \in lost /\ dl[blob[k]].pc = "end"


\* Coalescing: as long as a download of a key has not published its outcome no second
\* one of that key is started, even while torn-down predecessors are still cleaning up.
OneProducerPerKey ==
    \A r, s \in Requests :
        /\ KeyOf[r] = KeyOf[s]
        /\ dl[r].pc \in Producing \cup {"settle"}
        /\ dl[s].pc \in Producing \cup {"settle"}
        => r = s

\* Every taken slot belongs to exactly one download that will give it back, and
\* there are never more than maxConcurrentDownloads.
SlotsAccounted ==
    /\ sem = Cardinality(Downloading)
    /\ sem <= MaxDownloads

\* The rollback of a failed publication removes the blob that very download put there
\* (or none, if the evictor was faster), never a successor's.
RollBackRemovesOwn ==
    \A r \in Requests : dl[r].pc = "rollback" => blob[KeyOf[r]] \in {r, NoOne}

\* A follower that holds a descriptor onto a file whose body arrived completely is not
\* failed by what happens afterwards to the cache entry (rename, .meta or close errors).
CompleteBodyNeverFails ==
    \A r \in Requests :
        rq[r].res \in Errors \ {"nil"} /\ rq[r].fd # NoOne => ~dl[rq[r].fd].complete

\* Every request that arrives is answered: no follower stays parked on the condition
\* variable after the download has ended, was replaced, or lost its entry.
RequestsTerminate == \A r \in Requests : rq[r].pc # "idle" ~> rq[r].pc = "end"

\* Every download slot comes back, so the cache cannot stay bypassed for ever.
SlotsReturn == \A r \in Requests : Live(r) ~> ~Live(r)

\* Every .tmp- file goes away: renamed, removed by the teardown, or - left by a killed
\* process - swept by the evictor.
TempsSwept == \A r \in Requests : r \in tmp ~> r \notin tmp

\* A client that disconnects releases its goroutine even if the download it follows
\* never makes another step: the AfterFunc wake-up is never lost.
CancelledLeaves == \A r \in Requests : r \in cancelled ~> rq[r].pc = "end"
=============================================================================
