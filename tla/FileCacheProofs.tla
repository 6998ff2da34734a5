--------------------------- MODULE FileCacheProofs ---------------------------
(***************************************************************************)
(* Proofs that the file cache's safety properties hold for every set of    *)
(* requests, keys and upstream bodies and every number of slots.           *)
(*                                                                         *)
(* The inductive invariant IInv says, besides types and slots: which       *)
(* download is listed under a key (Listing), how far each download has got *)
(* and what its entry promises (Producers), what each request's locals     *)
(* hold and have read (Handling), what the directory holds (Directory),    *)
(* and which files may lack bytes (Tails).  A request step changes one handler, a download step one   *)
(* download and its entry: RequestMove and DownloadMove say what such a    *)
(* step has to respect, and each action is then checked against them.      *)
(***************************************************************************)
EXTENDS FileCache, FiniteSetTheorems, TLAPS

Unsettled(g) == g.pc \in Producing \cup {"settle"}
Settled(g) == g.pc \in {"unlist", "release", "end", "dead"}
Full(g) == g.body + (IF g.zip THEN 1 ELSE 0)

\* What a request's local variables hold at each of its program points.
LocalOK(h) ==
    /\ h.pc \in {"idle", "enter"} => h.e = NoOne
    /\ h.pc \in Following \cup {"reopen"} => h.e # NoOne
    /\ h.pc \notin {"openBlob", "send", "rmMeta", "end"} => h.m = NoOne
    /\ h.pc \in {"idle", "openBlob", "rmMeta", "enter", "check", "reopen"} => h.fd = NoOne
    /\ h.pc \in {"send", "stream"} => h.fd # NoOne
    /\ h.fd = NoOne => h.got = 0
    /\ h.pc # "end" => h.res = "none"

\* Whom a request follows, and that it leads at most one download.
LinkOK(r, h) ==
    /\ h.e = NoOne => dl[r].pc = "none"
    /\ h.e # NoOne => KeyOf[h.e] = KeyOf[r] /\ dl[h.e].pc # "none"
    /\ h.pc \in Following => dl[h.e].pc # "dead"

\* What a request has read was published, and what it ended with is what it read.
ReadOK(r, h) ==
    /\ h.pc \in Following /\ h.fd # NoOne => h.fd = h.e /\ h.got <= entry[h.e].size
    /\ h.m # NoOne => dl[h.m].complete
    /\ h.pc = "send" =>
          /\ KeyOf[h.fd] = KeyOf[r] /\ dl[h.fd].complete
          /\ h.fd \in lost \/ (h.m # NoOne => Full(dl[h.fd]) = Full(dl[h.m]))
    /\ h.res = "ok" =>
          /\ h.fd # NoOne /\ KeyOf[h.fd] = KeyOf[r] /\ dl[h.fd].complete
          /\ \/ h.fd \in lost
             \/ h.got = Full(dl[h.fd]) /\ (h.m # NoOne => h.got = Full(dl[h.m]))
    /\ h.res # "noheaders"
    /\ h.res \in Errors \ {"nil"} /\ h.fd # NoOne => Settled(dl[h.fd]) /\ ~dl[h.fd].complete

Handling == \A r \in Requests : LocalOK(rq[r]) /\ LinkOK(r, rq[r]) /\ ReadOK(r, rq[r])

\* How far a download has got, by its program point.
PipelineOK(g) ==
    /\ g.complete /\ g.pc # "end" => g.written = Full(g)
    /\ g.pc \in {"none", "fetch", "body", "flush", "last"} => ~g.complete
    /\ g.pc = "last" => g.written = Full(g)
    /\ g.pc \in {"rename", "meta", "rollback"} => g.complete
    /\ g.pc = "settle" /\ g.err = "nil" => g.complete

\* What its entry promises the followers about the file.
PromiseOK(g, e) ==
    /\ Unsettled(g) => ~e.done /\ e.size <= g.written
    /\ Unsettled(g) /\ g.complete => e.size = g.written /\ e.headersReady
    /\ g.pc \in {"body", "flush", "last"} => e.headersReady
    /\ e.done => Settled(g)
    /\ e.done /\ e.err = "nil" => g.complete /\ e.headersReady /\ e.size = Full(g)
    /\ e.err # "nil" => e.done /\ ~g.complete

Producers == \A d \in Requests : PipelineOK(dl[d]) /\ PromiseOK(dl[d], entry[d])

\* A download that has not published its outcome is the one listed under its key.
Listing ==
    /\ \A d \in Requests : Unsettled(dl[d]) => inflight[KeyOf[d]] = d
    /\ \A k \in Keys : inflight[k] # NoOne =>
          KeyOf[inflight[k]] = k /\ dl[inflight[k]].pc \notin {"none", "dead"}

\* What the cache directory holds.
Directory ==
    /\ \A k \in Keys : blob[k] # NoOne => KeyOf[blob[k]] = k /\ dl[blob[k]].complete
    /\ \A k \in Keys : meta[k] # NoOne => dl[meta[k]].complete
    /\ \A d \in Requests : dl[d].pc \in {"meta", "rollback"} => blob[KeyOf[d]] \in {d, NoOne}

\* A complete file lacks bytes only when its closing, the last thing its download did,
\* failed.
Tails == \A d \in Requests :
    IF d \in lost THEN dl[d].pc = "end" ELSE dl[d].complete => dl[d].written = Full(dl[d])

IInv ==
    /\ TypeOK
    /\ Handling
    /\ Producers
    /\ Listing
    /\ Directory
    /\ Tails
    /\ SlotsAccounted

-----------------------------------------------------------------------------
\* A step that changes one handler, and may delete .meta files, keeps the invariant if
\* the new handler is sound.
LEMMA RequestMove ==
    ASSUME IInv, NEW r \in Requests, NEW h \in Handlers,
           rq' = [rq EXCEPT ![r] = h],
           UNCHANGED <<memory, dl, tmp, blob, lost, cur>>,
           meta' \in [Keys -> Opt(Requests)], \A k \in Keys : meta'[k] \in {meta[k], NoOne},
           cancelled' \subseteq Requests, waking' \subseteq Requests,
           LocalOK(h), LinkOK(r, h), ReadOK(r, h)
    PROVE  IInv'
<1>1. TypeOK'
  BY DEF IInv, TypeOK, memory
<1>2. Handling'
  BY DEF IInv, TypeOK, memory, Handling, LinkOK, ReadOK
<1>3. Producers' /\ Listing'
  BY DEF IInv, memory, Producers, Listing
<1>4. Directory' /\ Tails'
  BY DEF IInv, Directory, Tails
<1>5. SlotsAccounted'
  BY DEF IInv, memory, SlotsAccounted, Downloading, Live
<1> QED
  BY <1>1, <1>2, <1>3, <1>4, <1>5 DEF IInv

\* The handlers before and after a broadcast.
SameReader(h, i) ==
    /\ i.e = h.e /\ i.m = h.m /\ i.fd = h.fd /\ i.got = h.got /\ i.res = h.res
    /\ i.pc = h.pc \/ (h.pc \in Following /\ i.pc \in Following)

\* Broadcast only moves parked handlers back to the head of their wait loop.
LEMMA BroadcastMoves ==
    ASSUME IInv, NEW d \in Requests, rq' = Broadcast(d)
    PROVE  /\ rq' \in [Requests -> Handlers]
           /\ \A r \in Requests : SameReader(rq[r], rq'[r]) /\ LocalOK(rq'[r])
<1>1. rq' \in [Requests -> Handlers]
  BY DEF IInv, TypeOK, Handlers, Following, Broadcast, ResumeAt
<1>2. ASSUME NEW r \in Requests
      PROVE  SameReader(rq[r], rq'[r]) /\ LocalOK(rq'[r])
  <2>1. LocalOK(rq[r]) /\ rq[r] \in Handlers
    BY DEF IInv, TypeOK, Handling
  <2>2. rq'[r] = rq[r] \/ (rq[r].pc = "parked" /\ rq'[r] = [rq[r] EXCEPT !.pc = ResumeAt(r)])
    BY DEF Broadcast
  <2>3. CASE rq'[r] = rq[r]
    <3>1. SameReader(rq[r], rq'[r])
      BY <2>3 DEF SameReader
    <3>2. LocalOK(rq'[r])
      BY <2>1, <2>3, Zenon
    <3> QED
      BY <3>1, <3>2
  <2>4. CASE rq[r].pc = "parked" /\ rq'[r] = [rq[r] EXCEPT !.pc = ResumeAt(r)]
    <3>1. rq'[r].pc = ResumeAt(r) /\ SameReader(rq[r], rq'[r])
      BY <2>1, <2>4 DEF SameReader, Handlers, Following, ResumeAt
    <3> QED
      BY <2>1, <2>4, <3>1 DEF LocalOK, SameReader, Following, ResumeAt
  <2> QED
    BY <2>2, <2>3, <2>4
<1> QED
  BY <1>1, <1>2

\* A step of a live download, which may wake its followers, keeps handlers and downloads
\* sound if the new download record and entry are, and nothing already promised is taken back.
LEMMA DownloadMove ==
    ASSUME IInv, NEW r \in Requests, NEW g \in Downloads, NEW e \in Entries,
           dl' = [dl EXCEPT ![r] = g], entry' = [entry EXCEPT ![r] = e],
           rq' \in [Requests -> Handlers],
           \A x \in Requests : SameReader(rq[x], rq'[x]) /\ LocalOK(rq'[x]),
           dl[r].pc \notin {"none", "dead"}, g.pc \notin {"none", "dead"},
           PipelineOK(g), PromiseOK(g, e),
           dl[r].complete => g.complete /\ g.body = dl[r].body /\ g.zip = dl[r].zip,
           Settled(dl[r]) => Settled(g) /\ g.complete = dl[r].complete,
           entry[r].size <= e.size, lost \subseteq lost'
    PROVE  Handling' /\ Producers'
<1>1. Producers'
  BY DEF IInv, TypeOK, Producers
<1>2. ASSUME NEW x \in Requests
      PROVE  LinkOK(x, rq[x])'
  <2>1. LinkOK(x, rq[x]) /\ rq[x] \in Handlers /\ SameReader(rq[x], rq'[x])
    BY DEF IInv, TypeOK, Handling
  <2> QED
    BY <2>1, RequestsAssumption DEF IInv, TypeOK, LinkOK, SameReader, Handlers, Opt
<1>3. ASSUME NEW x \in Requests
      PROVE  ReadOK(x, rq[x])'
  <2>1. ReadOK(x, rq[x]) /\ rq[x] \in Handlers /\ SameReader(rq[x], rq'[x])
    BY DEF IInv, TypeOK, Handling
  <2>2. \A d \in Requests : dl[d].complete => dl'[d].complete /\ Full(dl'[d]) = Full(dl[d])
    BY DEF IInv, TypeOK, Full
  <2>3. \A d \in Requests : Settled(dl[d]) => Settled(dl'[d]) /\ dl'[d].complete = dl[d].complete
    BY DEF IInv, TypeOK
  <2>4. \A d \in Requests : entry[d].size \in Nat /\ entry'[d].size \in Nat
                            /\ entry[d].size <= entry'[d].size
    BY DEF IInv, TypeOK, Entries
  <2>5. rq[x].got \in Nat /\ rq[x].e \in Opt(Requests) /\ rq[x].m \in Opt(Requests)
        /\ rq[x].fd \in Opt(Requests)
    BY <2>1 DEF Handlers
  <2>6. rq[x].pc \in Following => rq[x].e # NoOne
    BY DEF IInv, Handling, LocalOK
  <2>7. rq'[x].pc = "send" => rq[x].pc = "send" /\ rq[x].fd # NoOne
    BY <2>1 DEF IInv, Handling, LocalOK, SameReader, Following
  <2>8. \A d \in Requests : d \in lost => d \in lost'
    OBVIOUS
  <2> DEFINE i == rq'[x]
  <2>9. /\ i.pc \in Following /\ i.fd # NoOne => i.fd = i.e /\ i.got <= entry'[i.e].size
        /\ i.m # NoOne => dl'[i.m].complete
        /\ i.res # "noheaders"
        /\ i.res \in Errors \ {"nil"} /\ i.fd # NoOne => Settled(dl'[i.fd]) /\ ~dl'[i.fd].complete
    BY <2>1, <2>2, <2>3, <2>4, <2>5, <2>6, <2>7, RequestsAssumption DEF ReadOK, SameReader, Opt
  <2>10. i.pc = "send" =>
           /\ KeyOf[i.fd] = KeyOf[x] /\ dl'[i.fd].complete
           /\ i.fd \in lost' \/ (i.m # NoOne => Full(dl'[i.fd]) = Full(dl'[i.m]))
    BY <2>1, <2>2, <2>5, <2>7, <2>8, RequestsAssumption DEF ReadOK, SameReader, Opt
  <2>11. i.res = "ok" =>
           /\ i.fd # NoOne /\ KeyOf[i.fd] = KeyOf[x] /\ dl'[i.fd].complete
           /\ \/ i.fd \in lost'
              \/ i.got = Full(dl'[i.fd]) /\ (i.m # NoOne => i.got = Full(dl'[i.m]))
    <3>1. i.res = rq[x].res /\ i.fd = rq[x].fd /\ i.m = rq[x].m /\ i.got = rq[x].got
      BY <2>1 DEF SameReader
    <3>2. rq[x].fd # NoOne => rq[x].fd \in Requests
      BY <2>5 DEF Opt
    <3>3. rq[x].m # NoOne => rq[x].m \in Requests /\ dl[rq[x].m].complete
      BY <2>1, <2>5 DEF ReadOK, Opt
    <3>4. rq[x].res = "ok" =>
            /\ rq[x].fd # NoOne /\ KeyOf[rq[x].fd] = KeyOf[x] /\ dl[rq[x].fd].complete
            /\ \/ rq[x].fd \in lost
               \/ rq[x].got = Full(dl[rq[x].fd]) /\ (rq[x].m # NoOne => rq[x].got = Full(dl[rq[x].m]))
      BY <2>1, Zenon DEF ReadOK
    <3> QED
      BY <2>2, <2>8, <3>1, <3>2, <3>3, <3>4, Zenon
  <2> QED
    BY <2>9, <2>10, <2>11, Zenon DEF ReadOK
<1> QED
  BY <1>1, <1>2, <1>3 DEF Handling

-----------------------------------------------------------------------------
(* Steps of a request.                                                     *)

\* openCached answering "not there" leaves a sound handler.
LEMMA MissedMoves ==
    ASSUME IInv, NEW r \in Requests, rq' = Missed(r),
           rq[r].pc \in {"idle", "openBlob", "rmMeta", "reopen"}
    PROVE  \E h \in Handlers : /\ rq' = [rq EXCEPT ![r] = h]
                               /\ LocalOK(h) /\ LinkOK(r, h) /\ ReadOK(r, h)
<1>1. rq[r] \in Handlers /\ LocalOK(rq[r]) /\ LinkOK(r, rq[r]) /\ ReadOK(r, rq[r])
  BY DEF IInv, TypeOK, Handling
<1> DEFINE h == IF rq[r].e = NoOne THEN [rq[r] EXCEPT !.pc = "enter", !.m = NoOne]
                ELSE [rq[r] EXCEPT !.pc = "end", !.res = "unpublished", !.m = NoOne]
<1>2. h \in Handlers
  BY <1>1 DEF Handlers, Opt, PreEntry, Results
<1>3. rq' = [rq EXCEPT ![r] = h]
  BY <1>1 DEF IInv, TypeOK, Handlers, Missed, Ended
<1>4. LocalOK(h) /\ LinkOK(r, h) /\ ReadOK(r, h)
  BY <1>1 DEF LocalOK, LinkOK, ReadOK, Handlers, Following, Errors
<1> QED
  BY <1>2, <1>3, <1>4

\* openCached's read of the .meta, hit or miss, keeps the invariant.
LEMMA ReadMetaStep ==
    ASSUME IInv, NEW r \in Requests, rq[r].pc \in {"idle", "reopen"}, ReadMeta(r)
    PROVE  IInv'
<1>1. rq[r] \in Handlers /\ LocalOK(rq[r]) /\ LinkOK(r, rq[r]) /\ ReadOK(r, rq[r])
  BY DEF IInv, TypeOK, Handling
<1>2. UNCHANGED <<memory, dl, disk, contexts, cur>>
  BY DEF ReadMeta
<1>3. \E h \in Handlers : /\ rq' = [rq EXCEPT ![r] = h]
                          /\ LocalOK(h) /\ LinkOK(r, h) /\ ReadOK(r, h)
  <2>1. CASE meta[KeyOf[r]] # NoOne /\ rq' = [rq EXCEPT ![r].pc = "openBlob", ![r].m = meta[KeyOf[r]]]
    <3> DEFINE h == [rq[r] EXCEPT !.pc = "openBlob", !.m = meta[KeyOf[r]]]
    <3>1. meta[KeyOf[r]] \in Requests /\ dl[meta[KeyOf[r]]].complete
      BY <2>1, KeysAssumption DEF IInv, TypeOK, Directory, Opt
    <3>2. h \in Handlers
      BY <1>1, <3>1 DEF Handlers, Opt, PreEntry
    <3>3. rq' = [rq EXCEPT ![r] = h]
      BY <2>1, <1>1 DEF IInv, TypeOK, Handlers
    <3>4. LocalOK(h) /\ LinkOK(r, h) /\ ReadOK(r, h)
      BY <1>1, <3>1 DEF LocalOK, LinkOK, ReadOK, Handlers, Following, Errors
    <3> QED
      BY <3>2, <3>3, <3>4
  <2>2. CASE rq' = Missed(r)
    BY <2>2, MissedMoves
  <2> QED
    BY <2>1, <2>2 DEF ReadMeta
<1>4. PICK h \in Handlers : /\ rq' = [rq EXCEPT ![r] = h]
                            /\ LocalOK(h) /\ LinkOK(r, h) /\ ReadOK(r, h)
  BY <1>3
<1> QED
  BY <1>2, <1>4, RequestMove DEF IInv, TypeOK, memory, disk, contexts

\* Ending a request without an answer of a download leaves a sound handler.
LEMMA EndedMoves ==
    ASSUME IInv, NEW r \in Requests, NEW res \in {"busy", "ctx", "io"}, rq' = Ended(r, res)
    PROVE  \E h \in Handlers : /\ rq' = [rq EXCEPT ![r] = h]
                               /\ LocalOK(h) /\ LinkOK(r, h) /\ ReadOK(r, h)
<1>1. rq[r] \in Handlers /\ LocalOK(rq[r]) /\ LinkOK(r, rq[r]) /\ ReadOK(r, rq[r])
  BY DEF IInv, TypeOK, Handling
<1> DEFINE h == [rq[r] EXCEPT !.pc = "end", !.res = res]
<1>2. h \in Handlers
  BY <1>1 DEF Handlers, Results
<1>3. rq' = [rq EXCEPT ![r] = h]
  BY <1>1 DEF IInv, TypeOK, Handlers, Ended
<1>4. LocalOK(h) /\ LinkOK(r, h) /\ ReadOK(r, h)
  BY <1>1 DEF LocalOK, LinkOK, ReadOK, Handlers, Following, Errors
<1> QED
  BY <1>2, <1>3, <1>4

\* Opening the blob of a .meta already read keeps it: a hit serves a whole file of this key.
LEMMA OpenBlobStep ==
    ASSUME IInv, NEW r \in Requests, OpenBlob(r)
    PROVE  IInv'
<1>1. rq[r] \in Handlers /\ LocalOK(rq[r]) /\ LinkOK(r, rq[r]) /\ ReadOK(r, rq[r])
  BY DEF IInv, TypeOK, Handling
<1>2. UNCHANGED <<memory, dl, disk, contexts, cur>> /\ rq[r].pc = "openBlob"
  BY DEF OpenBlob
<1> DEFINE d == blob[KeyOf[r]]
<1>3. \E h \in Handlers : /\ rq' = [rq EXCEPT ![r] = h]
                          /\ LocalOK(h) /\ LinkOK(r, h) /\ ReadOK(r, h)
  <2>1. CASE rq' = [rq EXCEPT ![r].pc = "rmMeta"]
    <3> DEFINE h == [rq[r] EXCEPT !.pc = "rmMeta"]
    <3>1. h \in Handlers
      BY <1>1 DEF Handlers, PreEntry
    <3>2. rq' = [rq EXCEPT ![r] = h]
      BY <2>1, <1>1 DEF IInv, TypeOK, Handlers
    <3>3. LocalOK(h) /\ LinkOK(r, h) /\ ReadOK(r, h)
      BY <1>1, <1>2 DEF LocalOK, LinkOK, ReadOK, Handlers, Following
    <3> QED
      BY <3>1, <3>2, <3>3
  <2>2. CASE /\ d # NoOne /\ SizeMatches(r, d)
             /\ rq' = [rq EXCEPT ![r].pc = "send", ![r].fd = d]
    <3> DEFINE h == [rq[r] EXCEPT !.pc = "send", !.fd = d]
    <3>1. d \in Requests /\ KeyOf[d] = KeyOf[r] /\ dl[d].complete
      BY <2>2, KeysAssumption DEF IInv, TypeOK, Directory, Opt
    <3>2. d \in lost \/ dl[d].written = Full(dl[d])
      BY <3>1 DEF IInv, Tails
    <3>3. dl[d].written = Full(dl[rq[r].m])
      BY <2>2 DEF SizeMatches, FullSize, Full
    <3>4. h \in Handlers
      BY <1>1, <3>1 DEF Handlers, Opt, PreEntry
    <3>5. rq' = [rq EXCEPT ![r] = h]
      BY <2>2, <1>1 DEF IInv, TypeOK, Handlers
    <3>6. LocalOK(h) /\ LinkOK(r, h)
      BY <1>1, <1>2, <3>1, RequestsAssumption DEF LocalOK, LinkOK, Handlers, Following
    <3>7. ReadOK(r, h)
      BY <1>1, <1>2, <3>1, <3>2, <3>3, RequestsAssumption DEF LocalOK, ReadOK, Handlers, Following, Errors
    <3> QED
      BY <3>4, <3>5, <3>6, <3>7
  <2>3. CASE rq' = Missed(r)
    BY <1>2, <2>3, MissedMoves
  <2> QED
    BY <2>1, <2>2, <2>3 DEF OpenBlob
<1>4. PICK h \in Handlers : /\ rq' = [rq EXCEPT ![r] = h]
                            /\ LocalOK(h) /\ LinkOK(r, h) /\ ReadOK(r, h)
  BY <1>3
<1> QED
  BY <1>2, <1>4, RequestMove DEF IInv, TypeOK, memory, disk, contexts

\* Sending a hit keeps it: the bytes are those of the file that was opened.
LEMMA SendBlobStep ==
    ASSUME IInv, NEW r \in Requests, SendBlob(r)
    PROVE  IInv'
<1> DEFINE d == rq[r].fd
           Sound(h) == LocalOK(h) /\ LinkOK(r, h) /\ ReadOK(r, h)
<1>1. rq[r] \in Handlers /\ Sound(rq[r]) /\ rq[r].pc = "send"
  BY DEF SendBlob, IInv, TypeOK, Handling
<1>2. d \in Requests /\ KeyOf[d] = KeyOf[r] /\ dl[d].complete
      /\ (d \in lost \/ (rq[r].m # NoOne => Full(dl[d]) = Full(dl[rq[r].m])))
  BY <1>1 DEF LocalOK, ReadOK, Handlers, Opt
<1>3. dl[d].written \in Nat /\ (d \in lost \/ dl[d].written = Full(dl[d]))
  BY <1>2 DEF IInv, TypeOK, Downloads, Tails
<1>4. \E h \in Handlers : rq' = [rq EXCEPT ![r] = h] /\ Sound(h)
  <2>1. CASE rq' = [Ended(r, "ok") EXCEPT ![r].got = dl[d].written]
    <3> DEFINE h == [rq[r] EXCEPT !.pc = "end", !.res = "ok", !.got = dl[d].written]
    <3>1. h \in Handlers
      BY <1>1, <1>3 DEF Handlers, Results
    <3>2. rq' = [rq EXCEPT ![r] = h]
      BY <1>1, <2>1 DEF IInv, TypeOK, Handlers, Ended
    <3>3. LocalOK(h) /\ LinkOK(r, h)
      BY <1>1, <1>2, RequestsAssumption DEF LocalOK, LinkOK, Handlers, Following
    <3>4. /\ h.pc = "end" /\ h.res = "ok" /\ h.fd = d /\ h.m = rq[r].m /\ h.got = dl[d].written
          /\ rq[r].m # NoOne => dl[rq[r].m].complete
      BY <1>1 DEF Handlers, ReadOK
    <3>5. d \in lost \/ (h.got = Full(dl[d]) /\ (h.m # NoOne => h.got = Full(dl[h.m])))
      BY <1>2, <1>3, <3>4
    <3>6. /\ h.pc \notin Following /\ h.pc # "send" /\ h.res # "noheaders" /\ h.fd # NoOne
          /\ h.res \notin Errors
      BY <1>2, <3>4, RequestsAssumption DEF Following, Errors
    <3> HIDE DEF h
    <3>7. ReadOK(r, h)
      BY <1>2, <3>4, <3>5, <3>6, Zenon DEF ReadOK
    <3> QED
      BY <3>1, <3>2, <3>3, <3>7
  <2>2. CASE rq' = Ended(r, "ctx")
    BY <2>2, EndedMoves
  <2>3. CASE rq' = Ended(r, "io")
    BY <2>3, EndedMoves
  <2> QED
    BY <2>1, <2>2, <2>3 DEF SendBlob
<1>5. PICK h \in Handlers : rq' = [rq EXCEPT ![r] = h] /\ Sound(h)
  BY <1>4
<1> QED
  BY <1>5, RequestMove DEF SendBlob, IInv, TypeOK, memory, disk, contexts

\* Removing a .meta found without its blob keeps it, even when the .meta is no orphan any more.
LEMMA RemoveOrphanMetaStep ==
    ASSUME IInv, NEW r \in Requests, RemoveOrphanMeta(r)
    PROVE  IInv'
<1>1. PICK h \in Handlers : /\ rq' = [rq EXCEPT ![r] = h]
                            /\ LocalOK(h) /\ LinkOK(r, h) /\ ReadOK(r, h)
  BY MissedMoves DEF RemoveOrphanMeta
<1>2. meta' \in [Keys -> Opt(Requests)] /\ \A k \in Keys : meta'[k] \in {meta[k], NoOne}
  BY KeysAssumption DEF RemoveOrphanMeta, IInv, TypeOK, Opt
<1>3. UNCHANGED <<memory, dl, tmp, blob, lost, contexts, cur>>
  BY DEF RemoveOrphanMeta
<1> QED
  BY <1>1, <1>2, <1>3, RequestMove DEF IInv, TypeOK, contexts

\* A request refused for want of a slot keeps it.
LEMMA BusyStep ==
    ASSUME IInv, NEW r \in Requests, Busy(r)
    PROVE  IInv'
<1>1. PICK h \in Handlers : /\ rq' = [rq EXCEPT ![r] = h]
                            /\ LocalOK(h) /\ LinkOK(r, h) /\ ReadOK(r, h)
  BY EndedMoves DEF Busy
<1> QED
  BY <1>1, RequestMove DEF Busy, IInv, TypeOK, memory, disk, contexts

\* Joining the download in flight keeps it: the entry joined is of the request's own key.
LEMMA JoinStep ==
    ASSUME IInv, NEW r \in Requests, Join(r)
    PROVE  IInv'
<1> DEFINE e == inflight[KeyOf[r]]
           h == [rq[r] EXCEPT !.pc = "check", !.e = e]
<1>1. rq[r] \in Handlers /\ LocalOK(rq[r]) /\ LinkOK(r, rq[r]) /\ ReadOK(r, rq[r])
  BY DEF IInv, TypeOK, Handling
<1>2. e \in Requests /\ KeyOf[e] = KeyOf[r] /\ dl[e].pc \notin {"none", "dead"}
  BY KeysAssumption DEF Join, Joinable, IInv, TypeOK, Listing, Opt
<1>3. h \in Handlers
  BY <1>1, <1>2 DEF Handlers, Opt, Following
<1>4. rq' = [rq EXCEPT ![r] = h]
  BY <1>1 DEF Join, Follows, IInv, TypeOK, Handlers
<1>5. LocalOK(h) /\ LinkOK(r, h) /\ ReadOK(r, h)
  BY <1>1, <1>2, RequestsAssumption DEF Join, LocalOK, LinkOK, ReadOK, Handlers, Following
<1> QED
  BY <1>3, <1>4, <1>5, RequestMove DEF Join, Follows, IInv, TypeOK, memory, disk

\* Queueing on the condition variable keeps it.
LEMMA ParkStep ==
    ASSUME IInv, NEW r \in Requests, Park(r)
    PROVE  IInv'
<1> DEFINE h == [rq[r] EXCEPT !.pc = "parked"]
<1>1. rq[r] \in Handlers /\ LocalOK(rq[r]) /\ LinkOK(r, rq[r]) /\ ReadOK(r, rq[r])
  BY DEF IInv, TypeOK, Handling
<1>2. h \in Handlers
  BY <1>1 DEF Handlers, Following
<1>3. rq' = [rq EXCEPT ![r] = h]
  BY <1>1 DEF Park, IInv, TypeOK, Handlers
<1>4. LocalOK(h) /\ LinkOK(r, h) /\ ReadOK(r, h)
  BY <1>1 DEF Park, LocalOK, LinkOK, ReadOK, Handlers, Following
<1> QED
  BY <1>2, <1>3, <1>4, RequestMove DEF Park, IInv, TypeOK, memory, disk, contexts

\* Ending a request with the entry's error or, at the end of a complete body, with success.
LEMMA AnsweredMoves ==
    ASSUME IInv, NEW r \in Requests, rq[r].pc \in {"check", "stream"},
           entry[rq[r].e].done, entry[rq[r].e].err = "nil" =>
               rq[r].pc = "stream" /\ entry[rq[r].e].size <= rq[r].got,
           rq' = Ended(r, IF entry[rq[r].e].err # "nil" THEN entry[rq[r].e].err ELSE "ok")
    PROVE  \E h \in Handlers : /\ rq' = [rq EXCEPT ![r] = h]
                               /\ LocalOK(h) /\ LinkOK(r, h) /\ ReadOK(r, h)
<1> DEFINE d == rq[r].e
           res == IF entry[d].err # "nil" THEN entry[d].err ELSE "ok"
           h == [rq[r] EXCEPT !.pc = "end", !.res = res]
<1>1. rq[r] \in Handlers /\ LocalOK(rq[r]) /\ LinkOK(r, rq[r]) /\ ReadOK(r, rq[r])
  BY DEF IInv, TypeOK, Handling
<1>2. d \in Requests
  BY <1>1 DEF LocalOK, Handlers, Opt, Following
<1>3. entry[d] \in Entries /\ dl[d] \in Downloads /\ PipelineOK(dl[d]) /\ PromiseOK(dl[d], entry[d])
  BY <1>2 DEF IInv, TypeOK, Producers
<1>4. entry[d].err \in Errors /\ res \in Errors \cup {"ok"} /\ res # "nil"
  BY <1>3 DEF Entries, Errors
<1>5. h \in Handlers
  BY <1>1, <1>4 DEF Handlers, Results
<1>6. rq' = [rq EXCEPT ![r] = h]
  BY <1>1 DEF IInv, TypeOK, Handlers, Ended
<1>7. LocalOK(h) /\ LinkOK(r, h)
  BY <1>1 DEF LocalOK, LinkOK, Handlers, Following
<1>8. ReadOK(r, h)
  <2>1. h.fd = rq[r].fd /\ h.m = NoOne /\ h.got = rq[r].got /\ h.res = res /\ h.pc = "end"
    BY <1>1 DEF LocalOK, Handlers, Following
  <2>2. rq[r].fd # NoOne => rq[r].fd = d /\ rq[r].got <= entry[d].size
    BY <1>1 DEF ReadOK, LocalOK, Following
  <2>3. CASE entry[d].err # "nil"
    <3>1. Settled(dl[d]) /\ ~dl[d].complete
      BY <1>3, <2>3 DEF PromiseOK
    <3> QED
      BY <1>4, <2>1, <2>2, <2>3, <3>1 DEF ReadOK, Following, Errors
  <2>4. CASE entry[d].err = "nil"
    <3>1. dl[d].complete /\ entry[d].size = Full(dl[d]) /\ entry[d].size \in Nat /\ rq[r].got \in Nat
      BY <1>1, <1>3, <2>4 DEF PromiseOK, Entries, Handlers
    <3>2. rq[r].fd = d /\ rq[r].got = Full(dl[d]) /\ KeyOf[d] = KeyOf[r]
      BY <1>1, <1>2, <2>2, <2>4, <3>1, RequestsAssumption DEF LocalOK, LinkOK
    <3> QED
      BY <1>2, <2>1, <2>4, <3>1, <3>2, RequestsAssumption DEF ReadOK, Following, Errors
  <2> QED
    BY <2>3, <2>4
<1> QED
  BY <1>5, <1>6, <1>7, <1>8

\* follow's decision once its wait for headers is over keeps it.
LEMMA CheckStep ==
    ASSUME IInv, NEW r \in Requests, Check(r)
    PROVE  IInv'
<1> DEFINE d == rq[r].e
           Sound(h) == LocalOK(h) /\ LinkOK(r, h) /\ ReadOK(r, h)
<1>1. rq[r] \in Handlers /\ Sound(rq[r]) /\ rq[r].pc = "check" /\ rq[r].fd = NoOne
  BY DEF Check, IInv, TypeOK, Handling, LocalOK
<1>2. d \in Requests
  BY <1>1 DEF LocalOK, Handlers, Opt, Following
<1>3. PromiseOK(dl[d], entry[d])
  BY <1>2 DEF IInv, Producers
<1>4. \E h \in Handlers : rq' = [rq EXCEPT ![r] = h] /\ Sound(h)
  <2>1. CASE rq' = [rq EXCEPT ![r].pc = "parking"] \/ rq' = [rq EXCEPT ![r].pc = "reopen"]
    <3>1. PICK pc \in {"parking", "reopen"} : rq' = [rq EXCEPT ![r].pc = pc]
      BY <2>1
    <3> DEFINE h == [rq[r] EXCEPT !.pc = pc]
    <3>2. h \in Handlers
      BY <1>1 DEF Handlers, PreEntry, Following
    <3>3. rq' = [rq EXCEPT ![r] = h]
      BY <1>1, <3>1 DEF IInv, TypeOK, Handlers
    <3>4. Sound(h)
      BY <1>1 DEF LocalOK, LinkOK, ReadOK, Handlers, Following
    <3> QED
      BY <3>2, <3>3, <3>4
  <2>2. CASE rq' = [rq EXCEPT ![r].pc = "stream", ![r].fd = d]
    <3> DEFINE h == [rq[r] EXCEPT !.pc = "stream", !.fd = d]
    <3>1. h \in Handlers
      BY <1>1, <1>2 DEF Handlers, Following, Opt
    <3>2. rq' = [rq EXCEPT ![r] = h]
      BY <1>1, <2>2 DEF IInv, TypeOK, Handlers
    <3>3. rq[r].got = 0 /\ entry[d].size \in Nat
      BY <1>1, <1>2 DEF LocalOK, IInv, TypeOK, Entries
    <3>4. LocalOK(h) /\ LinkOK(r, h)
      BY <1>1, <1>2, RequestsAssumption DEF LocalOK, LinkOK, Handlers, Following
    <3>5. ReadOK(r, h)
      BY <1>1, <3>3 DEF LocalOK, ReadOK, Handlers, Following, Errors
    <3> QED
      BY <3>1, <3>2, <3>4, <3>5
  <2>3. CASE entry[d].err # "nil" /\ rq' = Ended(r, entry[d].err)
    <3>1. entry[d].done
      BY <1>3, <2>3 DEF PromiseOK
    <3> QED
      BY <1>1, <2>3, <3>1, AnsweredMoves
  <2>4. CASE /\ entry[d].err = "nil" /\ ~entry[d].headersReady
             /\ entry[d].done \/ r \in cancelled
             /\ rq' = Ended(r, IF r \in cancelled THEN "ctx" ELSE "noheaders")
    <3>1. ~entry[d].done
      BY <1>3, <2>4 DEF PromiseOK
    <3> QED
      BY <2>4, <3>1, EndedMoves
  <2>5. CASE rq' = Ended(r, "io")
    BY <2>5, EndedMoves
  <2> QED
    BY <2>1, <2>2, <2>3, <2>4, <2>5 DEF Check
<1>5. PICK h \in Handlers : rq' = [rq EXCEPT ![r] = h] /\ Sound(h)
  BY <1>4
<1> QED
  BY <1>5, RequestMove DEF Check, IInv, TypeOK, memory, disk, contexts

\* Reading a published range of the leader's file keeps it.
LEMMA ReadChunkStep ==
    ASSUME IInv, NEW r \in Requests, ReadChunk(r)
    PROVE  IInv'
<1> DEFINE d == rq[r].e
           Sound(h) == LocalOK(h) /\ LinkOK(r, h) /\ ReadOK(r, h)
<1>1. rq[r] \in Handlers /\ Sound(rq[r]) /\ rq[r].pc = "stream"
  BY DEF ReadChunk, IInv, TypeOK, Handling
<1>2. d \in Requests /\ entry[d].size \in Nat /\ rq[r].got \in Nat
  <2>1. d \in Requests /\ rq[r].got \in Nat
    BY <1>1 DEF LocalOK, Handlers, Opt, Following
  <2> QED
    BY <2>1 DEF IInv, TypeOK, Entries
<1>3. \E h \in Handlers : rq' = [rq EXCEPT ![r] = h] /\ Sound(h)
  <2>1. CASE \E n \in rq[r].got + 1 .. entry[d].size :
                 n <= dl[d].written /\ rq' = [rq EXCEPT ![r].got = n]
    <3>1. PICK n \in rq[r].got + 1 .. entry[d].size : rq' = [rq EXCEPT ![r].got = n]
      BY <2>1
    <3> DEFINE h == [rq[r] EXCEPT !.got = n]
    <3>2. n \in Nat /\ n <= entry[d].size
      BY <1>2
    <3>3. h \in Handlers
      BY <1>1, <3>2 DEF Handlers
    <3>4. rq' = [rq EXCEPT ![r] = h]
      BY <1>1, <3>1 DEF IInv, TypeOK, Handlers
    <3>5. Sound(h)
      BY <1>1, <3>2 DEF LocalOK, LinkOK, ReadOK, Handlers, Following, Errors
    <3> QED
      BY <3>3, <3>4, <3>5
  <2>2. CASE rq' = Ended(r, "ctx")
    BY <2>2, EndedMoves
  <2>3. CASE rq' = Ended(r, "io")
    BY <2>3, EndedMoves
  <2>4. CASE entry[d].err # "nil" /\ rq' = Ended(r, entry[d].err)
    <3>1. entry[d].done
      BY <1>2, <2>4 DEF IInv, Producers, PromiseOK
    <3> QED
      BY <1>1, <2>4, <3>1, AnsweredMoves
  <2> QED
    BY <2>1, <2>2, <2>3, <2>4 DEF ReadChunk
<1>4. PICK h \in Handlers : rq' = [rq EXCEPT ![r] = h] /\ Sound(h)
  BY <1>3
<1> QED
  BY <1>4, RequestMove DEF ReadChunk, IInv, TypeOK, memory, disk, contexts

\* A reader that has caught up waits, or ends with what the entry says; both keep it.
LEMMA CatchUpStep ==
    ASSUME IInv, NEW r \in Requests, CatchUp(r)
    PROVE  IInv'
<1> DEFINE d == rq[r].e
           Sound(h) == LocalOK(h) /\ LinkOK(r, h) /\ ReadOK(r, h)
<1>1. rq[r] \in Handlers /\ Sound(rq[r]) /\ rq[r].pc = "stream"
  BY DEF CatchUp, IInv, TypeOK, Handling
<1>2. \E h \in Handlers : rq' = [rq EXCEPT ![r] = h] /\ Sound(h)
  <2>1. CASE rq' = [rq EXCEPT ![r].pc = "parking"]
    <3> DEFINE h == [rq[r] EXCEPT !.pc = "parking"]
    <3>1. h \in Handlers
      BY <1>1 DEF Handlers, Following
    <3>2. rq' = [rq EXCEPT ![r] = h]
      BY <1>1, <2>1 DEF IInv, TypeOK, Handlers
    <3>3. Sound(h)
      BY <1>1 DEF LocalOK, LinkOK, ReadOK, Handlers, Following
    <3> QED
      BY <3>1, <3>2, <3>3
  <2>2. CASE rq' = Ended(r, "ctx")
    BY <2>2, EndedMoves
  <2>3. CASE /\ entry[d].done
             /\ rq' = Ended(r, IF entry[d].err # "nil" THEN entry[d].err ELSE "ok")
    BY <1>1, <2>3, AnsweredMoves DEF CatchUp
  <2> QED
    BY <2>1, <2>2, <2>3 DEF CatchUp
<1>3. PICK h \in Handlers : rq' = [rq EXCEPT ![r] = h] /\ Sound(h)
  BY <1>2
<1> QED
  BY <1>3, RequestMove DEF CatchUp, IInv, TypeOK, memory, disk, contexts

\* A client going away changes nothing the invariant speaks of.
LEMMA CancelStep ==
    ASSUME IInv, NEW r \in Requests, Cancel(r)
    PROVE  IInv'
<1>1. TypeOK'
  BY DEF IInv, TypeOK, Cancel, memory, disk
<1>2. Handling' /\ Producers' /\ Listing' /\ Directory' /\ Tails'
  BY DEF IInv, Cancel, memory, disk, Handling, LinkOK, ReadOK, Producers, Listing, Directory, Tails
<1>3. SlotsAccounted'
  BY DEF IInv, Cancel, memory, SlotsAccounted, Downloading, Live
<1> QED
  BY <1>1, <1>2, <1>3 DEF IInv

\* The AfterFunc callback of a client that went away keeps it.
LEMMA WakeFollowerStep ==
    ASSUME IInv, NEW r \in Requests, WakeFollower(r)
    PROVE  IInv'
<1>1. rq' = Broadcast(rq[r].e) /\ UNCHANGED <<memory, dl, disk, cancelled, cur>> /\ waking' \subseteq waking
  BY DEF WakeFollower
<1>2. CASE rq[r].e = NoOne
  <2>1. \A x \in Requests : rq[x].pc = "parked" => rq[x].e # NoOne
    BY DEF IInv, Handling, LocalOK, Following
  <2>2. rq' = rq
    BY <1>1, <1>2, <2>1 DEF Broadcast, IInv, TypeOK
  <2>3. TypeOK'
    BY <1>1, <2>2 DEF IInv, TypeOK, memory, disk
  <2>4. Handling' /\ Producers' /\ Listing' /\ Directory' /\ Tails'
    BY <1>1, <2>2 DEF IInv, memory, disk, Handling, LinkOK, ReadOK, Producers, Listing, Directory, Tails
  <2>5. SlotsAccounted'
    BY <1>1 DEF IInv, memory, SlotsAccounted, Downloading, Live
  <2> QED
    BY <2>3, <2>4, <2>5 DEF IInv
<1>3. CASE rq[r].e # NoOne
  <2>1. rq[r].e \in Requests
    BY <1>3 DEF IInv, TypeOK, Handlers, Opt
  <2>2. /\ rq' \in [Requests -> Handlers]
        /\ \A x \in Requests : SameReader(rq[x], rq'[x]) /\ LocalOK(rq'[x])
    BY <1>1, <2>1, BroadcastMoves
  <2>3. TypeOK'
    BY <1>1, <2>2 DEF IInv, TypeOK, memory, disk
  <2>4. ASSUME NEW x \in Requests
        PROVE  (LinkOK(x, rq[x]) /\ ReadOK(x, rq[x]))'
    <3>1. LinkOK(x, rq[x]) /\ ReadOK(x, rq[x]) /\ SameReader(rq[x], rq'[x])
      BY <2>2 DEF IInv, Handling
    <3> QED
      BY <1>1, <3>1 DEF memory, disk, LinkOK, ReadOK, SameReader, Following
  <2>5. Handling'
    BY <2>2, <2>4 DEF Handling
  <2>6. Producers' /\ Listing' /\ Directory' /\ Tails'
    BY <1>1 DEF IInv, memory, disk, Producers, Listing, Directory, Tails
  <2>7. SlotsAccounted'
    BY <1>1 DEF IInv, memory, SlotsAccounted, Downloading, Live
  <2> QED
    BY <2>3, <2>5, <2>6, <2>7 DEF IInv
<1> QED
  BY <1>2, <1>3

-----------------------------------------------------------------------------
(* Steps of a download.                                                    *)

\* A live download record g may become i.
Advances(g, i) ==
    /\ g.pc \in Producing \cup Teardown /\ i.pc \in Producing \cup Teardown
    /\ Unsettled(i) => Unsettled(g)
    /\ g.complete => i.complete /\ i.body = g.body /\ i.zip = g.zip
    /\ Settled(g) => Settled(i) /\ i.complete = g.complete

\* A step of a download that is not the closing of its file gives up no bytes.
LEMMA TailsMove ==
    ASSUME IInv, NEW r \in Requests, NEW g \in Downloads, dl' = [dl EXCEPT ![r] = g], lost' = lost,
           dl[r].pc # "end", g.pc # "end", PipelineOK(g)
    PROVE  Tails'
BY DEF IInv, TypeOK, Tails, PipelineOK

\* A download step that keeps the slot and the in-flight table keeps the invariant if its
\* new record and entry are sound and the directory stays sound.
LEMMA LiveMove ==
    ASSUME IInv, NEW r \in Requests, NEW g \in Downloads, NEW e \in Entries,
           dl' = [dl EXCEPT ![r] = g], entry' = [entry EXCEPT ![r] = e],
           rq' \in [Requests -> Handlers],
           \A x \in Requests : SameReader(rq[x], rq'[x]) /\ LocalOK(rq'[x]),
           Advances(dl[r], g), PipelineOK(g), PromiseOK(g, e), entry[r].size <= e.size,
           UNCHANGED <<inflight, sem, lost, contexts, cur>>,
           tmp' \subseteq Requests, blob' \in [Keys -> Opt(Requests)],
           meta' \in [Keys -> Opt(Requests)], Directory'
    PROVE  IInv'
<1>1. TypeOK'
  BY DEF IInv, TypeOK, contexts
<1>2. Handling' /\ Producers'
  BY DownloadMove DEF Advances, Producing, Teardown
<1>3. Listing'
  BY DEF IInv, TypeOK, Listing, Advances, Producing, Teardown
<1>4. Downloading' = Downloading
  BY DEF IInv, TypeOK, Downloading, Live, Advances
<1>5. SlotsAccounted'
  BY <1>4 DEF IInv, SlotsAccounted
<1>6. Tails'
  BY TailsMove DEF Advances, Producing, Teardown
<1> QED
  BY <1>1, <1>2, <1>3, <1>5, <1>6 DEF IInv

\* Facts about a download and its entry that every step starts from.
LEMMA DownloadFacts ==
    ASSUME IInv, NEW r \in Requests
    PROVE  /\ dl[r] \in Downloads /\ PipelineOK(dl[r])
           /\ entry[r] \in Entries /\ PromiseOK(dl[r], entry[r])
           /\ \A x \in Requests : SameReader(rq[x], rq[x]) /\ LocalOK(rq[x])
           /\ entry[r].size \in Nat /\ dl[r].written \in Nat
           /\ entry = [entry EXCEPT ![r] = entry[r]]
<1>1. dl[r] \in Downloads /\ PipelineOK(dl[r]) /\ entry[r] \in Entries /\ PromiseOK(dl[r], entry[r])
  BY DEF IInv, TypeOK, Producers
<1>2. \A x \in Requests : SameReader(rq[x], rq[x]) /\ LocalOK(rq[x])
  BY DEF IInv, Handling, SameReader
<1>3. entry[r].size \in Nat /\ dl[r].written \in Nat
  BY <1>1 DEF Downloads, Entries
<1>4. entry = [entry EXCEPT ![r] = entry[r]]
  BY DEF IInv, TypeOK
<1> QED
  BY <1>1, <1>2, <1>3, <1>4

\* The same for a step that touches neither its entry nor a follower.
LEMMA QuietMove ==
    ASSUME IInv, NEW r \in Requests, NEW g \in Downloads,
           dl' = [dl EXCEPT ![r] = g], UNCHANGED <<memory, lost, rq, contexts, cur>>,
           Advances(dl[r], g), PipelineOK(g), PromiseOK(g, entry[r]),
           tmp' \subseteq Requests, blob' \in [Keys -> Opt(Requests)],
           meta' \in [Keys -> Opt(Requests)], Directory'
    PROVE  IInv'
<1>1. entry[r] \in Entries /\ entry' = [entry EXCEPT ![r] = entry[r]] /\ entry[r].size <= entry[r].size
  BY DownloadFacts DEF memory
<1>2. rq' \in [Requests -> Handlers]
  BY DEF IInv, TypeOK
<1>3. \A x \in Requests : SameReader(rq[x], rq'[x]) /\ LocalOK(rq'[x])
  BY DownloadFacts
<1>4. UNCHANGED <<inflight, sem, lost, contexts, cur>>
  BY DEF memory
<1> QED
  BY <1>1, <1>2, <1>3, <1>4, LiveMove

\* Any failure of a producing download before its rename keeps it.
LEMMA FailWithStep ==
    ASSUME IInv, NEW r \in Requests, NEW err \in {"upstream", "disk"}, FailWith(r, err),
           dl[r].pc \in {"fetch", "body", "flush", "last", "rename"}
    PROVE  IInv'
<1> DEFINE g == [dl[r] EXCEPT !.pc = "settle", !.err = err]
<1>1. g \in Downloads
  BY DownloadFacts DEF Downloads, Teardown, Errors
<1>2. dl' = [dl EXCEPT ![r] = g] /\ UNCHANGED <<memory, disk, rq, contexts, cur>>
  BY DEF FailWith, IInv, TypeOK, Downloads
<1>3. Advances(dl[r], g)
  BY DownloadFacts DEF Advances, Downloads, Producing, Teardown, Unsettled, Settled
<1>4. PipelineOK(g) /\ PromiseOK(g, entry[r])
  BY DownloadFacts DEF PipelineOK, PromiseOK, Full, Downloads, Unsettled, Settled, Producing
<1>5. Directory'
  BY <1>2 DEF IInv, TypeOK, Directory, disk, Downloads
<1> QED
  BY <1>1, <1>2, <1>3, <1>4, <1>5, QuietMove DEF IInv, TypeOK, disk

\* Publishing headers and descriptor together keeps it.
LEMMA FetchStep ==
    ASSUME IInv, NEW r \in Requests, Fetch(r)
    PROVE  IInv'
<1>1. PICK b \in Bodies :
         dl' = [dl EXCEPT ![r].pc = "body", ![r].body = b[1], ![r].zip = b[2]]
  BY DEF Fetch
<1> DEFINE g == [dl[r] EXCEPT !.pc = "body", !.body = b[1], !.zip = b[2]]
           e == [entry[r] EXCEPT !.tmpFile = TRUE, !.headersReady = TRUE]
<1>2. b[1] \in Nat /\ b[2] \in BOOLEAN
  BY BoundsAssumption
<1>3. g \in Downloads /\ e \in Entries
  BY <1>2, DownloadFacts DEF Downloads, Entries, Producing
<1>4. dl' = [dl EXCEPT ![r] = g] /\ entry' = [entry EXCEPT ![r] = e]
  BY <1>1 DEF Fetch, IInv, TypeOK, Downloads, Entries
<1>5. Advances(dl[r], g)
  BY DownloadFacts DEF Fetch, Advances, PipelineOK, Downloads, Producing, Unsettled, Settled
<1>6. PipelineOK(g) /\ PromiseOK(g, e)
  BY DownloadFacts DEF Fetch, PipelineOK, PromiseOK, Downloads, Entries, Unsettled, Settled, Producing
<1>7. Directory'
  <2>1. \A d \in Requests : /\ dl'[d].complete = dl[d].complete
                            /\ dl'[d].pc \in {"meta", "rollback"} => dl'[d].pc = dl[d].pc
    BY <1>4, DownloadFacts DEF IInv, TypeOK, Downloads
  <2> QED
    BY <2>1 DEF Fetch, IInv, TypeOK, Directory, Opt
<1>8. /\ rq' \in [Requests -> Handlers]
      /\ \A x \in Requests : SameReader(rq[x], rq'[x]) /\ LocalOK(rq'[x])
  BY BroadcastMoves DEF Fetch
<1>9. entry[r].size <= e.size
  BY DownloadFacts DEF Entries
<1> QED
  <2>1. UNCHANGED <<inflight, sem, lost, contexts, cur>> /\ tmp' \subseteq Requests
        /\ blob' \in [Keys -> Opt(Requests)] /\ meta' \in [Keys -> Opt(Requests)]
    BY DEF Fetch, IInv, TypeOK
  <2> QED
    BY <1>3, <1>4, <1>5, <1>6, <1>7, <1>8, <1>9, <2>1, LiveMove

\* Appending to the file before publishing its size keeps it.
LEMMA WriteChunkStep ==
    ASSUME IInv, NEW r \in Requests, WriteChunk(r)
    PROVE  IInv'
<1>1. PICK n \in dl[r].written + 1 .. dl[r].body :
         dl' = [dl EXCEPT ![r].pc = "flush", ![r].written = n]
  BY DEF WriteChunk
<1> DEFINE g == [dl[r] EXCEPT !.pc = "flush", !.written = n]
<1>2. n \in Nat /\ dl[r].written <= n
  BY DownloadFacts DEF Downloads
<1>3. g \in Downloads
  BY <1>2, DownloadFacts DEF Downloads, Producing
<1>4. dl' = [dl EXCEPT ![r] = g] /\ UNCHANGED <<memory, disk, rq, contexts, cur>>
  BY <1>1 DEF WriteChunk, IInv, TypeOK, Downloads
<1>5. Advances(dl[r], g)
  BY DownloadFacts DEF WriteChunk, Advances, PipelineOK, Downloads, Producing, Unsettled, Settled
<1>6. PipelineOK(g) /\ PromiseOK(g, entry[r])
  BY <1>2, DownloadFacts DEF WriteChunk, PipelineOK, PromiseOK, Downloads, Unsettled, Settled, Producing
<1>7. Directory'
  BY <1>4 DEF IInv, TypeOK, Directory, disk, Downloads
<1> QED
  BY <1>3, <1>4, <1>5, <1>6, <1>7, QuietMove DEF IInv, TypeOK, disk

\* Appending the gzip footer keeps it.
LEMMA EndOfBodyStep ==
    ASSUME IInv, NEW r \in Requests, EndOfBody(r)
    PROVE  IInv'
<1> DEFINE g == [dl[r] EXCEPT !.pc = "last", !.written = Full(dl[r])]
<1>1. Full(dl[r]) \in Nat /\ dl[r].written <= Full(dl[r]) /\ Full(g) = Full(dl[r])
  BY DownloadFacts DEF EndOfBody, Downloads, Full
<1>2. g \in Downloads
  BY <1>1, DownloadFacts DEF Downloads, Producing
<1>3. dl' = [dl EXCEPT ![r] = g] /\ UNCHANGED <<memory, disk, rq, contexts, cur>>
  BY DEF EndOfBody, WithFooter, FullSize, Full, IInv, TypeOK, Downloads
<1>4. Advances(dl[r], g)
  BY DownloadFacts DEF EndOfBody, Advances, PipelineOK, Downloads, Producing, Unsettled, Settled
<1>5. PipelineOK(g) /\ PromiseOK(g, entry[r])
  BY <1>1, DownloadFacts DEF EndOfBody, PipelineOK, PromiseOK, Downloads, Unsettled, Settled, Producing
<1>6. Directory'
  BY <1>3 DEF IInv, TypeOK, Directory, disk, Downloads
<1> QED
  BY <1>2, <1>3, <1>4, <1>5, <1>6, QuietMove DEF IInv, TypeOK, disk

\* publishSize keeps it: what is promised to followers is already in the file.
LEMMA PublishSizeStep ==
    ASSUME IInv, NEW r \in Requests, PublishSize(r)
    PROVE  IInv'
<1> DEFINE g == IF dl[r].pc = "flush" THEN [dl[r] EXCEPT !.pc = "body"]
                ELSE [dl[r] EXCEPT !.pc = "rename", !.complete = TRUE]
           e == [entry[r] EXCEPT !.size = dl[r].written]
<1>1. g \in Downloads /\ e \in Entries
  BY DownloadFacts DEF Downloads, Entries, Producing
<1>2. dl' = [dl EXCEPT ![r] = g] /\ entry' = [entry EXCEPT ![r] = e]
  BY DEF PublishSize, IInv, TypeOK, Downloads, Entries
<1>3. Advances(dl[r], g)
  BY DownloadFacts DEF PublishSize, Advances, PipelineOK, Downloads, Producing, Unsettled, Settled
<1>4. PipelineOK(g) /\ PromiseOK(g, e) /\ entry[r].size <= e.size
  BY DownloadFacts DEF PublishSize, PipelineOK, PromiseOK, Full, Downloads, Entries, Unsettled,
                       Settled, Producing
<1>5. Directory'
  <2>1. \A d \in Requests : /\ dl[d].complete => dl'[d].complete
                            /\ dl'[d].pc \in {"meta", "rollback"} => dl'[d].pc = dl[d].pc
    BY <1>2, DownloadFacts DEF IInv, TypeOK, Downloads
  <2> QED
    BY <2>1 DEF PublishSize, IInv, TypeOK, Directory, disk, Opt
<1>6. /\ rq' \in [Requests -> Handlers]
      /\ \A x \in Requests : SameReader(rq[x], rq'[x]) /\ LocalOK(rq'[x])
  BY BroadcastMoves DEF PublishSize
<1> QED
  BY <1>1, <1>2, <1>3, <1>4, <1>5, <1>6, LiveMove DEF PublishSize, IInv, TypeOK, disk

\* Two downloads of one key cannot both be unsettled.
LEMMA OneProducer ==
    ASSUME IInv
    PROVE  OneProducerPerKey
BY DEF IInv, Listing, Unsettled, OneProducerPerKey

\* Giving a complete file its final name keeps it, replacing whatever had the name.
LEMMA RenameStep ==
    ASSUME IInv, NEW r \in Requests, Rename(r)
    PROVE  IInv'
<1> DEFINE g == [dl[r] EXCEPT !.pc = "meta"]
<1>1. g \in Downloads
  BY DownloadFacts DEF Downloads, Producing
<1>2. dl' = [dl EXCEPT ![r] = g]
  BY DEF Rename, IInv, TypeOK, Downloads
<1>3. Advances(dl[r], g)
  BY DownloadFacts DEF Rename, Advances, Downloads, Producing, Unsettled, Settled
<1>4. PipelineOK(g) /\ PromiseOK(g, entry[r])
  BY DownloadFacts DEF Rename, PipelineOK, PromiseOK, Full, Downloads, Unsettled, Settled, Producing
<1>5. blob' \in [Keys -> Opt(Requests)]
  BY DEF Rename, IInv, TypeOK, Opt
<1>6. dl[r].complete
  BY DownloadFacts DEF Rename, PipelineOK
<1>7. Directory'
  <2>1. \A d \in Requests : dl'[d].complete = dl[d].complete /\ (d # r => dl'[d] = dl[d])
    BY <1>2, DownloadFacts DEF IInv, TypeOK, Downloads
  <2>2. \A k \in Keys : blob'[k] # NoOne => KeyOf[blob'[k]] = k /\ dl'[blob'[k]].complete
    BY <1>6, <2>1, KeysAssumption DEF Rename, IInv, TypeOK, Directory, Opt
  <2>3. \A k \in Keys : meta'[k] # NoOne => dl'[meta'[k]].complete
    BY <2>1 DEF Rename, IInv, TypeOK, Directory, Opt
  <2>4. ASSUME NEW d \in Requests, dl'[d].pc \in {"meta", "rollback"}
        PROVE  blob'[KeyOf[d]] \in {d, NoOne}
    <3>1. CASE d = r
      BY <3>1, KeysAssumption DEF Rename, IInv, TypeOK
    <3>2. CASE d # r
      <4>1. KeyOf[d] # KeyOf[r]
        BY <2>1, <2>4, <3>2, OneProducer DEF Rename, OneProducerPerKey, Producing
      <4> QED
        BY <2>1, <2>4, <3>2, <4>1, KeysAssumption DEF Rename, IInv, TypeOK, Directory
    <3> QED
      BY <3>1, <3>2
  <2> QED
    BY <2>2, <2>3, <2>4 DEF Directory
<1> QED
  BY <1>1, <1>2, <1>3, <1>4, <1>5, <1>7, QuietMove DEF Rename, IInv, TypeOK

\* Writing the .meta, or failing to, keeps it.
LEMMA WriteMetaStep ==
    ASSUME IInv, NEW r \in Requests, WriteMeta(r)
    PROVE  IInv'
<1>1. PICK pc \in {"settle", "rollback"}, err \in Errors :
         /\ dl' = [dl EXCEPT ![r] = [dl[r] EXCEPT !.pc = pc, !.err = err]]
         /\ meta' = meta \/ meta' = [meta EXCEPT ![KeyOf[r]] = r]
  <2>1. CASE meta' = [meta EXCEPT ![KeyOf[r]] = r] /\ dl' = [dl EXCEPT ![r].pc = "settle"]
    <3>1. dl' = [dl EXCEPT ![r] = [dl[r] EXCEPT !.pc = "settle", !.err = dl[r].err]]
      BY <2>1 DEF IInv, TypeOK, Downloads
    <3>2. dl[r].err \in Errors
      BY DownloadFacts DEF Downloads
    <3> QED
      BY <2>1, <3>1, <3>2
  <2>2. CASE meta' = meta /\ dl' = [dl EXCEPT ![r].pc = "rollback", ![r].err = "disk"]
    <3>1. dl' = [dl EXCEPT ![r] = [dl[r] EXCEPT !.pc = "rollback", !.err = "disk"]]
      BY <2>2 DEF IInv, TypeOK, Downloads
    <3> QED
      BY <2>2, <3>1 DEF Errors
  <2> QED
    BY <2>1, <2>2 DEF WriteMeta
<1> DEFINE g == [dl[r] EXCEPT !.pc = pc, !.err = err]
<1>2. g \in Downloads
  BY DownloadFacts DEF Downloads, Producing, Teardown
<1>3. dl[r].complete /\ dl[r].pc = "meta"
  BY DownloadFacts DEF WriteMeta, PipelineOK
<1>4. Advances(dl[r], g)
  BY <1>3, DownloadFacts DEF Advances, Downloads, Producing, Teardown, Unsettled, Settled
<1>5. PipelineOK(g) /\ PromiseOK(g, entry[r])
  BY <1>3, DownloadFacts DEF PipelineOK, PromiseOK, Full, Downloads, Unsettled, Settled, Producing
<1>6. meta' \in [Keys -> Opt(Requests)]
  BY <1>1 DEF IInv, TypeOK, Opt
<1>7. Directory'
  <2>1. \A d \in Requests : /\ dl'[d].complete = dl[d].complete
                            /\ dl'[d].pc \in {"meta", "rollback"} => dl[d].pc \in {"meta", "rollback"}
    BY <1>1, <1>3, DownloadFacts DEF IInv, TypeOK, Downloads
  <2>2. \A k \in Keys : meta'[k] # NoOne => dl'[meta'[k]].complete
    BY <1>1, <1>3, <2>1, KeysAssumption DEF IInv, TypeOK, Directory, Opt
  <2>3. blob' = blob
    BY DEF WriteMeta
  <2>4. \A k \in Keys : blob'[k] # NoOne => KeyOf[blob'[k]] = k /\ dl'[blob'[k]].complete
    BY <2>1, <2>3 DEF IInv, TypeOK, Directory, Opt
  <2>5. \A d \in Requests : dl'[d].pc \in {"meta", "rollback"} => blob'[KeyOf[d]] \in {d, NoOne}
    BY <2>1, <2>3 DEF IInv, Directory
  <2> QED
    BY <2>2, <2>4, <2>5 DEF Directory
<1> QED
  BY <1>1, <1>2, <1>4, <1>5, <1>6, <1>7, QuietMove DEF WriteMeta, IInv, TypeOK

\* Rolling the blob back keeps it: no other download of the key can be publishing.
LEMMA RollBackStep ==
    ASSUME IInv, NEW r \in Requests, RollBack(r)
    PROVE  IInv'
<1> DEFINE g == [dl[r] EXCEPT !.pc = "settle"]
<1>1. g \in Downloads
  BY DownloadFacts DEF Downloads, Teardown
<1>2. dl' = [dl EXCEPT ![r] = g]
  BY DEF RollBack, IInv, TypeOK, Downloads
<1>3. Advances(dl[r], g)
  BY DownloadFacts DEF RollBack, Advances, Downloads, Producing, Teardown, Unsettled, Settled
<1>4. PipelineOK(g) /\ PromiseOK(g, entry[r])
  BY DownloadFacts DEF RollBack, PipelineOK, PromiseOK, Full, Downloads, Unsettled, Settled, Producing
<1>5. blob' \in [Keys -> Opt(Requests)]
  BY DEF RollBack, IInv, TypeOK, Opt
<1>6. Directory'
  <2>1. \A d \in Requests : /\ dl'[d].complete = dl[d].complete
                            /\ dl'[d].pc \in {"meta", "rollback"} => dl[d].pc \in {"meta", "rollback"}
    BY <1>2, DownloadFacts DEF IInv, TypeOK, Downloads
  <2>2. \A k \in Keys : blob'[k] \in {blob[k], NoOne}
    BY DEF RollBack, IInv, TypeOK
  <2> QED
    BY <2>1, <2>2, KeysAssumption DEF RollBack, IInv, TypeOK, Directory, Opt
<1> QED
  BY <1>1, <1>2, <1>3, <1>4, <1>5, <1>6, QuietMove DEF RollBack, IInv, TypeOK

\* Publishing the outcome of a download keeps it.
LEMMA SettleStep ==
    ASSUME IInv, NEW r \in Requests, Settle(r)
    PROVE  IInv'
<1> DEFINE g == [dl[r] EXCEPT !.pc = "unlist"]
           e == [entry[r] EXCEPT !.tmpFile = FALSE, !.done = TRUE, !.err = Outcome(r)]
<1>1. Outcome(r) \in Errors /\ (Outcome(r) = "nil" <=> dl[r].complete)
  BY DownloadFacts DEF Settle, Outcome, PipelineOK, Downloads, Errors
<1>2. g \in Downloads /\ e \in Entries
  BY <1>1, DownloadFacts DEF Downloads, Entries, Teardown
<1>3. dl' = [dl EXCEPT ![r] = g] /\ entry' = [entry EXCEPT ![r] = e]
  BY DEF Settle, IInv, TypeOK, Downloads, Entries
<1>4. Advances(dl[r], g)
  BY DownloadFacts DEF Settle, Advances, Downloads, Producing, Teardown, Unsettled, Settled
<1>5. PipelineOK(g) /\ PromiseOK(g, e) /\ entry[r].size <= e.size
  BY <1>1, DownloadFacts DEF Settle, PipelineOK, PromiseOK, Full, Downloads, Entries, Unsettled,
                             Settled, Producing
<1>6. Directory'
  <2>1. \A d \in Requests : /\ dl'[d].complete = dl[d].complete
                            /\ dl'[d].pc \in {"meta", "rollback"} => dl[d].pc \in {"meta", "rollback"}
    BY <1>3, DownloadFacts DEF IInv, TypeOK, Downloads
  <2> QED
    BY <2>1 DEF Settle, IInv, TypeOK, Directory, disk, Opt
<1>7. /\ rq' \in [Requests -> Handlers]
      /\ \A x \in Requests : SameReader(rq[x], rq'[x]) /\ LocalOK(rq'[x])
  BY BroadcastMoves DEF Settle
<1>8. UNCHANGED <<inflight, sem, lost, contexts, cur>> /\ tmp' \subseteq Requests
      /\ blob' \in [Keys -> Opt(Requests)] /\ meta' \in [Keys -> Opt(Requests)]
  BY DEF Settle, IInv, TypeOK, disk
<1> QED
  BY <1>2, <1>3, <1>4, <1>5, <1>6, <1>7, <1>8, LiveMove

\* Taking a settled entry out of the in-flight table keeps it: a successor stays listed.
LEMMA UnlistStep ==
    ASSUME IInv, NEW r \in Requests, Unlist(r)
    PROVE  IInv'
<1> DEFINE g == [dl[r] EXCEPT !.pc = "release"]
<1>1. g \in Downloads
  BY DownloadFacts DEF Downloads, Teardown
<1>2. dl' = [dl EXCEPT ![r] = g]
  BY DEF Unlist, IInv, TypeOK, Downloads
<1>3. \A k \in Keys : inflight'[k] = inflight[k] \/ (inflight[k] = r /\ inflight'[k] = NoOne)
  BY DEF Unlist, DeleteOwn, IInv, TypeOK
<1>4. TypeOK'
  BY <1>1, <1>2 DEF Unlist, DeleteOwn, IInv, TypeOK, disk, contexts, Opt
<1>5. PipelineOK(g) /\ PromiseOK(g, entry[r])
  BY DownloadFacts DEF Unlist, PipelineOK, PromiseOK, Full, Downloads, Unsettled, Settled, Producing
<1>6. Handling' /\ Producers'
  <2>1. entry[r] \in Entries /\ entry' = [entry EXCEPT ![r] = entry[r]] /\ entry[r].size <= entry[r].size
    BY DownloadFacts DEF Unlist, disk
  <2>2. rq' \in [Requests -> Handlers] /\ \A x \in Requests : SameReader(rq[x], rq'[x]) /\ LocalOK(rq'[x])
    BY <1>4, DownloadFacts DEF Unlist, TypeOK
  <2>3. /\ dl[r].pc \notin {"none", "dead"} /\ g.pc \notin {"none", "dead"}
        /\ dl[r].complete => g.complete /\ g.body = dl[r].body /\ g.zip = dl[r].zip
        /\ Settled(dl[r]) => Settled(g) /\ g.complete = dl[r].complete
    BY DownloadFacts DEF Unlist, Downloads, Settled
  <2>4. lost \subseteq lost'
    BY DEF Unlist, disk
  <2> QED
    BY <1>1, <1>2, <1>5, <2>1, <2>2, <2>3, <2>4, DownloadMove
<1>7. Listing'
  <2>1. \A d \in Requests : /\ Unsettled(dl'[d]) => Unsettled(dl[d]) /\ d # r
                            /\ dl[d].pc \notin {"none", "dead"} => dl'[d].pc \notin {"none", "dead"}
    BY <1>2, DownloadFacts DEF Unlist, IInv, TypeOK, Downloads, Unsettled, Producing
  <2>2. ASSUME NEW d \in Requests, Unsettled(dl'[d])
        PROVE  inflight'[KeyOf[d]] = d
    <3>1. KeyOf[d] \in Keys /\ inflight[KeyOf[d]] = d /\ d # r
      BY <2>1, <2>2, KeysAssumption DEF IInv, Listing
    <3> QED
      BY <1>3, <3>1
  <2>3. ASSUME NEW k \in Keys, inflight'[k] # NoOne
        PROVE  KeyOf[inflight'[k]] = k /\ dl'[inflight'[k]].pc \notin {"none", "dead"}
    <3>1. inflight'[k] = inflight[k] /\ inflight[k] \in Requests
      BY <1>3, <2>3 DEF IInv, TypeOK, Opt
    <3>2. KeyOf[inflight[k]] = k /\ dl[inflight[k]].pc \notin {"none", "dead"}
      BY <3>1, RequestsAssumption DEF IInv, Listing
    <3> QED
      BY <2>1, <3>1, <3>2
  <2> QED
    BY <2>2, <2>3 DEF Listing
<1>8. Directory'
  BY <1>2, DownloadFacts DEF Unlist, IInv, TypeOK, Directory, disk, Downloads
<1>9. Downloading' = Downloading
  BY <1>2, DownloadFacts DEF Unlist, IInv, TypeOK, Downloads, Downloading, Live, Producing, Teardown
<1>10. SlotsAccounted'
  BY <1>9 DEF Unlist, IInv, SlotsAccounted
<1>11. Tails'
  <2>1. dl[r].pc # "end" /\ g.pc # "end" /\ lost' = lost
    BY DownloadFacts DEF Unlist, disk, Downloads
  <2> QED
    BY <1>1, <1>2, <1>5, <2>1, TailsMove
<1> QED
  BY <1>4, <1>6, <1>7, <1>8, <1>10, <1>11 DEF IInv

\* Requests are finitely many, so the set of live downloads has a cardinality that a leader
\* raises by one and a finished download lowers by one.
LEMMA DownloadingFinite == IsFiniteSet(Downloading)
BY RequestsAssumption, FS_Subset DEF Downloading

\* Returning the slot of a finished download keeps it.
LEMMA ReleaseStep ==
    ASSUME IInv, NEW r \in Requests, Release(r)
    PROVE  IInv'
<1>0. PICK n \in 0 .. dl[r].written :
         /\ dl' = [dl EXCEPT ![r] = [dl[r] EXCEPT !.pc = "end", !.written = n]]
         /\ (n = dl[r].written /\ lost' = lost) \/ lost' = lost \cup {r}
  <2>1. CASE TailKept(r)
    <3>1. dl' = [dl EXCEPT ![r] = [dl[r] EXCEPT !.pc = "end", !.written = dl[r].written]]
      BY <2>1 DEF TailKept, IInv, TypeOK, Downloads
    <3>2. dl[r].written \in 0 .. dl[r].written
      BY DownloadFacts
    <3> QED
      BY <2>1, <3>1, <3>2 DEF TailKept
  <2>2. CASE TailLost(r)
    <3>1. PICK n \in 0 .. dl[r].written : dl' = [dl EXCEPT ![r].pc = "end", ![r].written = n]
      BY <2>2 DEF TailLost
    <3>2. dl' = [dl EXCEPT ![r] = [dl[r] EXCEPT !.pc = "end", !.written = n]]
      BY <3>1 DEF IInv, TypeOK, Downloads
    <3> QED
      BY <2>2, <3>2 DEF TailLost
  <2> QED
    BY <2>1, <2>2 DEF Release
<1> DEFINE g == [dl[r] EXCEPT !.pc = "end", !.written = n]
<1>1. g \in Downloads
  <2>1. n \in Nat /\ dl[r] \in Downloads
    BY DownloadFacts
  <2> QED
    BY <2>1 DEF Downloads
<1>2. dl' = [dl EXCEPT ![r] = g] /\ lost \subseteq lost' /\ lost' \subseteq Requests
  BY <1>0 DEF IInv, TypeOK
<1>3. r \in Downloading /\ Downloading' = Downloading \ {r}
  BY <1>2, DownloadFacts DEF Release, IInv, TypeOK, Downloads, Downloading, Live, Producing, Teardown
<1>4. SlotsAccounted' /\ sem' \in Nat
  <2>1. Cardinality(Downloading') = Cardinality(Downloading) - 1 /\ Cardinality(Downloading) \in Nat
    BY <1>3, DownloadingFinite, FS_RemoveElement, FS_CardinalityType
  <2>2. Cardinality(Downloading') \in Nat
    BY <1>3, DownloadingFinite, FS_Subset, FS_CardinalityType
  <2>3. sem' = Cardinality(Downloading')
    BY <2>1 DEF Release, IInv, SlotsAccounted
  <2> QED
    BY <2>1, <2>2, <2>3, BoundsAssumption DEF Release, IInv, SlotsAccounted, Downloading
<1>5. TypeOK'
  BY <1>1, <1>2, <1>4 DEF Release, IInv, TypeOK, contexts
<1>6. PipelineOK(g) /\ PromiseOK(g, entry[r])
  BY DownloadFacts DEF Release, PipelineOK, PromiseOK, Full, Downloads, Unsettled, Settled, Producing
<1>7. Handling' /\ Producers'
  <2>1. entry[r] \in Entries /\ entry' = [entry EXCEPT ![r] = entry[r]] /\ entry[r].size <= entry[r].size
    BY DownloadFacts DEF Release
  <2>2. rq' \in [Requests -> Handlers] /\ \A x \in Requests : SameReader(rq[x], rq'[x]) /\ LocalOK(rq'[x])
    BY <1>5, DownloadFacts DEF Release, TypeOK
  <2>3. /\ dl[r].pc \notin {"none", "dead"} /\ g.pc \notin {"none", "dead"}
        /\ dl[r].complete => g.complete /\ g.body = dl[r].body /\ g.zip = dl[r].zip
        /\ Settled(dl[r]) => Settled(g) /\ g.complete = dl[r].complete
    BY DownloadFacts DEF Release, Downloads, Settled
  <2> QED
    BY <1>1, <1>2, <1>6, <2>1, <2>2, <2>3, DownloadMove
<1>8. Listing'
  BY <1>2, DownloadFacts DEF Release, IInv, TypeOK, Listing, Downloads, Unsettled, Producing
<1>9. Directory'
  BY <1>2, DownloadFacts DEF Release, IInv, TypeOK, Directory, Downloads
<1>10. Tails'
  <2>1. dl[r].pc = "release" /\ PipelineOK(dl[r])
    BY DownloadFacts DEF Release
  <2>2. g.pc = "end" /\ (n = dl[r].written => g.written = dl[r].written) /\ Full(g) = Full(dl[r])
        /\ g.complete = dl[r].complete
    BY DownloadFacts DEF Downloads, Full
  <2> QED
    BY <1>0, <2>1, <2>2 DEF IInv, TypeOK, Tails, PipelineOK
<1> QED
  BY <1>4, <1>5, <1>7, <1>8, <1>9, <1>10 DEF IInv

\* Starting a download keeps it: the slot, the entry and the goroutine come into being together.
LEMMA LeadStep ==
    ASSUME IInv, NEW r \in Requests, Lead(r)
    PROVE  IInv'
<1> DEFINE k == KeyOf[r]
           g == [dl[r] EXCEPT !.pc = "fetch"]
           h == [rq[r] EXCEPT !.pc = "check", !.e = r]
<1>1. rq[r] \in Handlers /\ LocalOK(rq[r]) /\ LinkOK(r, rq[r]) /\ ReadOK(r, rq[r])
      /\ rq[r].pc = "enter"
  BY DEF Lead, IInv, TypeOK, Handling
<1>2. dl[r].pc = "none" /\ k \in Keys
  BY <1>1, KeysAssumption DEF LocalOK, LinkOK
<1>3. g \in Downloads /\ h \in Handlers /\ newCacheEntry \in Entries
  BY <1>1, DownloadFacts DEF Downloads, Handlers, Entries, newCacheEntry, Producing, Following, Opt, Errors
<1>4. dl' = [dl EXCEPT ![r] = g] /\ rq' = [rq EXCEPT ![r] = h]
      /\ entry' = [entry EXCEPT ![r] = newCacheEntry] /\ inflight' = [inflight EXCEPT ![k] = r]
  BY <1>1 DEF Lead, Follows, IInv, TypeOK, Downloads, Handlers
<1>5. UNCHANGED <<tmp, blob, meta, lost, cancelled, cur>> /\ waking' \subseteq Requests /\ sem' = sem + 1
      /\ sem < MaxDownloads
  BY DEF Lead, Follows, SlotFree, SlotTaken, disk, IInv, TypeOK
<1>6. TypeOK'
  BY <1>2, <1>3, <1>4, <1>5 DEF IInv, TypeOK, Opt
<1>7. PipelineOK(g) /\ PromiseOK(g, newCacheEntry)
  BY <1>2, DownloadFacts DEF PipelineOK, PromiseOK, Full, Downloads, Unsettled, Settled, Producing,
                             newCacheEntry
<1>8. Producers'
  BY <1>4, <1>7 DEF IInv, TypeOK, Producers
<1>9. \A d \in Requests : dl[d].pc # "none" => dl'[d] = dl[d] /\ entry'[d] = entry[d] /\ d # r
  BY <1>2, <1>4 DEF IInv, TypeOK
<1>10. \A d \in Requests : dl[d].complete => dl[d].pc # "none"
  BY DEF IInv, Producers, PipelineOK
<1>11. Handling'
  <2>1. (LocalOK(rq[r]) /\ LinkOK(r, rq[r]) /\ ReadOK(r, rq[r]))'
    <3>1. /\ rq'[r].pc = "check" /\ rq'[r].e = r /\ rq'[r].m = NoOne /\ rq'[r].fd = NoOne
          /\ rq'[r].res = "none" /\ rq'[r].got = 0
      BY <1>1, <1>4 DEF IInv, TypeOK, LocalOK, Handlers
    <3>2. dl'[r].pc = "fetch"
      BY <1>4, DownloadFacts DEF IInv, TypeOK, Downloads
    <3> QED
      BY <3>1, <3>2, RequestsAssumption DEF LocalOK, LinkOK, ReadOK, Errors, Following
  <2>2. ASSUME NEW x \in Requests, x # r
        PROVE  (LocalOK(rq[x]) /\ LinkOK(x, rq[x]) /\ ReadOK(x, rq[x]))'
    <3>1. rq'[x] = rq[x] /\ rq[x] \in Handlers /\ LocalOK(rq[x]) /\ LinkOK(x, rq[x]) /\ ReadOK(x, rq[x])
      BY <1>4, <2>2 DEF IInv, TypeOK, Handling
    <3>2. rq[x].e \in Opt(Requests) /\ rq[x].m \in Opt(Requests) /\ rq[x].fd \in Opt(Requests)
      BY <3>1 DEF Handlers
    <3>3. dl'[x].pc = dl[x].pc
      BY <1>4, <2>2 DEF IInv, TypeOK
    <3>4. rq[x].pc \in Following \/ rq[x].e # NoOne => rq[x].e \in Requests /\ dl[rq[x].e].pc # "none"
      BY <3>1, <3>2 DEF LinkOK, LocalOK, Opt
    <3>5. LinkOK(x, rq[x])'
      BY <1>9, <3>1, <3>3, <3>4 DEF LinkOK
    <3>6. \A d \in Requests : dl[d].complete \/ Settled(dl[d]) => dl'[d] = dl[d]
      BY <1>9, <1>10 DEF Settled
    <3>9. lost' = lost /\ (rq[x].pc = "send" => rq[x].fd \in Requests)
      BY <1>5, <3>1, <3>2 DEF LocalOK, Opt
    <3>7. ReadOK(x, rq[x])'
      BY <1>9, <3>9, <3>1, <3>2, <3>4, <3>6 DEF ReadOK, Opt
    <3>8. LocalOK(rq[x])'
      BY <3>1, Zenon
    <3> QED
      BY <3>5, <3>7, <3>8
  <2> QED
    BY <2>1, <2>2 DEF Handling
<1>12. Listing'
  <2>1. ASSUME NEW d \in Requests, Unsettled(dl'[d])
        PROVE  inflight'[KeyOf[d]] = d
    <3>1. CASE d = r
      BY <1>2, <1>4, <3>1 DEF IInv, TypeOK
    <3>2. CASE d # r
      <4>1. Unsettled(dl[d]) /\ inflight[KeyOf[d]] = d /\ ~entry[d].done /\ KeyOf[d] \in Keys
        BY <1>4, <2>1, <3>2, KeysAssumption DEF IInv, TypeOK, Listing, Producers, PromiseOK
      <4>2. KeyOf[d] # k
        BY <4>1, RequestsAssumption DEF Lead, Joinable
      <4> QED
        BY <1>4, <4>1, <4>2 DEF IInv, TypeOK
    <3> QED
      BY <3>1, <3>2
  <2>2. ASSUME NEW l \in Keys, inflight'[l] # NoOne
        PROVE  KeyOf[inflight'[l]] = l /\ dl'[inflight'[l]].pc \notin {"none", "dead"}
    <3>1. CASE l = k
      BY <1>2, <1>4, <3>1, DownloadFacts DEF IInv, TypeOK, Downloads
    <3>2. CASE l # k
      <4>1. inflight'[l] = inflight[l] /\ inflight[l] \in Requests
        BY <1>4, <2>2, <3>2 DEF IInv, TypeOK, Opt
      <4> QED
        BY <1>9, <4>1, RequestsAssumption DEF IInv, Listing
    <3> QED
      BY <3>1, <3>2
  <2> QED
    BY <2>1, <2>2 DEF Listing
<1>13. Directory'
  <2>1. \A d \in Requests : /\ dl[d].complete => dl'[d].complete
                            /\ dl'[d].pc \in {"meta", "rollback"} => dl[d].pc \in {"meta", "rollback"}
    BY <1>4, DownloadFacts DEF IInv, TypeOK, Downloads
  <2> QED
    BY <1>5, <2>1 DEF IInv, TypeOK, Directory, Opt
<1>14. SlotsAccounted'
  <2>1. r \notin Downloading /\ Downloading' = Downloading \cup {r}
    BY <1>2, <1>4, DownloadFacts DEF IInv, TypeOK, Downloads, Downloading, Live, Producing, Teardown
  <2>2. Cardinality(Downloading') = Cardinality(Downloading) + 1
    BY <2>1, DownloadingFinite, FS_AddElement
  <2> QED
    BY <1>5, <2>2, BoundsAssumption DEF IInv, TypeOK, SlotsAccounted, Downloading
<1>15. Tails'
  <2>1. dl[r].pc # "end" /\ g.pc # "end"
    BY <1>2, DownloadFacts DEF Downloads
  <2> QED
    BY <1>3, <1>4, <1>5, <1>7, <2>1, TailsMove
<1> QED
  BY <1>6, <1>8, <1>11, <1>12, <1>13, <1>14, <1>15 DEF IInv

-----------------------------------------------------------------------------
(* The evictor, and the process being killed.                              *)

\* Removing names from the directory keeps the invariant.
LEMMA RemovalMove ==
    ASSUME IInv, UNCHANGED <<memory, dl, lost, rq, contexts>>, tmp' \subseteq tmp, cur' \in Keys \cup {NoKey},
           blob' \in [Keys -> Opt(Requests)], \A k \in Keys : blob'[k] \in {blob[k], NoOne},
           meta' \in [Keys -> Opt(Requests)], \A k \in Keys : meta'[k] \in {meta[k], NoOne}
    PROVE  IInv'
<1>1. TypeOK'
  BY DEF IInv, TypeOK, memory, contexts
<1>2. Handling' /\ Producers' /\ Listing'
  BY DEF IInv, memory, Handling, LinkOK, ReadOK, Producers, Listing
<1>3. Directory' /\ Tails'
  BY KeysAssumption DEF IInv, Directory, Tails
<1>4. SlotsAccounted'
  BY DEF IInv, memory, SlotsAccounted, Downloading, Live
<1> QED
  BY <1>1, <1>2, <1>3, <1>4 DEF IInv

\* No step of the evictor breaks it.
LEMMA EvictStepKeeps ==
    ASSUME IInv, EvictStep
    PROVE  IInv'
<1>1. ASSUME NEW old \in SUBSET tmp, SweepTemps(old)
      PROVE  IInv'
  BY <1>1, RemovalMove DEF SweepTemps, IInv, TypeOK
<1>2. ASSUME NEW k \in Keys, EvictBlob(k)
      PROVE  IInv'
  <2>1. blob' \in [Keys -> Opt(Requests)] /\ \A l \in Keys : blob'[l] \in {blob[l], NoOne}
    BY <1>2 DEF EvictBlob, IInv, TypeOK, Opt
  <2> QED
    BY <1>2, <2>1, RemovalMove DEF EvictBlob, IInv, TypeOK
<1>3. CASE EvictMeta
  <2>1. meta' \in [Keys -> Opt(Requests)] /\ \A l \in Keys : meta'[l] \in {meta[l], NoOne}
    BY <1>3 DEF EvictMeta, IInv, TypeOK, Opt
  <2> QED
    BY <1>3, <2>1, RemovalMove DEF EvictMeta, IInv, TypeOK
<1> QED
  BY <1>1, <1>2, <1>3 DEF EvictStep

\* What a kill does to the downloads and to the requests.
LEMMA CrashFacts ==
    ASSUME IInv, Crash
    PROVE  /\ \A d \in Requests : /\ dl'[d] \in Downloads
                                     /\ dl'[d].pc = (IF Live(d) THEN "dead" ELSE dl[d].pc)
                                     /\ dl'[d].complete = dl[d].complete /\ dl'[d].written = dl[d].written
                                     /\ dl'[d].body = dl[d].body /\ dl'[d].zip = dl[d].zip
           /\ \A r \in Requests :
                 /\ rq'[r] \in Handlers
                 /\ \/ rq[r].pc \in {"idle", "end"} /\ rq'[r] = rq[r]
                    \/ /\ rq'[r].pc = "end" /\ rq'[r].res = "killed"
                       /\ rq'[r].e = rq[r].e /\ rq'[r].m = rq[r].m /\ rq'[r].fd = rq[r].fd
                       /\ rq'[r].got = rq[r].got
<1>1. \A d \in Requests : /\ dl'[d] \in Downloads
                          /\ dl'[d].pc = (IF Live(d) THEN "dead" ELSE dl[d].pc)
                          /\ dl'[d].complete = dl[d].complete /\ dl'[d].written = dl[d].written
                          /\ dl'[d].body = dl[d].body /\ dl'[d].zip = dl[d].zip
  BY DEF Crash, IInv, TypeOK, Downloads
<1>2. \A r \in Requests :
         /\ rq'[r] \in Handlers
         /\ \/ rq[r].pc \in {"idle", "end"} /\ rq'[r] = rq[r]
            \/ /\ rq'[r].pc = "end" /\ rq'[r].res = "killed"
               /\ rq'[r].e = rq[r].e /\ rq'[r].m = rq[r].m /\ rq'[r].fd = rq[r].fd
               /\ rq'[r].got = rq[r].got
  BY DEF Crash, IInv, TypeOK, Handlers, Results
<1> QED BY <1>1, <1>2

\* A kill and restart keeps it: what is left on disk is sound without the memory that was lost.
LEMMA CrashStep ==
    ASSUME IInv, Crash
    PROVE  IInv'
<1>1. \A d \in Requests : /\ dl'[d] \in Downloads
                          /\ dl'[d].pc = (IF Live(d) THEN "dead" ELSE dl[d].pc)
                          /\ dl'[d].complete = dl[d].complete /\ dl'[d].written = dl[d].written
                          /\ dl'[d].body = dl[d].body /\ dl'[d].zip = dl[d].zip
  BY CrashFacts
<1>2. \A d \in Requests : dl'[d].pc \notin Producing \cup Teardown
  BY <1>1 DEF Live, Producing, Teardown
<1>3. \A r \in Requests :
         /\ rq'[r] \in Handlers
         /\ \/ rq[r].pc \in {"idle", "end"} /\ rq'[r] = rq[r]
            \/ /\ rq'[r].pc = "end" /\ rq'[r].res = "killed"
               /\ rq'[r].e = rq[r].e /\ rq'[r].m = rq[r].m /\ rq'[r].fd = rq[r].fd
               /\ rq'[r].got = rq[r].got
  BY CrashFacts
<1>4. TypeOK'
  <2>1. rq' \in [Requests -> Handlers] /\ dl' \in [Requests -> Downloads]
    BY <1>1, <1>3 DEF Crash
  <2>2. entry' \in [Requests -> Entries]
    BY DEF Crash, Entries, newCacheEntry, Errors
  <2> QED
    BY <2>1, <2>2 DEF Crash, IInv, TypeOK, Opt, disk
<1>5. \A d \in Requests : /\ Full(dl'[d]) = Full(dl[d])
                          /\ Settled(dl[d]) => Settled(dl'[d])
                          /\ (dl'[d].pc = "none") = (dl[d].pc = "none")
  BY <1>1 DEF Full, Settled, Live, Producing, Teardown
<1>6. Handling'
  <2>1. ASSUME NEW r \in Requests
        PROVE  (LocalOK(rq[r]) /\ LinkOK(r, rq[r]) /\ ReadOK(r, rq[r]))'
    <3>0. rq[r] \in Handlers /\ LocalOK(rq[r]) /\ LinkOK(r, rq[r]) /\ ReadOK(r, rq[r])
      BY Zenon DEF IInv, TypeOK, Handling
    <3>1. rq[r].e \in Opt(Requests) /\ rq[r].m \in Opt(Requests) /\ rq[r].fd \in Opt(Requests)
      BY <3>0 DEF Handlers
    <3>2. rq'[r].pc \in {"idle", "end"}
      BY <1>3
    <3>3. LocalOK(rq[r])'
      BY <1>3, <3>0 DEF LocalOK, Following
    <3>4. LinkOK(r, rq[r])'
      BY <1>3, <1>5, <3>0, <3>1, <3>2 DEF LinkOK, Opt, Following
    <3>6. lost' = lost
      BY DEF Crash, disk
    <3>5. ReadOK(r, rq[r])'
      BY <1>1, <1>3, <1>5, <3>0, <3>1, <3>2, <3>6 DEF ReadOK, Opt, Following, Errors
    <3> QED
      BY <3>3, <3>4, <3>5
  <2> QED
    BY <2>1 DEF Handling
<1>7. Producers'
  <2>1. ASSUME NEW d \in Requests
        PROVE  (PipelineOK(dl[d]) /\ PromiseOK(dl[d], entry[d]))'
    <3>1. dl[d] \in Downloads /\ PipelineOK(dl[d]) /\ entry'[d] = newCacheEntry
      BY DownloadFacts DEF Crash
    <3>2. PipelineOK(dl[d])'
      <4>1. dl'[d].pc = "end" => dl[d].pc = "end"
        BY <1>1
      <4>2. dl[d].pc = "end" => dl'[d].pc = "end"
        BY <1>1 DEF Live, Producing, Teardown
      <4> QED
        BY <1>1, <1>2, <1>5, <3>1, <4>1, <4>2 DEF PipelineOK, Producing, Teardown
    <3>3. PromiseOK(dl[d], entry[d])'
      BY <1>2, <3>1 DEF PromiseOK, Unsettled, newCacheEntry, Producing, Teardown
    <3> QED
      BY <3>2, <3>3
  <2> QED
    BY <2>1 DEF Producers
<1>8. Listing'
  BY <1>2 DEF Crash, Listing, Unsettled, Teardown
<1>9. Directory'
  <2>1. \A d \in Requests : dl'[d].complete = dl[d].complete /\ dl'[d].pc \notin {"meta", "rollback"}
    BY <1>1, <1>2 DEF Producing
  <2>2. UNCHANGED <<blob, meta>>
    BY DEF Crash, disk
  <2> QED
    BY <2>1, <2>2 DEF IInv, TypeOK, Directory, Opt
<1>10. SlotsAccounted'
  <2>1. Downloading' = {}
    BY <1>2 DEF Downloading, Live
  <2> QED
    <3>1. Cardinality(Downloading') = 0 /\ sem' = 0
      BY <2>1, FS_EmptySet DEF Crash
    <3> QED
      BY <3>1, BoundsAssumption DEF SlotsAccounted
<1>11. Tails'
  BY <1>1, <1>5 DEF Crash, disk, IInv, Tails, Live, Producing, Teardown
<1> QED
  BY <1>4, <1>6, <1>7, <1>8, <1>9, <1>10, <1>11 DEF IInv

-----------------------------------------------------------------------------
\* An empty cache satisfies the invariant.
LEMMA InitIInv ==
    ASSUME Init
    PROVE  IInv
<1>1. TypeOK
  BY DEF Init, TypeOK, Opt, Entries, newCacheEntry, Errors, Downloads, NoDownload, Handlers, NoHandler,
         PreEntry, Results
<1>2. Handling
  BY DEF Init, Handling, LocalOK, LinkOK, ReadOK, NoHandler, NoDownload, Following, Errors
<1>3. Producers
  BY DEF Init, Producers, PipelineOK, PromiseOK, Unsettled, NoDownload, newCacheEntry, Producing
<1>4. Listing /\ Directory /\ Tails
  BY DEF Init, Listing, Directory, Tails, Unsettled, NoDownload, Producing
<1>5. SlotsAccounted
  <2>1. Downloading = {}
    BY DEF Init, Downloading, Live, NoDownload, Producing, Teardown
  <2> QED
    BY <2>1, FS_EmptySet, BoundsAssumption DEF Init, SlotsAccounted
<1> QED
  BY <1>1, <1>2, <1>3, <1>4, <1>5 DEF IInv

\* The invariant is inductive.
LEMMA NextIInv ==
    ASSUME IInv, [Next]_vars
    PROVE  IInv'
<1>1. ASSUME NEW r \in Requests, Arrive(r) \/ RequestStep(r)
      PROVE  IInv'
  <2>1. CASE Arrive(r)
    BY <2>1, ReadMetaStep DEF Arrive
  <2>2. CASE Reopen(r)
    BY <2>2, ReadMetaStep DEF Reopen
  <2> QED
    BY <1>1, <2>1, <2>2, OpenBlobStep, SendBlobStep, RemoveOrphanMetaStep, JoinStep, LeadStep, BusyStep, CheckStep,
       ParkStep, ReadChunkStep, CatchUpStep DEF RequestStep
<1>2. ASSUME NEW r \in Requests, DownloadStep(r)
      PROVE  IInv'
  <2>1. CASE FetchError(r)
    BY <2>1, FailWithStep DEF FetchError
  <2>2. CASE BreakOff(r)
    BY <2>2, FailWithStep DEF BreakOff
  <2>3. CASE DiskError(r)
    BY <2>3, FailWithStep DEF DiskError
  <2> QED
    BY <1>2, <2>1, <2>2, <2>3, FetchStep, WriteChunkStep, EndOfBodyStep, PublishSizeStep, RenameStep,
       WriteMetaStep, RollBackStep, SettleStep, UnlistStep, ReleaseStep DEF DownloadStep
<1>3. CASE UNCHANGED vars
  <2>1. TypeOK'
    BY <1>3 DEF vars, memory, disk, contexts, IInv, TypeOK
  <2>2. Handling' /\ Producers' /\ Listing' /\ Directory' /\ Tails'
    BY <1>3 DEF vars, memory, disk, contexts, IInv, Handling, LinkOK, ReadOK, Producers, Listing,
                Directory, Tails
  <2>3. SlotsAccounted'
    BY <1>3 DEF vars, memory, IInv, SlotsAccounted, Downloading, Live
  <2> QED
    BY <2>1, <2>2, <2>3 DEF IInv
<1> QED
  BY <1>1, <1>2, <1>3, CancelStep, WakeFollowerStep, EvictStepKeeps, CrashStep DEF Next

\* The inductive invariant holds in every reachable state of the cache.
THEOREM IInvHolds == Spec => []IInv
BY InitIInv, NextIInv, PTL DEF Spec

\* Type correctness of the file cache's state.
THEOREM TypeCorrect == Spec => []TypeOK
<1>1. IInv => TypeOK
  BY DEF IInv
<1> QED
  BY <1>1, IInvHolds, PTL

\* No client is ever sent an incomplete body as if it were whole, for any number of
\* concurrent requests, keys, slots and body sizes, unless closing that very file failed.
THEOREM NeverTruncated == Spec => []NoTruncated200
<1>1. IInv => NoTruncated200
  <2>1. \A d : FullSize(d) = Full(dl[d])
    BY DEF FullSize, Full
  <2> QED
    BY <2>1, Zenon DEF IInv, Handling, ReadOK, NoTruncated200
<1> QED
  BY <1>1, IInvHolds, PTL

\* Only files written to their last byte carry a final name, and they keep every byte
\* unless closing them, when their download was over, failed.
THEOREM OnlyWholeFilesPublished == Spec => []PublishedIsWhole
<1>1. IInv => PublishedIsWhole
  BY DEF IInv, TypeOK, Opt, Directory, Tails, PublishedIsWhole, FullSize, Full
<1> QED
  BY <1>1, IInvHolds, PTL

\* Concurrent requests for one key share one producing download.
THEOREM Coalescing == Spec => []OneProducerPerKey
BY OneProducer, IInvHolds, PTL

\* The semaphore counts exactly the downloads that will release it.
THEOREM SlotsNeverLeak == Spec => []SlotsAccounted
<1>1. IInv => SlotsAccounted
  BY DEF IInv
<1> QED
  BY <1>1, IInvHolds, PTL

\* A failed publication rolls back nobody else's file.
THEOREM RollBackIsLocal == Spec => []RollBackRemovesOwn
<1>1. IInv => RollBackRemovesOwn
  BY DEF IInv, Directory, RollBackRemovesOwn
<1> QED
  BY <1>1, IInvHolds, PTL

\* A failure to store a complete body fails no follower that holds its descriptor.
THEOREM CacheErrorsStayInside == Spec => []CompleteBodyNeverFails
<1>1. IInv => CompleteBodyNeverFails
  BY DEF IInv, Handling, ReadOK, CompleteBodyNeverFails
<1> QED
  BY <1>1, IInvHolds, PTL

-----------------------------------------------------------------------------
(* Wake-ups.  A follower goes to sleep on the condition variable of an     *)
(* entry only if the entry's download is live; every step of that download *)
(* that changes what the follower waits for broadcasts.                    *)

\* The entry that request r follows still has its download, or has told its outcome.
FollowOK(r) == rq[r].pc \in Following => Unsettled(dl[rq[r].e]) \/ entry[rq[r].e].done

\* What r sleeps for has not happened yet, the download that will announce it is live, and
\* if its client is gone, the callback that tells it so has yet to run.
WaitOK(r) ==
    rq[r].pc \in {"parking", "parked"} =>
        /\ Unsettled(dl[rq[r].e])
        /\ IF rq[r].fd = NoOne THEN ~entry[rq[r].e].headersReady
                               ELSE entry[rq[r].e].size <= rq[r].got
        /\ r \in cancelled => r \in waking

\* The wake-up that a follower waits for is never lost.
NoLostWakeup == \A r \in Requests : WaitOK(r)

\* Only downloads that have not been torn down are listed, settled ones with their outcome.
Listed == \A k \in Keys : inflight[k] # NoOne =>
              Unsettled(dl[inflight[k]]) \/ dl[inflight[k]].pc = "unlist"

\* A download on its way out of the table has told its outcome.
Told == \A d \in Requests : dl[d].pc = "unlist" => entry[d].done

\* The inductive part of NoLostWakeup.
Heard == Listed /\ Told /\ \A r \in Requests : FollowOK(r) /\ WaitOK(r)

\* A step of request r alone.
LEMMA HandlerWake ==
    ASSUME Heard, NEW r \in Requests, \A x \in Requests \ {r} : rq'[x] = rq[x],
           UNCHANGED <<memory, dl>>, \A x \in Requests \ {r} : x \in cancelled' => x \in cancelled,
           \A x \in Requests \ {r} : x \in waking => x \in waking',
           FollowOK(r)', WaitOK(r)'
    PROVE  Heard'
<1>1. Listed' /\ Told'
  BY DEF Heard, Listed, Told, memory
<1>2. ASSUME NEW x \in Requests PROVE FollowOK(x)' /\ WaitOK(x)'
  <2>1. CASE x = r
    BY <2>1
  <2>2. CASE x # r
    BY <2>2 DEF Heard, FollowOK, WaitOK, memory
  <2> QED BY <2>1, <2>2
<1> QED BY <1>1, <1>2 DEF Heard

\* ... that no longer, or not yet, follows an entry.
LEMMA AwakeWake ==
    ASSUME Heard, NEW r \in Requests, \A x \in Requests \ {r} : rq'[x] = rq[x],
           UNCHANGED <<memory, dl, contexts>>, rq'[r].pc \notin Following
    PROVE  Heard'
<1>1. FollowOK(r)' /\ WaitOK(r)'
  BY DEF FollowOK, WaitOK, Following
<1> QED BY <1>1, HandlerWake DEF contexts

\* A broadcast, made with the mutex free, leaves nobody waiting on the entry.
LEMMA BroadcastWake ==
    ASSUME IInv, NEW d \in Requests, MuFree(d), rq' = Broadcast(d), NEW x \in Requests
    PROVE  /\ rq[x].e = d => rq'[x].pc \notin {"parking", "parked"}
           /\ rq[x].e # d => rq'[x] = rq[x]
           /\ rq'[x].e = rq[x].e /\ (rq'[x].pc \in Following => rq[x].pc \in Following)
<1>1. rq[x] \in Handlers
  BY DEF IInv, TypeOK
<1>2. CASE rq[x].pc = "parked" /\ rq[x].e = d
  <2>1. rq'[x] = [rq[x] EXCEPT !.pc = ResumeAt(x)]
    BY <1>2 DEF Broadcast
  <2>2. rq'[x].pc = ResumeAt(x) /\ rq'[x].e = rq[x].e
    BY <1>1, <2>1 DEF Handlers
  <2> QED BY <1>2, <2>2 DEF ResumeAt, Following
<1>3. CASE ~(rq[x].pc = "parked" /\ rq[x].e = d)
  <2>1. rq'[x] = rq[x]
    BY <1>3 DEF Broadcast
  <2> QED BY <1>3, <2>1 DEF MuFree
<1> QED BY <1>2, <1>3

\* A step of download d that stays unsettled, or settles: it announces what it changes.
LEMMA DownloadWake ==
    ASSUME IInv, Heard, NEW d \in Requests, UNCHANGED <<inflight, contexts>>,
           \A x \in Requests \ {d} : dl'[x] = dl[x] /\ entry'[x] = entry[x],
           Unsettled(dl[d]), Unsettled(dl'[d]) \/ (dl'[d].pc = "unlist" /\ entry'[d].done),
           \/ rq' = rq /\ entry' = entry /\ Unsettled(dl'[d])
           \/ MuFree(d) /\ rq' = Broadcast(d)
    PROVE  Heard'
<1>0. \A x \in Requests : /\ dl[x].pc = "unlist" => ~Unsettled(dl[x])
                          /\ (dl[x].pc = "unlist")' => ~Unsettled(dl[x])'
  BY DEF Unsettled, Producing
<1>1. Listed' /\ Told'
  <2>1. Told'
    <3> SUFFICES ASSUME NEW x \in Requests, dl'[x].pc = "unlist" PROVE entry'[x].done
      BY DEF Told
    <3>1. CASE x = d
      BY <1>0, <3>1
    <3>2. CASE x # d
      BY <3>2 DEF Heard, Told
    <3> QED BY <3>1, <3>2
  <2>2. ASSUME NEW k \in Keys, inflight'[k] # NoOne
        PROVE  Unsettled(dl'[inflight'[k]]) \/ dl'[inflight'[k]].pc = "unlist"
    <3>1. inflight'[k] = inflight[k] /\ inflight[k] \in Requests
      BY <2>2 DEF IInv, TypeOK, Opt
    <3>2. Unsettled(dl[inflight[k]]) \/ dl[inflight[k]].pc = "unlist"
      BY <2>2, <3>1 DEF Heard, Listed
    <3>3. CASE inflight[k] = d
      BY <3>1, <3>3
    <3>4. CASE inflight[k] # d
      BY <3>1, <3>2, <3>4
    <3> QED BY <3>3, <3>4
  <2>3. Listed'
    BY <2>2, Zenon DEF Listed
  <2> QED BY <2>1, <2>3
<1>2. ASSUME NEW x \in Requests PROVE FollowOK(x)' /\ WaitOK(x)'
  <2>1. rq[x].e \in Opt(Requests) /\ FollowOK(x) /\ WaitOK(x)
    BY DEF IInv, TypeOK, Handlers, Heard
  <2>2. rq[x].pc \in Following => rq[x].e \in Requests
    BY <2>1 DEF IInv, Handling, LocalOK, Opt
  <2>3. CASE rq' = rq /\ entry' = entry /\ Unsettled(dl'[d])
    BY <2>1, <2>2, <2>3 DEF FollowOK, WaitOK, Following, contexts
  <2>4. CASE MuFree(d) /\ rq' = Broadcast(d)
    <3>1. /\ rq[x].e = d => rq'[x].pc \notin {"parking", "parked"}
          /\ rq[x].e # d => rq'[x] = rq[x]
          /\ rq'[x].e = rq[x].e /\ (rq'[x].pc \in Following => rq[x].pc \in Following)
      BY <2>4, BroadcastWake
    <3>2. CASE rq[x].e = d
      BY <3>1, <3>2 DEF FollowOK, WaitOK
    <3>3. CASE rq[x].e # d
      BY <2>1, <2>2, <3>1, <3>3 DEF FollowOK, WaitOK, Following, contexts
    <3> QED BY <3>2, <3>3
  <2> QED BY <2>3, <2>4
<1> QED BY <1>1, <1>2 DEF Heard

-----------------------------------------------------------------------------
\* A request that starts to follow, as the leader or as a joiner, follows something live.
LEMMA JoinWake == ASSUME IInv, Heard, NEW r \in Requests, Join(r) PROVE Heard'
<1> DEFINE d == inflight[KeyOf[r]]
<1>1. d \in Requests /\ ~entry[d].done
  BY KeysAssumption DEF Join, Joinable, IInv, TypeOK, Opt
<1>2. Unsettled(dl[d])
  BY <1>1, KeysAssumption DEF Join, Joinable, Heard, Listed, Told
<1> HIDE DEF d
<1>3. rq' = [rq EXCEPT ![r].pc = "check", ![r].e = d]
  BY DEF Join, Follows, d
<1>4. /\ \A x \in Requests \ {r} : rq'[x] = rq[x]
      /\ rq'[r].pc = "check" /\ rq'[r].e = d
  BY <1>3 DEF IInv, TypeOK, Handlers
<1>5. UNCHANGED <<memory, dl, cancelled>> /\ waking \subseteq waking'
  BY DEF Join, Follows
<1>6. FollowOK(r)' /\ WaitOK(r)'
  BY <1>2, <1>4, <1>5 DEF FollowOK, WaitOK
<1> QED BY <1>4, <1>5, <1>6, HandlerWake

\* A new leader.
LEMMA LeadWake == ASSUME IInv, Heard, NEW r \in Requests, Lead(r) PROVE Heard'
<1>1. /\ inflight' = [inflight EXCEPT ![KeyOf[r]] = r]
      /\ entry' = [entry EXCEPT ![r] = newCacheEntry]
      /\ dl' = [dl EXCEPT ![r].pc = "fetch"]
      /\ rq' = [rq EXCEPT ![r].pc = "check", ![r].e = r]
      /\ cancelled' = cancelled /\ waking \subseteq waking'
  BY DEF Lead, Follows
<1>2. KeyOf[r] \in Keys /\ dl[r].pc = "none"
  <2>1. rq[r].pc = "enter" /\ LocalOK(rq[r]) /\ LinkOK(r, rq[r])
    BY DEF Lead, IInv, Handling
  <2> QED BY <2>1, KeysAssumption DEF LocalOK, LinkOK
<1>3. /\ dl'[r].pc = "fetch" /\ Unsettled(dl'[r])
      /\ \A x \in Requests \ {r} : dl'[x] = dl[x] /\ entry'[x] = entry[x] /\ rq'[x] = rq[x]
      /\ rq'[r].pc = "check" /\ rq'[r].e = r
  BY <1>1 DEF IInv, TypeOK, Downloads, Handlers, Unsettled, Producing
<1>4. Told'
  BY <1>3 DEF Heard, Told
<1>5. Listed'
  <2> SUFFICES ASSUME NEW k \in Keys, inflight'[k] # NoOne
               PROVE  Unsettled(dl'[inflight'[k]]) \/ dl'[inflight'[k]].pc = "unlist"
    BY Zenon DEF Listed
  <2>1. CASE inflight'[k] = r
    BY <1>3, <2>1
  <2>2. CASE inflight'[k] # r
    <3>1. inflight'[k] = inflight[k] /\ inflight[k] \in Requests
      BY <1>1, <1>2, <2>2 DEF IInv, TypeOK, Opt
    <3>2. Unsettled(dl[inflight[k]]) \/ dl[inflight[k]].pc = "unlist"
      BY <3>1 DEF Heard, Listed
    <3> QED BY <1>3, <2>2, <3>1, <3>2
  <2> QED BY <2>1, <2>2
<1>6. ASSUME NEW x \in Requests PROVE FollowOK(x)' /\ WaitOK(x)'
  <2>1. CASE x = r
    BY <1>3, <2>1 DEF FollowOK, WaitOK
  <2>2. CASE x # r
    <3>1. rq'[x] = rq[x] /\ FollowOK(x) /\ WaitOK(x)
      BY <1>3, <2>2 DEF Heard
    <3>2. rq[x].pc \in Following => rq[x].e \in Requests \ {r}
      BY <1>2 DEF IInv, TypeOK, Handlers, Handling, LocalOK, LinkOK, Opt
    <3>3. rq[x].pc \in Following => dl'[rq[x].e] = dl[rq[x].e] /\ entry'[rq[x].e] = entry[rq[x].e]
      BY <1>3, <3>2
    <3>4. x \in cancelled' => x \in cancelled
      BY <1>1
    <3>5. x \in waking => x \in waking'
      BY <1>1
    <3>6. FollowOK(x)'
      BY <3>1, <3>3 DEF FollowOK
    <3>7. WaitOK(x)'
      BY <3>1, <3>3, <3>4, <3>5 DEF WaitOK, Following
    <3> QED BY <3>6, <3>7
  <2> QED BY <2>1, <2>2
<1> QED BY <1>4, <1>5, <1>6 DEF Heard

\* follow goes to sleep only while there are neither headers nor an outcome.
LEMMA CheckWake == ASSUME IInv, Heard, NEW r \in Requests, Check(r) PROVE Heard'
<1> DEFINE e == entry[rq[r].e]
<1>0. rq[r] \in Handlers /\ rq[r].pc = "check" /\ LocalOK(rq[r]) /\ FollowOK(r)
  BY DEF Check, IInv, TypeOK, Handling, Heard
<1>1. UNCHANGED <<memory, dl, contexts>>
  BY DEF Check
<1>2. CASE /\ rq' = [rq EXCEPT ![r].pc = "parking"]
           /\ ~e.headersReady /\ ~e.done /\ r \notin cancelled
  <2>1. /\ \A x \in Requests \ {r} : rq'[x] = rq[x]
        /\ rq'[r].pc = "parking" /\ rq'[r].e = rq[r].e /\ rq'[r].fd = NoOne
    BY <1>0, <1>2 DEF IInv, TypeOK, LocalOK, Handlers
  <2>2. Unsettled(dl[rq[r].e])
    BY <1>0, <1>2 DEF FollowOK, Following
  <2>3. FollowOK(r)' /\ WaitOK(r)'
    BY <1>1, <1>2, <2>1, <2>2 DEF FollowOK, WaitOK, memory, contexts
  <2> QED BY <1>1, <2>1, <2>3, HandlerWake DEF contexts
<1>3. CASE rq' = [rq EXCEPT ![r].pc = "stream", ![r].fd = rq[r].e]
  <2>1. /\ \A x \in Requests \ {r} : rq'[x] = rq[x]
        /\ rq'[r].pc = "stream" /\ rq'[r].e = rq[r].e
    BY <1>0, <1>3 DEF IInv, TypeOK, Handlers
  <2>2. FollowOK(r)' /\ WaitOK(r)'
    BY <1>0, <1>1, <2>1 DEF FollowOK, WaitOK, Following, memory
  <2> QED BY <1>1, <2>1, <2>2, HandlerWake DEF contexts
<1>4. CASE (\E res : rq' = Ended(r, res)) \/ rq' = [rq EXCEPT ![r].pc = "reopen"]
  <2>1. (\A x \in Requests \ {r} : rq'[x] = rq[x]) /\ rq'[r].pc \in {"end", "reopen"}
    BY <1>0, <1>4 DEF Ended, IInv, TypeOK, Handlers
  <2> QED BY <1>1, <2>1, AwakeWake DEF Following
<1> QED BY <1>2, <1>3, <1>4 DEF Check

\* Read goes back to sleep only when it has read all there is and more will come.
LEMMA CatchUpWake == ASSUME IInv, Heard, NEW r \in Requests, CatchUp(r) PROVE Heard'
<1> DEFINE e == entry[rq[r].e]
<1>0. rq[r] \in Handlers /\ rq[r].pc = "stream" /\ LocalOK(rq[r]) /\ FollowOK(r)
  BY DEF CatchUp, IInv, TypeOK, Handling, Heard
<1>1. UNCHANGED <<memory, dl, contexts>>
  BY DEF CatchUp
<1>2. CASE rq' = [rq EXCEPT ![r].pc = "parking"] /\ e.size <= rq[r].got /\ ~e.done /\ r \notin cancelled
  <2>1. /\ \A x \in Requests \ {r} : rq'[x] = rq[x]
        /\ rq'[r].pc = "parking" /\ rq'[r].e = rq[r].e /\ rq'[r].fd # NoOne /\ rq'[r].got = rq[r].got
    BY <1>0, <1>2 DEF IInv, TypeOK, LocalOK, Handlers
  <2>2. Unsettled(dl[rq[r].e])
    BY <1>0, <1>2 DEF FollowOK, Following
  <2>3. FollowOK(r)' /\ WaitOK(r)'
    BY <1>1, <1>2, <2>1, <2>2 DEF FollowOK, WaitOK, memory, contexts
  <2> QED BY <1>1, <2>1, <2>3, HandlerWake DEF contexts
<1>3. CASE \E res : rq' = Ended(r, res)
  <2>1. (\A x \in Requests \ {r} : rq'[x] = rq[x]) /\ rq'[r].pc = "end"
    BY <1>0, <1>3 DEF Ended, IInv, TypeOK, Handlers
  <2> QED BY <1>1, <2>1, AwakeWake DEF Following
<1> QED BY <1>2, <1>3 DEF CatchUp

\* A read keeps streaming, or ends the request.
LEMMA ReadChunkWake == ASSUME IInv, Heard, NEW r \in Requests, ReadChunk(r) PROVE Heard'
<1>0. rq[r] \in Handlers /\ rq[r].pc = "stream" /\ FollowOK(r)
  BY DEF ReadChunk, IInv, TypeOK, Heard
<1>1. UNCHANGED <<memory, dl, contexts>>
  BY DEF ReadChunk
<1>2. CASE \E n \in Nat : rq' = [rq EXCEPT ![r].got = n]
  <2>1. /\ \A x \in Requests \ {r} : rq'[x] = rq[x]
        /\ rq'[r].pc = "stream" /\ rq'[r].e = rq[r].e
    BY <1>0, <1>2 DEF IInv, TypeOK, Handlers
  <2>2. FollowOK(r)' /\ WaitOK(r)'
    BY <1>0, <1>1, <2>1 DEF FollowOK, WaitOK, Following, memory
  <2> QED BY <1>1, <2>1, <2>2, HandlerWake DEF contexts
<1>3. CASE \E res : rq' = Ended(r, res)
  <2>1. (\A x \in Requests \ {r} : rq'[x] = rq[x]) /\ rq'[r].pc = "end"
    BY <1>0, <1>3 DEF Ended, IInv, TypeOK, Handlers
  <2> QED BY <1>1, <2>1, AwakeWake DEF Following
<1>4. \A n \in rq[r].got + 1 .. entry[rq[r].e].size : n \in Nat
  <2>1. rq[r].got \in Nat
    BY <1>0 DEF Handlers
  <2> QED BY <2>1
<1> QED BY <1>2, <1>3, <1>4 DEF ReadChunk

\* From the test of the predicate into the queue of the condition variable.
LEMMA ParkWake == ASSUME IInv, Heard, NEW r \in Requests, Park(r) PROVE Heard'
<1>1. /\ UNCHANGED <<memory, dl, contexts>> /\ rq[r].pc = "parking"
      /\ rq' = [rq EXCEPT ![r].pc = "parked"]
  BY DEF Park
<1>2. /\ \A x \in Requests \ {r} : rq'[x] = rq[x]
      /\ rq'[r].pc = "parked" /\ rq'[r].e = rq[r].e /\ rq'[r].fd = rq[r].fd /\ rq'[r].got = rq[r].got
  BY <1>1 DEF IInv, TypeOK, Handlers
<1>3. FollowOK(r) /\ WaitOK(r)
  BY DEF Heard
<1>4. FollowOK(r)' /\ WaitOK(r)'
  BY <1>1, <1>2, <1>3 DEF FollowOK, WaitOK, Following, memory, contexts
<1> QED BY <1>1, <1>2, <1>4, HandlerWake DEF contexts

\* openCached and the refusal of a request follow nothing.
LEMMA OpenCachedWake ==
    ASSUME IInv, Heard, NEW r \in Requests,
           \/ Arrive(r) \/ Reopen(r) \/ OpenBlob(r) \/ SendBlob(r)
           \/ RemoveOrphanMeta(r) \/ Busy(r)
    PROVE  Heard'
<1>0. rq \in [Requests -> Handlers]
  BY DEF IInv, TypeOK
<1>1. UNCHANGED <<memory, dl, contexts>>
  BY Zenon DEF Arrive, Reopen, ReadMeta, OpenBlob, SendBlob, RemoveOrphanMeta, Busy
<1>2. CASE (\E res : rq' = Ended(r, res)) \/ rq' = [rq EXCEPT ![r].pc = "rmMeta"]
  <2>1. (\A x \in Requests \ {r} : rq'[x] = rq[x]) /\ rq'[r].pc \in {"end", "rmMeta"}
    BY <1>0, <1>2 DEF Ended, Handlers
  <2> QED BY <1>1, <2>1, AwakeWake DEF Following
<1>3. CASE rq' = Missed(r)
  <2>1. (\A x \in Requests \ {r} : rq'[x] = rq[x]) /\ rq'[r].pc \in {"enter", "end"}
    BY <1>0, <1>3 DEF Missed, Ended, Handlers
  <2> QED BY <1>1, <2>1, AwakeWake DEF Following
<1>4. CASE rq' = [rq EXCEPT ![r].pc = "openBlob", ![r].m = meta[KeyOf[r]]]
  <2>1. (\A x \in Requests \ {r} : rq'[x] = rq[x]) /\ rq'[r].pc = "openBlob"
    BY <1>0, <1>4 DEF Handlers
  <2> QED BY <1>1, <2>1, AwakeWake DEF Following
<1>5. CASE \E n : rq' = [Ended(r, "ok") EXCEPT ![r].got = n]
  <2>1. (\A x \in Requests \ {r} : rq'[x] = rq[x]) /\ rq'[r].pc = "end"
    BY <1>0, <1>5 DEF Ended, Handlers
  <2> QED BY <1>1, <2>1, AwakeWake DEF Following
<1>6. CASE \E d : rq' = [rq EXCEPT ![r].pc = "send", ![r].fd = d]
  <2>1. (\A x \in Requests \ {r} : rq'[x] = rq[x]) /\ rq'[r].pc = "send"
    BY <1>0, <1>6 DEF Handlers
  <2> QED BY <1>1, <2>1, AwakeWake DEF Following
<1>7. CASE SendBlob(r)
  BY <1>2, <1>5, <1>7 DEF SendBlob
<1> QED BY <1>2, <1>3, <1>4, <1>6, <1>7 DEF Arrive, Reopen, ReadMeta, OpenBlob, RemoveOrphanMeta, Busy

\* A client that goes away has its callback started ...
LEMMA CancelWake == ASSUME IInv, Heard, NEW r \in Requests, Cancel(r) PROVE Heard'
<1>1. /\ UNCHANGED <<memory, dl, rq>> /\ cancelled' = cancelled \cup {r}
      /\ waking' = IF rq[r].e # NoOne THEN waking \cup {r} ELSE waking
  BY DEF Cancel
<1>2. FollowOK(r) /\ WaitOK(r) /\ (rq[r].pc \in Following => rq[r].e # NoOne)
  BY DEF Heard, IInv, Handling, LocalOK
<1>3. FollowOK(r)' /\ WaitOK(r)'
  BY <1>1, <1>2 DEF FollowOK, WaitOK, Following, memory
<1> QED BY <1>1, <1>3, HandlerWake

\* ... and the callback, when it runs, leaves nobody asleep on the entry.
LEMMA WakeFollowerWake == ASSUME IInv, Heard, NEW r \in Requests, WakeFollower(r) PROVE Heard'
<1> DEFINE d == rq[r].e
<1>1. /\ UNCHANGED <<memory, dl, cancelled>> /\ waking' = waking \ {r}
      /\ MuFree(d) /\ rq' = Broadcast(d)
  BY DEF WakeFollower, CallbackMayRun
<1>2. Listed' /\ Told'
  BY <1>1 DEF Heard, Listed, Told, memory
<1>3. rq \in [Requests -> Handlers]
  BY DEF IInv, TypeOK
<1> HIDE DEF d
<1>4. ASSUME NEW x \in Requests PROVE FollowOK(x)' /\ WaitOK(x)'
  <2>1. FollowOK(x) /\ WaitOK(x)
    BY DEF Heard
  <2>2. CASE rq[x].e = d
    <3>1. rq'[x].pc \notin {"parking", "parked"} /\ rq'[x].e = rq[x].e
          /\ (rq'[x].pc \in Following => rq[x].pc \in Following)
      <4>1. CASE rq[x].pc = "parked"
        <5>1. rq'[x] = [rq[x] EXCEPT !.pc = ResumeAt(x)]
          BY <1>1, <2>2, <4>1 DEF Broadcast
        <5> QED BY <1>3, <4>1, <5>1 DEF ResumeAt, Following, Handlers
      <4>2. CASE rq[x].pc # "parked"
        <5>1. rq'[x] = rq[x]
          BY <1>1, <4>2 DEF Broadcast
        <5> QED BY <1>1, <2>2, <4>2, <5>1 DEF MuFree
      <4> QED BY <4>1, <4>2
    <3> QED BY <1>1, <2>1, <3>1 DEF FollowOK, WaitOK, memory
  <2>3. CASE rq[x].e # d
    <3>1. rq'[x] = rq[x] /\ x # r
      BY <1>1, <2>3 DEF Broadcast, d
    <3> QED BY <1>1, <2>1, <3>1 DEF FollowOK, WaitOK, memory
  <2> QED BY <2>2, <2>3
<1> QED BY <1>2, <1>4 DEF Heard

-----------------------------------------------------------------------------
\* A download that produces, fails or settles broadcasts whatever it changes.
LEMMA ProducingWake ==
    ASSUME IInv, Heard, NEW r \in Requests, DownloadStep(r), ~Unlist(r), ~Release(r)
    PROVE  Heard'
<1>0. dl \in [Requests -> Downloads] /\ entry \in [Requests -> Entries]
  BY DEF IInv, TypeOK
<1>1. UNCHANGED <<inflight, contexts>>
  BY Zenon DEF DownloadStep, FetchError, BreakOff, DiskError, FailWith, Fetch, WriteChunk, EndOfBody,
               PublishSize, Rename, WriteMeta, RollBack, Settle, memory
<1>2. CASE Fetch(r)
  <2>1. /\ MuFree(r) /\ rq' = Broadcast(r) /\ dl[r].pc = "fetch"
        /\ entry' = [entry EXCEPT ![r].tmpFile = TRUE, ![r].headersReady = TRUE]
        /\ \E b \in Bodies : dl' = [dl EXCEPT ![r].pc = "body", ![r].body = b[1], ![r].zip = b[2]]
    BY <1>2, Zenon DEF Fetch
  <2>2. /\ \A x \in Requests \ {r} : dl'[x] = dl[x] /\ entry'[x] = entry[x]
        /\ dl'[r].pc = "body"
    BY <1>0, <2>1 DEF Downloads
  <2>3. Unsettled(dl[r]) /\ Unsettled(dl'[r])
    BY <2>1, <2>2 DEF Unsettled, Producing
  <2> QED BY <1>1, <2>1, <2>2, <2>3, DownloadWake
<1>3. CASE PublishSize(r)
  <2>1. /\ MuFree(r) /\ rq' = Broadcast(r) /\ dl[r].pc \in {"flush", "last"}
        /\ entry' = [entry EXCEPT ![r].size = dl[r].written]
        /\ \/ dl' = [dl EXCEPT ![r].pc = "body"]
           \/ dl' = [dl EXCEPT ![r].pc = "rename", ![r].complete = TRUE]
    BY <1>3 DEF PublishSize
  <2>2. /\ \A x \in Requests \ {r} : dl'[x] = dl[x] /\ entry'[x] = entry[x]
        /\ dl'[r].pc \in {"body", "rename"}
    BY <1>0, <2>1 DEF Downloads
  <2>3. Unsettled(dl[r]) /\ Unsettled(dl'[r])
    BY <2>1, <2>2 DEF Unsettled, Producing
  <2> QED BY <1>1, <2>1, <2>2, <2>3, DownloadWake
<1>4. CASE Settle(r)
  <2>1. /\ MuFree(r) /\ rq' = Broadcast(r) /\ dl[r].pc = "settle"
        /\ entry' = [entry EXCEPT ![r].tmpFile = FALSE, ![r].done = TRUE, ![r].err = Outcome(r)]
        /\ dl' = [dl EXCEPT ![r].pc = "unlist"]
    BY <1>4 DEF Settle
  <2>2. /\ \A x \in Requests \ {r} : dl'[x] = dl[x] /\ entry'[x] = entry[x]
        /\ dl'[r].pc = "unlist" /\ entry'[r].done
    BY <1>0, <2>1 DEF Downloads, Entries
  <2>3. Unsettled(dl[r])
    BY <2>1 DEF Unsettled
  <2> QED BY <1>1, <2>1, <2>2, <2>3, DownloadWake
<1>5. ASSUME rq' = rq, entry' = entry,
             \E pc \in Producing \cup {"settle"} : \A x \in Requests :
                 x # r => dl'[x] = dl[x],
             dl[r].pc \in Producing, dl'[r].pc \in Producing \cup {"settle"}
      PROVE  Heard'
  BY <1>1, <1>5, DownloadWake DEF Unsettled
<1>6. CASE FetchError(r) \/ BreakOff(r) \/ DiskError(r)
  <2>1. /\ dl[r].pc \in {"fetch", "body", "flush", "last", "rename"} /\ rq' = rq /\ entry' = entry
        /\ \E err : dl' = [dl EXCEPT ![r].pc = "settle", ![r].err = err]
    BY <1>6, Zenon DEF FetchError, BreakOff, DiskError, FailWith, memory
  <2>2. (\A x \in Requests \ {r} : dl'[x] = dl[x]) /\ dl'[r].pc = "settle"
    BY <1>0, <2>1 DEF Downloads
  <2> QED BY <1>5, <2>1, <2>2 DEF Producing
<1>7. CASE WriteChunk(r) \/ EndOfBody(r)
  <2>1. /\ dl[r].pc = "body" /\ rq' = rq /\ entry' = entry
        /\ \E pc \in {"flush", "last"} : \E n : dl' = [dl EXCEPT ![r].pc = pc, ![r].written = n]
    BY <1>7, Zenon DEF WriteChunk, EndOfBody, memory
  <2>2. (\A x \in Requests \ {r} : dl'[x] = dl[x]) /\ dl'[r].pc \in {"flush", "last"}
    BY <1>0, <2>1 DEF Downloads
  <2> QED BY <1>5, <2>1, <2>2 DEF Producing
<1>8. CASE Rename(r) \/ RollBack(r)
  <2>1. /\ dl[r].pc \in {"rename", "rollback"} /\ rq' = rq /\ entry' = entry
        /\ \E pc \in {"meta", "settle"} : dl' = [dl EXCEPT ![r].pc = pc]
    BY <1>8 DEF Rename, RollBack, memory
  <2>2. (\A x \in Requests \ {r} : dl'[x] = dl[x]) /\ dl'[r].pc \in {"meta", "settle"}
    BY <1>0, <2>1 DEF Downloads
  <2> QED BY <1>5, <2>1, <2>2 DEF Producing
<1>9. CASE WriteMeta(r)
  <2>1. /\ dl[r].pc = "meta" /\ rq' = rq /\ entry' = entry
        /\ \/ dl' = [dl EXCEPT ![r].pc = "settle"]
           \/ dl' = [dl EXCEPT ![r].pc = "rollback", ![r].err = "disk"]
    BY <1>9 DEF WriteMeta, memory
  <2>2. (\A x \in Requests \ {r} : dl'[x] = dl[x]) /\ dl'[r].pc \in {"settle", "rollback"}
    BY <1>0, <2>1 DEF Downloads
  <2> QED BY <1>5, <2>1, <2>2 DEF Producing
<1> QED BY <1>2, <1>3, <1>4, <1>6, <1>7, <1>8, <1>9 DEF DownloadStep

\* The rest of the teardown concerns nobody who waits.
LEMMA TeardownWake ==
    ASSUME IInv, Heard, NEW r \in Requests, Unlist(r) \/ Release(r)
    PROVE  Heard'
<1>0. dl \in [Requests -> Downloads] /\ inflight \in [Keys -> Opt(Requests)] /\ KeyOf[r] \in Keys
  BY KeysAssumption DEF IInv, TypeOK
<1>1. /\ UNCHANGED <<entry, rq, contexts>> /\ dl[r].pc \in {"unlist", "release"}
      /\ \A k \in Keys : inflight'[k] \in {inflight[k], NoOne}
  <2>1. CASE Unlist(r)
    BY <1>0, <2>1 DEF Unlist, DeleteOwn
  <2>2. CASE Release(r)
    BY <1>0, <2>2 DEF Release
  <2> QED BY <2>1, <2>2
<1>2. /\ \A x \in Requests \ {r} : dl'[x] = dl[x]
      /\ dl'[r].pc \in {"release", "end"}
  <2>1. CASE Unlist(r)
    BY <1>0, <2>1 DEF Unlist, Downloads
  <2>2. CASE Release(r)
    BY <1>0, <2>2 DEF Release, TailKept, TailLost, Downloads
  <2> QED BY <2>1, <2>2
<1>3. Told'
  BY <1>1, <1>2 DEF Heard, Told
<1>4. Listed'
  <2> SUFFICES ASSUME NEW k \in Keys, inflight'[k] # NoOne
               PROVE  Unsettled(dl'[inflight'[k]]) \/ dl'[inflight'[k]].pc = "unlist"
    BY Zenon DEF Listed
  <2>1. /\ inflight'[k] = inflight[k] /\ inflight[k] \in Requests /\ inflight[k] # NoOne
        /\ KeyOf[inflight[k]] = k
    BY <1>0, <1>1 DEF IInv, Listing, Opt
  <2>2. Unsettled(dl[inflight[k]]) \/ dl[inflight[k]].pc = "unlist"
    BY <2>1 DEF Heard, Listed
  <2>3. inflight[k] # r
    <3>1. CASE Unlist(r)
      <4>1. inflight'[KeyOf[r]] # r
        BY <1>0, <3>1, RequestsAssumption DEF Unlist, DeleteOwn
      <4> QED BY <2>1, <4>1
    <3>2. CASE Release(r)
      BY <2>2, <3>2 DEF Release, Unsettled, Producing
    <3> QED BY <3>1, <3>2
  <2> QED BY <1>2, <2>1, <2>2, <2>3
<1>5. ~Unsettled(dl[r]) /\ (dl[r].pc = "unlist" => entry[r].done)
  BY <1>1 DEF Unsettled, Producing, Heard, Told
<1>6. ASSUME NEW x \in Requests PROVE FollowOK(x)' /\ WaitOK(x)'
  <2>1. FollowOK(x) /\ WaitOK(x) /\ rq[x].e \in Opt(Requests) /\ (rq[x].pc \in Following => rq[x].e # NoOne)
    BY DEF Heard, IInv, TypeOK, Handlers, Handling, LocalOK
  <2>2. rq[x].pc \in Following /\ Unsettled(dl[rq[x].e]) => dl'[rq[x].e] = dl[rq[x].e]
    BY <1>2, <1>5, <2>1 DEF Opt
  <2>3. UNCHANGED <<entry, rq, cancelled, waking>>
    BY <1>1 DEF contexts
  <2>4. FollowOK(x)'
    BY <2>1, <2>2, <2>3 DEF FollowOK
  <2>5. WaitOK(x)'
    BY <2>1, <2>2, <2>3 DEF WaitOK, Following
  <2> QED BY <2>4, <2>5
<1> QED BY <1>3, <1>4, <1>6 DEF Heard

\* After a restart nobody follows anything.
LEMMA CrashWake == ASSUME IInv, Heard, Crash PROVE Heard'
<1>1. \A k \in Keys : inflight'[k] = NoOne
  <2>1. inflight' = [k \in Keys |-> NoOne]
    BY Zenon DEF Crash
  <2> QED BY <2>1, Zenon
<1>2. \A d \in Requests : dl'[d].pc = (IF Live(d) THEN "dead" ELSE dl[d].pc)
  BY CrashFacts
<1>3. \A r \in Requests : rq'[r].pc \in {"idle", "end"}
  BY CrashFacts
<1>4. Listed'
  BY <1>1, Zenon DEF Listed
<1>5. Told'
  BY <1>2 DEF Told, Live, Teardown
<1>6. \A r \in Requests : FollowOK(r)' /\ WaitOK(r)'
  BY <1>3 DEF FollowOK, WaitOK, Following
<1> QED BY <1>4, <1>5, <1>6 DEF Heard

\* No step loses a wake-up.
LEMMA NextHeard == ASSUME IInv, Heard, [Next]_vars PROVE Heard'
<1>1. ASSUME NEW r \in Requests, Arrive(r) \/ RequestStep(r) PROVE Heard'
  BY <1>1, OpenCachedWake, JoinWake, LeadWake, CheckWake, ParkWake, ReadChunkWake, CatchUpWake
     DEF RequestStep
<1>2. ASSUME NEW r \in Requests, DownloadStep(r) PROVE Heard'
  BY <1>2, ProducingWake, TeardownWake
<1>3. CASE UNCHANGED <<memory, dl, rq, contexts>>
  BY <1>3 DEF Heard, Listed, Told, FollowOK, WaitOK, memory, contexts
<1>4. CASE EvictStep
  BY <1>3, <1>4, Zenon DEF EvictStep, SweepTemps, EvictBlob, EvictMeta
<1>5. CASE UNCHANGED vars
  BY <1>3, <1>5 DEF vars
<1> QED BY <1>1, <1>2, <1>4, <1>5, CancelWake, WakeFollowerWake, CrashWake DEF Next

\* Nobody waits for news that has already been told or that nobody is left to tell: for
\* any number of followers, downloads, disconnects and restarts, the broadcasts and the
\* context callbacks reach everybody who has to wake up.
THEOREM NobodyWaitsInVain == Spec => []NoLostWakeup
<1>1. Init => Heard
  BY DEF Init, Heard, Listed, Told, FollowOK, WaitOK, NoDownload, NoHandler, Following
<1>2. Heard => NoLostWakeup
  BY DEF Heard, NoLostWakeup
<1> QED BY <1>1, <1>2, IInvHolds, NextHeard, PTL DEF Spec
=============================================================================
