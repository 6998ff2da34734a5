---------------------------- MODULE ProxyProofs ----------------------------
(***************************************************************************)
(* Proofs about the front of the proxy, for any requests, file size,       *)
(* address lists, view lengths and log: the handler, as its client         *)
(* observes it, implements Delivery; the log agrees with what the client   *)
(* saw; and the pages agree with the log.                                  *)
(***************************************************************************)
EXTENDS Proxy, ClientTagsProofs, SequenceTheorems

-----------------------------------------------------------------------------
(* The inductive invariant.                                                *)

Handlers == [pc : Steps, ip : Ips, tag : Tags, day : (FirstDay..LastDay) \cup {0},
             committed : BOOLEAN, status : Statuses, head : Statuses,
             sent : 0..Size, err : Errors \cup {"nil"}]

Before == {"idle", "tags", "find", "serve", "fetch"}
After == {"log", "close", "ended", "aborted"}

\* A request keeps the day it came on until its row is written.
Dated(q) == q.pc \in (Before \ {"idle"}) \cup {"copy", "returned", "log"} => q.day # 0

\* What a handler has sent at every position, and what it ends with.
HandlerOK(q) ==
    /\ q.committed => q.status = 200 /\ q.head = 200
    /\ ~q.committed => q.sent = 0
    /\ q.pc \in Before => ~q.committed /\ q.head = 0
    /\ q.pc = "copy" => q.committed
    /\ (q.pc = "returned" /\ ~q.committed) => q.err # "nil" /\ q.head = 0
    /\ (q.pc \in After /\ ~q.committed) =>
          q.err # "nil" /\ q.status \in {404, 500, 501, 503} /\ q.head = q.status
    /\ ((q.pc = "returned" \/ q.pc \in After) /\ q.err = "nil") => q.sent = Size
    /\ q.pc = "ended" => (q.err = "nil" \/ ~q.committed)
    /\ q.pc = "aborted" => q.err # "nil" /\ q.committed

Clock == day \in FirstDay..LastDay /\ dbFaults \in 0..MaxDbFaults
HandlersTyped == rq \in [Requests -> Handlers]
HandlersOK == \A r \in Requests : HandlerOK(rq[r])
HandlersDated == \A r \in Requests : Dated(rq[r])

\* A row has what its handler will keep to the end.
RowsOK ==
    \A row \in rows \ History :
        /\ row.of \in Requests
        /\ rq[row.of].pc \in {"close", "ended", "aborted"}
        /\ row.status = rq[row.of].status /\ row.err = rq[row.of].err

RowsTyped ==
    rows \ History \subseteq [of : Requests, day : FirstDay..LastDay, tag : Tags,
                            status : Statuses \ {0}, err : Errors \cup {"nil"}]

\* The rows of day d in a log, and those of one column.
OfDay(table, d) == {row \in table : row.day = d /\ Counted(row)}
OfColumn(table, d, c) == {row \in OfDay(table, d) : Category(row) = c}

\* What the series of a collection hold, as far as it has come.
AxisOK(s) ==
    /\ s.days \in Seq(Int) /\ Len(s.days) = Days + 1
    /\ s.began \in Int /\ s.began <= day
    /\ \A k \in 1..(Days + 1) : s.days[k] = s.began - (Days + 1) + k
Column(s, k) ==
    \/ \A c \in Categories : s.traffic[k][c] = Cardinality(OfColumn(s.seen, s.days[k], c))
    \/ s.days[k] < s.on - Days /\ \A c \in Categories : s.traffic[k][c] = 0
Total(s, k) ==
    \/ s.requests[k] >= Cardinality(OfDay(s.seen, s.days[k]))
    \/ s.days[k] < s.on - Days /\ s.requests[k] = 0
TrafficOK(s) ==
    /\ s.seen \subseteq rows /\ s.on \in Int /\ s.began <= s.on /\ s.on <= day
    /\ \A k \in 1..(Days + 1) : Column(s, k)
RequestsOK(s) == \A k \in 1..(Days + 1) : Total(s, k)

Snap(pc, days, traffic, requests, began, seen, on) ==
    [pc |-> pc, days |-> days, traffic |-> traffic, requests |-> requests,
     began |-> began, seen |-> seen, on |-> on]
SnapTyped ==
    snap = Snap(snap.pc, snap.days, snap.traffic, snap.requests, snap.began, snap.seen, snap.on)
SnapOK ==
    /\ snap.pc \in {"idle", "traffic", "clients", "render"}
    /\ snap.pc \in {"traffic", "clients", "render"} => AxisOK(snap)
    /\ snap.pc \in {"clients", "render"} => TrafficOK(snap)
    /\ snap.pc = "render" => RequestsOK(snap)

\* A page of v days has v + 1 of everything, ending with the day the collection began.
PageOK(page, v) ==
    /\ Len(page.days) = v + 1 /\ Len(page.traffic) = v + 1 /\ Len(page.requests) = v + 1
    /\ page.began <= page.on
    /\ \A k \in 1..(v + 1) : /\ page.days[k] = page.began - (v + 1) + k
                             /\ Column(page, k) /\ Total(page, k)
PagesOK ==
    pages # NoPages =>
        /\ DOMAIN pages = Views
        /\ \A v \in Views : PageOK(pages[v], v)

IInv ==
    /\ Clock /\ HandlersTyped /\ HandlersOK /\ HandlersDated
    /\ RowsOK /\ RowsTyped /\ IsFiniteSet(rows) /\ ListOK
    /\ ListMade /\ SnapTyped /\ SnapOK /\ PagesOK

-----------------------------------------------------------------------------
(* The steps of a handler, as relations between its record before and      *)
(* after: everything about what the client sees follows from these.        *)

SameAnswer(q, p) ==
    /\ p.committed = q.committed /\ p.status = q.status /\ p.head = q.head
    /\ p.sent = q.sent /\ p.err = q.err

Starts(q, p) == q.pc = "idle" /\ p.pc = "tags" /\ SameAnswer(q, p)
Goes(q, p) ==
    q.pc \in {"tags", "find", "serve"} /\ p.pc \in {"find", "serve", "fetch"} /\ SameAnswer(q, p)
Fails(q, p) ==
    /\ q.pc \in {"find", "serve", "fetch"} /\ p.pc = "returned" /\ p.err \in Errors
    /\ p.committed = q.committed /\ p.status = q.status /\ p.head = q.head /\ p.sent = q.sent
Commits(q, p) ==
    /\ q.pc \in {"serve", "fetch"} /\ p.pc = "copy"
    /\ p.committed = TRUE /\ p.status = 200 /\ p.head = 200 /\ p.sent = q.sent
Sends(q, p) ==
    /\ q.pc = "copy" /\ p.pc = "copy" /\ q.sent < Size /\ p.sent = q.sent + 1
    /\ p.committed = q.committed /\ p.status = q.status /\ p.head = q.head
Ends(q, p) ==
    /\ q.pc = "copy" /\ p.pc = "returned" /\ (p.err = "nil" => q.sent = Size)
    /\ p.committed = q.committed /\ p.status = q.status /\ p.head = q.head /\ p.sent = q.sent
Refuses(q, p) ==
    /\ q.pc = "returned" /\ p.pc = "log" /\ q.err # "nil" /\ q.committed = FALSE
    /\ p.status \in {404, 500, 501, 503} /\ p.head = p.status
    /\ p.committed = q.committed /\ p.err = q.err /\ p.sent = q.sent
Passes(q, p) ==
    /\ q.pc = "returned" /\ p.pc = "log" /\ (q.err = "nil" \/ q.committed = TRUE)
    /\ SameAnswer(q, p)
Logs(q, p) == q.pc = "log" /\ p.pc = "close" /\ SameAnswer(q, p)
Closes(q, p) ==
    /\ q.pc = "close" /\ SameAnswer(q, p)
    /\ \/ p.pc = "aborted" /\ q.err # "nil" /\ q.committed = TRUE
       \/ p.pc = "ended" /\ (q.err = "nil" \/ q.committed = FALSE)

Moves(q, p) ==
    \/ Starts(q, p) \/ Goes(q, p) \/ Fails(q, p) \/ Commits(q, p) \/ Sends(q, p) \/ Ends(q, p)
    \/ Refuses(q, p) \/ Passes(q, p) \/ Logs(q, p) \/ Closes(q, p)

\* Handler r alone has moved.
OnlyMoves(r) ==
    /\ rq' \in [Requests -> Handlers]
    /\ \A s \in Requests : s # r => rq'[s] = rq[s]
    /\ Moves(rq[r], rq'[r])

-----------------------------------------------------------------------------
(* Tags.                                                                   *)

\* Whatever list is loaded, a request gets a tag the configuration names.
LEMMA TagNames ==
    ASSUME NEW ip, ListOK
    PROVE  TagFor(ip) \in Tags
<1>1. CASE gh = NoSet
  BY <1>1 DEF TagFor, Tags
<1>2. CASE gh # NoSet
  <2>1. Lookup(gh, ip) \in Names \cup {""}
    BY <1>2, LookupNames
  <2>2. TagFor(ip) = IF Lookup(gh, ip) = "" THEN "direct" ELSE Lookup(gh, ip)
    BY <1>2 DEF TagFor
  <2>3. Names \subseteq Tags /\ "direct" \in Tags
    BY DEF Names, Tags
  <2> QED BY <2>1, <2>2, <2>3
<1> QED BY <1>1, <1>2

-----------------------------------------------------------------------------
(* What each action does to its handler.                                   *)

LEMMA HandlerFields ==
    ASSUME HandlersTyped, NEW r \in Requests
    PROVE  /\ rq[r] \in Handlers /\ rq[r].pc \in Steps /\ rq[r].ip \in Ips /\ rq[r].tag \in Tags
           /\ rq[r].day \in (FirstDay..LastDay) \cup {0} /\ rq[r].committed \in BOOLEAN
           /\ rq[r].status \in Statuses /\ rq[r].head \in Statuses /\ rq[r].sent \in 0..Size
           /\ rq[r].err \in Errors \cup {"nil"}
<1>1. rq[r] \in Handlers
  BY DEF HandlersTyped
<1> QED BY <1>1 DEF Handlers

LEMMA GotoMoves ==
    ASSUME HandlersTyped, NEW r \in Requests, NEW pc \in Steps, Goto(r, pc)
    PROVE  /\ rq' \in [Requests -> Handlers]
           /\ \A s \in Requests : s # r => rq'[s] = rq[s]
           /\ rq'[r].pc = pc /\ SameAnswer(rq[r], rq'[r])
<1> DEFINE p == [rq[r] EXCEPT !.pc = pc]
<1>1. rq[r] \in Handlers
  BY HandlerFields
<1>2. rq' = [rq EXCEPT ![r] = p]
  BY DEF Goto
<1>3. p \in Handlers /\ p.pc = pc /\ SameAnswer(rq[r], p)
  BY <1>1 DEF Handlers, SameAnswer
<1> HIDE DEF p
<1> QED BY <1>2, <1>3 DEF HandlersTyped

LEMMA ReturnMoves ==
    ASSUME HandlersTyped, NEW r \in Requests, NEW e \in Errors \cup {"nil"}, Return(r, e)
    PROVE  /\ rq' \in [Requests -> Handlers]
           /\ \A s \in Requests : s # r => rq'[s] = rq[s]
           /\ rq'[r].pc = "returned" /\ rq'[r].err = e
           /\ rq'[r].committed = rq[r].committed /\ rq'[r].status = rq[r].status
           /\ rq'[r].head = rq[r].head /\ rq'[r].sent = rq[r].sent
<1> DEFINE p == [rq[r] EXCEPT !.pc = "returned", !.err = e]
<1>1. rq[r] \in Handlers
  BY HandlerFields
<1>2. rq' = [rq EXCEPT ![r] = p]
  BY DEF Return
<1>3. /\ p \in Handlers /\ p.pc = "returned" /\ p.err = e
      /\ p.committed = rq[r].committed /\ p.status = rq[r].status
      /\ p.head = rq[r].head /\ p.sent = rq[r].sent
  BY <1>1 DEF Handlers, Steps
<1> HIDE DEF p
<1> QED BY <1>2, <1>3 DEF HandlersTyped

LEMMA WriteHeaderMoves ==
    ASSUME HandlersTyped, NEW r \in Requests, WriteHeader(r), rq[r].pc \in {"serve", "fetch"}
    PROVE  OnlyMoves(r)
<1> DEFINE p == [rq[r] EXCEPT !.pc = "copy", !.committed = TRUE, !.status = 200, !.head = 200]
<1>1. rq[r] \in Handlers
  BY HandlerFields
<1>2. rq' = [rq EXCEPT ![r] = p]
  BY DEF WriteHeader
<1>0. "copy" \in Steps /\ 200 \in Statuses
  BY DEF Steps, Statuses
<1>3. p \in Handlers
  BY <1>0, <1>1 DEF Handlers
<1>4. p.pc = "copy" /\ p.status = 200 /\ p.head = 200 /\ p.sent = rq[r].sent
  BY <1>1 DEF Handlers
<1>5. p.committed = TRUE
  BY <1>1 DEF Handlers
<1>6. Commits(rq[r], p)
  <2> HIDE DEF p
  <2> QED BY <1>4, <1>5 DEF Commits
<1> HIDE DEF p
<1> QED BY <1>2, <1>3, <1>6 DEF HandlersTyped, OnlyMoves, Moves

LEMMA GetRealIPMoves ==
    ASSUME HandlersTyped, Clock, NEW r \in Requests, GetRealIP(r)
    PROVE  OnlyMoves(r)
<1> DEFINE p == [rq[r] EXCEPT !.pc = "tags", !.ip = RealIP(Peer[r], Header[r]), !.day = day]
<1>1. rq[r] \in Handlers
  BY HandlerFields
<1>2. rq' = [rq EXCEPT ![r] = p] /\ rq[r].pc = "idle"
  BY DEF GetRealIP
<1>3. RealIP(Peer[r], Header[r]) \in Ips
  BY DEF RealIP, Ips
<1>4. day \in (FirstDay..LastDay) \cup {0}
  BY DEF Clock
<1>5. p \in Handlers /\ Starts(rq[r], p)
  BY <1>1, <1>2, <1>3, <1>4 DEF Handlers, Starts, SameAnswer, Steps
<1> HIDE DEF p
<1> QED BY <1>2, <1>5 DEF HandlersTyped, OnlyMoves, Moves

LEMMA GhTagsMoves ==
    ASSUME HandlersTyped, ListOK, NEW r \in Requests, GhTags(r)
    PROVE  OnlyMoves(r)
<1> DEFINE p == [rq[r] EXCEPT !.pc = "find", !.tag = TagFor(rq[r].ip)]
<1>1. rq[r] \in Handlers
  BY HandlerFields
<1>2. rq' = [rq EXCEPT ![r] = p] /\ rq[r].pc = "tags"
  BY DEF GhTags
<1>3. TagFor(rq[r].ip) \in Tags
  BY TagNames
<1>4. p \in Handlers /\ Goes(rq[r], p)
  BY <1>1, <1>2, <1>3 DEF Handlers, Goes, SameAnswer, Steps
<1> HIDE DEF p
<1> QED BY <1>2, <1>4 DEF HandlersTyped, OnlyMoves, Moves

LEMMA FindMoves ==
    ASSUME HandlersTyped, NEW r \in Requests, FindByBuildID(r)
    PROVE  OnlyMoves(r)
<1>1. CASE Goto(r, IF r \in Cacheable THEN "serve" ELSE "fetch")
  <2> DEFINE to == IF r \in Cacheable THEN "serve" ELSE "fetch"
  <2>1. to \in Steps /\ to \in {"serve", "fetch"}
    BY DEF Steps
  <2>2. Goto(r, to)
    BY <1>1
  <2> HIDE DEF to
  <2> QED BY <2>1, <2>2, GotoMoves DEF FindByBuildID, OnlyMoves, Moves, Goes
<1>2. CASE \E e \in Errors : Return(r, e)
  BY <1>2, ReturnMoves DEF FindByBuildID, OnlyMoves, Moves, Fails
<1> QED BY <1>1, <1>2 DEF FindByBuildID

LEMMA ServeMoves ==
    ASSUME HandlersTyped, NEW r \in Requests, Serve(r)
    PROVE  OnlyMoves(r)
<1>1. CASE WriteHeader(r)
  BY <1>1, WriteHeaderMoves DEF Serve
<1>2. CASE Goto(r, "fetch")
  BY <1>2, GotoMoves DEF Serve, OnlyMoves, Moves, Goes, Steps
<1>3. CASE \E e \in Errors \ {"down"} : Return(r, e)
  BY <1>3, ReturnMoves DEF Serve, OnlyMoves, Moves, Fails
<1> QED BY <1>1, <1>2, <1>3 DEF Serve

LEMMA FetchMoves ==
    ASSUME HandlersTyped, NEW r \in Requests, Fetch(r)
    PROVE  OnlyMoves(r)
<1>1. CASE WriteHeader(r)
  BY <1>1, WriteHeaderMoves DEF Fetch
<1>2. CASE \E e \in Errors \ {"down"} : Return(r, e)
  BY <1>2, ReturnMoves DEF Fetch, OnlyMoves, Moves, Fails
<1> QED BY <1>1, <1>2 DEF Fetch

LEMMA CopyMoves ==
    ASSUME HandlersTyped, NEW r \in Requests, Copy(r)
    PROVE  OnlyMoves(r)
<1>1. CASE rq[r].sent < Size /\ rq' = [rq EXCEPT ![r].sent = @ + 1]
  <2> DEFINE p == [rq[r] EXCEPT !.sent = rq[r].sent + 1]
  <2>1. rq[r] \in Handlers /\ rq[r].sent \in 0..Size /\ rq[r].pc = "copy"
    BY HandlerFields DEF Copy
  <2>2. rq' = [rq EXCEPT ![r] = p]
    BY <1>1
  <2>3. rq[r].sent + 1 \in 0..Size
    BY <1>1, <2>1, RequestsAssumption
  <2>4. p \in Handlers /\ Sends(rq[r], p)
    BY <1>1, <2>1, <2>3 DEF Handlers, Sends
  <2> HIDE DEF p
  <2> QED BY <2>2, <2>4 DEF HandlersTyped, OnlyMoves, Moves
<1>2. CASE rq[r].sent = Size /\ Return(r, "nil")
  BY <1>2, ReturnMoves DEF Copy, OnlyMoves, Moves, Ends
<1> QED BY <1>1, <1>2 DEF Copy

LEMMA CopyFailsMoves ==
    ASSUME HandlersTyped, NEW r \in Requests, CopyFails(r)
    PROVE  OnlyMoves(r)
<1>1. rq[r].pc = "copy" /\ Return(r, "other") /\ "other" \in Errors
  BY DEF CopyFails, Errors
<1> QED BY <1>1, ReturnMoves DEF OnlyMoves, Moves, Ends

LEMMA StatusOfErrors == \A e : StatusOf(e) \in {404, 500, 501, 503}
BY DEF StatusOf

LEMMA MapErrorMoves ==
    ASSUME HandlersTyped, NEW r \in Requests, MapError(r)
    PROVE  OnlyMoves(r)
<1>0. rq[r] \in Handlers /\ rq[r].committed \in BOOLEAN /\ rq[r].pc = "returned"
  BY HandlerFields DEF MapError
<1>1. CASE rq[r].err # "nil" /\ ~rq[r].committed
  <2> DEFINE st == StatusOf(rq[r].err)
             p == [rq[r] EXCEPT !.pc = "log", !.status = st, !.head = st]
  <2>1. st \in {404, 500, 501, 503}
    BY StatusOfErrors
  <2>2. rq' = [rq EXCEPT ![r] = p]
    BY <1>1 DEF MapError
  <2> HIDE DEF st
  <2>0. "log" \in Steps /\ st \in Statuses
    BY <2>1 DEF Steps, Statuses
  <2>3. p \in Handlers
    BY <1>0, <2>0 DEF Handlers
  <2>4. /\ p.pc = "log" /\ p.status = st /\ p.head = st /\ p.sent = rq[r].sent
        /\ p.err = rq[r].err
    BY <1>0 DEF Handlers
  <2>5. p.committed = rq[r].committed
    BY <1>0 DEF Handlers
  <2> HIDE DEF p
  <2>6. Refuses(rq[r], p)
    BY <1>0, <1>1, <2>1, <2>4, <2>5 DEF Refuses
  <2> QED BY <2>2, <2>3, <2>6 DEF HandlersTyped, OnlyMoves, Moves
<1>2. CASE ~(rq[r].err # "nil" /\ ~rq[r].committed)
  <2>1. Goto(r, "log") /\ "log" \in Steps
    BY <1>2 DEF MapError, Steps
  <2> QED BY <1>0, <1>2, <2>1, GotoMoves DEF OnlyMoves, Moves, Passes
<1> QED BY <1>1, <1>2

LEMMA WriteRowMoves ==
    ASSUME HandlersTyped, NEW r \in Requests, WriteRow(r)
    PROVE  OnlyMoves(r)
<1> DEFINE p == [rq[r] EXCEPT !.pc = "close", !.ip = NoHeader, !.tag = "", !.day = 0]
<1>1. rq[r] \in Handlers
  BY HandlerFields
<1>2. rq' = [rq EXCEPT ![r] = p] /\ rq[r].pc = "log"
  BY DEF WriteRow, Logged
<1>3. NoHeader \in Ips /\ "" \in Tags
  BY DEF Ips, Tags
<1>4. p \in Handlers /\ Logs(rq[r], p)
  BY <1>1, <1>2, <1>3 DEF Handlers, Logs, SameAnswer, Steps
<1> HIDE DEF p
<1> QED BY <1>2, <1>4 DEF HandlersTyped, OnlyMoves, Moves

LEMMA CloseMoves ==
    ASSUME HandlersTyped, NEW r \in Requests, Close(r)
    PROVE  OnlyMoves(r)
<1> DEFINE to == IF rq[r].err # "nil" /\ rq[r].committed THEN "aborted" ELSE "ended"
<1>1. rq[r].pc = "close" /\ Goto(r, to) /\ rq[r].committed \in BOOLEAN
  BY HandlerFields DEF Close
<1>2. to \in Steps
  BY DEF Steps
<1>3. \/ to = "aborted" /\ rq[r].err # "nil" /\ rq[r].committed = TRUE
      \/ to = "ended" /\ (rq[r].err = "nil" \/ rq[r].committed = FALSE)
  BY <1>1
<1> HIDE DEF to
<1> QED BY <1>1, <1>2, <1>3, GotoMoves DEF OnlyMoves, Moves, Closes

\* Every step of the system moves at most one handler.
LEMMA NextMoves ==
    ASSUME HandlersTyped, Clock, ListOK, [Next]_vars
    PROVE  rq' = rq \/ \E r \in Requests : OnlyMoves(r)
<1>1. CASE \E r \in Requests : GetRealIP(r) \/ Step(r)
  <2>1. PICK r \in Requests : GetRealIP(r) \/ Step(r)
    BY <1>1
  <2>2. OnlyMoves(r)
    BY <2>1, GetRealIPMoves, GhTagsMoves, FindMoves, ServeMoves, FetchMoves, CopyMoves,
       CopyFailsMoves, MapErrorMoves, WriteRowMoves, CloseMoves DEF Step
  <2> QED BY <2>2
<1>2. CASE ~(\E r \in Requests : GetRealIP(r) \/ Step(r))
  BY <1>2 DEF Next, vars
<1> QED BY <1>1, <1>2

\* What a handler may have sent at its position stays true.
LEMMA MovesKeep ==
    ASSUME NEW q \in Handlers, NEW p \in Handlers, HandlerOK(q), Moves(q, p)
    PROVE  HandlerOK(p)
<1> USE DEF HandlerOK, Before, After
<1>0. /\ q.pc \in Steps /\ q.committed \in BOOLEAN /\ q.sent \in 0..Size
      /\ p.pc \in Steps /\ p.committed \in BOOLEAN /\ p.sent \in 0..Size
      /\ q.err \in Errors \cup {"nil"} /\ "nil" \notin Errors
  BY DEF Handlers, Errors
<1>1. CASE Starts(q, p) BY <1>0, <1>1 DEF Starts, SameAnswer
<1>2. CASE Goes(q, p) BY <1>0, <1>2 DEF Goes, SameAnswer
<1>3. CASE Fails(q, p) BY <1>0, <1>3 DEF Fails
<1>4. CASE Commits(q, p) BY <1>0, <1>4 DEF Commits
<1>5. CASE Sends(q, p) BY <1>0, <1>5 DEF Sends
<1>6. CASE Ends(q, p) BY <1>0, <1>6 DEF Ends
<1>7. CASE Refuses(q, p) BY <1>0, <1>7 DEF Refuses
<1>8. CASE Passes(q, p) BY <1>0, <1>8 DEF Passes, SameAnswer
<1>9. CASE Logs(q, p) BY <1>0, <1>9 DEF Logs, SameAnswer
<1>10. CASE Closes(q, p) BY <1>0, <1>10 DEF Closes, SameAnswer
<1> QED
  BY <1>1, <1>2, <1>3, <1>4, <1>5, <1>6, <1>7, <1>8, <1>9, <1>10 DEF Moves

\* A move to another position keeps a request's day, or its row has been written.
LEMMA DatesKeep ==
    ASSUME HandlersTyped, Clock, HandlersDated, [Next]_vars
    PROVE  HandlersDated'
<1>0. 0 \notin FirstDay..LastDay
  BY StatsAssumption, DaysAssumption
<1>1. ASSUME NEW r \in Requests, GetRealIP(r) PROVE HandlersDated'
  <2>1. rq' = [rq EXCEPT ![r] = [rq[r] EXCEPT !.pc = "tags", !.ip = RealIP(Peer[r], Header[r]),
                                              !.day = day]]
    BY <1>1 DEF GetRealIP
  <2>2. rq'[r].day = day /\ \A s \in Requests : s # r => rq'[s] = rq[s]
    BY <2>1, HandlerFields DEF HandlersTyped, Handlers
  <2> QED BY <1>0, <2>2 DEF Clock, HandlersDated, Dated
<1>2. ASSUME NEW r \in Requests, Step(r), rq[r].pc # "log" PROVE HandlersDated'
  <2>1. \A s \in Requests : s # r => rq'[s] = rq[s]
    BY <1>2 DEF Step, GhTags, FindByBuildID, Serve, Fetch, Copy, CopyFails, MapError, WriteRow,
       Close, Goto, Return, WriteHeader, HandlersTyped
  <2>2. rq'[r].day = rq[r].day
    BY <1>2, HandlerFields DEF Step, GhTags, FindByBuildID, Serve, Fetch, Copy, CopyFails,
       MapError, WriteRow, Close, Goto, Return, WriteHeader, HandlersTyped, Handlers
  <2>3. rq[r].pc \in {"tags", "find", "serve", "fetch", "copy", "returned", "close"}
    BY <1>2 DEF Step, GhTags, FindByBuildID, Serve, Fetch, Copy, CopyFails, MapError, WriteRow,
       Close
  <2>4. rq[r].pc = "close" => rq'[r].pc \in {"ended", "aborted"}
    BY <1>2, CloseMoves, HandlerFields DEF Step, GhTags, FindByBuildID, Serve, Fetch, Copy,
       CopyFails, MapError, WriteRow, Close, Goto, HandlersTyped, Handlers
  <2> QED BY <2>1, <2>2, <2>3, <2>4 DEF HandlersDated, Dated, Before
<1>3. ASSUME NEW r \in Requests, Step(r), rq[r].pc = "log" PROVE HandlersDated'
  <2>1. WriteRow(r)
    BY <1>3 DEF Step, GhTags, FindByBuildID, Serve, Fetch, Copy, CopyFails, MapError, Close
  <2>2. rq'[r].pc = "close" /\ \A s \in Requests : s # r => rq'[s] = rq[s]
    BY <1>3, <2>1, WriteRowMoves
       DEF OnlyMoves, Moves, Starts, Goes, Fails, Commits, Sends, Ends, Refuses, Passes, Logs, Closes
  <2> QED BY <2>2 DEF HandlersDated, Dated, Before
<1>4. CASE rq' = rq
  BY <1>4 DEF HandlersDated, Dated
<1> QED BY <1>1, <1>2, <1>3, <1>4 DEF Next, vars

-----------------------------------------------------------------------------
(* The log, the clock and the lists.                                       *)

LEMMA NextRows ==
    ASSUME [Next]_vars
    PROVE  rows' = rows \/ \E r \in Requests : WriteRow(r)
<1>1. CASE \E r \in Requests : GetRealIP(r) \/ Step(r)
  <2>1. PICK r \in Requests : GetRealIP(r) \/ Step(r)
    BY <1>1
  <2> QED
    BY <2>1 DEF Step, GetRealIP, GhTags, FindByBuildID, Serve, Fetch, Copy, CopyFails, MapError,
       Close, log
<1>2. CASE TagsNext /\ UNCHANGED <<log, rq, stats>>
  BY <1>2 DEF log
<1>3. CASE Midnight
  BY <1>3 DEF Midnight
<1>4. CASE StatsStep
  BY <1>4 DEF StatsStep, CollectStats, CollectTraffic, CollectClients, CollectFails, Render, log
<1>5. CASE UNCHANGED vars
  BY <1>5 DEF vars, log
<1> QED BY <1>1, <1>2, <1>3, <1>4, <1>5 DEF Next

LEMMA InsertAdds ==
    ASSUME NEW r \in Requests, WriteRow(r)
    PROVE  rows \subseteq rows' /\ rows' \subseteq rows \cup {RowOf(r)} /\ rq[r].pc = "log"
BY DEF WriteRow, Insert

LEMMA RowsGrow ==
    ASSUME [Next]_vars
    PROVE  rows \subseteq rows'
BY NextRows, InsertAdds

LEMMA RowsStayFinite ==
    ASSUME IsFiniteSet(rows), [Next]_vars
    PROVE  IsFiniteSet(rows')
<1>1. CASE rows' = rows
  BY <1>1
<1>2. CASE \E r \in Requests : WriteRow(r)
  <2>1. PICK r \in Requests : WriteRow(r)
    BY <1>2
  <2>2. rows' \subseteq rows \cup {RowOf(r)}
    BY <2>1, InsertAdds
  <2>3. IsFiniteSet(rows \cup {RowOf(r)})
    BY FS_AddElement
  <2> QED BY <2>2, <2>3, FS_Subset
<1> QED BY <1>1, <1>2, NextRows

\* A handler that has written its row keeps what the row says.
LEMMA LoggedKeep ==
    ASSUME HandlersTyped, NEW s \in Requests, rq[s].pc \in {"close", "ended", "aborted"},
           rq' = rq \/ \E r \in Requests : OnlyMoves(r)
    PROVE  /\ rq'[s].pc \in {"close", "ended", "aborted"}
           /\ rq'[s].status = rq[s].status /\ rq'[s].err = rq[s].err
<1>1. CASE rq' = rq
  BY <1>1
<1>2. CASE \E r \in Requests : OnlyMoves(r)
  <2>1. PICK r \in Requests : OnlyMoves(r)
    BY <1>2
  <2>2. CASE r # s
    BY <2>1, <2>2 DEF OnlyMoves
  <2>3. CASE r = s
    BY <2>1, <2>3
       DEF OnlyMoves, Moves, Starts, Goes, Fails, Commits, Sends, Ends, Refuses, Passes, Logs,
           Closes, SameAnswer
  <2> QED BY <2>2, <2>3
<1> QED BY <1>1, <1>2

LEMMA RowsKeep ==
    ASSUME HandlersTyped, Clock, ListOK, RowsOK, [Next]_vars
    PROVE  RowsOK'
<1>1. rq' = rq \/ \E r \in Requests : OnlyMoves(r)
  BY NextMoves
<1>2. ASSUME NEW row \in rows \ History
      PROVE  /\ row.of \in Requests
             /\ rq'[row.of].pc \in {"close", "ended", "aborted"}
             /\ row.status = rq'[row.of].status /\ row.err = rq'[row.of].err
  <2>1. /\ row.of \in Requests /\ rq[row.of].pc \in {"close", "ended", "aborted"}
        /\ row.status = rq[row.of].status /\ row.err = rq[row.of].err
    BY <1>2 DEF RowsOK
  <2> QED BY <1>1, <2>1, LoggedKeep
<1>3. CASE rows' = rows
  BY <1>2, <1>3 DEF RowsOK
<1>4. CASE \E r \in Requests : WriteRow(r)
  <2>1. PICK r \in Requests : WriteRow(r)
    BY <1>4
  <2>2. rows' \subseteq rows \cup {RowOf(r)} /\ rq[r].pc = "log" /\ OnlyMoves(r)
    BY <2>1, InsertAdds, WriteRowMoves
  <2>3. rq'[r].pc = "close" /\ rq'[r].status = rq[r].status /\ rq'[r].err = rq[r].err
    BY <2>2
       DEF OnlyMoves, Moves, Starts, Goes, Fails, Commits, Sends, Ends, Refuses, Passes, Logs,
           Closes, SameAnswer
  <2>4. RowOf(r).of = r /\ RowOf(r).status = rq[r].status /\ RowOf(r).err = rq[r].err
    BY DEF RowOf
  <2> QED BY <1>2, <2>2, <2>3, <2>4 DEF RowsOK
<1> QED BY <1>3, <1>4, NextRows

LEMMA RowsTypedKeep ==
    ASSUME HandlersTyped, HandlersOK, HandlersDated, RowsTyped, [Next]_vars
    PROVE  RowsTyped'
<1>1. CASE rows' = rows
  BY <1>1 DEF RowsTyped
<1>2. ASSUME NEW r \in Requests, WriteRow(r) PROVE RowsTyped'
  <2>1. rows' \subseteq rows \cup {RowOf(r)} /\ rq[r].pc = "log"
    BY <1>2, InsertAdds
  <2>2. rq[r].day \in FirstDay..LastDay
    BY <2>1, HandlerFields DEF HandlersDated, Dated
  <2>3. rq[r].status # 0
    <3>1. HandlerOK(rq[r]) /\ rq[r].committed \in BOOLEAN
      BY HandlerFields DEF HandlersOK
    <3> QED BY <2>1, <3>1 DEF HandlerOK, After
  <2>4. /\ rq[r].tag \in Tags /\ rq[r].status \in Statuses
        /\ rq[r].err \in Errors \cup {"nil"}
    BY HandlerFields
  <2>5. RowOf(r) \in [of : Requests, day : FirstDay..LastDay, tag : Tags,
                      status : Statuses \ {0}, err : Errors \cup {"nil"}]
    BY <2>2, <2>3, <2>4 DEF RowOf
  <2> QED BY <2>1, <2>5 DEF RowsTyped
<1> QED BY <1>1, <1>2, NextRows

LEMMA ClockKeep ==
    ASSUME Clock, [Next]_vars
    PROVE  Clock' /\ day <= day'
<1> USE DaysAssumption, FaultsAssumption DEF Clock, DbFails, log
<1>1. CASE \E r \in Requests : GetRealIP(r) \/ Step(r)
  <2>1. PICK r \in Requests : GetRealIP(r) \/ Step(r)
    BY <1>1
  <2>2. CASE WriteRow(r)
    BY <2>2 DEF WriteRow, Insert
  <2>3. CASE ~WriteRow(r)
    BY <2>1, <2>3 DEF Step, GetRealIP, GhTags, FindByBuildID, Serve, Fetch, Copy, CopyFails,
       MapError, Close
  <2> QED BY <2>2, <2>3
<1>2. CASE TagsNext /\ UNCHANGED <<log, rq, stats>>
  BY <1>2
<1>3. CASE Midnight
  BY <1>3 DEF Midnight
<1>4. CASE StatsStep
  BY <1>4 DEF StatsStep, CollectStats, CollectTraffic, CollectClients, CollectFails, Render
<1>5. CASE UNCHANGED vars
  BY <1>5 DEF vars
<1> QED BY <1>1, <1>2, <1>3, <1>4, <1>5 DEF Next

\* No request touches the list; only the worker replaces it.
LEMMA ListKeep ==
    ASSUME ListOK, ListMade, [Next]_vars
    PROVE  ListOK' /\ ListMade'
<1>1. [TagsNext]_tags
  <2>1. CASE \E r \in Requests : GetRealIP(r) \/ Step(r)
    BY <2>1 DEF Step, GetRealIP, GhTags, FindByBuildID, Serve, Fetch, Copy, CopyFails,
       MapError, WriteRow, Close
  <2>2. CASE ~(\E r \in Requests : GetRealIP(r) \/ Step(r))
    BY <2>2 DEF Next, vars
  <2> QED BY <2>1, <2>2
<1> QED BY <1>1, TagsKeep

LEMMA HandlersKeep ==
    ASSUME HandlersTyped, HandlersOK, Clock, ListOK, [Next]_vars
    PROVE  HandlersTyped' /\ HandlersOK'
<1>1. CASE rq' = rq
  BY <1>1 DEF HandlersTyped, HandlersOK, HandlerOK
<1>2. CASE \E r \in Requests : OnlyMoves(r)
  <2>1. PICK r \in Requests : OnlyMoves(r)
    BY <1>2
  <2>2. rq[r] \in Handlers /\ rq'[r] \in Handlers /\ Moves(rq[r], rq'[r]) /\ HandlerOK(rq[r])
    BY <2>1 DEF OnlyMoves, HandlersTyped, HandlersOK
  <2>3. HandlerOK(rq'[r])
    BY <2>2, MovesKeep
  <2> QED BY <2>1, <2>3 DEF OnlyMoves, HandlersTyped, HandlersOK
<1> QED BY <1>1, <1>2, NextMoves

-----------------------------------------------------------------------------
(* The collection.                                                         *)

LEMMA ViewsOK ==
    /\ Days \in Views /\ Days \in Nat \ {0}
    /\ \A v \in Views : v \in Nat /\ 0 < v /\ v <= Days
BY StatsAssumption DEF Views

\* A tail cut of a series.
LEMMA CutSeries ==
    ASSUME NEW s, NEW n \in Nat, NEW f \in 0..n
    PROVE  /\ Len(SubSeq(s, f + 1, n)) = n - f
           /\ \A i \in 1..(n - f) : SubSeq(s, f + 1, n)[i] = s[f + i]
<1> DEFINE S == {s[i] : i \in (f + 1)..n}
<1>1. \A i \in (f + 1)..n : s[i] \in S
  OBVIOUS
<1> HIDE DEF S
<1>2. f + 1 \in Int /\ n \in Int
  OBVIOUS
<1>3. /\ Len(SubSeq(s, f + 1, n)) = IF f + 1 <= n THEN n - (f + 1) + 1 ELSE 0
      /\ \A i \in 1..(n - (f + 1) + 1) : SubSeq(s, f + 1, n)[i] = s[(f + 1) + i - 1]
  BY <1>1, <1>2, SubSeqProperties
<1> QED BY <1>3

\* What the queries count on a day inside ClickHouse's window.
LEMMA RowsAreTheDay ==
    ASSUME NEW k, snap.days[k] \in Int, day \in Int, snap.days[k] >= day - Days
    PROVE  Rows(k) = OfDay(rows, snap.days[k])
BY DEF Rows, OfDay

\* Of a day outside of it they count nothing.
LEMMA NoRowsOutside ==
    ASSUME NEW k, snap.days[k] \in Int, day \in Int, snap.days[k] < day - Days
    PROVE  Rows(k) = {}
<1>1. Days \in Nat
  BY ViewsOK
<1> QED BY <1>1 DEF Rows

LEMMA CardinalityGrows ==
    ASSUME NEW S, NEW T, NEW d, IsFiniteSet(T), S \subseteq T
    PROVE  Cardinality(OfDay(T, d)) >= Cardinality(OfDay(S, d))
<1>1. OfDay(S, d) \subseteq OfDay(T, d) /\ OfDay(T, d) \subseteq T
  BY DEF OfDay
<1>2. IsFiniteSet(OfDay(T, d))
  BY <1>1, FS_Subset
<1>3. /\ Cardinality(OfDay(S, d)) <= Cardinality(OfDay(T, d))
      /\ IsFiniteSet(OfDay(S, d))
  BY <1>1, <1>2, FS_Subset
<1>4. Cardinality(OfDay(S, d)) \in Nat /\ Cardinality(OfDay(T, d)) \in Nat
  BY <1>2, <1>3, FS_CardinalityType
<1> QED BY <1>3, <1>4

\* The collection under way only depends on the log having grown and time having passed.
LEMMA SnapKeeps ==
    ASSUME SnapTyped, SnapOK, PagesOK, Clock, Clock', rows \subseteq rows', day <= day',
           UNCHANGED stats
    PROVE  SnapTyped' /\ SnapOK' /\ PagesOK'
<1>1. snap' = snap /\ pages' = pages
  BY DEF stats
<1>2. SnapTyped' /\ PagesOK'
  BY <1>1 DEF SnapTyped, PagesOK, PageOK, Column, Total
<1>0. day \in Int /\ day' \in Int
  BY DaysAssumption DEF Clock
<1>3. AxisOK(snap) => AxisOK(snap)'
  BY <1>0, <1>1 DEF AxisOK
<1>4. TrafficOK(snap) => TrafficOK(snap)'
  BY <1>0, <1>1 DEF TrafficOK, Column
<1>5. RequestsOK(snap) => RequestsOK(snap)'
  BY <1>1 DEF RequestsOK, Total
<1> QED BY <1>1, <1>2, <1>3, <1>4, <1>5 DEF SnapOK

LEMMA CollectStatsKeeps ==
    ASSUME Clock, PagesOK, CollectStats
    PROVE  SnapTyped' /\ SnapOK' /\ PagesOK'
<1> DEFINE axis == [k \in 1..(Days + 1) |-> day - Days + k - 1]
<1>1. snap' = Snap("traffic", axis, <<>>, <<>>, day, {}, 0)
  BY DEF CollectStats, NoSnap, Snap
<1>2. Days \in Nat /\ day \in Int
  BY ViewsOK, DaysAssumption DEF Clock
<1>3. axis \in Seq(Int) /\ Len(axis) = Days + 1
  BY <1>2
<1>4. \A k \in 1..(Days + 1) : axis[k] = day - (Days + 1) + k
  BY <1>2
<1>9. day' = day
  BY DEF CollectStats, log
<1> HIDE DEF axis
<1>5. snap'.pc = "traffic" /\ snap'.days = axis /\ snap'.began = day
  BY <1>1 DEF Snap
<1>6. SnapTyped'
  BY <1>1 DEF SnapTyped, Snap
<1>7. AxisOK(snap)'
  BY <1>2, <1>3, <1>4, <1>5, <1>9 DEF AxisOK
<1>8. PagesOK'
  BY DEF CollectStats, PagesOK, PageOK, Column, Total
<1> QED BY <1>5, <1>6, <1>7, <1>8 DEF SnapOK

LEMMA CollectTrafficKeeps ==
    ASSUME Clock, SnapTyped, SnapOK, PagesOK, CollectTraffic
    PROVE  SnapTyped' /\ SnapOK' /\ PagesOK'
<1> DEFINE series == [k \in 1..Len(snap.days) |->
                        [c \in Categories |-> Cardinality({row \in Rows(k) : Category(row) = c})]]
<1>1. snap' = Snap("clients", snap.days, series, snap.requests, snap.began, rows, day)
  BY DEF CollectTraffic, SnapTyped, Snap
<1>2. /\ snap'.pc = "clients" /\ snap'.days = snap.days /\ snap'.traffic = series
      /\ snap'.began = snap.began /\ snap'.seen = rows /\ snap'.on = day
      /\ rows' = rows /\ day' = day
  BY <1>1 DEF Snap, CollectTraffic, log
<1>3. AxisOK(snap) /\ day \in Int
  BY DaysAssumption DEF SnapOK, CollectTraffic, Clock
<1>4. SnapTyped'
  BY <1>1 DEF SnapTyped, Snap
<1>5. AxisOK(snap)'
  BY <1>2, <1>3 DEF AxisOK
<1>6. ASSUME NEW k \in 1..(Days + 1)
      PROVE  \/ \A c \in Categories : series[k][c] = Cardinality(OfColumn(rows, snap.days[k], c))
             \/ snap.days[k] < day - Days /\ \A c \in Categories : series[k][c] = 0
  <2>1. Len(snap.days) = Days + 1 /\ snap.days[k] \in Int /\ Days \in Nat
    BY <1>3, ViewsOK DEF AxisOK
  <2>2. \A c \in Categories : series[k][c] = Cardinality({row \in Rows(k) : Category(row) = c})
    BY <2>1
  <2> HIDE DEF series
  <2>3. CASE snap.days[k] >= day - Days
    BY <1>3, <2>1, <2>2, <2>3, RowsAreTheDay DEF OfColumn
  <2>4. CASE snap.days[k] < day - Days
    <3>1. \A c \in Categories : {row \in Rows(k) : Category(row) = c} = {}
      BY <1>3, <2>1, <2>4, NoRowsOutside
    <3> QED BY <2>2, <2>4, <3>1, FS_EmptySet
  <2> QED BY <1>3, <2>1, <2>3, <2>4
<1> HIDE DEF series
<1>7. TrafficOK(snap)'
  <2>1. snap.began <= day
    BY <1>3 DEF AxisOK
  <2> QED BY <1>2, <1>3, <1>6, <2>1 DEF TrafficOK, Column
<1>8. PagesOK'
  BY DEF CollectTraffic, PagesOK, PageOK, Column, Total
<1> QED BY <1>2, <1>4, <1>5, <1>7, <1>8 DEF SnapOK

LEMMA CollectClientsKeeps ==
    ASSUME Clock, IsFiniteSet(rows), SnapTyped, SnapOK, PagesOK, CollectClients
    PROVE  SnapTyped' /\ SnapOK' /\ PagesOK'
<1> DEFINE series == [k \in 1..Len(snap.days) |-> Cardinality(Rows(k))]
<1>1. snap' = Snap("render", snap.days, snap.traffic, series, snap.began, snap.seen, day)
  BY DEF CollectClients, SnapTyped, Snap
<1>2. /\ snap'.pc = "render" /\ snap'.days = snap.days /\ snap'.traffic = snap.traffic
      /\ snap'.requests = series /\ snap'.began = snap.began /\ snap'.seen = snap.seen
      /\ snap'.on = day
      /\ rows' = rows /\ day' = day
  BY <1>1 DEF Snap, CollectClients, log
<1>3. AxisOK(snap) /\ TrafficOK(snap) /\ day \in Int
  BY DaysAssumption DEF SnapOK, CollectClients, Clock
<1>4. SnapTyped'
  BY <1>1 DEF SnapTyped, Snap
<1>5. AxisOK(snap)'
  BY <1>2, <1>3 DEF AxisOK
<1>6. \A k \in 1..(Days + 1) : snap.days[k] \in Int
  BY <1>3, ViewsOK DEF AxisOK
<1>7. TrafficOK(snap)'
  <2>1. /\ snap.seen \subseteq rows /\ snap.on \in Int /\ snap.on <= day /\ snap.began <= day
        /\ Days \in Nat
    BY <1>3, ViewsOK DEF TrafficOK, AxisOK
  <2>2. \A k \in 1..(Days + 1) : snap.days[k] < snap.on - Days => snap.days[k] < day - Days
    BY <1>3, <1>6, <2>1
  <2>3. \A k \in 1..(Days + 1) : Column(snap, k)
    BY <1>3 DEF TrafficOK
  <2>4. \A k \in 1..(Days + 1) : Column(snap, k)'
    BY <1>2, <2>2, <2>3 DEF Column
  <2> QED BY <1>2, <1>3, <2>1, <2>4 DEF TrafficOK
<1>8. ASSUME NEW k \in 1..(Days + 1)
      PROVE  \/ series[k] >= Cardinality(OfDay(snap.seen, snap.days[k]))
             \/ snap.days[k] < day - Days /\ series[k] = 0
  <2>1. series[k] = Cardinality(Rows(k))
    BY <1>3 DEF AxisOK
  <2>2. snap.seen \subseteq rows
    BY <1>3 DEF TrafficOK
  <2> HIDE DEF series
  <2>3. CASE snap.days[k] >= day - Days
    BY <1>3, <1>6, <2>1, <2>2, <2>3, RowsAreTheDay, CardinalityGrows
  <2>4. CASE snap.days[k] < day - Days
    BY <1>3, <1>6, <2>1, <2>4, NoRowsOutside, FS_EmptySet
  <2> QED BY <1>3, <1>6, <2>3, <2>4, ViewsOK
<1> HIDE DEF series
<1>9. RequestsOK(snap)'
  BY <1>2, <1>8 DEF RequestsOK, Total
<1>10. PagesOK'
  BY DEF CollectClients, PagesOK, PageOK, Column, Total
<1> QED BY <1>2, <1>4, <1>5, <1>7, <1>9, <1>10 DEF SnapOK

LEMMA NoSnapOK ==
    ASSUME snap' = NoSnap
    PROVE  SnapTyped' /\ SnapOK'
<1>1. snap' = Snap("idle", <<>>, <<>>, <<>>, 0, {}, 0)
  BY DEF NoSnap, Snap
<1>2. snap'.pc = "idle"
  BY <1>1 DEF Snap
<1> QED BY <1>1, <1>2 DEF SnapTyped, SnapOK, Snap

\* A page of v days is the end of the series that were collected.
LEMMA SliceIsAPage ==
    ASSUME AxisOK(snap), TrafficOK(snap), RequestsOK(snap), NEW v \in Views
    PROVE  PageOK(sliceSnapshot(v), v)
<1> DEFINE n == Days + 1
           from == Days - v
           page == sliceSnapshot(v)
<1>1. /\ n \in Nat /\ from \in 0..n /\ n - from = v + 1 /\ Len(snap.days) = n
      /\ v \in Nat /\ Days \in Nat
  BY ViewsOK DEF AxisOK
<1>2. (IF v + 1 >= n THEN 0 ELSE n - (v + 1)) = from
  BY ViewsOK
<1>3. /\ page.days = SubSeq(snap.days, from + 1, n)
      /\ page.traffic = SubSeq(snap.traffic, from + 1, n)
      /\ page.requests = SubSeq(snap.requests, from + 1, n)
      /\ page.began = snap.began /\ page.seen = snap.seen /\ page.on = snap.on
  BY <1>1, <1>2 DEF sliceSnapshot
<1> HIDE DEF n, page
<1>4. /\ Len(page.days) = v + 1 /\ Len(page.traffic) = v + 1 /\ Len(page.requests) = v + 1
      /\ \A k \in 1..(v + 1) : /\ page.days[k] = snap.days[from + k]
                               /\ page.traffic[k] = snap.traffic[from + k]
                               /\ page.requests[k] = snap.requests[from + k]
  <2> HIDE DEF from
  <2> QED BY <1>1, <1>3, CutSeries
<1>5. \A k \in 1..(v + 1) : from + k \in 1..(Days + 1) /\ from + k = Days - v + k
  BY <1>1 DEF n
<1>6. \A k \in 1..(v + 1) : page.days[k] = page.began - (v + 1) + k
  <2>1. snap.began \in Int
    BY DEF AxisOK
  <2>2. SUFFICES ASSUME NEW k \in 1..(v + 1)
                 PROVE  page.days[k] = snap.began - (v + 1) + k
    BY <1>3
  <2>3. snap.days[from + k] = snap.began - (Days + 1) + (from + k)
    BY <1>5 DEF AxisOK
  <2>4. page.days[k] = snap.days[from + k] /\ from + k = Days - v + k
    BY <1>4, <1>5
  <2> HIDE DEF from
  <2> QED BY <1>1, <2>1, <2>3, <2>4
<1>7. ASSUME NEW k \in 1..(v + 1)
      PROVE  Column(page, k) /\ Total(page, k)
  <2> DEFINE j == from + k
  <2>1. Column(snap, j) /\ Total(snap, j)
    BY <1>5 DEF TrafficOK, RequestsOK
  <2>2. /\ page.days[k] = snap.days[j] /\ page.traffic[k] = snap.traffic[j]
        /\ page.requests[k] = snap.requests[j] /\ page.seen = snap.seen /\ page.on = snap.on
    BY <1>3, <1>4
  <2> HIDE DEF j
  <2> QED BY <2>1, <2>2 DEF Column, Total
<1>8. page.began <= page.on
  BY <1>3 DEF TrafficOK
<1> QED BY <1>4, <1>6, <1>7, <1>8 DEF PageOK, page

LEMMA RenderKeeps ==
    ASSUME SnapOK, PagesOK, Render
    PROVE  SnapTyped' /\ SnapOK' /\ PagesOK'
<1>1. snap' = NoSnap /\ pages' = [v \in Views |-> sliceSnapshot(v)]
  BY DEF Render
<1>2. AxisOK(snap) /\ TrafficOK(snap) /\ RequestsOK(snap)
  BY DEF Render, SnapOK
<1>3. \A v \in Views : PageOK(sliceSnapshot(v), v)
  BY <1>2, SliceIsAPage
<1>4. DOMAIN pages' = Views /\ \A v \in Views : pages'[v] = sliceSnapshot(v)
  BY <1>1
<1>5. \A v \in Views : PageOK(pages'[v], v)
  BY <1>3, <1>4
<1>7. PagesOK'
  BY <1>4, <1>5 DEF PagesOK, PageOK, Column, Total
<1> QED BY <1>1, <1>7, NoSnapOK

LEMMA StatsKeep ==
    ASSUME Clock, Clock', IsFiniteSet(rows), SnapTyped, SnapOK, PagesOK, [Next]_vars
    PROVE  SnapTyped' /\ SnapOK' /\ PagesOK'
<1>1. CASE UNCHANGED stats
  BY <1>1, SnapKeeps, RowsGrow, ClockKeep
<1>2. CASE CollectFails
  <2>1. snap' = NoSnap /\ pages' = pages
    BY <1>2 DEF CollectFails
  <2>2. PagesOK'
    BY <2>1 DEF PagesOK, PageOK, Column, Total
  <2> QED BY <2>1, <2>2, NoSnapOK
<1>3. CASE StatsStep
  BY <1>2, <1>3, CollectStatsKeeps, CollectTrafficKeeps, CollectClientsKeeps, RenderKeeps
     DEF StatsStep
<1> QED BY <1>1, <1>3 DEF Next, vars

-----------------------------------------------------------------------------
(* The theorems.                                                           *)

LEMMA InitIsOK == Init => IInv
<1> SUFFICES ASSUME Init PROVE IInv
  OBVIOUS
<1> USE DEF Init, LogInit, TagsInit, RequestInit, StatsInit
<1>1. Clock
  BY DaysAssumption, FaultsAssumption DEF Clock
<1>2. rq = [r \in Requests |-> Idle] /\ rows = History
  OBVIOUS
<1>3. Idle \in Handlers
  <2>1. NoHeader \in Ips /\ "" \in Tags /\ "idle" \in Steps /\ 0 \in Statuses /\ 0 \in 0..Size
    BY RequestsAssumption DEF Ips, Tags, Steps, Statuses
  <2> QED BY <2>1 DEF Idle, Handlers
<1>4. HandlerOK(Idle)
  BY DEF HandlerOK, Idle, Before, After
<1>5. HandlersTyped /\ HandlersOK
  BY <1>2, <1>3, <1>4 DEF HandlersTyped, HandlersOK
<1>6. RowsOK /\ RowsTyped /\ IsFiniteSet(rows)
  BY <1>2, HistoryAssumption DEF RowsOK, RowsTyped
<1>10. HandlersDated
  <2>1. Idle.pc = "idle"
    BY DEF Idle
  <2>2. \A r \in Requests : rq[r].pc = "idle"
    BY <1>2, <2>1
  <2> QED BY <2>2 DEF HandlersDated, Dated, Before
<1>7. ListOK /\ ListMade
  BY DEF ListOK, ListMade
<1>8. SnapTyped /\ SnapOK
  <2>1. snap = Snap("idle", <<>>, <<>>, <<>>, 0, {}, 0)
    BY DEF NoSnap, Snap
  <2>2. snap.pc = "idle"
    BY <2>1 DEF Snap
  <2> QED BY <2>1, <2>2 DEF SnapTyped, SnapOK, Snap
<1>9. PagesOK
  BY DEF PagesOK
<1> QED BY <1>1, <1>5, <1>6, <1>7, <1>8, <1>9, <1>10 DEF IInv

LEMMA NextKeeps == IInv /\ [Next]_vars => IInv'
<1> SUFFICES ASSUME IInv, [Next]_vars PROVE IInv'
  OBVIOUS
<1>1. /\ Clock /\ HandlersTyped /\ HandlersOK /\ HandlersDated
      /\ RowsOK /\ RowsTyped /\ IsFiniteSet(rows) /\ ListOK
      /\ ListMade /\ SnapTyped /\ SnapOK /\ PagesOK
  BY DEF IInv
<1>2. Clock'
  BY <1>1, ClockKeep
<1>3. HandlersTyped' /\ HandlersOK' /\ HandlersDated'
  BY <1>1, HandlersKeep, DatesKeep
<1>4. RowsOK' /\ RowsTyped' /\ IsFiniteSet(rows')
  BY <1>1, RowsKeep, RowsTypedKeep, RowsStayFinite
<1>5. ListOK' /\ ListMade'
  BY <1>1, ListKeep
<1>6. SnapTyped' /\ SnapOK' /\ PagesOK'
  BY <1>1, <1>2, StatsKeep
<1> QED BY <1>2, <1>3, <1>4, <1>5, <1>6 DEF IInv

\* The inductive invariant of the front: each handler has sent what its position says, each
\* row of the log has what its handler ended with, and each series of a collection counts
\* the log its query saw.
THEOREM Invariant == Spec => []IInv
<1>1. Init => IInv
  BY InitIsOK
<1>2. IInv /\ [Next]_vars => IInv'
  BY NextKeeps
<1> QED BY <1>1, <1>2, PTL DEF Spec

\* Handlers, rows and counters keep their types: every row has a day, a status and a tag that
\* the configuration names.  The series of a page are as long as its axis.
THEOREM TypeCorrect == Spec => []TypeOK
<1>1. IInv => TypeOK
  <2> SUFFICES ASSUME IInv PROVE TypeOK
    OBVIOUS
  <2>1. rq \in [Requests -> Handlers] /\ Clock /\ RowsTyped /\ PagesOK
    BY DEF IInv, HandlersTyped
  <2>2. pages # NoPages => \A v \in Views : /\ Len(pages[v].traffic) = Len(pages[v].days)
                                            /\ Len(pages[v].requests) = Len(pages[v].days)
    BY <2>1 DEF PagesOK, PageOK
  <2> QED BY <2>1, <2>2 DEF TypeOK, Handlers, Clock, RowsTyped
<1> QED BY <1>1, Invariant, PTL

\* What the record of a handler shows its client.
StateOf(q) ==
    CASE q.pc = "idle" -> "idle"
      [] q.pc # "idle" /\ q.head = 0 -> "waiting"
      [] q.head = 200 /\ q.pc = "ended" -> "whole"
      [] q.head = 200 /\ q.pc # "ended" /\ q.pc # "aborted" -> "streaming"
      [] q.head > 200 /\ q.pc # "aborted" -> "refused"
      [] OTHER -> "cut"

\* A finished handler: whole exactly if it committed and ended without an error, cut exactly
\* if it committed and ended with one.
LEMMA Finished ==
    ASSUME NEW q \in Handlers, HandlerOK(q), q.pc \in {"ended", "aborted"}
    PROVE  /\ (StateOf(q) = "whole") = (q.status = 200 /\ q.err = "nil")
           /\ (StateOf(q) = "cut") = (q.status = 200 /\ q.err # "nil")
           /\ q.status # 200 => q.status = q.head
<1>0. q.committed \in BOOLEAN /\ q.head \in Statuses /\ q.status \in Statuses
  BY DEF Handlers
<1>1. CASE q.pc = "ended" /\ q.committed
  <2>1. q.status = 200 /\ q.head = 200 /\ q.err = "nil"
    BY <1>1 DEF HandlerOK
  <2>2. StateOf(q) = "whole"
    BY <1>1, <2>1 DEF StateOf
  <2> QED BY <2>1, <2>2
<1>2. CASE q.pc = "aborted"
  <2>1. q.status = 200 /\ q.head = 200 /\ q.err # "nil"
    BY <1>2 DEF HandlerOK
  <2>2. StateOf(q) = "cut"
    BY <1>2, <2>1 DEF StateOf
  <2> QED BY <2>1, <2>2
<1>3. CASE q.pc = "ended" /\ ~q.committed
  <2>1. q.status \in {404, 500, 501, 503} /\ q.head = q.status
    BY <1>3 DEF HandlerOK, After
  <2>2. StateOf(q) = "refused"
    BY <1>3, <2>1 DEF StateOf
  <2> QED BY <2>1, <2>2
<1> QED BY <1>0, <1>1, <1>2, <1>3

LEMMA CategoryOf ==
    ASSUME NEW row
    PROVE  /\ row.status = 200 /\ row.err = "nil" => Category(row) = "served"
           /\ row.status = 200 /\ row.err # "nil" => Category(row) = "aborted"
           /\ row.status # 200 => Category(row) \in {"notfound", "err5xx"}
BY DEF Category

\* The log tells what the client saw.  A row is written before the connection is closed or
\* aborted; that the two agree rests on the row's handler keeping its status and its error.
THEOREM LogTellsTruth == Spec => []RowTellsTruth
<1>1. IInv => RowTellsTruth
  <2> SUFFICES ASSUME IInv, NEW row \in rows \ History, rq[row.of].pc \in {"ended", "aborted"}
               PROVE  /\ (Category(row) = "served") = (ClientState(row.of) = "whole")
                      /\ (Category(row) = "aborted") = (ClientState(row.of) = "cut")
                      /\ row.status # 200 => row.status = rq[row.of].head
    BY DEF RowTellsTruth
  <2> DEFINE q == rq[row.of]
  <2>1. /\ row.of \in Requests /\ row.status = q.status /\ row.err = q.err
        /\ q \in Handlers /\ HandlerOK(q)
    BY DEF IInv, RowsOK, HandlersTyped, HandlersOK
  <2>2. ClientState(row.of) = StateOf(q)
    BY DEF ClientState, StateOf
  <2>3. /\ (Category(row) = "served") = (q.status = 200 /\ q.err = "nil")
        /\ (Category(row) = "aborted") = (q.status = 200 /\ q.err # "nil")
    <3>1. CASE q.status = 200 /\ q.err = "nil"
      <4>1. Category(row) = "served"
        BY <2>1, <3>1, CategoryOf
      <4> QED BY <3>1, <4>1
    <3>2. CASE q.status = 200 /\ q.err # "nil"
      <4>1. Category(row) = "aborted"
        BY <2>1, <3>2, CategoryOf
      <4> QED BY <3>2, <4>1
    <3>3. CASE q.status # 200
      <4>1. Category(row) \in {"notfound", "err5xx"}
        BY <2>1, <3>3, CategoryOf
      <4> QED BY <3>3, <4>1
    <3> QED BY <3>1, <3>2, <3>3
  <2> HIDE DEF q
  <2>4. q.pc \in {"ended", "aborted"}
    BY DEF q
  <2>5. /\ (StateOf(q) = "whole") = (q.status = 200 /\ q.err = "nil")
        /\ (StateOf(q) = "cut") = (q.status = 200 /\ q.err # "nil")
        /\ q.status # 200 => q.status = q.head
    BY <2>1, <2>4, Finished
  <2>6. row.status # 200 => row.status = rq[row.of].head
    BY <2>1, <2>5 DEF q
  <2> QED BY <2>2, <2>3, <2>5, <2>6
<1> QED BY <1>1, Invariant, PTL

\* Whatever lists and documents are published and whenever they are fetched, an address is
\* attributed by the narrowest range of the list that was last loaded.
THEOREM TagsAreRightAlways == Spec => []TagsRight
<1>1. IInv => TagsRight
  <2> SUFFICES ASSUME IInv PROVE TagMostSpecific(Addresses)
    BY DEF TagsRight
  <2>1. ASSUME NEW ip \in Addresses PROVE Unmap(ip).n \in Nat
    <3>1. ip.n \in Nat /\ ip = [fam |-> ip.fam, n |-> ip.n]
      BY AddressesAssumption
    <3>2. [ip EXCEPT !.fam = "v4"] = [[fam |-> ip.fam, n |-> ip.n] EXCEPT !.fam = "v4"]
      BY <3>1, Zenon
    <3>3. [ip EXCEPT !.fam = "v4"].n = ip.n
      BY <3>2
    <3> QED BY <3>1, <3>3 DEF Unmap
  <2>2. ListMade
    BY DEF IInv
  <2> QED BY <2>1, <2>2, TagsAreRight
<1> QED BY <1>1, Invariant, PTL

\* The pages agree with the log, collections that run over midnight included.
THEOREM PagesAreTrue == Spec => []PagesTrue
<1>1. IInv => PagesTrue
  <2> SUFFICES ASSUME IInv, pages # NoPages PROVE PagesTrue
    BY DEF PagesTrue
  <2>1. \A v \in Views : PageOK(pages[v], v)
    BY DEF IInv, PagesOK
  <2> QED BY <2>1 DEF PagesTrue, PageOK, Column, Total, OfDay, OfColumn
<1> QED BY <1>1, Invariant, PTL

-----------------------------------------------------------------------------
(* The refinement.                                                         *)

LEMMA StateIs == clientState = [r \in Requests |-> StateOf(rq[r])]
BY DEF clientState, ClientState, StateOf

\* What a move of a handler is to its client.
Observed(q, p) ==
    \/ StateOf(p) = StateOf(q) /\ p.sent = q.sent
    \/ StateOf(q) = "idle" /\ StateOf(p) = "waiting" /\ p.sent = q.sent
    \/ StateOf(q) = "waiting" /\ StateOf(p) \in {"refused", "streaming"} /\ p.sent = q.sent
    \/ StateOf(q) = "streaming" /\ StateOf(p) = "streaming" /\ q.sent < Size /\ p.sent = q.sent + 1
    \/ StateOf(q) = "streaming" /\ StateOf(p) = "whole" /\ q.sent = Size /\ p.sent = q.sent
    \/ StateOf(q) = "streaming" /\ StateOf(p) = "cut" /\ p.sent = q.sent

LEMMA MovesObserved ==
    ASSUME NEW q \in Handlers, NEW p \in Handlers, HandlerOK(q), HandlerOK(p), Moves(q, p)
    PROVE  Observed(q, p)
<1> USE DEF Observed
<1>0. q.committed \in BOOLEAN /\ q.head \in Statuses /\ q.pc \in Steps
  BY DEF Handlers
<1>1. CASE Starts(q, p)
  <2>1. q.head = 0 /\ p.head = 0 /\ q.pc = "idle" /\ p.pc = "tags" /\ p.sent = q.sent
    BY <1>1 DEF Starts, SameAnswer, HandlerOK, Before
  <2>2. StateOf(q) = "idle" /\ StateOf(p) = "waiting"
    BY <2>1 DEF StateOf
  <2> QED BY <2>1, <2>2
<1>2. CASE Goes(q, p) \/ Fails(q, p)
  <2>1. q.head = 0 /\ p.head = 0 /\ q.pc # "idle" /\ p.pc # "idle" /\ p.sent = q.sent
    BY <1>2 DEF Goes, Fails, SameAnswer, HandlerOK, Before
  <2>2. StateOf(q) = "waiting" /\ StateOf(p) = "waiting"
    BY <2>1 DEF StateOf
  <2> QED BY <2>1, <2>2
<1>3. CASE Commits(q, p)
  <2>1. q.head = 0 /\ q.pc # "idle" /\ p.head = 200 /\ p.pc = "copy" /\ p.sent = q.sent
    BY <1>3 DEF Commits, HandlerOK, Before
  <2>2. StateOf(q) = "waiting" /\ StateOf(p) = "streaming"
    BY <2>1 DEF StateOf
  <2> QED BY <2>1, <2>2
<1>4. CASE Sends(q, p)
  <2>1. q.head = 200 /\ p.head = 200 /\ q.pc = "copy" /\ p.pc = "copy"
    BY <1>4 DEF Sends, HandlerOK
  <2>2. StateOf(q) = "streaming" /\ StateOf(p) = "streaming"
    BY <2>1 DEF StateOf
  <2> QED BY <1>4, <2>2 DEF Sends
<1>5. CASE Ends(q, p)
  <2>1. q.head = 200 /\ p.head = 200 /\ q.pc = "copy" /\ p.pc = "returned" /\ p.sent = q.sent
    BY <1>5 DEF Ends, HandlerOK
  <2>2. StateOf(q) = "streaming" /\ StateOf(p) = "streaming"
    BY <2>1 DEF StateOf
  <2> QED BY <2>1, <2>2
<1>6. CASE Refuses(q, p)
  <2>1. /\ q.head = 0 /\ q.pc = "returned" /\ p.pc = "log" /\ p.head \in {404, 500, 501, 503}
        /\ p.sent = q.sent
    BY <1>6 DEF Refuses, HandlerOK
  <2>2. StateOf(q) = "waiting" /\ StateOf(p) = "refused"
    BY <2>1 DEF StateOf
  <2> QED BY <2>1, <2>2
<1>7. CASE Passes(q, p) \/ Logs(q, p)
  <2>1. /\ q.head = p.head /\ q.head \in {200, 404, 500, 501, 503} /\ p.sent = q.sent
        /\ q.pc \in {"returned", "log"} /\ p.pc \in {"log", "close"}
    BY <1>0, <1>7 DEF Passes, Logs, SameAnswer, HandlerOK, After
  <2>2. CASE q.head = 200
    <3>1. StateOf(q) = "streaming" /\ StateOf(p) = "streaming"
      BY <2>1, <2>2 DEF StateOf
    <3> QED BY <2>1, <3>1
  <2>3. CASE q.head # 200
    <3>1. StateOf(q) = "refused" /\ StateOf(p) = "refused"
      BY <2>1, <2>3 DEF StateOf
    <3> QED BY <2>1, <3>1
  <2> QED BY <2>2, <2>3
<1>8. CASE Closes(q, p)
  <2>0. q.pc = "close" /\ p.head = q.head /\ p.sent = q.sent /\ p.pc \in {"aborted", "ended"}
    BY <1>8 DEF Closes, SameAnswer
  <2>1. CASE q.committed /\ p.pc = "aborted"
    <3>1. q.head = 200 /\ StateOf(q) = "streaming"
      BY <2>0, <2>1 DEF HandlerOK, StateOf
    <3>2. StateOf(p) = "cut"
      BY <2>0, <2>1, <3>1 DEF StateOf
    <3> QED BY <2>0, <3>1, <3>2
  <2>2. CASE q.committed /\ p.pc = "ended"
    <3>1. q.head = 200 /\ q.err = "nil" /\ q.sent = Size
      BY <1>0, <1>8, <2>0, <2>2 DEF HandlerOK, After, Closes
    <3>2. StateOf(q) = "streaming" /\ StateOf(p) = "whole"
      BY <2>0, <2>2, <3>1 DEF StateOf
    <3> QED BY <2>0, <3>1, <3>2
  <2>3. CASE ~q.committed
    <3>1. q.head \in {404, 500, 501, 503} /\ p.pc = "ended"
      BY <1>0, <1>8, <2>0, <2>3 DEF HandlerOK, After, Closes
    <3>2. StateOf(q) = "refused" /\ StateOf(p) = "refused"
      BY <2>0, <3>1 DEF StateOf
    <3> QED BY <2>0, <3>2
  <2> QED BY <1>0, <2>0, <2>1, <2>2, <2>3
<1> QED BY <1>1, <1>2, <1>3, <1>4, <1>5, <1>6, <1>7, <1>8 DEF Moves

\* A move of one handler is a step of the abstract specification, or none.
LEMMA MoveRefines ==
    ASSUME HandlersTyped, HandlersTyped', NEW r \in Requests,
           \A s \in Requests : s # r => rq'[s] = rq[s],
           Observed(rq[r], rq'[r])
    PROVE  [D!Next]_<<clientState, clientGot>>
<1> DEFINE q == rq[r]
           p == rq'[r]
<1>1. /\ clientState = [s \in Requests |-> StateOf(rq[s])]
      /\ clientState' = [s \in Requests |-> StateOf(rq'[s])]
  BY DEF clientState, ClientState, StateOf
<1>2. /\ clientGot = [s \in Requests |-> rq[s].sent]
      /\ clientGot' = [s \in Requests |-> rq'[s].sent]
  BY DEF clientGot
<1>3. clientState' = [clientState EXCEPT ![r] = StateOf(p)] /\ clientState[r] = StateOf(q)
  BY <1>1
<1>4. clientGot' = [clientGot EXCEPT ![r] = p.sent] /\ clientGot[r] = q.sent
  BY <1>2
<1>5. p.sent = q.sent => clientGot' = clientGot
  BY <1>2, <1>4
<1>6. StateOf(p) = StateOf(q) => clientState' = clientState
  BY <1>1, <1>3
<1>7. Observed(q, p)
  OBVIOUS
<1> HIDE DEF q, p
<1>8. CASE StateOf(p) = StateOf(q) /\ p.sent = q.sent
  BY <1>5, <1>6, <1>8
<1>9. CASE StateOf(q) = "idle" /\ StateOf(p) = "waiting" /\ p.sent = q.sent
  BY <1>3, <1>5, <1>9 DEF D!Next, D!Arrive
<1>10. CASE StateOf(q) = "waiting" /\ StateOf(p) \in {"refused", "streaming"} /\ p.sent = q.sent
  BY <1>3, <1>5, <1>10 DEF D!Next, D!Serve, D!Refuse, D!Begin
<1>11. CASE /\ StateOf(q) = "streaming" /\ StateOf(p) = "streaming" /\ q.sent < Size
            /\ p.sent = q.sent + 1
  BY <1>3, <1>4, <1>6, <1>11 DEF D!Next, D!Serve, D!Receive
<1>12. CASE StateOf(q) = "streaming" /\ StateOf(p) = "whole" /\ q.sent = Size /\ p.sent = q.sent
  BY <1>3, <1>4, <1>5, <1>12 DEF D!Next, D!Serve, D!Finish
<1>13. CASE StateOf(q) = "streaming" /\ StateOf(p) = "cut" /\ p.sent = q.sent
  BY <1>3, <1>5, <1>13 DEF D!Next, D!Serve, D!Cut
<1> QED BY <1>7, <1>8, <1>9, <1>10, <1>11, <1>12, <1>13 DEF Observed

LEMMA StepRefines ==
    ASSUME IInv, IInv', [Next]_vars
    PROVE  [D!Next]_<<clientState, clientGot>>
<1>0. HandlersTyped /\ HandlersTyped' /\ HandlersOK /\ HandlersOK' /\ Clock /\ ListOK
  BY DEF IInv
<1>1. CASE rq' = rq
  <2>1. clientGot' = clientGot
    BY <1>1 DEF clientGot
  <2>2. clientState' = clientState
    BY <1>1 DEF clientState, ClientState
  <2> QED BY <2>1, <2>2
<1>2. CASE \E r \in Requests : OnlyMoves(r)
  <2>1. PICK r \in Requests : OnlyMoves(r)
    BY <1>2
  <2>2. /\ rq[r] \in Handlers /\ rq'[r] \in Handlers /\ HandlerOK(rq[r]) /\ HandlerOK(rq'[r])
        /\ Moves(rq[r], rq'[r]) /\ \A s \in Requests : s # r => rq'[s] = rq[s]
    BY <1>0, <2>1 DEF HandlersTyped, HandlersOK, OnlyMoves
  <2>3. Observed(rq[r], rq'[r])
    BY <2>2, MovesObserved
  <2> QED BY <1>0, <2>2, <2>3, MoveRefines
<1> QED BY <1>0, <1>1, <1>2, NextMoves

\* The front of the proxy implements Delivery (its safety part): whatever the cache, the
\* upstreams, the lists and the database do, the client is refused before the first byte of
\* a body or not at all, and a body that ends normally is whole.
THEOREM FrontDelivers == Spec => D!Spec
<1>1. Init => D!Init
  <2> SUFFICES ASSUME Init PROVE D!Init
    OBVIOUS
  <2>1. rq = [r \in Requests |-> Idle]
    BY DEF Init, RequestInit
  <2>2. StateOf(Idle) = "idle" /\ Idle.sent = 0
    BY DEF StateOf, Idle
  <2>3. clientState = [r \in Requests |-> "idle"]
    BY <2>1, <2>2, StateIs
  <2>4. clientGot = [r \in Requests |-> 0]
    BY <2>1, <2>2 DEF clientGot
  <2> QED BY <2>3, <2>4 DEF D!Init
<1>2. IInv /\ IInv' /\ [Next]_vars => [D!Next]_<<clientState, clientGot>>
  BY StepRefines
<1> QED BY <1>1, <1>2, Invariant, PTL DEF Spec, D!Spec
=============================================================================
