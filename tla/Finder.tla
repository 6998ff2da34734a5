------------------------------- MODULE Finder -------------------------------
(***************************************************************************)
(* The proxy's resolver for one build id (src/cmd/proxy/finder.go, db.go). *)
(*                                                                         *)
(* A request runs FindByBuildID: it reads the state of the build id from   *)
(* the LRU or from ClickHouse and returns the host recorded there, or it   *)
(* joins the one resolution in flight (singleflight).  The resolution      *)
(* reads the state again, is refused by the backoff, or probes every       *)
(* server that is up in parallel under a deadline; the first that has the  *)
(* file wins.  Its outcome goes to the LRU and, by an asynchronous insert, *)
(* to the database, which outlives a redeploy with another server table.   *)
(*                                                                         *)
(* A request starts at most one flight, so a flight and its round of       *)
(* probes are named by that request.  Time is counted in units of the      *)
(* shortest backoff.                                                       *)
(***************************************************************************)
EXTENDS Integers, FiniteSets

CONSTANTS Requests,     \* client requests for this build id
          SourceRequests, \* the ones that ask for /source
          Servers,
          Sourceless,   \* servers with SourceAvailable = 0
          Delegated,    \* the ones of them whose SourceVia delegate is up
          Delegate,
          Configs,      \* the server tables of successive deploys
          MaxFailures,  \* 30 in bgFindByBuildID
          Backoff,      \* 30 min, 1 h, 2 h, 24 h
          MaxClock,     \* bound on the clock
          Faults,       \* what the environment may do
          NoServer, NoRequest, NoRow, Flight

Tables == [Servers -> {"up", "down", "absent"}]

ASSUME RequestsAssumption == NoRequest \notin Requests /\ Flight \notin Requests
ASSUME ServersAssumption ==
    /\ NoServer \notin Servers /\ Delegate \notin Servers \cup {NoServer}
    /\ Delegated \subseteq Sourceless /\ Sourceless \subseteq Servers
    /\ Configs \subseteq Tables /\ Configs # {}
    /\ NoServer \notin [srv: Servers, hdr: Servers]
ASSUME BackoffAssumption ==
    /\ MaxFailures \in Nat /\ MaxClock \in Nat
    /\ Backoff \in [1 .. 4 -> Nat]
    /\ \A i \in 1 .. 3 : Backoff[i] <= Backoff[i + 1]
ASSUME FaultsAssumption == Faults \subseteq {"db", "deploy", "expire", "disconnect"}

VARIABLES
    conf,      \* f.servers of the running process
    cache,     \* f.cache: the state in the LRU
    db,        \* the row GetState's query returns
    pending,   \* rows sent with AsyncInsert and not visible yet
    clock,
    act,       \* FindByBuildID of each request, and bgFindByBuildID (Flight)
    leader,    \* the request that started the flight
    rnd        \* the round of probes of each flight

store == <<cache, db, pending>>
vars == <<conf, store, clock, act, leader, rnd>>

Opt(S) == S \cup {NoServer}

-----------------------------------------------------------------------------
(* BuildIDState and the results of the functions.                          *)

Rows == [ok: BOOLEAN, host: Opt(Servers), hdr: Opt(Servers), counter: Nat, at: Int]

ASSUME NoRowAssumption == NoRow \notin Rows

\* The zero time lies further back than any backoff.
Never == 0 - Backoff[4]
Fresh == [ok |-> FALSE, host |-> NoServer, hdr |-> NoServer, counter |-> 0, at |-> Never]

Errs == {"nil", "notfound", "notimpl", "down", "deadline", "canceled", "db", "killed"}
Answers == [srv: Opt(Servers) \cup {Delegate}, err: Errs]
Failed(e) == [srv |-> NoServer, err |-> e]
NoAnswer == Failed("nil")

Actors == Requests \cup {Flight}
Reading == {"get", "read", "add"}
Pcs == Reading \cup {"idle", "got", "join", "wait", "probing", "record", "insert", "end"}
Activations == [pc: Pcs, st: Rows, res: Answers]
Inactive == [pc |-> "idle", st |-> Fresh, res |-> NoAnswer]

\* A probe is "asking", has a "yes" it has not offered yet, and ends as "sent",
\* "dropped" or "no".  stop: cancelFind was called or the deadline has passed.
Verdicts == {"none", "found", "notfound", "deadline"}
Offers == [srv: Servers, hdr: Servers]
Rounds == [probe: [Servers -> {"off", "asking", "yes", "sent", "dropped", "no"}],
           ch: Offers \cup {NoServer}, closed: BOOLEAN, stop: BOOLEAN, expired: BOOLEAN,
           verdict: Verdicts]
NoRound == [probe |-> [s \in Servers |-> "off"], ch |-> NoServer, closed |-> FALSE,
            stop |-> FALSE, expired |-> FALSE, verdict |-> "none"]

Init ==
    /\ conf \in Configs
    /\ cache = NoRow
    /\ db = NoRow
    /\ pending = {}
    /\ clock = 0
    /\ act = [a \in Actors |-> Inactive]
    /\ leader = NoRequest
    /\ rnd = [r \in Requests |-> NoRound]

\* applySourceRules: sources come from the resolved server, from its delegate, or are
\* not implemented (which is what a /source request gets instead of "not found").
SourceRules(r, a) ==
    IF r \notin SourceRequests THEN a
    ELSE IF a.err = "notfound" THEN [a EXCEPT !.err = "notimpl"]
    ELSE IF a.err = "nil" /\ a.srv \in Delegated THEN [a EXCEPT !.srv = Delegate]
    ELSE IF a.err = "nil" /\ a.srv \in Sourceless THEN [a EXCEPT !.err = "notimpl"]
    ELSE a

Goto(a, pc) == act' = [act EXCEPT ![a].pc = pc]
Return(r, a) ==
    [act EXCEPT ![r] = [pc |-> "end", st |-> Fresh, res |-> SourceRules(r, a)]]

\* The singleflight call is over: it leaves the table, and everybody who waits for it
\* gets its result.
Deliver(a) ==
    /\ act' = [x \in Actors |-> IF x = Flight THEN Inactive
                                ELSE IF act[x].pc = "wait" THEN Return(x, a)[x]
                                ELSE act[x]]
    /\ leader' = NoRequest

-----------------------------------------------------------------------------
(* GetState, called by requests and by the flight.                         *)

Lookup(a) ==
    /\ act[a].pc = "get"
    /\ IF cache # NoRow
       THEN act' = [act EXCEPT ![a].pc = "got", ![a].st = cache]
       ELSE Goto(a, "read")
    /\ UNCHANGED <<conf, store, clock, leader, rnd>>

QueryDb(a) ==
    /\ act[a].pc = "read"
    /\ act' = [act EXCEPT ![a].pc = "add", ![a].st = IF db = NoRow THEN Fresh ELSE db]
    /\ UNCHANGED <<conf, store, clock, leader, rnd>>

\* The query fails, is cut off after 2 s, or the client is gone.
QueryFails(a) ==
    /\ "db" \in Faults
    /\ act[a].pc = "read"
    /\ IF a = Flight
       THEN Deliver(Failed("db"))
       ELSE act' = Return(a, Failed("db")) /\ UNCHANGED leader
    /\ UNCHANGED <<conf, store, clock, rnd>>

CacheAdd(a) ==
    /\ act[a].pc = "add"
    /\ cache' = act[a].st
    /\ Goto(a, "got")
    /\ UNCHANGED <<conf, db, pending, clock, leader, rnd>>

-----------------------------------------------------------------------------
(* FindByBuildID.                                                          *)

PinnedEvenIfDown(st) ==
    IF conf[st.host] = "absent" THEN Failed("notfound") ELSE [srv |-> st.host, err |-> "nil"]

\* What a recorded success means under the current server table.
Pinned(st) ==
    IF conf[st.host] = "absent" THEN Failed("notfound")
    ELSE IF conf[st.host] = "down" THEN Failed("down")
    ELSE [srv |-> st.host, err |-> "nil"]

Arrive(r) ==
    /\ act[r].pc = "idle"
    /\ Goto(r, "get")
    /\ UNCHANGED <<conf, store, clock, leader, rnd>>

Decide(r) ==
    /\ act[r].pc = "got"
    /\ IF act[r].st.ok THEN act' = Return(r, Pinned(act[r].st)) ELSE Goto(r, "join")
    /\ UNCHANGED <<conf, store, clock, leader, rnd>>

\* f.sf.DoChan: join the flight, or start one.
DoChan(r) ==
    /\ act[r].pc = "join"
    /\ IF leader # NoRequest
       THEN Goto(r, "wait") /\ UNCHANGED leader
       ELSE /\ act' = [act EXCEPT ![r].pc = "wait", ![Flight].pc = "get"]
            /\ leader' = r
    /\ UNCHANGED <<conf, store, clock, rnd>>

\* ctx.Done: the request leaves, the flight goes on.
GiveUp(r) ==
    /\ "disconnect" \in Faults
    /\ act[r].pc = "wait"
    /\ act' = Return(r, Failed("canceled"))
    /\ UNCHANGED <<conf, store, clock, leader, rnd>>

-----------------------------------------------------------------------------
(* bgFindByBuildID up to the probes.                                       *)

NeverTooMany(st) == FALSE
TooMany(st) == st.counter > MaxFailures

Window(st) == IF st.counter \in 1 .. 3 THEN Backoff[st.counter] ELSE Backoff[4]

BackingOff(st) == clock - st.at < Window(st)

\* Another flight was faster, or the failures so far forbid a new round.
Refuse ==
    LET st == act[Flight].st IN
    /\ act[Flight].pc = "got"
    /\ st.ok \/ TooMany(st) \/ BackingOff(st)
    /\ Deliver(IF st.ok THEN Pinned(st) ELSE Failed("notfound"))
    /\ UNCHANGED <<conf, store, clock, rnd>>

OneMoreFailure(st) == [st EXCEPT !.counter = @ + 1]

CountedFromTheStart(st) == [st EXCEPT !.at = clock, !.counter = @ + 1]

\* The state that the round will complete: its time is that of the start.
Tried(st) == [st EXCEPT !.at = clock]

StartRound ==
    LET st == act[Flight].st IN
    /\ act[Flight].pc = "got"
    /\ ~(st.ok \/ TooMany(st) \/ BackingOff(st))
    /\ act' = [act EXCEPT ![Flight].pc = "probing", ![Flight].st = Tried(st)]
    /\ rnd' = [rnd EXCEPT ![leader].probe =
                  [s \in Servers |-> IF conf[s] = "up" THEN "asking" ELSE "off"]]
    /\ UNCHANGED <<conf, store, clock, leader>>

-----------------------------------------------------------------------------
(* tryAllServers: one goroutine per server, one that closes the channel,   *)
(* and the flight itself waiting for the channel or for the deadline.      *)

ProbeYes(r, s) ==
    /\ rnd[r].probe[s] = "asking"
    /\ rnd' = [rnd EXCEPT ![r].probe[s] = "yes"]
    /\ UNCHANGED <<conf, store, clock, act, leader>>

\* A 404, any other status, a connection error, or the context is done.
ProbeNo(r, s) ==
    /\ rnd[r].probe[s] = "asking"
    /\ rnd' = [rnd EXCEPT ![r].probe[s] = "no"]
    /\ UNCHANGED <<conf, store, clock, act, leader>>

HeadersForgotten(r, s) == NoServer
HeadersOfAny(r, s) == CHOOSE t \in Servers : rnd[r].probe[t] \in {"yes", "sent", "dropped"}

\* The winner travels with its own headers.
HeadersSent(r, s) == s

NoBuffer(r) == FALSE

\* ch has a buffer of one, so the send succeeds before anybody receives.
RoomInCh(r) == rnd[r].ch = NoServer

Offer(r, s) ==
    /\ rnd[r].probe[s] = "yes"
    /\ rnd' = IF RoomInCh(r)
              THEN [rnd EXCEPT ![r].probe[s] = "sent", ![r].stop = TRUE,
                               ![r].ch = [srv |-> s, hdr |-> HeadersSent(r, s)]]
              ELSE [rnd EXCEPT ![r].probe[s] = "dropped"]
    /\ UNCHANGED <<conf, store, clock, act, leader>>

SomeOver(r) == \E s \in Servers : rnd[r].probe[s] \notin {"off", "asking"}

\* wg.Wait has returned.
AllOver(r) == \A s \in Servers : rnd[r].probe[s] \notin {"asking", "yes"}

Started(r) == rnd[r].verdict # "none" \/ (leader = r /\ act[Flight].pc = "probing")

NeverClose(r) == FALSE

CloseCh(r) ==
    /\ Started(r)
    /\ ~rnd[r].closed
    /\ AllOver(r)
    /\ rnd' = [rnd EXCEPT ![r].closed = TRUE]
    /\ UNCHANGED <<conf, store, clock, act, leader>>

NoDeadline == FALSE

\* maxResolutionTimeout is over.
Deadline ==
    /\ act[Flight].pc = "probing"
    /\ ~rnd[leader].expired
    /\ rnd' = [rnd EXCEPT ![leader].expired = TRUE, ![leader].stop = TRUE]
    /\ UNCHANGED <<conf, store, clock, act, leader>>

\* The state is completed, and the deferred cancel stops the remaining probes.
RoundEnds(v, st, a) ==
    /\ act' = [act EXCEPT ![Flight] = [pc |-> "record", st |-> st, res |-> a]]
    /\ rnd' = [rnd EXCEPT ![leader].verdict = v, ![leader].stop = TRUE,
                          ![leader].ch = IF v = "found" THEN NoServer ELSE @]
    /\ UNCHANGED <<conf, store, clock, leader>>

Receive ==
    LET w == rnd[leader].ch IN
    /\ act[Flight].pc = "probing"
    /\ w # NoServer
    /\ RoundEnds("found", [act[Flight].st EXCEPT !.ok = TRUE, !.host = w.srv, !.hdr = w.hdr],
                 [srv |-> w.srv, err |-> "nil"])

ReceiveClosed ==
    /\ act[Flight].pc = "probing"
    /\ rnd[leader].closed /\ rnd[leader].ch = NoServer
    /\ RoundEnds("notfound", OneMoreFailure(act[Flight].st), Failed("notfound"))

\* With both cases of the select ready, either is taken; an offer that is not
\* received stays in the channel.
TimedOut ==
    /\ act[Flight].pc = "probing"
    /\ rnd[leader].expired
    /\ RoundEnds("deadline", OneMoreFailure(act[Flight].st), Failed("deadline"))

\* UpdateState: the LRU first ...
Record ==
    /\ act[Flight].pc = "record"
    /\ cache' = act[Flight].st
    /\ Goto(Flight, "insert")
    /\ UNCHANGED <<conf, db, pending, clock, leader, rnd>>

\* ... then an insert that does not wait; its error is only logged.
Insert ==
    /\ act[Flight].pc = "insert"
    /\ \/ pending' = pending \cup {act[Flight].st}
       \/ "db" \in Faults /\ UNCHANGED pending
    /\ Deliver(act[Flight].res)
    /\ UNCHANGED <<conf, cache, db, clock, rnd>>

-----------------------------------------------------------------------------
(* ClickHouse, the LRU's limits, time and redeploys.                       *)

\* ORDER BY updated_at DESC LIMIT 1.
Newest(row) ==
    IF db = NoRow \/ db.at < row.at THEN {row} ELSE IF db.at = row.at THEN {db, row} ELSE {db}

Flush(row) ==
    /\ row \in pending
    /\ pending' = pending \ {row}
    /\ db' \in Newest(row)
    /\ UNCHANGED <<conf, cache, clock, act, leader, rnd>>

LoseInsert(row) ==
    /\ "db" \in Faults
    /\ row \in pending
    /\ pending' = pending \ {row}
    /\ UNCHANGED <<conf, cache, db, clock, act, leader, rnd>>

\* 10000 build ids, 24 hours.
Expire ==
    /\ "expire" \in Faults
    /\ cache # NoRow
    /\ cache' = NoRow
    /\ UNCHANGED <<conf, db, pending, clock, act, leader, rnd>>

Tick ==
    /\ clock < MaxClock
    /\ clock' = clock + 1
    /\ UNCHANGED <<conf, store, act, leader, rnd>>

Deploy ==
    /\ "deploy" \in Faults
    /\ conf' \in Configs
    /\ cache' = NoRow
    /\ act' = [a \in Actors |-> IF a = Flight THEN Inactive
                                ELSE IF act[a].pc \in {"idle", "end"} THEN act[a]
                                ELSE [act[a] EXCEPT !.pc = "end", !.res = Failed("killed")]]
    /\ leader' = NoRequest
    /\ rnd' = [r \in Requests |-> [NoRound EXCEPT !.verdict = rnd[r].verdict,
                                                  !.closed = Started(r)]]
    /\ UNCHANGED <<db, pending, clock>>

-----------------------------------------------------------------------------
GetStateStep(a) == Lookup(a) \/ QueryDb(a) \/ QueryFails(a) \/ CacheAdd(a)
RequestStep(r) == GetStateStep(r) \/ Decide(r) \/ DoChan(r)
FlightStep ==
    \/ GetStateStep(Flight) \/ Refuse \/ StartRound
    \/ Receive \/ ReceiveClosed \/ TimedOut \/ Record \/ Insert
RoundStep(r) ==
    \/ \E s \in Servers : ProbeYes(r, s) \/ ProbeNo(r, s) \/ Offer(r, s)
    \/ CloseCh(r)

Next ==
    \/ \E r \in Requests : Arrive(r) \/ RequestStep(r) \/ GiveUp(r) \/ RoundStep(r)
    \/ FlightStep \/ Deadline
    \/ \E row \in pending : Flush(row) \/ LoseInsert(row)
    \/ Expire \/ Tick \/ Deploy

Spec == Init /\ [][Next]_vars

(* Goroutines are scheduled and database calls return (they have timeouts   *)
(* of their own).  An upstream may hang until its context is done.          *)
Scheduling ==
    /\ \A r \in Requests : WF_vars(RequestStep(r))
    /\ WF_vars(FlightStep)
    /\ \A r \in Requests : WF_vars(CloseCh(r))
    /\ \A r \in Requests, s \in Servers :
          WF_vars(Offer(r, s)) /\ WF_vars(rnd[r].stop /\ ProbeNo(r, s))

FairSpec == Spec /\ Scheduling /\ WF_vars(Deadline)

-----------------------------------------------------------------------------
(* Properties.                                                             *)

TypeOK ==
    /\ conf \in Configs
    /\ cache \in Rows \cup {NoRow}
    /\ db \in Rows \cup {NoRow}
    /\ pending \subseteq Rows
    /\ clock \in 0 .. MaxClock
    /\ act \in [Actors -> Activations]
    /\ leader \in Requests \cup {NoRequest}
    /\ rnd \in [Requests -> Rounds]

\* Every copy of the state: in the LRU, in the database, on its way there, in the hands
\* of a request or of the flight.
Known == ({cache, db} \ {NoRow}) \cup pending \cup {act[a].st : a \in Actors}

\* A recorded success carries the headers of the very host it names, however many
\* servers answered at about the same time (resolveResult).
HeadersOfHost == \A row \in Known : row.ok => row.host \in Servers /\ row.hdr = row.host

\* No state counts more failures than bgFindByBuildID lets happen: the counter goes one
\* past the limit, in whatever order states are read, cached, lost and reread.
FailuresBounded == \A row \in Known : row.counter <= MaxFailures + 1

\* A probe that has an answer to offer finds the channel open: it is closed after the
\* last of them, and a send on a closed channel would kill the process.
NoSendOnClosed ==
    \A r \in Requests, s \in Servers : rnd[r].probe[s] = "yes" => ~rnd[r].closed

\* A resolution says "not found" only if no server that was asked has the file: the
\* winner's answer cannot be lost between the goroutines and the select.
NotFoundMeansNobody ==
    \A r \in Requests : rnd[r].verdict = "notfound" =>
        \A s \in Servers : rnd[r].probe[s] \in {"no", "off"}

\* FindByBuildID hands out servers that the running process has and does not mark as
\* down, and for /source only ones that serve sources, whatever a previous deploy or an
\* old row of the database says.
HandsOutUsable ==
    [][\A r \in Requests :
         LET a == act'[r].res IN
         act'[r].pc = "end" /\ act[r].pc # "end" /\ a.err = "nil" =>
            \/ a.srv \in Servers /\ conf[a.srv] = "up" /\ (r \in SourceRequests => a.srv \notin Sourceless)
            \/ a.srv = Delegate /\ r \in SourceRequests]_vars

\* The rounds that ended without a server, because nobody has the file or time was up.
FailedRounds == {r \in Requests : rnd[r].verdict \in {"notfound", "deadline"}}

\* No copy of the state tells of an outcome that did not happen: it counts at most the
\* rounds that failed, each of them once however many requests shared it, whether the
\* deadline or the last answer won the select, and whatever copies were lost, delayed or
\* written back late; and a success was found by some round.
OutcomesHappened ==
    \A row \in Known :
        /\ row.counter <= Cardinality(FailedRounds)
        /\ row.ok => \E r \in Requests : rnd[r].verdict = "found"

\* Every FindByBuildID returns, even if every upstream hangs for ever.
FindReturns == \A r \in Requests : act[r].pc # "idle" ~> act[r].pc = "end"

\* Every goroutine of a round ends and the round is logged, even if the upstreams it
\* asked hang for ever and nobody is interested in the answer any more.
RoundsCleanUp == \A r \in Requests : Started(r) ~> rnd[r].closed
=============================================================================
