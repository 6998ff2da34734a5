---------------------------- MODULE FinderProofs ----------------------------
(***************************************************************************)
(* Proofs about the resolver, for any numbers of requests and servers, any *)
(* server tables, backoff and failure limit.                               *)
(***************************************************************************)
EXTENDS Finder, FiniteSetTheorems, TLAPS

\* What every copy of the state satisfies.
RowOK(row) ==
    /\ row.ok => row.host \in Servers /\ row.hdr = row.host
    /\ row.counter <= MaxFailures + 1

Copies ==
    /\ cache # NoRow => RowOK(cache)
    /\ db # NoRow => RowOK(db)
    /\ \A row \in pending : RowOK(row)
    /\ \A a \in Actors : RowOK(act[a].st)

\* An answer that names a server names one that is up.
Usable(a) == a.err = "nil" => a.srv \in Servers /\ conf[a.srv] = "up"

\* What the flight knows, and which requests can own a round.
Flights ==
    /\ \A r \in Requests : /\ act[r].pc \notin {"probing", "record", "insert"}
                           /\ act[r].pc \notin {"wait", "end"} => rnd[r] = NoRound
    /\ act[Flight].pc \notin {"join", "wait", "end"}
    /\ act[Flight].pc = "idle" <=> leader = NoRequest
    /\ leader # NoRequest => act[leader].pc \in {"wait", "end"}
    /\ act[Flight].pc \in Reading \cup {"got"} => rnd[leader] = NoRound
    /\ act[Flight].pc = "probing" => /\ rnd[leader].verdict = "none"
                                     /\ ~act[Flight].st.ok
                                     /\ act[Flight].st.counter <= MaxFailures
    /\ act[Flight].pc \in {"record", "insert"} => Usable(act[Flight].res)

\* What is true of a round: servers asked are up, the channel is closed after the last
\* probe, and until the verdict a winner's offer stays in the channel.
RoundOK(q) ==
    /\ \A s \in Servers : q.probe[s] # "off" => conf[s] = "up"
    /\ q.closed => \A s \in Servers : q.probe[s] \notin {"asking", "yes"}
    /\ q.ch # NoServer => q.ch.hdr = q.ch.srv /\ conf[q.ch.srv] = "up"
    /\ q.verdict = "none" /\ q.ch = NoServer =>
          \A s \in Servers : q.probe[s] \notin {"sent", "dropped"}
    /\ q.verdict = "notfound" => \A s \in Servers : q.probe[s] \in {"no", "off"}

RoundsOK == \A r \in Requests : RoundOK(rnd[r])

IInv == TypeOK /\ Copies /\ Flights /\ RoundsOK

-----------------------------------------------------------------------------
\* The empty state is a sound row and its type is right.
LEMMA FreshRow == Fresh \in Rows /\ RowOK(Fresh) /\ Failed("db") \in Answers
BY BackoffAssumption DEF Fresh, Rows, Never, Opt, RowOK, Failed, Answers, Errs

\* No activation and no round are well typed.
LEMMA Blanks == Inactive \in Activations /\ Inactive.st = Fresh /\ NoRound \in Rounds /\ RoundOK(NoRound)
BY FreshRow DEF Inactive, Activations, Pcs, NoAnswer, Failed, Answers, Errs, Opt, NoRound, Rounds,
                Verdicts, RoundOK

\* Source rules turn answers into answers.
LEMMA SourceRulesType ==
    ASSUME NEW r, NEW a \in Answers
    PROVE  SourceRules(r, a) \in Answers
BY DEF SourceRules, Answers, Errs

\* The initial state satisfies the invariant.
LEMMA InitIInv == Init => IInv
<1> SUFFICES ASSUME Init PROVE IInv
  OBVIOUS
<1>1. TypeOK
  BY Blanks, BackoffAssumption DEF Init, TypeOK
<1>2. Copies
  BY Blanks, FreshRow DEF Init, Copies
<1>3. Flights
  BY RequestsAssumption DEF Init, Flights, Inactive, Reading, Actors
<1>4. RoundsOK
  BY Blanks DEF Init, RoundsOK
<1> QED
  BY <1>1, <1>2, <1>3, <1>4 DEF IInv

-----------------------------------------------------------------------------
\* A step of one request that ends outside the flight's positions keeps the invariant if
\* its new activation is sound and a round it owns is blank.
LEMMA RequestMove ==
    ASSUME IInv, NEW r \in Requests, NEW x \in Activations,
           act' = [act EXCEPT ![r] = x],
           RowOK(x.st),
           x.pc \notin {"probing", "record", "insert"},
           \/ act[r].pc \notin {"wait", "end"}
           \/ x.pc \in {"wait", "end"},
           UNCHANGED <<conf, db, pending, clock, leader, rnd>>,
           \/ cache' = cache
           \/ cache' \in Rows /\ RowOK(cache')
    PROVE  IInv'
<1>1. Flight \in Actors /\ r \in Actors /\ r # Flight /\ Requests \subseteq Actors
  BY RequestsAssumption DEF Actors
<1>2. act'[r] = x /\ \A a \in Actors \ {r} : act'[a] = act[a]
  BY <1>1 DEF IInv, TypeOK
<1>3. TypeOK'
  BY <1>1 DEF IInv, TypeOK
<1>4. Copies'
  BY <1>1, <1>2 DEF IInv, Copies, RowOK
<1>5. leader = r => act[r].pc \in {"wait", "end"}
  BY RequestsAssumption DEF IInv, Flights
<1>6. Flights'
  BY <1>1, <1>2, <1>5 DEF IInv, Flights, TypeOK, Usable
<1>7. RoundsOK'
  BY DEF IInv, RoundsOK, RoundOK
<1> QED
  BY <1>3, <1>4, <1>6, <1>7 DEF IInv

\* A step of the flight, which may complete its round, keeps the invariant if its new
\* activation and round are sound.
LEMMA FlightMove ==
    ASSUME IInv, act[Flight].pc # "idle", NEW x \in Activations, NEW q \in Rounds,
           act' = [act EXCEPT ![Flight] = x],
           rnd' = [rnd EXCEPT ![leader] = q],
           RowOK(x.st), RoundOK(q),
           x.pc \notin {"idle", "join", "wait", "end"},
           x.pc \in Reading \cup {"got"} => q = NoRound,
           x.pc = "probing" => q.verdict = "none" /\ ~x.st.ok /\ x.st.counter <= MaxFailures,
           x.pc \in {"record", "insert"} => Usable(x.res),
           UNCHANGED <<conf, db, pending, clock, leader>>,
           \/ cache' = cache
           \/ cache' \in Rows /\ RowOK(cache')
    PROVE  IInv'
<1>1. Flight \in Actors /\ Flight \notin Requests /\ Requests \subseteq Actors
  BY RequestsAssumption DEF Actors
<1>2. act'[Flight] = x /\ \A a \in Requests : act'[a] = act[a]
  BY <1>1 DEF IInv, TypeOK
<1>3. leader \in Requests /\ act[leader].pc \in {"wait", "end"}
  BY DEF IInv, TypeOK, Flights
<1>4. rnd'[leader] = q /\ \A r \in Requests \ {leader} : rnd'[r] = rnd[r]
  BY <1>3 DEF IInv, TypeOK
<1>5. TypeOK'
  BY <1>1, <1>3 DEF IInv, TypeOK
<1>6. Copies'
  BY <1>1, <1>2 DEF IInv, Copies, RowOK, Actors
<1>7. Flights'
  BY <1>1, <1>2, <1>3, <1>4, RequestsAssumption DEF IInv, Flights, TypeOK, Usable
<1>8. RoundsOK'
  BY <1>4 DEF IInv, RoundsOK, RoundOK
<1> QED
  BY <1>5, <1>6, <1>7, <1>8 DEF IInv

\* The same for a step that leaves the round alone.
LEMMA QuietFlightMove ==
    ASSUME IInv, act[Flight].pc # "idle", NEW x \in Activations,
           act' = [act EXCEPT ![Flight] = x],
           RowOK(x.st),
           x.pc \notin {"idle", "join", "wait", "end"},
           x.pc \in Reading \cup {"got"} => rnd[leader] = NoRound,
           x.pc # "probing",
           x.pc \in {"record", "insert"} => Usable(x.res),
           UNCHANGED <<conf, db, pending, clock, leader, rnd>>,
           \/ cache' = cache
           \/ cache' \in Rows /\ RowOK(cache')
    PROVE  IInv'
<1>1. leader \in Requests
  BY DEF IInv, TypeOK, Flights
<1>2. rnd[leader] \in Rounds /\ RoundOK(rnd[leader]) /\ rnd' = [rnd EXCEPT ![leader] = rnd[leader]]
  BY <1>1 DEF IInv, TypeOK, RoundsOK
<1> QED
  BY <1>2, FlightMove

\* A step of a goroutine of a round keeps the invariant if the round stays sound.
LEMMA RoundMove ==
    ASSUME IInv, NEW r \in Requests, NEW q \in Rounds,
           rnd' = [rnd EXCEPT ![r] = q],
           RoundOK(q),
           q.verdict = rnd[r].verdict,
           rnd[r] # NoRound \/ Started(r),
           UNCHANGED <<conf, store, clock, act, leader>>
    PROVE  IInv'
<1>1. rnd'[r] = q /\ \A x \in Requests \ {r} : rnd'[x] = rnd[x]
  BY DEF IInv, TypeOK
<1>2. act[r].pc \in {"wait", "end"}
  BY RequestsAssumption DEF IInv, Flights, Started, NoRound
<1>3. leader = r => act[Flight].pc \notin Reading \cup {"got"}
  BY DEF IInv, Flights, Started, NoRound, Reading
<1>4. TypeOK'
  BY DEF IInv, TypeOK, store
<1>5. Copies'
  BY DEF IInv, Copies, RowOK, store
<1>6. Flights'
  BY <1>1, <1>2, <1>3 DEF IInv, Flights, TypeOK, Usable
<1>7. RoundsOK'
  BY <1>1 DEF IInv, RoundsOK, RoundOK
<1> QED
  BY <1>4, <1>5, <1>6, <1>7 DEF IInv

\* Ending the singleflight call keeps the invariant.
LEMMA DeliverMove ==
    ASSUME IInv, act[Flight].pc # "idle", NEW a \in Answers, Deliver(a),
           UNCHANGED <<conf, cache, db, clock, rnd>>,
           pending' \subseteq Rows, \A row \in pending' : RowOK(row)
    PROVE  IInv'
<1>1. Flight \in Actors /\ Flight \notin Requests /\ Actors = Requests \cup {Flight}
  BY RequestsAssumption DEF Actors
<1>2. act'[Flight] = Inactive
  BY <1>1 DEF Deliver
<1>3. ASSUME NEW r \in Requests
      PROVE  \/ act'[r] = act[r] /\ act[r].pc # "wait"
             \/ /\ act[r].pc = "wait"
                /\ act'[r] = [pc |-> "end", st |-> Fresh, res |-> SourceRules(r, a)]
  BY <1>1, <1>3 DEF Deliver, Return, IInv, TypeOK
<1>4. \A r \in Requests : act'[r] \in Activations /\ RowOK(act'[r].st)
  <2> SUFFICES ASSUME NEW r \in Requests PROVE act'[r] \in Activations /\ RowOK(act'[r].st)
    OBVIOUS
  <2>1. SourceRules(r, a) \in Answers
    BY SourceRulesType
  <2>2. act[r] \in Activations /\ RowOK(act[r].st)
    BY <1>1 DEF IInv, TypeOK, Copies
  <2>3. [pc |-> "end", st |-> Fresh, res |-> SourceRules(r, a)] \in Activations
    BY <2>1, FreshRow DEF Activations, Pcs
  <2> QED
    BY <1>3, <2>2, <2>3, FreshRow
<1>5. TypeOK'
  <2>1. act' \in [Actors -> Activations]
    BY <1>1, <1>2, <1>4, Blanks DEF Deliver
  <2> QED
    BY <2>1 DEF IInv, TypeOK, Deliver
<1>6. Copies'
  BY <1>1, <1>2, <1>4, Blanks, FreshRow DEF IInv, Copies, RowOK
<1>7. Flights'
  <2>1. ASSUME NEW r \in Requests
        PROVE  /\ act'[r].pc \notin {"probing", "record", "insert"}
               /\ act'[r].pc \notin {"wait", "end"} => rnd'[r] = NoRound
    <3>1. CASE act'[r] = act[r]
      BY <3>1 DEF IInv, Flights
    <3>2. CASE act'[r] = [pc |-> "end", st |-> Fresh, res |-> SourceRules(r, a)]
      BY <3>2
    <3> QED
      BY <1>3, <3>1, <3>2
  <2>2. act'[Flight].pc = "idle" /\ leader' = NoRequest
    BY <1>2 DEF Inactive, Deliver
  <2> QED
    BY <2>1, <2>2 DEF Flights, Reading
<1>8. RoundsOK'
  BY DEF IInv, RoundsOK, RoundOK
<1> QED
  BY <1>5, <1>6, <1>7, <1>8 DEF IInv

-----------------------------------------------------------------------------
\* What an actor that runs looks like.
LEMMA ActorFacts ==
    ASSUME IInv, NEW a \in Actors
    PROVE  /\ act[a] \in Activations /\ act[a].st \in Rows /\ RowOK(act[a].st)
           /\ a # Flight => a \in Requests /\ act[a].pc \notin {"probing", "record", "insert"}
BY DEF IInv, TypeOK, Copies, Flights, Activations, Actors

\* A step of GetState goes on with a sound row, whoever calls it.
LEMMA ReadingMove ==
    ASSUME IInv, NEW a \in Actors, act[a].pc \in Reading,
           NEW x \in Activations, x.pc \in Reading \cup {"got"}, RowOK(x.st),
           act' = [act EXCEPT ![a] = x],
           UNCHANGED <<conf, db, pending, clock, leader, rnd>>,
           \/ cache' = cache
           \/ cache' \in Rows /\ RowOK(cache')
    PROVE  IInv'
<1>1. CASE a = Flight
  <2>1. act[Flight].pc # "idle" /\ rnd[leader] = NoRound
    BY <1>1 DEF IInv, Flights, Reading
  <2> QED
    BY <1>1, <2>1, QuietFlightMove DEF Reading
<1>2. CASE a # Flight
  <2>1. a \in Requests
    BY <1>2 DEF Actors
  <2> QED
    BY <2>1, RequestMove DEF Reading
<1> QED
  BY <1>1, <1>2

\* Looking the state up in the LRU keeps the invariant.
LEMMA LookupStep ==
    ASSUME IInv, NEW a \in Actors, Lookup(a)
    PROVE  IInv'
<1>1. act[a] \in Activations /\ RowOK(act[a].st) /\ act[a].pc \in Reading
  BY ActorFacts DEF Lookup, Reading
<1>2. CASE cache # NoRow
  <2> DEFINE x == [act[a] EXCEPT !.pc = "got", !.st = cache]
  <2>1. cache \in Rows /\ RowOK(cache)
    BY <1>2 DEF IInv, TypeOK, Copies
  <2>2. x \in Activations /\ x.pc = "got" /\ x.st = cache
    BY <1>1, <2>1 DEF Activations, Pcs
  <2>3. act' = [act EXCEPT ![a] = x]
    BY <1>1, <1>2 DEF Lookup, IInv, TypeOK, Activations
  <2> QED
    BY <1>1, <2>1, <2>2, <2>3, ReadingMove DEF Lookup, store
<1>3. CASE cache = NoRow
  <2> DEFINE x == [act[a] EXCEPT !.pc = "read"]
  <2>1. x \in Activations /\ x.pc = "read" /\ x.st = act[a].st
    BY <1>1 DEF Activations, Pcs, Reading
  <2>2. act' = [act EXCEPT ![a] = x]
    BY <1>1, <1>3 DEF Lookup, Goto, IInv, TypeOK, Activations
  <2> QED
    BY <1>1, <2>1, <2>2, ReadingMove DEF Lookup, store, Reading
<1> QED
  BY <1>2, <1>3

\* Reading the database keeps it.
LEMMA QueryDbStep ==
    ASSUME IInv, NEW a \in Actors, QueryDb(a)
    PROVE  IInv'
<1> DEFINE row == IF db = NoRow THEN Fresh ELSE db
           x == [act[a] EXCEPT !.pc = "add", !.st = row]
<1>1. act[a] \in Activations /\ act[a].pc \in Reading
  BY ActorFacts DEF QueryDb, Reading
<1>2. row \in Rows /\ RowOK(row)
  BY FreshRow DEF IInv, TypeOK, Copies
<1> HIDE DEF row
<1>3. x \in Activations /\ x.pc = "add" /\ x.st = row
  BY <1>1, <1>2 DEF Activations, Pcs, Reading
<1>4. act' = [act EXCEPT ![a] = x]
  BY <1>1 DEF QueryDb, IInv, TypeOK, Activations, row
<1>5. RowOK(x.st)
  BY <1>2, <1>3
<1> HIDE DEF x
<1> QED
  BY <1>1, <1>3, <1>4, <1>5, ReadingMove DEF QueryDb, store, Reading

\* Adding what was read to the LRU keeps it, however old it is.
LEMMA CacheAddStep ==
    ASSUME IInv, NEW a \in Actors, CacheAdd(a)
    PROVE  IInv'
<1> DEFINE x == [act[a] EXCEPT !.pc = "got"]
<1>1. act[a] \in Activations /\ act[a].pc \in Reading /\ act[a].st \in Rows /\ RowOK(act[a].st)
  BY ActorFacts DEF CacheAdd, Reading
<1>2. x \in Activations /\ x.pc = "got" /\ x.st = act[a].st
  BY <1>1 DEF Activations, Pcs
<1>3. act' = [act EXCEPT ![a] = x]
  BY <1>1 DEF CacheAdd, Goto, IInv, TypeOK, Activations
<1> QED
  BY <1>1, <1>2, <1>3, ReadingMove DEF CacheAdd

\* Returning from FindByBuildID keeps it.
LEMMA ReturnMove ==
    ASSUME IInv, NEW r \in Requests, NEW a \in Answers, act' = Return(r, a),
           UNCHANGED <<conf, store, clock, leader, rnd>>
    PROVE  IInv'
<1> DEFINE x == [pc |-> "end", st |-> Fresh, res |-> SourceRules(r, a)]
<1>1. x \in Activations
  BY SourceRulesType, FreshRow DEF Activations, Pcs
<1>2. act' = [act EXCEPT ![r] = x]
  BY DEF Return
<1> QED
  BY <1>1, <1>2, FreshRow, RequestMove DEF store

\* A failed query ends the request, or the flight and everybody who waits for it.
LEMMA QueryFailsStep ==
    ASSUME IInv, NEW a \in Actors, QueryFails(a)
    PROVE  IInv'
<1>1. CASE a = Flight
  <2>1. act[Flight].pc # "idle" /\ Deliver(Failed("db"))
    BY <1>1 DEF QueryFails
  <2>2. pending' \subseteq Rows /\ \A row \in pending' : RowOK(row)
    BY DEF QueryFails, store, IInv, TypeOK, Copies
  <2> QED
    BY <2>1, <2>2, FreshRow, DeliverMove DEF QueryFails, store
<1>2. CASE a # Flight
  BY <1>2, FreshRow, ReturnMove DEF QueryFails, Actors
<1> QED
  BY <1>1, <1>2

\* A recorded success yields an answer, and a server only if it is up.
LEMMA PinnedAnswer ==
    ASSUME IInv, NEW st \in Rows, RowOK(st), st.ok
    PROVE  Pinned(st) \in Answers /\ Usable(Pinned(st))
BY ServersAssumption DEF IInv, TypeOK, Pinned, Usable, RowOK, Failed, Answers, Errs, Opt, Tables

\* Deciding between the recorded host and a resolution keeps it.
LEMMA DecideStep ==
    ASSUME IInv, NEW r \in Requests, Decide(r)
    PROVE  IInv'
<1>1. r \in Actors /\ act[r] \in Activations /\ act[r].st \in Rows /\ RowOK(act[r].st)
  BY ActorFacts DEF Actors
<1>2. CASE act[r].st.ok
  BY <1>1, <1>2, PinnedAnswer, ReturnMove DEF Decide
<1>3. CASE ~act[r].st.ok
  <2> DEFINE x == [act[r] EXCEPT !.pc = "join"]
  <2>1. x \in Activations /\ x.pc = "join" /\ x.st = act[r].st
    BY <1>1 DEF Activations, Pcs
  <2>2. act' = [act EXCEPT ![r] = x]
    BY <1>1, <1>3 DEF Decide, Goto, IInv, TypeOK, Activations
  <2> QED
    BY <1>1, <2>1, <2>2, RequestMove DEF Decide, store
<1> QED
  BY <1>2, <1>3

-----------------------------------------------------------------------------
\* A request that arrives keeps the invariant.
LEMMA ArriveStep ==
    ASSUME IInv, NEW r \in Requests, Arrive(r)
    PROVE  IInv'
<1> DEFINE x == [act[r] EXCEPT !.pc = "get"]
<1>1. r \in Actors /\ act[r] \in Activations /\ RowOK(act[r].st)
  BY ActorFacts DEF Actors
<1>2. x \in Activations /\ x.pc = "get" /\ x.st = act[r].st
  BY <1>1 DEF Activations, Pcs, Reading
<1>3. act' = [act EXCEPT ![r] = x]
  BY <1>1 DEF Arrive, Goto, IInv, TypeOK, Activations
<1>4. RowOK(x.st)
  BY <1>1, <1>2
<1> HIDE DEF x
<1> QED
  BY <1>2, <1>3, <1>4, RequestMove DEF Arrive, store

\* Joining a flight or starting one keeps it: who starts a flight owns no round yet.
LEMMA DoChanStep ==
    ASSUME IInv, NEW r \in Requests, DoChan(r)
    PROVE  IInv'
<1> DEFINE x == [act[r] EXCEPT !.pc = "wait"]
           y == [act[Flight] EXCEPT !.pc = "get"]
<1>1. /\ Flight \in Actors /\ r \in Actors /\ r # Flight /\ Requests \subseteq Actors
      /\ Actors = Requests \cup {Flight} /\ r # NoRequest
  BY RequestsAssumption DEF Actors
<1>2. /\ act[r] \in Activations /\ RowOK(act[r].st)
      /\ act[Flight] \in Activations /\ RowOK(act[Flight].st)
  BY <1>1, ActorFacts
<1>3. /\ x \in Activations /\ x.pc = "wait" /\ x.st = act[r].st
      /\ y \in Activations /\ y.pc = "get" /\ y.st = act[Flight].st
  BY <1>2 DEF Activations, Pcs, Reading
<1>4. CASE leader # NoRequest
  <2>1. act' = [act EXCEPT ![r] = x]
    BY <1>1, <1>2, <1>4 DEF DoChan, Goto, IInv, TypeOK, Activations
  <2>2. RowOK(x.st)
    BY <1>2, <1>3
  <2> HIDE DEF x
  <2> QED
    BY <1>3, <1>4, <2>1, <2>2, RequestMove DEF DoChan, store
<1>5. CASE leader = NoRequest
  <2>1. leader' = r /\ UNCHANGED <<conf, store, clock, rnd>> /\ rnd[r] = NoRound
    BY <1>1, <1>5 DEF DoChan, IInv, Flights
  <2>2. act' = [act EXCEPT ![r] = x, ![Flight] = y]
    BY <1>1, <1>2, <1>5 DEF DoChan, IInv, TypeOK, Activations
  <2> HIDE DEF x, y
  <2>3. act'[r] = x /\ act'[Flight] = y /\ \A a \in Actors \ {r, Flight} : act'[a] = act[a]
    BY <1>1, <2>2 DEF IInv, TypeOK
  <2>4. TypeOK'
    BY <1>1, <1>3, <2>1, <2>2 DEF IInv, TypeOK, store
  <2>5. Copies'
    BY <1>1, <1>2, <1>3, <2>1, <2>3 DEF IInv, Copies, RowOK, store
  <2>6. Flights'
    BY <1>1, <1>3, <2>1, <2>3, RequestsAssumption DEF IInv, Flights, Reading
  <2>7. RoundsOK'
    BY <2>1 DEF IInv, RoundsOK, RoundOK
  <2> QED
    BY <2>4, <2>5, <2>6, <2>7 DEF IInv
<1> QED
  BY <1>4, <1>5

\* A request whose client is gone leaves the flight as it is.
LEMMA GiveUpStep ==
    ASSUME IInv, NEW r \in Requests, GiveUp(r)
    PROVE  IInv'
<1>1. Failed("canceled") \in Answers
  BY DEF Failed, Answers, Errs, Opt
<1> QED
  BY <1>1, ReturnMove DEF GiveUp

-----------------------------------------------------------------------------
\* A refused resolution keeps the invariant.
LEMMA RefuseStep ==
    ASSUME IInv, Refuse
    PROVE  IInv'
<1> DEFINE st == act[Flight].st
           a == IF st.ok THEN Pinned(st) ELSE Failed("notfound")
<1>1. st \in Rows /\ RowOK(st)
  BY ActorFacts DEF Actors
<1>2. a \in Answers
  <2>1. Failed("notfound") \in Answers
    BY DEF Failed, Answers, Errs, Opt
  <2> HIDE DEF st
  <2> QED
    BY <1>1, <2>1, PinnedAnswer
<1>3. act[Flight].pc # "idle" /\ Deliver(a) /\ UNCHANGED <<conf, store, clock, rnd>>
  BY DEF Refuse
<1>4. pending' \subseteq Rows /\ \A row \in pending' : RowOK(row)
  BY <1>3 DEF store, IInv, TypeOK, Copies
<1> HIDE DEF a
<1> QED
  BY <1>2, <1>3, <1>4, DeliverMove DEF store

\* What holds while the flight runs.
LEMMA FlightFacts ==
    ASSUME IInv, act[Flight].pc # "idle"
    PROVE  /\ act[Flight] \in Activations /\ act[Flight].st \in Rows /\ RowOK(act[Flight].st)
           /\ leader \in Requests /\ rnd[leader] \in Rounds /\ RoundOK(rnd[leader])
<1>1. act[Flight] \in Activations /\ act[Flight].st \in Rows /\ RowOK(act[Flight].st)
  BY ActorFacts DEF Actors
<1>2. leader \in Requests
  BY DEF IInv, TypeOK, Flights
<1> QED
  BY <1>1, <1>2 DEF IInv, TypeOK, RoundsOK

\* Starting a round of probes keeps it: only servers that are up are asked.
LEMMA StartRoundStep ==
    ASSUME IInv, StartRound
    PROVE  IInv'
<1> DEFINE p == [s \in Servers |-> IF conf[s] = "up" THEN "asking" ELSE "off"]
           x == [act[Flight] EXCEPT !.pc = "probing", !.st = Tried(act[Flight].st)]
           q == [NoRound EXCEPT !.probe = p]
<1>1. /\ act[Flight] \in Activations /\ act[Flight].st \in Rows /\ RowOK(act[Flight].st)
      /\ leader \in Requests /\ act[Flight].pc # "idle"
  BY FlightFacts DEF StartRound
<1>2. rnd[leader] = NoRound
  BY DEF StartRound, IInv, Flights
<1>3. /\ x \in Activations /\ x.pc = "probing" /\ RowOK(x.st)
      /\ ~x.st.ok /\ x.st.counter <= MaxFailures
  <2> DEFINE st == Tried(act[Flight].st)
  <2>1. /\ st \in Rows /\ st.ok = act[Flight].st.ok /\ st.host = act[Flight].st.host
        /\ st.hdr = act[Flight].st.hdr /\ st.counter = act[Flight].st.counter
    BY <1>1, BackoffAssumption DEF IInv, TypeOK, Rows, Tried
  <2>2. ~act[Flight].st.ok /\ act[Flight].st.counter <= MaxFailures
    BY <1>1, BackoffAssumption DEF StartRound, TooMany, Rows
  <2>3. x.st = st /\ x.pc = "probing" /\ x \in Activations
    BY <1>1, <2>1 DEF Activations, Pcs
  <2> QED
    BY <1>1, <2>1, <2>2, <2>3 DEF RowOK
<1>4. q \in Rounds /\ RoundOK(q) /\ q.verdict = "none"
  BY DEF NoRound, Rounds, Verdicts, RoundOK
<1>5. act' = [act EXCEPT ![Flight] = x]
  BY <1>1 DEF StartRound, IInv, TypeOK, Activations, Rows, Actors
<1>6. rnd' = [rnd EXCEPT ![leader] = q]
  BY <1>1, <1>2 DEF StartRound, IInv, TypeOK, Rounds
<1> HIDE DEF x, q
<1> QED
  BY <1>1, <1>3, <1>4, <1>5, <1>6, FlightMove DEF StartRound, store, Reading

-----------------------------------------------------------------------------
\* The round a request owns is sound.
LEMMA RoundFacts ==
    ASSUME IInv, NEW r \in Requests
    PROVE  rnd[r] \in Rounds /\ RoundOK(rnd[r])
BY DEF IInv, TypeOK, RoundsOK

\* A probe's answer keeps the invariant.
LEMMA ProbeStep ==
    ASSUME IInv, NEW r \in Requests, NEW s \in Servers, ProbeYes(r, s) \/ ProbeNo(r, s)
    PROVE  IInv'
<1>1. PICK a \in {"yes", "no"} : rnd' = [rnd EXCEPT ![r].probe[s] = a]
  BY DEF ProbeYes, ProbeNo
<1> DEFINE q == [rnd[r] EXCEPT !.probe[s] = a]
<1>2. /\ rnd[r].probe[s] = "asking" /\ rnd[r] # NoRound
      /\ UNCHANGED <<conf, store, clock, act, leader>>
  BY DEF ProbeYes, ProbeNo, NoRound
<1>3. rnd[r] \in Rounds /\ RoundOK(rnd[r])
  BY RoundFacts
<1>4. q \in Rounds /\ q.verdict = rnd[r].verdict
  BY <1>3 DEF Rounds
<1>5. RoundOK(q)
  BY <1>2, <1>3 DEF RoundOK, Rounds
<1>6. rnd' = [rnd EXCEPT ![r] = q]
  BY <1>1, <1>3 DEF IInv, TypeOK, Rounds
<1> HIDE DEF q
<1> QED
  BY <1>2, <1>4, <1>5, <1>6, RoundMove

\* Offering an answer keeps it: the channel is open, and stays full once it is.
LEMMA OfferStep ==
    ASSUME IInv, NEW r \in Requests, NEW s \in Servers, Offer(r, s)
    PROVE  IInv'
<1> DEFINE o == [srv |-> s, hdr |-> s]
           q == IF rnd[r].ch = NoServer
                THEN [rnd[r] EXCEPT !.probe[s] = "sent", !.stop = TRUE, !.ch = o]
                ELSE [rnd[r] EXCEPT !.probe[s] = "dropped"]
<1>1. /\ rnd[r].probe[s] = "yes" /\ rnd[r] # NoRound
      /\ UNCHANGED <<conf, store, clock, act, leader>>
  BY DEF Offer, NoRound
<1>2. rnd[r] \in Rounds /\ RoundOK(rnd[r])
  BY RoundFacts
<1>3. o \in Offers /\ o # NoServer /\ o.srv = s /\ o.hdr = s
  BY ServersAssumption DEF Offers
<1> HIDE DEF o
<1>4. q \in Rounds /\ q.verdict = rnd[r].verdict
  BY <1>2, <1>3 DEF Rounds
<1>5. RoundOK(q)
  <2>1. CASE rnd[r].ch = NoServer
    BY <1>1, <1>2, <1>3, <2>1 DEF RoundOK, Rounds
  <2>2. CASE rnd[r].ch # NoServer
    BY <1>1, <1>2, <2>2 DEF RoundOK, Rounds
  <2> QED
    BY <2>1, <2>2
<1>6. rnd' = [rnd EXCEPT ![r] = q]
  BY <1>2 DEF Offer, RoomInCh, HeadersSent, IInv, TypeOK, Rounds, o
<1> HIDE DEF q
<1> QED
  BY <1>1, <1>4, <1>5, <1>6, RoundMove

\* Closing the channel keeps it.
LEMMA CloseChStep ==
    ASSUME IInv, NEW r \in Requests, CloseCh(r)
    PROVE  IInv'
<1> DEFINE q == [rnd[r] EXCEPT !.closed = TRUE]
<1>1. rnd[r] \in Rounds /\ RoundOK(rnd[r])
  BY RoundFacts
<1>2. q \in Rounds /\ q.verdict = rnd[r].verdict
  BY <1>1 DEF Rounds
<1>3. RoundOK(q)
  BY <1>1 DEF RoundOK, Rounds, CloseCh, AllOver
<1>4. rnd' = [rnd EXCEPT ![r] = q]
  BY <1>1 DEF CloseCh, IInv, TypeOK, Rounds
<1> HIDE DEF q
<1> QED
  BY <1>2, <1>3, <1>4, RoundMove DEF CloseCh

\* The deadline keeps it.
LEMMA DeadlineStep ==
    ASSUME IInv, Deadline
    PROVE  IInv'
<1> DEFINE q == [rnd[leader] EXCEPT !.expired = TRUE, !.stop = TRUE]
<1>1. leader \in Requests /\ rnd[leader] \in Rounds /\ RoundOK(rnd[leader]) /\ Started(leader)
  BY FlightFacts DEF Deadline, Started
<1>2. q \in Rounds /\ q.verdict = rnd[leader].verdict
  BY <1>1 DEF Rounds
<1>3. RoundOK(q)
  BY <1>1 DEF RoundOK, Rounds
<1>4. rnd' = [rnd EXCEPT ![leader] = q]
  BY <1>1 DEF Deadline, IInv, TypeOK, Rounds
<1> HIDE DEF q
<1> QED
  BY <1>1, <1>2, <1>3, <1>4, RoundMove DEF Deadline

-----------------------------------------------------------------------------
\* The end of a round keeps the invariant if its state, answer and verdict are sound.
LEMMA RoundEndsMove ==
    ASSUME IInv, act[Flight].pc = "probing",
           NEW v \in Verdicts \ {"none"}, NEW st \in Rows, NEW a \in Answers,
           RoundEnds(v, st, a), RowOK(st), Usable(a),
           v = "notfound" => \A s \in Servers : rnd[leader].probe[s] \in {"no", "off"}
    PROVE  IInv'
<1> DEFINE x == [pc |-> "record", st |-> st, res |-> a]
           c == IF v = "found" THEN NoServer ELSE rnd[leader].ch
           q == [rnd[leader] EXCEPT !.verdict = v, !.stop = TRUE, !.ch = c]
<1>1. leader \in Requests /\ rnd[leader] \in Rounds /\ RoundOK(rnd[leader])
  BY FlightFacts
<1>2. x \in Activations
  BY DEF Activations, Pcs
<1>3. c \in Offers \cup {NoServer} /\ (c # NoServer => c = rnd[leader].ch)
  BY <1>1 DEF Rounds
<1>4. act' = [act EXCEPT ![Flight] = x]
  BY DEF RoundEnds
<1>5. rnd' = [rnd EXCEPT ![leader] = q]
  BY <1>1 DEF RoundEnds, IInv, TypeOK, Rounds
<1> HIDE DEF c
<1>6. /\ q \in Rounds /\ q.verdict = v /\ q.ch = c
      /\ q.probe = rnd[leader].probe /\ q.closed = rnd[leader].closed
  BY <1>1, <1>3 DEF Rounds
<1> HIDE DEF q
<1>7. RoundOK(q)
  BY <1>1, <1>3, <1>6 DEF RoundOK
<1> QED
  BY <1>2, <1>4, <1>5, <1>6, <1>7, FlightMove DEF RoundEnds, store, Reading

\* Receiving the winner keeps it.
LEMMA ReceiveStep ==
    ASSUME IInv, Receive
    PROVE  IInv'
<1> DEFINE w == rnd[leader].ch
           st == [act[Flight].st EXCEPT !.ok = TRUE, !.host = w.srv, !.hdr = w.hdr]
           a == [srv |-> w.srv, err |-> "nil"]
<1>1. /\ act[Flight].pc = "probing" /\ act[Flight].st \in Rows /\ RowOK(act[Flight].st)
      /\ rnd[leader] \in Rounds /\ RoundOK(rnd[leader])
  BY FlightFacts DEF Receive
<1>2. w \in Offers /\ w.hdr = w.srv /\ conf[w.srv] = "up" /\ w.srv \in Servers
  BY <1>1 DEF Receive, Rounds, RoundOK, Offers
<1>3. RoundEnds("found", st, a)
  BY DEF Receive
<1> HIDE DEF w
<1>4. /\ st \in Rows /\ st.ok /\ st.host = w.srv /\ st.hdr = w.srv
      /\ st.counter = act[Flight].st.counter
  BY <1>1, <1>2 DEF Rows, Opt
<1>5. a \in Answers /\ Usable(a)
  BY <1>2 DEF Answers, Opt, Errs, Usable
<1> HIDE DEF st, a
<1>6. RowOK(st)
  BY <1>1, <1>2, <1>4 DEF RowOK
<1> QED
  BY <1>1, <1>3, <1>4, <1>5, <1>6, RoundEndsMove DEF Verdicts

\* One more failure after a round leaves the counter within its bound.
LEMMA FailureCounted ==
    ASSUME IInv, act[Flight].pc = "probing"
    PROVE  /\ OneMoreFailure(act[Flight].st) \in Rows /\ RowOK(OneMoreFailure(act[Flight].st))
           /\ \A e \in Errs \ {"nil"} : Failed(e) \in Answers /\ Usable(Failed(e))
<1> DEFINE old == act[Flight].st
           st == OneMoreFailure(old)
<1>1. old \in Rows /\ ~old.ok /\ old.counter <= MaxFailures
  BY FlightFacts DEF IInv, Flights
<1> HIDE DEF old
<1>2. st \in Rows /\ st.ok = old.ok /\ st.counter = old.counter + 1
  BY <1>1 DEF OneMoreFailure, Rows
<1>3. RowOK(st)
  BY <1>1, <1>2, BackoffAssumption DEF RowOK, Rows
<1>4. \A e \in Errs \ {"nil"} : Failed(e) \in Answers /\ Usable(Failed(e))
  BY DEF Failed, Answers, Opt, Usable
<1> QED
  BY <1>2, <1>3, <1>4 DEF old

\* Finding the channel closed and empty keeps it: a winner would still be in it.
LEMMA ReceiveClosedStep ==
    ASSUME IInv, ReceiveClosed
    PROVE  IInv'
<1>1. /\ act[Flight].pc = "probing" /\ rnd[leader] \in Rounds /\ RoundOK(rnd[leader])
      /\ rnd[leader].verdict = "none" /\ rnd[leader].closed /\ rnd[leader].ch = NoServer
  BY FlightFacts DEF ReceiveClosed, IInv, Flights
<1>2. \A s \in Servers : rnd[leader].probe[s] \in {"no", "off"}
  BY <1>1 DEF RoundOK, Rounds
<1>3. "notfound" \in Errs \ {"nil"} /\ "notfound" \in Verdicts \ {"none"}
  BY DEF Errs, Verdicts
<1>4. RoundEnds("notfound", OneMoreFailure(act[Flight].st), Failed("notfound"))
  BY DEF ReceiveClosed
<1> QED
  BY <1>1, <1>2, <1>3, <1>4, FailureCounted, RoundEndsMove

\* Running into the deadline keeps it.
LEMMA TimedOutStep ==
    ASSUME IInv, TimedOut
    PROVE  IInv'
<1>1. "deadline" \in Errs \ {"nil"} /\ "deadline" \in Verdicts \ {"none"}
  BY DEF Errs, Verdicts
<1>2. /\ act[Flight].pc = "probing"
      /\ RoundEnds("deadline", OneMoreFailure(act[Flight].st), Failed("deadline"))
  BY DEF TimedOut
<1> QED
  BY <1>1, <1>2, FailureCounted, RoundEndsMove

\* Writing the outcome to the LRU keeps it.
LEMMA RecordStep ==
    ASSUME IInv, Record
    PROVE  IInv'
<1> DEFINE x == [act[Flight] EXCEPT !.pc = "insert"]
<1>1. /\ act[Flight] \in Activations /\ act[Flight].st \in Rows /\ RowOK(act[Flight].st)
      /\ act[Flight].pc # "idle" /\ Usable(act[Flight].res)
  BY FlightFacts DEF Record, IInv, Flights
<1>2. x \in Activations /\ x.pc = "insert" /\ x.st = act[Flight].st /\ x.res = act[Flight].res
  BY <1>1 DEF Activations, Pcs
<1>3. act' = [act EXCEPT ![Flight] = x]
  BY <1>1 DEF Record, Goto, IInv, TypeOK, Activations, Actors
<1>4. RowOK(x.st) /\ Usable(x.res)
  BY <1>1, <1>2
<1> HIDE DEF x
<1> QED
  BY <1>1, <1>2, <1>3, <1>4, QuietFlightMove DEF Record, Reading

\* Sending it to the database, or failing to, keeps it.
LEMMA InsertStep ==
    ASSUME IInv, Insert
    PROVE  IInv'
<1>1. /\ act[Flight] \in Activations /\ act[Flight].st \in Rows /\ RowOK(act[Flight].st)
      /\ act[Flight].pc # "idle" /\ act[Flight].res \in Answers
  BY FlightFacts DEF Insert, Activations
<1>2. pending' \subseteq Rows /\ \A row \in pending' : RowOK(row)
  BY <1>1 DEF Insert, IInv, TypeOK, Copies
<1> QED
  BY <1>1, <1>2, DeliverMove DEF Insert

-----------------------------------------------------------------------------
\* Steps of the database, the LRU and the clock keep the invariant.
LEMMA StoreStep ==
    ASSUME IInv, (\E row \in pending : Flush(row) \/ LoseInsert(row)) \/ Expire \/ Tick
    PROVE  IInv'
<1>1. UNCHANGED <<conf, act, leader, rnd>>
  BY DEF Flush, LoseInsert, Expire, Tick
<1>2. TypeOK' /\ Copies'
  <2>1. CASE \E row \in pending : Flush(row) \/ LoseInsert(row)
    <3>1. PICK row \in pending : Flush(row) \/ LoseInsert(row)
      BY <2>1
    <3>2. row \in Rows /\ RowOK(row)
      BY DEF IInv, TypeOK, Copies
    <3>3. db' \in {db, row} /\ pending' = pending \ {row} /\ UNCHANGED <<cache, clock>>
      BY <3>1 DEF Flush, LoseInsert, Newest
    <3> QED
      BY <1>1, <3>2, <3>3 DEF IInv, TypeOK, Copies, RowOK
  <2>2. CASE Expire
    BY <1>1, <2>2 DEF Expire, IInv, TypeOK, Copies, RowOK
  <2>3. CASE Tick
    BY <1>1, <2>3, BackoffAssumption DEF Tick, store, IInv, TypeOK, Copies, RowOK
  <2> QED
    BY <2>1, <2>2, <2>3
<1>3. Flights'
  BY <1>1 DEF IInv, Flights, Usable
<1>4. RoundsOK'
  BY <1>1 DEF IInv, RoundsOK, RoundOK
<1> QED
  BY <1>2, <1>3, <1>4 DEF IInv

\* A redeploy keeps it: what survives is in the database.
LEMMA DeployStep ==
    ASSUME IInv, Deploy
    PROVE  IInv'
<1>1. Flight \in Actors /\ Flight \notin Requests /\ Actors = Requests \cup {Flight}
  BY RequestsAssumption DEF Actors
<1>2. act'[Flight] = Inactive /\ leader' = NoRequest
  BY <1>1 DEF Deploy
<1>3. ASSUME NEW r \in Requests
      PROVE  /\ act'[r] \in Activations /\ act'[r].st = act[r].st
             /\ \/ act'[r] = act[r] /\ act[r].pc \in {"idle", "end"}
                \/ act'[r].pc = "end"
  <2>1. act[r] \in Activations
    BY <1>1 DEF IInv, TypeOK
  <2>2. Failed("killed") \in Answers
    BY DEF Failed, Answers, Errs, Opt
  <2>3. act'[r] = IF act[r].pc \in {"idle", "end"} THEN act[r]
                  ELSE [act[r] EXCEPT !.pc = "end", !.res = Failed("killed")]
    BY <1>1 DEF Deploy
  <2> QED
    BY <2>1, <2>2, <2>3 DEF Activations, Pcs
<1>4. ASSUME NEW r \in Requests
      PROVE  /\ rnd'[r] = [NoRound EXCEPT !.verdict = rnd[r].verdict, !.closed = Started(r)]
             /\ rnd'[r] \in Rounds
             /\ \A s \in Servers : rnd'[r].probe[s] = "off"
             /\ rnd'[r].ch = NoServer
  <2>1. rnd[r].verdict \in Verdicts
    BY DEF IInv, TypeOK, Rounds
  <2>2. Started(r) \in BOOLEAN
    BY DEF Started
  <2> QED
    BY <2>1, <2>2 DEF Deploy, NoRound, Rounds
<1>5. TypeOK'
  <2>1. act' \in [Actors -> Activations]
    BY <1>1, <1>2, <1>3, Blanks DEF Deploy
  <2>2. rnd' \in [Requests -> Rounds]
    BY <1>4 DEF Deploy
  <2> QED
    BY <1>2, <2>1, <2>2 DEF Deploy, IInv, TypeOK
<1>6. Copies'
  <2>1. \A a \in Actors : RowOK(act'[a].st)
    BY <1>1, <1>2, <1>3, Blanks, FreshRow DEF IInv, Copies
  <2> QED
    BY <2>1 DEF Deploy, IInv, Copies, RowOK
<1>7. Flights'
  <2>1. ASSUME NEW r \in Requests
        PROVE  /\ act'[r].pc \notin {"probing", "record", "insert"}
               /\ act'[r].pc \notin {"wait", "end"} => rnd'[r] = NoRound
    <3>1. CASE act'[r].pc = "end"
      BY <3>1
    <3>2. CASE act'[r] = act[r] /\ act[r].pc = "idle"
      <4>1. rnd[r] = NoRound /\ leader # r
        BY <3>2, RequestsAssumption DEF IInv, Flights
      <4> DEFINE c == Started(r)
      <4>2. rnd[r].verdict = "none" /\ c = FALSE
        BY <4>1 DEF NoRound, Started
      <4>3. NoRound.verdict = "none" /\ NoRound.closed = FALSE
        BY DEF NoRound
      <4>4. [NoRound EXCEPT !.verdict = "none", !.closed = FALSE] = NoRound
        BY <4>3, Blanks DEF Rounds
      <4>5. rnd'[r] = [NoRound EXCEPT !.verdict = rnd[r].verdict, !.closed = c]
        BY <1>4
      <4> HIDE DEF c
      <4> QED
        BY <3>2, <4>2, <4>4, <4>5
    <3> QED
      BY <1>3, <3>1, <3>2
  <2> QED
    BY <1>2, <2>1 DEF Flights, Inactive, Reading
<1>8. RoundsOK'
  BY <1>4 DEF RoundsOK, RoundOK
<1> QED
  BY <1>5, <1>6, <1>7, <1>8 DEF IInv

-----------------------------------------------------------------------------
\* Every step keeps the invariant.
LEMMA NextIInv == IInv /\ [Next]_vars => IInv'
<1> SUFFICES ASSUME IInv, [Next]_vars PROVE IInv'
  OBVIOUS
<1> USE DEF Actors
<1>1. ASSUME NEW a \in Actors, GetStateStep(a) PROVE IInv'
  BY <1>1, LookupStep, QueryDbStep, QueryFailsStep, CacheAddStep DEF GetStateStep
<1>2. ASSUME NEW r \in Requests, Arrive(r) \/ RequestStep(r) \/ GiveUp(r) PROVE IInv'
  BY <1>1, <1>2, ArriveStep, DecideStep, DoChanStep, GiveUpStep DEF RequestStep
<1>3. ASSUME NEW r \in Requests, RoundStep(r) PROVE IInv'
  BY <1>3, ProbeStep, OfferStep, CloseChStep DEF RoundStep
<1>4. CASE FlightStep \/ Deadline
  BY <1>1, <1>4, RefuseStep, StartRoundStep, ReceiveStep, ReceiveClosedStep, TimedOutStep,
     RecordStep, InsertStep, DeadlineStep DEF FlightStep
<1>5. CASE (\E row \in pending : Flush(row) \/ LoseInsert(row)) \/ Expire \/ Tick
  BY <1>5, StoreStep
<1>6. CASE Deploy
  BY <1>6, DeployStep
<1>7. CASE UNCHANGED vars
  BY <1>7 DEF vars, store, IInv, TypeOK, Copies, RowOK, Flights, Usable, RoundsOK, RoundOK
<1> QED
  BY <1>2, <1>3, <1>4, <1>5, <1>6, <1>7 DEF Next

\* The invariant holds in every reachable state.
THEOREM IInvHolds == Spec => []IInv
BY InitIInv, NextIInv, PTL DEF Spec

\* Type correctness.
THEOREM TypeCorrect == Spec => []TypeOK
<1>1. IInv => TypeOK
  BY DEF IInv
<1> QED
  BY <1>1, IInvHolds, PTL

\* Every copy of the state is a sound row.
LEMMA KnownRows == IInv => \A row \in Known : RowOK(row)
BY DEF IInv, Copies, Known

\* A recorded success carries the headers of the host it names (resolveResult).
THEOREM HeadersMatch == Spec => []HeadersOfHost
<1>1. IInv => HeadersOfHost
  BY KnownRows DEF RowOK, HeadersOfHost
<1> QED
  BY <1>1, IInvHolds, PTL

\* The failure counter of bgFindByBuildID never passes its limit by more than one.
THEOREM CounterBounded == Spec => []FailuresBounded
<1>1. IInv => FailuresBounded
  BY KnownRows DEF RowOK, FailuresBounded
<1> QED
  BY <1>1, IInvHolds, PTL

\* No goroutine of tryAllServers sends on a closed channel.
THEOREM ChannelSafe == Spec => []NoSendOnClosed
<1>1. IInv => NoSendOnClosed
  BY DEF IInv, RoundsOK, RoundOK, NoSendOnClosed
<1> QED
  BY <1>1, IInvHolds, PTL

\* tryAllServers says "not found" only if nobody it asked has the file.
THEOREM NoLostWinner == Spec => []NotFoundMeansNobody
<1>1. IInv => NotFoundMeansNobody
  BY DEF IInv, RoundsOK, RoundOK, NotFoundMeansNobody
<1> QED
  BY <1>1, IInvHolds, PTL

-----------------------------------------------------------------------------
\* What FindByBuildID makes of an answer that names only servers that are up, once the
\* rules for /source have been applied.
LEMMA RulesKeepUsable ==
    ASSUME IInv, NEW r \in Requests, NEW a \in Answers, Usable(a), SourceRules(r, a).err = "nil"
    PROVE  LET b == SourceRules(r, a) IN
           \/ /\ b.srv \in Servers /\ conf[b.srv] = "up"
              /\ r \in SourceRequests => b.srv \notin Sourceless
           \/ b.srv = Delegate /\ r \in SourceRequests
BY ServersAssumption DEF SourceRules, Usable, Answers, Errs

\* The same as a fact about the answer of one request in one step.
Handed(r) ==
    LET a == act'[r].res IN
    act'[r].pc = "end" /\ act[r].pc # "end" /\ a.err = "nil" =>
       \/ a.srv \in Servers /\ conf[a.srv] = "up" /\ (r \in SourceRequests => a.srv \notin Sourceless)
       \/ a.srv = Delegate /\ r \in SourceRequests

\* A request that returns an answer of the kind above hands out a usable server.
LEMMA ReturnHands ==
    ASSUME IInv, NEW r \in Requests, NEW a \in Answers, Usable(a),
           act'[r] = [pc |-> "end", st |-> Fresh, res |-> SourceRules(r, a)]
    PROVE  Handed(r)
BY RulesKeepUsable DEF Handed

\* Ending the flight hands its answer to everybody who waits.
LEMMA DeliverHands ==
    ASSUME IInv, NEW r \in Requests, NEW a \in Answers, Usable(a), Deliver(a)
    PROVE  Handed(r)
<1>1. r \in Actors /\ r # Flight
  BY RequestsAssumption DEF Actors
<1>2. CASE act[r].pc = "wait"
  <2>1. act'[r] = [pc |-> "end", st |-> Fresh, res |-> SourceRules(r, a)]
    BY <1>1, <1>2 DEF Deliver, Return, IInv, TypeOK
  <2> QED
    BY <2>1, ReturnHands
<1>3. CASE act[r].pc # "wait"
  BY <1>1, <1>3 DEF Deliver, Handed
<1> QED
  BY <1>2, <1>3

\* A request that is not touched, or does not end, hands nothing out.
LEMMA NothingHanded ==
    ASSUME NEW r \in Requests, act'[r].pc = act[r].pc \/ act'[r].pc # "end"
    PROVE  Handed(r)
BY DEF Handed

\* A step of another request's activation hands nothing out.
LEMMA OnlyOneMoves ==
    ASSUME IInv, NEW a \in Actors, NEW x, act' = [act EXCEPT ![a] = x],
           NEW r \in Requests, r # a
    PROVE  Handed(r)
<1>1. act'[r] = act[r]
  BY DEF IInv, TypeOK, Actors
<1> QED
  BY <1>1, NothingHanded

\* A failure is an answer that names nobody.
LEMMA Failures == \A e \in Errs \ {"nil"} : Failed(e) \in Answers /\ Usable(Failed(e))
BY DEF Failed, Answers, Opt, Usable

\* No step of GetState hands out a server.
LEMMA ReadingHands ==
    ASSUME IInv, NEW a \in Actors, GetStateStep(a), NEW r \in Requests
    PROVE  Handed(r)
<1>1. r \in Actors /\ act[a] \in Activations /\ act \in [Actors -> Activations]
  BY ActorFacts DEF Actors, IInv, TypeOK
<1>2. CASE QueryFails(a)
  <2>1. Failed("db") \in Answers /\ Usable(Failed("db"))
    BY Failures DEF Errs
  <2>2. CASE a = Flight
    BY <1>2, <2>1, <2>2, DeliverHands DEF QueryFails
  <2>3. CASE a = r /\ a # Flight
    <3>1. act'[r] = [pc |-> "end", st |-> Fresh, res |-> SourceRules(r, Failed("db"))]
      BY <1>1, <1>2, <2>3 DEF QueryFails, Return
    <3> QED
      BY <2>1, <3>1, ReturnHands
  <2>4. CASE a # r /\ a # Flight
    BY <1>2, <2>4, OnlyOneMoves DEF QueryFails, Return
  <2> QED
    BY <2>2, <2>3, <2>4
<1>3. CASE Lookup(a) \/ QueryDb(a) \/ CacheAdd(a)
  <2>1. act'[r].pc = act[r].pc \/ act'[r].pc \in {"got", "read", "add"}
    BY <1>1, <1>3 DEF Lookup, QueryDb, CacheAdd, Goto, Activations
  <2> QED
    BY <2>1, NothingHanded
<1> QED
  BY <1>2, <1>3 DEF GetStateStep

\* A request's own steps hand out what the recorded host allows.
LEMMA RequestHands ==
    ASSUME IInv, NEW x \in Requests, Arrive(x) \/ Decide(x) \/ DoChan(x) \/ GiveUp(x),
           NEW r \in Requests
    PROVE  Handed(r)
<1>1. /\ r \in Actors /\ x \in Actors /\ r # Flight /\ act \in [Actors -> Activations]
      /\ act[x].st \in Rows /\ RowOK(act[x].st)
  BY ActorFacts, RequestsAssumption DEF Actors, IInv, TypeOK
<1>2. CASE Arrive(x) \/ DoChan(x) \/ (Decide(x) /\ ~act[x].st.ok)
  <2>1. act'[r].pc = act[r].pc \/ act'[r].pc \in {"get", "wait", "join"}
    BY <1>1, <1>2 DEF Arrive, DoChan, Decide, Goto, Activations
  <2> QED
    BY <2>1, NothingHanded
<1>3. ASSUME NEW a \in Answers, Usable(a), act' = Return(x, a)
      PROVE  Handed(r)
  <2>1. CASE x = r
    <3>1. act'[r] = [pc |-> "end", st |-> Fresh, res |-> SourceRules(r, a)]
      BY <1>1, <1>3, <2>1 DEF Return
    <3> QED
      BY <1>3, <3>1, ReturnHands
  <2>2. CASE x # r
    BY <1>1, <1>3, <2>2, OnlyOneMoves DEF Return
  <2> QED
    BY <2>1, <2>2
<1>4. CASE Decide(x) /\ act[x].st.ok
  <2>1. Pinned(act[x].st) \in Answers /\ Usable(Pinned(act[x].st))
    BY <1>1, <1>4, PinnedAnswer
  <2>2. act' = Return(x, Pinned(act[x].st))
    BY <1>4 DEF Decide
  <2> QED
    BY <1>3, <2>1, <2>2
<1>5. CASE GiveUp(x)
  <2>1. Failed("canceled") \in Answers /\ Usable(Failed("canceled"))
    BY Failures DEF Errs
  <2> QED
    BY <1>3, <1>5, <2>1 DEF GiveUp
<1> QED
  BY <1>2, <1>4, <1>5

\* The flight hands out the recorded host, nothing, or the winner of its round.
LEMMA FlightHands ==
    ASSUME IInv, FlightStep, NEW r \in Requests
    PROVE  Handed(r)
<1>1. /\ Flight \in Actors /\ r \in Actors /\ r # Flight /\ act \in [Actors -> Activations]
      /\ act[Flight].st \in Rows /\ RowOK(act[Flight].st)
  BY ActorFacts, RequestsAssumption DEF Actors, IInv, TypeOK
<1>2. CASE GetStateStep(Flight)
  BY <1>1, <1>2, ReadingHands
<1>3. CASE Refuse
  <2> DEFINE st == act[Flight].st
             a == IF st.ok THEN Pinned(st) ELSE Failed("notfound")
  <2>1. a \in Answers /\ Usable(a)
    <3>1. Failed("notfound") \in Answers /\ Usable(Failed("notfound"))
      BY Failures DEF Errs
    <3>2. st \in Rows /\ RowOK(st)
      BY <1>1
    <3> HIDE DEF st
    <3> QED
      BY <3>1, <3>2, PinnedAnswer
  <2>2. Deliver(a)
    BY <1>3 DEF Refuse
  <2> HIDE DEF a
  <2> QED
    BY <2>1, <2>2, DeliverHands
<1>4. CASE Insert
  <2>1. act[Flight].res \in Answers /\ Usable(act[Flight].res) /\ Deliver(act[Flight].res)
    BY <1>1, <1>4 DEF Insert, Activations, IInv, Flights
  <2> QED
    BY <2>1, DeliverHands
<1>5. CASE StartRound \/ Receive \/ ReceiveClosed \/ TimedOut \/ Record
  <2>1. act'[r] = act[r]
    BY <1>1, <1>5 DEF StartRound, Receive, ReceiveClosed, TimedOut, RoundEnds, Record, Goto
  <2> QED
    BY <2>1, NothingHanded
<1> QED
  BY <1>2, <1>3, <1>4, <1>5 DEF FlightStep

\* No step hands out a server that is not usable.
LEMMA NextHands == IInv /\ [Next]_vars => \A r \in Requests : Handed(r)
<1> SUFFICES ASSUME IInv, [Next]_vars, NEW r \in Requests PROVE Handed(r)
  OBVIOUS
<1>1. CASE UNCHANGED act
  BY <1>1, NothingHanded
<1>2. ASSUME NEW x \in Requests, Arrive(x) \/ RequestStep(x) \/ GiveUp(x) PROVE Handed(r)
  BY <1>2, ReadingHands, RequestHands DEF RequestStep, Actors
<1>3. CASE FlightStep
  BY <1>3, FlightHands
<1>4. CASE Deploy
  <2>1. r \in Actors /\ r # Flight /\ act[r] \in Activations
    BY RequestsAssumption DEF Actors, IInv, TypeOK
  <2>2. act'[r] = act[r] \/ act'[r].res = Failed("killed")
    BY <1>4, <2>1 DEF Deploy, Activations
  <2> QED
    BY <2>2 DEF Handed, Failed
<1>5. ASSUME NEW x \in Requests, RoundStep(x) PROVE UNCHANGED act
  BY <1>5 DEF RoundStep, ProbeYes, ProbeNo, Offer, CloseCh
<1>6. ASSUME (\E row \in pending : Flush(row) \/ LoseInsert(row)) \/ Expire \/ Tick \/ Deadline
      PROVE  UNCHANGED act
  BY <1>6 DEF Flush, LoseInsert, Expire, Tick, Deadline
<1> QED
  BY <1>1, <1>2, <1>3, <1>4, <1>5, <1>6 DEF Next, vars

\* FindByBuildID hands out only servers that the running process has and that are up.
THEOREM UsableOnly == Spec => HandsOutUsable
<1>1. IInv /\ [Next]_vars =>
         [\A r \in Requests :
            LET a == act'[r].res IN
            act'[r].pc = "end" /\ act[r].pc # "end" /\ a.err = "nil" =>
               \/ a.srv \in Servers /\ conf[a.srv] = "up" /\ (r \in SourceRequests => a.srv \notin Sourceless)
               \/ a.srv = Delegate /\ r \in SourceRequests]_vars
  BY NextHands DEF Handed
<1> QED
  BY <1>1, IInvHolds, PTL DEF Spec, HandsOutUsable

-----------------------------------------------------------------------------
(* Recorded outcomes happened.                                             *)

\* A row tells of nothing but rounds that ended so.
Real(row) ==
    /\ row.counter <= Cardinality(FailedRounds)
    /\ row.ok => \E r \in Requests : rnd[r].verdict = "found"

RowsReal == IsFiniteSet(FailedRounds) /\ OutcomesHappened

\* What a copy is made from: the fresh state, or a copy with the same count and success.
Copied(row) == row = Fresh \/ \E old \in Known : row.counter = old.counter /\ row.ok = old.ok

\* A copy from the store or from an activation is a known one.
LEMMA CopiesKnown ==
    /\ cache # NoRow => cache \in Known
    /\ db # NoRow => db \in Known
    /\ pending \subseteq Known
    /\ \A a \in Actors : act[a].st \in Known
BY DEF Known

\* The LRU, the database and the inserts on their way are written with known copies.
LEMMA StoreCopies ==
    ASSUME IInv, [Next]_vars
    PROVE  ({cache', db'} \ {NoRow}) \cup pending' \subseteq Known
<1>1. Flight \in Actors /\ Requests \subseteq Actors
  BY DEF Actors
<1>2. CASE UNCHANGED store
  BY <1>2, CopiesKnown DEF store
<1>3. ASSUME NEW a \in Actors, GetStateStep(a)
      PROVE  UNCHANGED <<db, pending>> /\ cache' \in {cache, act[a].st}
  BY <1>3, Zenon DEF GetStateStep, Lookup, QueryDb, QueryFails, CacheAdd, store
<1>4. ASSUME NEW a \in Actors, GetStateStep(a)
      PROVE  ({cache', db'} \ {NoRow}) \cup pending' \subseteq Known
  BY <1>3, <1>4, CopiesKnown
<1>5. ASSUME NEW r \in Requests, Arrive(r) \/ Decide(r) \/ DoChan(r) \/ GiveUp(r) \/ RoundStep(r)
      PROVE  UNCHANGED store
  BY <1>5, Zenon DEF Arrive, Decide, DoChan, GiveUp, RoundStep, ProbeYes, ProbeNo, Offer, CloseCh
<1>6. CASE Refuse \/ StartRound \/ Receive \/ ReceiveClosed \/ TimedOut \/ Deadline \/ Tick
  <2>1. UNCHANGED store
    BY <1>6, Zenon DEF Refuse, StartRound, Receive, ReceiveClosed, TimedOut, RoundEnds, Deadline, Tick
  <2> QED
    BY <1>2, <2>1
<1>7. CASE Record
  BY <1>1, <1>7, CopiesKnown DEF Record
<1>8. CASE Insert
  BY <1>1, <1>8, CopiesKnown DEF Insert
<1>9. ASSUME NEW row \in pending, Flush(row) \/ LoseInsert(row)
      PROVE  ({cache', db'} \ {NoRow}) \cup pending' \subseteq Known
  <2>1. cache' = cache /\ pending' \subseteq pending /\ db' \in {db, row}
    BY <1>9 DEF Flush, LoseInsert, Newest
  <2> QED
    BY <2>1, CopiesKnown
<1>10. CASE Expire \/ Deploy
  BY <1>10, CopiesKnown DEF Expire, Deploy
<1> QED
  BY <1>1, <1>2, <1>4, <1>5, <1>6, <1>7, <1>8, <1>9, <1>10 DEF Next, FlightStep, RequestStep, vars

\* Whoever waits is sent to the end with a fresh state.
LEMMA DeliverCopies ==
    ASSUME IInv, NEW a, Deliver(a), NEW x \in Actors
    PROVE  act'[x].st \in {act[x].st, Fresh}
<1>1. CASE x = Flight
  BY <1>1 DEF Deliver, Inactive
<1>2. CASE x # Flight
  <2>1. Return(x, a)[x].st = Fresh
    BY DEF Return, IInv, TypeOK
  <2> QED
    BY <1>2, <2>1 DEF Deliver
<1> QED
  BY <1>1, <1>2

\* A step of GetState puts a copy into the caller's hands and leaves the others theirs.
LEMMA ReadingCopies ==
    ASSUME IInv, NEW a \in Actors, GetStateStep(a), NEW x \in Actors
    PROVE  Copied(act'[x].st)
<1>1. act \in [Actors -> Activations] /\ act[a].st \in Known /\ act[x].st \in Known
  BY CopiesKnown DEF IInv, TypeOK
<1>2. \A row \in Known : Copied(row)
  BY DEF Copied
<1>3. CASE Lookup(a) \/ QueryDb(a) \/ CacheAdd(a)
  <2>1. \/ act'[x].st \in {act[x].st, Fresh}
        \/ (act'[x].st = cache /\ cache # NoRow)
        \/ (act'[x].st = db /\ db # NoRow)
    BY <1>1, <1>3 DEF Lookup, QueryDb, CacheAdd, Goto, Activations
  <2> QED
    BY <1>1, <1>2, <2>1, CopiesKnown DEF Copied
<1>4. CASE QueryFails(a)
  <2>1. Deliver(Failed("db")) \/ act' = Return(a, Failed("db"))
    BY <1>4, Zenon DEF QueryFails
  <2>2. act'[x].st \in {act[x].st, Fresh}
    BY <1>1, <2>1, DeliverCopies DEF Return
  <2> QED
    BY <1>1, <1>2, <2>2 DEF Copied
<1> QED
  BY <1>3, <1>4 DEF GetStateStep

\* What a round leaves in the flight's hands: a winner, or one failure more.
Counted(row) ==
    /\ act[Flight].pc = "probing"
    /\ \/ rnd'[leader].verdict = "found" /\ row.counter = act[Flight].st.counter
       \/ /\ rnd'[leader].verdict \in {"notfound", "deadline"}
          /\ row.counter = act[Flight].st.counter + 1 /\ ~row.ok

\* A round gets its outcome once, with the flight's step from its probes to its record.
LEMMA VerdictsStay ==
    ASSUME IInv, [Next]_vars
    PROVE  \/ \A r \in Requests : rnd'[r].verdict = rnd[r].verdict
           \/ /\ act[Flight].pc = "probing" /\ leader \in Requests /\ rnd[leader].verdict = "none"
              /\ \A r \in Requests \ {leader} : rnd'[r].verdict = rnd[r].verdict
<1> DEFINE Kept == \A r \in Requests : rnd'[r].verdict = rnd[r].verdict
<1>1. rnd \in [Requests -> Rounds]
  BY DEF IInv, TypeOK
<1>2. ASSUME UNCHANGED rnd PROVE Kept
  BY <1>2
<1>3. ASSUME NEW r \in Requests, RoundStep(r) PROVE Kept
  <2>1. ASSUME NEW s \in Servers, ProbeYes(r, s) \/ ProbeNo(r, s) PROVE Kept
    BY <1>1, <2>1 DEF ProbeYes, ProbeNo, Rounds
  <2>2. ASSUME NEW s \in Servers, Offer(r, s) PROVE Kept
    BY <1>1, <2>2 DEF Offer, Rounds
  <2>3. CASE CloseCh(r)
    BY <1>1, <2>3 DEF CloseCh, Rounds
  <2> QED
    BY <1>3, <2>1, <2>2, <2>3 DEF RoundStep
<1>4. CASE StartRound
  BY <1>1, <1>4 DEF StartRound, Rounds
<1>5. CASE Deadline
  BY <1>1, <1>5 DEF Deadline, Rounds
<1>6. CASE Deploy
  <2>1. ASSUME NEW r \in Requests PROVE rnd'[r].verdict = rnd[r].verdict
    <3> DEFINE c == Started(r)
               q == [NoRound EXCEPT !.verdict = rnd[r].verdict, !.closed = c]
    <3>1. rnd'[r] = q
      BY <1>6, Zenon DEF Deploy
    <3> HIDE DEF c
    <3>2. q.verdict = rnd[r].verdict
      BY Blanks DEF Rounds
    <3> QED
      BY <3>1, <3>2
  <2> QED
    BY <2>1
<1>7. CASE Receive \/ ReceiveClosed \/ TimedOut
  <2>1. act[Flight].pc = "probing"
    BY <1>7 DEF Receive, ReceiveClosed, TimedOut
  <2>2. leader \in Requests /\ rnd[leader].verdict = "none"
    BY <2>1, FlightFacts DEF IInv, Flights
  <2>3. PICK v, st, a : RoundEnds(v, st, a)
    BY <1>7, Zenon DEF Receive, ReceiveClosed, TimedOut
  <2>4. \A r \in Requests \ {leader} : rnd'[r] = rnd[r]
    BY <1>1, <2>3 DEF RoundEnds
  <2> QED
    BY <2>1, <2>2, <2>4
<1>8. ASSUME NEW a, GetStateStep(a) PROVE Kept
  BY <1>2, <1>8, Zenon DEF GetStateStep, Lookup, QueryDb, QueryFails, CacheAdd
<1>9. ASSUME NEW r \in Requests, Arrive(r) \/ Decide(r) \/ DoChan(r) \/ GiveUp(r) PROVE Kept
  BY <1>2, <1>9, Zenon DEF Arrive, Decide, DoChan, GiveUp
<1>10. CASE Refuse \/ Record \/ Insert \/ Expire \/ Tick \/ (\E row \in pending : Flush(row) \/ LoseInsert(row))
  BY <1>2, <1>10, Zenon DEF Refuse, Record, Insert, Expire, Tick, Flush, LoseInsert
<1> QED
  BY <1>2, <1>3, <1>4, <1>5, <1>6, <1>7, <1>8, <1>9, <1>10 DEF Next, FlightStep, RequestStep, vars

\* The end of a round leaves a counted state with the flight and nobody else.
LEMMA RoundEndCounts ==
    ASSUME IInv, Receive \/ ReceiveClosed \/ TimedOut, NEW x \in Actors
    PROVE  act'[x].st = act[x].st \/ Counted(act'[x].st)
<1>1. /\ act[Flight].pc = "probing" /\ act[Flight].st \in Rows /\ ~act[Flight].st.ok
      /\ leader \in Requests /\ act \in [Actors -> Activations] /\ rnd \in [Requests -> Rounds]
      /\ Flight \in Actors
  BY FlightFacts DEF Receive, ReceiveClosed, TimedOut, IInv, TypeOK, Flights, Actors
<1>2. ASSUME NEW v, NEW st, NEW a, RoundEnds(v, st, a)
      PROVE  rnd'[leader].verdict = v /\ (act'[x].st = act[x].st \/ act'[x].st = st)
  <2> DEFINE c == IF v = "found" THEN NoServer ELSE rnd[leader].ch
             q == [rnd[leader] EXCEPT !.verdict = v, !.stop = TRUE, !.ch = c]
  <2>1. rnd' = [rnd EXCEPT ![leader] = q]
    BY <1>1, <1>2 DEF RoundEnds, Rounds
  <2> HIDE DEF c
  <2>2. q.verdict = v
    BY <1>1 DEF Rounds
  <2> HIDE DEF q
  <2> QED
    BY <1>1, <1>2, <2>1, <2>2 DEF RoundEnds
<1>3. CASE Receive
  <2> DEFINE w == rnd[leader].ch
             st == [act[Flight].st EXCEPT !.ok = TRUE, !.host = w.srv, !.hdr = w.hdr]
  <2>1. st.counter = act[Flight].st.counter
    BY <1>1 DEF Rows
  <2>2. PICK a : RoundEnds("found", st, a)
    BY <1>3, Zenon DEF Receive
  <2> HIDE DEF st
  <2> QED
    BY <1>1, <1>2, <2>1, <2>2 DEF Counted
<1>4. CASE ReceiveClosed \/ TimedOut
  <2> DEFINE st == OneMoreFailure(act[Flight].st)
  <2>1. st.counter = act[Flight].st.counter + 1 /\ ~st.ok
    BY <1>1 DEF Rows, OneMoreFailure
  <2>2. RoundEnds("notfound", st, Failed("notfound")) \/ RoundEnds("deadline", st, Failed("deadline"))
    BY <1>4, Zenon DEF ReceiveClosed, TimedOut
  <2> HIDE DEF st
  <2> QED
    BY <1>1, <1>2, <2>1, <2>2 DEF Counted
<1> QED
  BY <1>3, <1>4

\* After a step every activation holds a copy, or the outcome of the round that just ended.
LEMMA ActivationCopies ==
    ASSUME IInv, [Next]_vars, NEW x \in Actors
    PROVE  Copied(act'[x].st) \/ Counted(act'[x].st)
<1>1. act \in [Actors -> Activations] /\ Flight \in Actors /\ Requests \subseteq Actors
  BY DEF IInv, TypeOK, Actors
<1>2. ASSUME act'[x].st \in {act[x].st, Fresh} PROVE Copied(act'[x].st)
  BY <1>2, CopiesKnown DEF Copied
<1>3. ASSUME NEW a \in Actors, GetStateStep(a) PROVE Copied(act'[x].st)
  BY <1>3, ReadingCopies
<1>4. ASSUME NEW r \in Requests, Arrive(r) \/ Decide(r) \/ DoChan(r) \/ GiveUp(r)
      PROVE  act'[x].st \in {act[x].st, Fresh}
  BY <1>1, <1>4 DEF Arrive, Decide, DoChan, GiveUp, Goto, Return, Activations
<1>5. CASE Refuse \/ Insert
  <2>1. PICK a : Deliver(a)
    BY <1>5, Zenon DEF Refuse, Insert
  <2> QED
    BY <1>2, <2>1, DeliverCopies
<1>6. CASE StartRound
  <2> DEFINE st == Tried(act[Flight].st)
  <2>1. st.counter = act[Flight].st.counter /\ st.ok = act[Flight].st.ok
    BY <1>1 DEF Tried, Activations, Rows
  <2>2. act' = [act EXCEPT ![Flight].pc = "probing", ![Flight].st = st]
    BY <1>6, Zenon DEF StartRound
  <2> HIDE DEF st
  <2>3. act'[x].st = act[x].st \/ act'[x].st = st
    BY <1>1, <2>2 DEF Activations
  <2> QED
    BY <1>1, <1>2, <2>1, <2>3, CopiesKnown DEF Copied
<1>7. CASE Receive \/ ReceiveClosed \/ TimedOut
  BY <1>2, <1>7, RoundEndCounts
<1>8. CASE Record
  BY <1>1, <1>2, <1>8 DEF Record, Goto, Activations
<1>9. CASE Deploy
  <2> DEFINE k == [act[x] EXCEPT !.pc = "end", !.res = Failed("killed")]
  <2>1. k.st = act[x].st /\ Inactive.st = Fresh
    BY <1>1, Blanks DEF Activations
  <2>2. act'[x] = IF x = Flight THEN Inactive ELSE IF act[x].pc \in {"idle", "end"} THEN act[x] ELSE k
    BY <1>9, Zenon DEF Deploy
  <2> HIDE DEF k
  <2> QED
    BY <1>2, <2>1, <2>2
<1>10. ASSUME UNCHANGED act PROVE Copied(act'[x].st)
  BY <1>2, <1>10
<1>11. ASSUME NEW r \in Requests, RoundStep(r) PROVE UNCHANGED act
  BY <1>11, Zenon DEF RoundStep, ProbeYes, ProbeNo, Offer, CloseCh
<1>12. CASE Deadline \/ Expire \/ Tick \/ (\E row \in pending : Flush(row) \/ LoseInsert(row))
  BY <1>10, <1>12, Zenon DEF Deadline, Expire, Tick, Flush, LoseInsert
<1> QED
  BY <1>1, <1>2, <1>3, <1>4, <1>5, <1>6, <1>7, <1>8, <1>9, <1>10, <1>11, <1>12 DEF Next,
     FlightStep, RequestStep, vars

\* A step keeps every copy real: it adds failed rounds to the count and takes none away.
LEMMA NextReal ==
    ASSUME IInv, RowsReal, [Next]_vars
    PROVE  RowsReal'
<1> DEFINE F == FailedRounds
<1>1. /\ F \subseteq F' /\ F' \subseteq F \cup {leader}
      /\ \A r \in Requests : rnd[r].verdict = "found" => rnd'[r].verdict = "found"
  BY VerdictsStay DEF FailedRounds
<1>2. IsFiniteSet(F') /\ Cardinality(F) \in Nat /\ Cardinality(F') \in Nat /\ Cardinality(F) <= Cardinality(F')
  <2>1. IsFiniteSet(F \cup {leader})
    BY FS_AddElement DEF RowsReal
  <2>2. IsFiniteSet(F')
    BY <1>1, <2>1, FS_Subset
  <2> QED
    BY <1>1, <2>2, FS_Subset, FS_CardinalityType DEF RowsReal
<1>3. ASSUME NEW row \in Rows, Real(row) PROVE Real(row)'
  BY <1>1, <1>2, <1>3 DEF Real, Rows
<1>4. IInv' /\ \A row \in Known : row \in Rows /\ Real(row)
  <2>1. \A a \in Actors : act[a].st \in Rows
    BY ActorFacts
  <2>2. \A row \in Known : row \in Rows
    BY <2>1 DEF Known, IInv, TypeOK
  <2> QED
    BY <2>2, NextIInv DEF RowsReal, OutcomesHappened, Real
<1>5. ASSUME NEW row \in Rows, Copied(row) PROVE Real(row)'
  <2>1. Real(row)
    BY <1>2, <1>4, <1>5 DEF Copied, Fresh, Real, Rows
  <2> QED
    BY <1>3, <2>1
<1>6. ASSUME NEW row \in Rows, Counted(row) PROVE Real(row)'
  <2> DEFINE st == act[Flight].st
  <2>1. act[Flight].pc = "probing" /\ leader \in Requests /\ rnd[leader].verdict = "none"
    BY <1>6, FlightFacts DEF Counted, IInv, Flights
  <2>2. st \in Known /\ st \in Rows /\ st.counter <= Cardinality(F)
    BY <1>4, CopiesKnown DEF Real, Actors
  <2>3. CASE rnd'[leader].verdict = "found"
    BY <1>2, <1>6, <2>1, <2>2, <2>3 DEF Counted, Real, Rows
  <2>4. CASE rnd'[leader].verdict \in {"notfound", "deadline"}
    <3>1. leader \in F' /\ leader \notin F
      BY <2>1, <2>4 DEF FailedRounds
    <3>2. F' = F \cup {leader}
      BY <1>1, <3>1
    <3>3. Cardinality(F') = Cardinality(F) + 1
      BY <3>1, <3>2, FS_AddElement DEF RowsReal
    <3>4. row.counter = st.counter + 1 /\ ~row.ok
      BY <1>6, <2>4 DEF Counted
    <3> HIDE DEF F
    <3>5. row.counter <= Cardinality(F')
      BY <1>2, <2>2, <3>3, <3>4 DEF Rows
    <3> QED
      BY <3>4, <3>5 DEF Real, F
  <2> QED
    BY <1>6, <2>3, <2>4 DEF Counted
<1>7. \A row \in Known' : row \in Rows /\ (row \in Known \/ \E x \in Actors : row = act'[x].st)
  <2>1. \A row \in Known' : row \in ({cache', db'} \ {NoRow}) \cup pending' \/ \E x \in Actors : row = act'[x].st
    BY DEF Known
  <2>2. \A x \in Actors : act'[x].st \in Rows
    BY <1>4 DEF IInv, TypeOK, Activations
  <2> QED
    BY <1>4, <2>1, <2>2, StoreCopies
<1>8. \A row \in Known' : Real(row)'
  BY <1>3, <1>4, <1>5, <1>6, <1>7, ActivationCopies
<1> QED
  BY <1>2, <1>8 DEF RowsReal, OutcomesHappened, Real

\* Every failure counted and every success recorded, in any copy of the state, is the outcome
\* of a round that ended so: no round is counted twice, and none that found a server.
THEOREM OutcomesAreReal == Spec => []OutcomesHappened
<1>1. ASSUME Init PROVE RowsReal
  <2>1. FailedRounds = {} /\ Known = {Fresh}
    BY <1>1, RequestsAssumption DEF Init, FailedRounds, Known, NoRound, Inactive, Actors
  <2>2. IsFiniteSet({}) /\ Cardinality({}) = 0
    BY FS_EmptySet
  <2> QED
    BY <2>1, <2>2 DEF RowsReal, OutcomesHappened, Fresh
<1>2. IInv /\ RowsReal /\ [Next]_vars => RowsReal'
  BY NextReal
<1>3. RowsReal => OutcomesHappened
  BY DEF RowsReal
<1> QED
  BY <1>1, <1>2, <1>3, IInvHolds, PTL DEF Spec

-----------------------------------------------------------------------------
(* Nobody is left behind.                                                  *)

\* A request that waits for the singleflight call has a resolution that will answer it, and a
\* round whose outcome is known has stopped its probes or seen the last of them: no request
\* and no goroutine waits for something that nobody is about to do.
NobodyStranded ==
    /\ \A r \in Requests : act[r].pc = "wait" => leader # NoRequest
    /\ \A r \in Requests : rnd[r].verdict # "none" => rnd[r].stop \/ rnd[r].closed

\* A round with an outcome that has neither stopped nor closed is left behind.
RoundCleans(q) == q.verdict # "none" => q.stop \/ q.closed

\* Who starts to wait has a flight to wait for, and a flight that ends takes along all who wait.
LEMMA WaitersHaveFlight ==
    ASSUME IInv, [Next]_vars, NEW r \in Requests, act'[r].pc = "wait"
    PROVE  leader' # NoRequest \/ (act[r].pc = "wait" /\ leader' = leader)
<1>1. Flight \in Actors /\ r \in Actors /\ Flight \notin Requests /\ r # Flight
  BY RequestsAssumption DEF Actors
<1>2. act \in [Actors -> Activations] /\ Inactive.pc = "idle"
  BY DEF IInv, TypeOK, Inactive
<1>3. ASSUME NEW a, Deliver(a) PROVE FALSE
  <2>1. act'[r] = IF act[r].pc = "wait" THEN Return(r, a)[r] ELSE act[r]
    BY <1>1, <1>3, Zenon DEF Deliver
  <2>2. Return(r, a)[r].pc = "end"
    BY <1>1, <1>2 DEF Return
  <2> QED
    BY <2>1, <2>2
<1>4. ASSUME NEW a \in Actors, GetStateStep(a) PROVE act[r].pc = "wait" /\ leader' = leader
  <2>1. CASE QueryFails(a) /\ a = Flight
    BY <1>3, <2>1 DEF QueryFails
  <2>2. CASE QueryFails(a) /\ a # Flight
    <3>1. leader' = leader /\ act' = Return(a, Failed("db"))
      BY <2>2, Zenon DEF QueryFails
    <3> QED
      BY <1>1, <1>2, <3>1 DEF Return
  <2>3. CASE Lookup(a)
    <3>1. leader' = leader
      BY <2>3, Zenon DEF Lookup
    <3>2. act'[r] = act[r] \/ act'[r].pc \in {"got", "read"}
      BY <1>1, <1>2, <2>3 DEF Lookup, Goto, Activations
    <3> QED
      BY <3>1, <3>2
  <2>4. CASE QueryDb(a) \/ CacheAdd(a)
    BY <1>1, <1>2, <2>4 DEF QueryDb, CacheAdd, Goto, Activations
  <2> QED
    BY <1>4, <2>1, <2>2, <2>3, <2>4 DEF GetStateStep
<1>5. ASSUME NEW q \in Requests, Arrive(q) \/ RequestStep(q) \/ GiveUp(q)
      PROVE  leader' # NoRequest \/ (act[r].pc = "wait" /\ leader' = leader)
  <2>1. CASE GetStateStep(q)
    BY <1>4, <2>1 DEF Actors
  <2>2. CASE Arrive(q)
    BY <1>1, <1>2, <2>2 DEF Arrive, Goto, Actors
  <2>3. CASE GiveUp(q)
    BY <1>1, <1>2, <2>3 DEF GiveUp, Return, Actors
  <2>4. CASE Decide(q)
    <3>1. leader' = leader /\ (act' = Return(q, Pinned(act[q].st)) \/ Goto(q, "join"))
      BY <2>4, Zenon DEF Decide
    <3>2. CASE act' = Return(q, Pinned(act[q].st))
      BY <1>1, <1>2, <3>1, <3>2 DEF Return
    <3>3. CASE Goto(q, "join")
      BY <1>1, <1>2, <3>1, <3>3 DEF Goto, Activations
    <3> QED
      BY <3>1, <3>2, <3>3
  <2>5. CASE DoChan(q)
    BY <2>5, RequestsAssumption DEF DoChan
  <2> QED
    BY <1>5, <2>1, <2>2, <2>3, <2>4, <2>5 DEF RequestStep
<1>6. CASE FlightStep
  <2>1. CASE GetStateStep(Flight)
    BY <1>1, <1>4, <2>1
  <2>2. CASE Refuse \/ Insert
    BY <1>3, <2>2, Zenon DEF Refuse, Insert
  <2>3. CASE StartRound \/ Record
    BY <1>1, <1>2, <2>3 DEF StartRound, Record, Goto
  <2>4. CASE Receive \/ ReceiveClosed \/ TimedOut
    <3>1. PICK v, st, a : RoundEnds(v, st, a)
      BY <2>4, Zenon DEF Receive, ReceiveClosed, TimedOut
    <3> QED
      BY <1>1, <1>2, <3>1 DEF RoundEnds
  <2> QED
    BY <1>6, <2>1, <2>2, <2>3, <2>4 DEF FlightStep
<1>7. CASE Deploy
  <2> DEFINE x == [act[r] EXCEPT !.pc = "end", !.res = Failed("killed")]
  <2>1. act[r] \in Activations
    BY <1>1, <1>2
  <2>2. x.pc = "end"
    BY <2>1 DEF Activations
  <2>3. act' = [a \in Actors |-> IF a = Flight THEN Inactive
                                 ELSE IF act[a].pc \in {"idle", "end"} THEN act[a]
                                 ELSE [act[a] EXCEPT !.pc = "end", !.res = Failed("killed")]]
    BY <1>7, Zenon DEF Deploy
  <2>4. act'[r] = IF act[r].pc \in {"idle", "end"} THEN act[r] ELSE x
    BY <1>1, <2>3, Zenon
  <2> HIDE DEF x
  <2> QED
    BY <2>2, <2>4
<1>8. ASSUME UNCHANGED <<act, leader>> PROVE act[r].pc = "wait" /\ leader' = leader
  BY <1>8
<1>9. ASSUME NEW q \in Requests, RoundStep(q) PROVE UNCHANGED <<act, leader>>
  BY <1>9, Zenon DEF RoundStep, ProbeYes, ProbeNo, Offer, CloseCh
<1>10. CASE Deadline \/ (\E row \in pending : Flush(row) \/ LoseInsert(row)) \/ Expire \/ Tick
  BY <1>8, <1>10, Zenon DEF Deadline, Flush, LoseInsert, Expire, Tick
<1> QED
  BY <1>5, <1>6, <1>7, <1>8, <1>9, <1>10 DEF Next, vars

\* A step that replaces one round leaves the others as clean as they were.
LEMMA OneRoundMoves ==
    ASSUME IInv, NEW o \in Requests, NEW q, rnd' = [rnd EXCEPT ![o] = q],
           RoundCleans(rnd[o]) => RoundCleans(q), NEW r \in Requests, RoundCleans(rnd[r])
    PROVE  RoundCleans(rnd'[r])
<1>1. rnd'[r] = IF r = o THEN q ELSE rnd[r]
  BY DEF IInv, TypeOK
<1> QED
  BY <1>1

\* What a goroutine of a round does leaves it clean: stop and closed are final.
LEMMA RoundStepCleans ==
    ASSUME IInv, NEW o \in Requests, RoundStep(o), NEW r \in Requests, RoundCleans(rnd[r])
    PROVE  RoundCleans(rnd'[r])
<1>1. rnd \in [Requests -> Rounds] /\ rnd[o] \in Rounds
  BY DEF IInv, TypeOK
<1>2. ASSUME NEW s \in Servers, NEW a, rnd' = [rnd EXCEPT ![o].probe[s] = a]
      PROVE  RoundCleans(rnd'[r])
  <2> DEFINE q == [rnd[o] EXCEPT !.probe[s] = a]
  <2>1. q.verdict = rnd[o].verdict /\ q.stop = rnd[o].stop /\ q.closed = rnd[o].closed
    BY <1>1 DEF Rounds
  <2>2. rnd' = [rnd EXCEPT ![o] = q]
    BY <1>1, <1>2 DEF Rounds
  <2> HIDE DEF q
  <2>3. RoundCleans(rnd[o]) => RoundCleans(q)
    BY <2>1 DEF RoundCleans
  <2> QED
    BY <2>2, <2>3, OneRoundMoves
<1>3. ASSUME NEW s \in Servers, ProbeYes(o, s) \/ ProbeNo(o, s) PROVE RoundCleans(rnd'[r])
  BY <1>2, <1>3, Zenon DEF ProbeYes, ProbeNo
<1>4. ASSUME NEW s \in Servers, Offer(o, s) PROVE RoundCleans(rnd'[r])
  <2> DEFINE w == [srv |-> s, hdr |-> HeadersSent(o, s)]
             q == [rnd[o] EXCEPT !.probe[s] = "sent", !.stop = TRUE, !.ch = w]
  <2>1. CASE ~RoomInCh(o)
    BY <1>2, <1>4, <2>1, Zenon DEF Offer
  <2>2. CASE RoomInCh(o)
    <3> HIDE DEF w
    <3>1. q.stop = TRUE
      BY <1>1 DEF Rounds
    <3>2. rnd' = [rnd EXCEPT ![o] = q]
      BY <1>1, <1>4, <2>2 DEF Offer, Rounds, w
    <3> HIDE DEF q
    <3>3. RoundCleans(q)
      BY <3>1 DEF RoundCleans
    <3> QED
      BY <3>2, <3>3, OneRoundMoves
  <2> QED
    BY <2>1, <2>2
<1>5. CASE CloseCh(o)
  <2> DEFINE q == [rnd[o] EXCEPT !.closed = TRUE]
  <2>1. q.closed = TRUE
    BY <1>1 DEF Rounds
  <2>2. rnd' = [rnd EXCEPT ![o] = q]
    BY <1>1, <1>5 DEF CloseCh, Rounds
  <2> HIDE DEF q
  <2>3. RoundCleans(q)
    BY <2>1 DEF RoundCleans
  <2> QED
    BY <2>2, <2>3, OneRoundMoves
<1> QED
  BY <1>3, <1>4, <1>5 DEF RoundStep

\* What gives a round its outcome stops it, and a redeploy closes what it kills.
LEMMA RoundsClean ==
    ASSUME IInv, [Next]_vars, NEW r \in Requests, RoundCleans(rnd[r])
    PROVE  RoundCleans(rnd'[r])
<1>1. act[Flight].pc # "idle" => leader \in Requests /\ rnd[leader] \in Rounds
  BY FlightFacts
<1>2. CASE StartRound
  <2> DEFINE p == [s \in Servers |-> IF conf[s] = "up" THEN "asking" ELSE "off"]
             q == [rnd[leader] EXCEPT !.probe = p]
  <2>1. leader \in Requests /\ rnd[leader] \in Rounds
    BY <1>1, <1>2 DEF StartRound
  <2>2. rnd' = [rnd EXCEPT ![leader] = q]
    BY <1>2, <2>1 DEF StartRound, IInv, TypeOK, Rounds
  <2> HIDE DEF p
  <2>3. q.verdict = rnd[leader].verdict /\ q.stop = rnd[leader].stop /\ q.closed = rnd[leader].closed
    BY <2>1 DEF Rounds
  <2> HIDE DEF q
  <2>4. RoundCleans(rnd[leader]) => RoundCleans(q)
    BY <2>3 DEF RoundCleans
  <2> QED
    BY <2>1, <2>2, <2>4, OneRoundMoves
<1>3. CASE Receive \/ ReceiveClosed \/ TimedOut
  <2>1. PICK v, st, a : RoundEnds(v, st, a)
    BY <1>3, Zenon DEF Receive, ReceiveClosed, TimedOut
  <2> DEFINE c == IF v = "found" THEN NoServer ELSE rnd[leader].ch
             q == [rnd[leader] EXCEPT !.verdict = v, !.stop = TRUE, !.ch = c]
  <2>2. act[Flight].pc = "probing"
    BY <1>3 DEF Receive, ReceiveClosed, TimedOut
  <2>3. leader \in Requests /\ rnd[leader] \in Rounds
    BY <1>1, <2>2
  <2>4. rnd' = [rnd EXCEPT ![leader] = q]
    BY <2>1, <2>3 DEF RoundEnds, IInv, TypeOK, Rounds
  <2> HIDE DEF c
  <2>5. q.stop = TRUE
    BY <2>3 DEF Rounds
  <2> HIDE DEF q
  <2>6. RoundCleans(q)
    BY <2>5 DEF RoundCleans
  <2> QED
    BY <2>3, <2>4, <2>6, OneRoundMoves
<1>4. CASE Deadline
  <2> DEFINE q == [rnd[leader] EXCEPT !.expired = TRUE, !.stop = TRUE]
  <2>1. leader \in Requests /\ rnd[leader] \in Rounds
    BY <1>1, <1>4 DEF Deadline
  <2>2. rnd' = [rnd EXCEPT ![leader] = q]
    BY <1>4, <2>1 DEF Deadline, IInv, TypeOK, Rounds
  <2>3. q.stop = TRUE
    BY <2>1 DEF Rounds
  <2> HIDE DEF q
  <2>4. RoundCleans(q)
    BY <2>3 DEF RoundCleans
  <2> QED
    BY <2>1, <2>2, <2>4, OneRoundMoves
<1>5. CASE Deploy
  <2> DEFINE c == Started(r)
             q == [NoRound EXCEPT !.verdict = rnd[r].verdict, !.closed = c]
  <2>1. NoRound \in Rounds /\ (rnd[r].verdict # "none" => c)
    BY Blanks DEF Started
  <2>2. rnd'[r] = q
    BY <1>5, Zenon DEF Deploy
  <2> HIDE DEF c
  <2>3. q.verdict = rnd[r].verdict /\ q.closed = c
    BY <2>1 DEF Rounds
  <2> HIDE DEF q
  <2> QED
    BY <2>1, <2>2, <2>3 DEF RoundCleans
<1>6. ASSUME UNCHANGED rnd PROVE RoundCleans(rnd'[r])
  BY <1>6
<1>7. ASSUME NEW q \in Requests, Arrive(q) \/ RequestStep(q) \/ GiveUp(q) PROVE UNCHANGED rnd
  BY <1>7, Zenon DEF Arrive, GiveUp, RequestStep, GetStateStep, Lookup, QueryDb, QueryFails,
     CacheAdd, Decide, DoChan
<1>8. CASE GetStateStep(Flight) \/ Refuse \/ Insert \/ Record
  BY <1>6, <1>8, Zenon DEF GetStateStep, Lookup, QueryDb, QueryFails, CacheAdd, Refuse, Insert,
     Record
<1>9. CASE (\E row \in pending : Flush(row) \/ LoseInsert(row)) \/ Expire \/ Tick
  BY <1>6, <1>9, Zenon DEF Flush, LoseInsert, Expire, Tick
<1> QED
  BY <1>2, <1>3, <1>4, <1>5, <1>6, <1>7, <1>8, <1>9, RoundStepCleans DEF Next, FlightStep, vars

\* Nobody waits for a resolution that is not there, and no round outlives its outcome
\* unnoticed, across failures, departures and redeploys: with fairness, every request
\* returns and every goroutine of a round ends.
THEOREM StrandsNobody == Spec => []NobodyStranded
<1>1. Init => NobodyStranded
  BY RequestsAssumption DEF Init, NobodyStranded, Inactive, NoRound, Actors
<1>2. ASSUME IInv, NobodyStranded, [Next]_vars PROVE NobodyStranded'
  <2>1. ASSUME NEW r \in Requests PROVE act'[r].pc = "wait" => leader' # NoRequest
    BY <1>2, <2>1, WaitersHaveFlight DEF NobodyStranded
  <2>2. ASSUME NEW r \in Requests
        PROVE  rnd'[r].verdict # "none" => rnd'[r].stop \/ rnd'[r].closed
    BY <1>2, <2>2, RoundsClean DEF NobodyStranded, RoundCleans
  <2> QED
    BY <2>1, <2>2 DEF NobodyStranded
<1> QED
  BY <1>1, <1>2, IInvHolds, PTL DEF Spec
=============================================================================
