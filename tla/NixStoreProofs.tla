--------------------------- MODULE NixStoreProofs ---------------------------
(***************************************************************************)
(* Proofs about the store of nix-debuginfod, for any requests, build ids,  *)
(* archives and store paths, any symlink chains, slots, hops and faults.   *)
(***************************************************************************)
EXTENDS NixStore, FiniteSetTheorems, TLAPS

Handlers == [pc : Steps, unit : Units \cup {NoOne}, asked : BOOLEAN,
             hop : Nat, status : Statuses]

\* Who leads a flight is inside its function, and who waits has somebody to wait for.
Flights ==
    /\ \A r \in Requests :
          /\ rq[r].pc \in {"join", "wait"} \cup FlightSteps => rq[r].unit \in Units
          /\ rq[r].pc \in LinkSteps => rq[r].unit = ArchiveOf[BuildOf[r]] /\ rq[r].unit \in Archives
          /\ rq[r].pc \in {"trunc", "name"} => rq[r].unit \in Archives
          /\ rq[r].pc \in FlightSteps => flight[rq[r].unit] = r
          /\ rq[r].pc = "wait" => flight[rq[r].unit] # NoOne
    /\ \A u \in Units : flight[u] # NoOne => /\ rq[flight[u]].pc \in FlightSteps
                                             /\ rq[flight[u]].unit = u
    /\ \A b \in link : ArchiveOf[b] \in Archives
    /\ ~up => mounted = {} /\ \A r \in Requests : ~Active(r)

\* How far the file a builder makes, and the image behind a mount under way, have got.
Work ==
    \A r \in Requests :
        /\ rq[r].pc \in {"trunc", "name", "publish"} => tmp[r] = "whole"
        /\ rq[r].pc = "publish" /\ rq[r].unit \in Archives => name[rq[r].unit] = "whole"
        /\ rq[r].pc \in {"nar", "unpack", "trunc", "name", "publish"} /\ rq[r].unit \in Archives
              => image[ImageOf[rq[r].unit]] = "none"
        /\ rq[r].pc \in {"mkdir", "mount", "record"} => image[ImageOf[rq[r].unit]] = "whole"
        /\ rq[r].pc = "mounted" /\ rq[r].unit \in Archives => image[ImageOf[rq[r].unit]] = "whole"

\* A fault that has reached a leader has reached everybody who waits for it.
Shared ==
    /\ gone \subseteq hit
    /\ \A u \in Units : flight[u] \in hit => Waiting(u) \subseteq hit

\* Every hop has mounted a store path of the chain, in the order of the chain.
Climbing ==
    \A r \in Requests : rq[r].pc # "end" =>
        /\ rq[r].pc = "idle" => rq[r].hop = 0
        /\ rq[r].hop <= Len(Leads[r])
        /\ \A j \in 1..rq[r].hop : Leads[r][j] \in mounted
        /\ rq[r].pc \in {"join", "wait"} \cup FlightSteps /\ rq[r].unit \in Paths =>
              \E i \in 1..Len(Leads[r]) : /\ rq[r].hop < i
                                          /\ rq[r].unit = Leads[r][i]
                                          /\ \A j \in 1..(i - 1) : Leads[r][j] \in mounted

\* Who is about to do a step with the link of a build id; and who is, or is through with all
\* of them, and has not seen the disk fail.
At(b, pc) == {q \in Requests : BuildOf[q] = b /\ rq[q].pc = pc}
Trusting(b, pc) ==
    {q \in Requests \ spoilt : BuildOf[q] = b /\ (rq[q].pc = pc \/ rq[q].asked)}

\* A temporary link has somebody who will rename it, and a link that is not even made yet
\* somebody who will make it: whoever is through has been overtaken, never left alone.
LinkPassedOn ==
    \A b \in Builds \ link :
        /\ b \in linkTmp /\ Trusting(b, "symlink") # {} => At(b, "rename") # {}
        /\ b \notin linkTmp /\ Trusting(b, "rename") # {} => At(b, "symlink") # {}

IInv ==
    /\ TypeOK /\ Flights /\ SlotsAccounted
    /\ ImagesWhole /\ Work
    /\ NoStrayMountPoint
    /\ Shared /\ FaultsHeal /\ Climbing
    /\ LinkPassedOn

Building == {r \in Requests : rq[r].pc \in BuildSteps}

-----------------------------------------------------------------------------
\* The names of positions and statuses are what they are meant to be.
LEMMA StepNames ==
    /\ {"idle", "link", "meta", "join", "wait", "open", "missing", "index", "walk", "send", "end"}
          \subseteq Steps
    /\ LinkSteps \subseteq Steps /\ FlightSteps \subseteq Steps
    /\ {"restat", "nar", "unpack", "trunc", "name", "publish"} \subseteq FlightSteps
    /\ {"mounted", "mkdir", "mount", "record", "stat", "slot"} \subseteq FlightSteps
    /\ {"clear", "symlink", "rename"} \subseteq LinkSteps
    /\ {"none", "200", "404", "500", "cut", "killed"} \subseteq Statuses
BY DEF Steps, FlightSteps, BuildSteps, MountSteps, LinkSteps, Statuses

\* The constants have their types.
LEMMA ConstantTypes ==
    /\ \A r \in Requests : /\ BuildOf[r] \in Builds
                           /\ ArchiveOf[BuildOf[r]] \in Archives \cup {NoOne}
                           /\ Leads[r] \in Seq(Paths) /\ Len(Leads[r]) \in Nat
                           /\ \A i \in 1..Len(Leads[r]) : Leads[r][i] \in Paths
    /\ Archives \cap Paths = {} /\ Units = Archives \cup Paths
    /\ NoOne \notin Requests /\ NoOne \notin Units
    /\ ImageOf \in [Units -> Images]
    /\ \A a \in Archives, u \in Units : ImageOf[a] = ImageOf[u] => a = u
    /\ MaxFetches \in Nat \ {0} /\ MaxResolveHops \in Nat \ {0}
BY ConstantsAssumption DEF Units

\* A unit is either an archive or a store path.
LEMMA TwoKinds == Archives \cap Paths = {} /\ Archives \subseteq Units /\ Paths \subseteq Units
BY ConstantsAssumption DEF Units

\* The handlers are records of their type.
LEMMA HandlersTyped ==
    ASSUME IInv
    PROVE  rq \in [Requests -> Handlers]
BY DEF IInv, TypeOK, Handlers

\* The initial state satisfies the invariant.
LEMMA InitIInv == Init => IInv
<1> SUFFICES ASSUME Init PROVE IInv
  OBVIOUS
<1> USE ConstantsAssumption
<1>1. TypeOK
  BY DEF Init, TypeOK, Contents, Steps, Statuses
<1>2. Flights /\ Work
  BY DEF Init, Flights, Work, FlightSteps, BuildSteps, MountSteps, LinkSteps, Units
<1>3. SlotsAccounted
  <2>1. {r \in Requests : rq[r].pc \in BuildSteps} = {}
    BY DEF Init, BuildSteps
  <2> QED
    BY <2>1, FS_EmptySet, ConstantTypes, 0 <= MaxFetches DEF Init, SlotsAccounted
<1>4. ImagesWhole /\ NoStrayMountPoint
  BY DEF Init, ImagesWhole, NoStrayMountPoint, Units
<1>5. Shared /\ FaultsHeal
  BY DEF Init, Shared, FaultsHeal, Waiting
<1>6. Climbing
  BY DEF Init, Climbing, FlightSteps, BuildSteps, MountSteps
<1>7. LinkPassedOn
  BY DEF Init, LinkPassedOn, At, Trusting
<1> QED
  BY <1>1, <1>2, <1>3, <1>4, <1>5, <1>6, <1>7 DEF IInv

\* A fault reaches a request and those who wait for it, so all who share a flight.
LEMMA ReachedShared ==
    ASSUME IInv, NEW r \in Requests
    PROVE  /\ Reached(r) \subseteq Requests /\ r \in Reached(r)
           /\ rq[r].pc \in FlightSteps => Waiting(rq[r].unit) \subseteq Reached(r)
           /\ \A u \in Units : flight[u] \in hit \cup Reached(r) => Waiting(u) \subseteq hit \cup Reached(r)
<1>1. \A q : q \in Reached(r) <=> q = r \/ \E u \in Units : flight[u] = r /\ q \in Waiting(u)
  BY DEF Reached
<1>2. \A u : Waiting(u) \subseteq Requests /\ \A q \in Waiting(u) : rq[q].pc = "wait"
  BY DEF Waiting
<1>3. ASSUME NEW u \in Units, flight[u] \in hit \cup Reached(r) PROVE Waiting(u) \subseteq hit \cup Reached(r)
  <2>1. CASE flight[u] \in hit
    BY <2>1 DEF IInv, Shared
  <2>2. CASE flight[u] = r
    BY <2>2, <1>1
  <2>3. CASE rq[flight[u]].pc = "wait" /\ flight[u] # NoOne
    BY <2>3 DEF IInv, Flights, FlightSteps, BuildSteps, MountSteps
  <2>4. r # NoOne /\ \A v : NoOne \notin Waiting(v)
    BY <1>2, ConstantTypes
  <2> QED
    BY <1>1, <1>2, <1>3, <2>1, <2>2, <2>3, <2>4
<1> QED
  BY <1>1, <1>2, <1>3 DEF IInv, Flights

\* The builders are counted: one more takes a token, one less gives it back.
LEMMA BuildersCounted ==
    ASSUME IInv, NEW r \in Requests
    PROVE  /\ Building' = Building /\ slots' = slots => SlotsAccounted'
           /\ Building' = Building \cup {r} /\ r \notin Building /\ slots < MaxFetches /\ slots' = slots + 1
                 => SlotsAccounted'
           /\ r \in Building => slots \in Nat \ {0}
           /\ Building' = Building \ {r} /\ r \in Building /\ slots' = slots - 1 => SlotsAccounted'
<1>1. IsFiniteSet(Building) /\ slots = Cardinality(Building) /\ slots \in Nat /\ slots <= MaxFetches
  BY ConstantsAssumption, FS_Subset DEF IInv, TypeOK, SlotsAccounted, Building
<1>2. MaxFetches \in Nat
  BY ConstantsAssumption
<1>3. ASSUME Building' = Building, slots' = slots PROVE SlotsAccounted'
  BY <1>1, <1>3 DEF SlotsAccounted, Building
<1>4. ASSUME Building' = Building \cup {r}, r \notin Building, slots < MaxFetches, slots' = slots + 1
      PROVE  SlotsAccounted'
  <2>1. Cardinality(Building') = Cardinality(Building) + 1
    BY <1>1, <1>4, FS_AddElement
  <2> QED
    BY <1>1, <1>2, <1>4, <2>1 DEF SlotsAccounted, Building
<1>5. ASSUME r \in Building
      PROVE  Cardinality(Building \ {r}) = Cardinality(Building) - 1 /\ slots # 0
  BY <1>1, <1>5, FS_RemoveElement, FS_EmptySet
<1>6. ASSUME Building' = Building \ {r}, r \in Building, slots' = slots - 1
      PROVE  SlotsAccounted'
  <2>1. Cardinality(Building') = Cardinality(Building) - 1
    BY <1>5, <1>6
  <2> QED
    BY <1>1, <1>2, <1>6, <2>1 DEF SlotsAccounted, Building
<1> QED
  BY <1>1, <1>3, <1>4, <1>5, <1>6

\* The end of a flight moves its leader and its followers to Open or to their end.
LEMMA LandMoves ==
    ASSUME IInv, NEW r \in Requests, rq[r].pc \in FlightSteps,
           NEW res \in {"ok", "error", "notfound"}, Land(r, res)
    PROVE  /\ rq' \in [Requests -> Handlers]
           /\ flight' = [flight EXCEPT ![rq[r].unit] = NoOne]
           /\ \A q \in Requests \ (Waiting(rq[r].unit) \cup {r}) : rq'[q] = rq[q]
           /\ \A q \in Waiting(rq[r].unit) \cup {r} :
                 /\ rq'[q].pc \in {"open", "end"}
                 /\ rq'[q].asked = rq[q].asked
                 /\ rq'[q].pc = "open" =>
                       /\ res = "ok"
                       /\ rq'[q].hop = IF rq[r].unit \in Paths THEN rq[q].hop + 1 ELSE rq[q].hop
                 /\ rq'[q].status = "500" => res = "error" \/ rq[q].status = "500"
<1>1. \A q \in Requests : rq[q] \in Handlers
  BY HandlersTyped
<1>2. \A q \in Waiting(rq[r].unit) \cup {r} : q \in Requests /\ rq[q].unit = rq[r].unit
  BY DEF Waiting
<1>3. ASSUME NEW q \in Requests
      PROVE  /\ Landed(q, res) \in Handlers
             /\ Landed(q, res).pc \in {"open", "end"}
             /\ Landed(q, res).asked = rq[q].asked
             /\ Landed(q, res).pc = "open" =>
                   /\ res = "ok"
                   /\ Landed(q, res).hop = IF rq[q].unit \in Paths THEN rq[q].hop + 1 ELSE rq[q].hop
             /\ Landed(q, res).status = "500" => res = "error" \/ rq[q].status = "500"
  <2>1. CASE Outcome(q, res) = "ok"
    <3>1. res = "ok" /\ "open" \in Steps
      BY <2>1, StepNames DEF Outcome
    <3>2. Landed(q, res) = [rq[q] EXCEPT !.pc = "open",
                                         !.hop = IF rq[q].unit \in Paths THEN rq[q].hop + 1 ELSE rq[q].hop]
      BY <2>1 DEF Landed
    <3> DEFINE hop == IF rq[q].unit \in Paths THEN rq[q].hop + 1 ELSE rq[q].hop
    <3>3. hop \in Nat
      BY <1>1 DEF Handlers
    <3> HIDE DEF hop
    <3>4. Landed(q, res) = [rq[q] EXCEPT !.pc = "open", !.hop = hop]
      BY <3>2 DEF hop
    <3>5. /\ Landed(q, res) \in Handlers /\ Landed(q, res).pc = "open" /\ Landed(q, res).hop = hop
          /\ Landed(q, res).asked = rq[q].asked /\ Landed(q, res).status = rq[q].status
      BY <1>1, <3>1, <3>3, <3>4 DEF Handlers
    <3> QED
      BY <3>1, <3>5 DEF hop
  <2>2. CASE Outcome(q, res) # "ok"
    <3>1. StatusOf(Outcome(q, res)) \in {"404", "500"}
          /\ (StatusOf(Outcome(q, res)) = "500" => res = "error")
      BY <2>2 DEF Outcome, StatusOf
    <3> QED
      BY <1>1, <2>2, <3>1, StepNames DEF Landed, Ended, Handlers
  <2> QED
    BY <2>1, <2>2
<1>4. rq' \in [Requests -> Handlers]
  BY <1>1, <1>3 DEF Land
<1>5. \A q \in Requests \ (Waiting(rq[r].unit) \cup {r}) : rq'[q] = rq[q]
  BY DEF Land
<1>6. \A q \in Waiting(rq[r].unit) \cup {r} : rq'[q] = Landed(q, res)
  BY <1>2 DEF Land
<1> QED
  BY <1>2, <1>3, <1>4, <1>5, <1>6 DEF Land

\* One request moves and no flight begins or ends.
LEMMA MoveKeepsFlights ==
    ASSUME IInv, NEW r \in Requests,
           \A q \in Requests \ {r} : rq'[q] = rq[q],
           UNCHANGED <<flight, up, mounted>>, up \/ Active(r),
           rq[r].pc \in FlightSteps <=> rq'[r].pc \in FlightSteps,
           rq'[r].pc \in FlightSteps => rq'[r].unit = rq[r].unit,
           rq'[r].pc \in {"join", "wait"} => rq'[r].unit \in Units,
           rq'[r].pc \in LinkSteps => rq'[r].unit = ArchiveOf[BuildOf[r]] /\ rq'[r].unit \in Archives,
           rq'[r].pc \in {"trunc", "name"} => rq'[r].unit \in Archives,
           rq'[r].pc = "wait" => flight[rq'[r].unit] # NoOne,
           \A b \in link' : ArchiveOf[b] \in Archives
    PROVE  Flights'
<1>1. \A q \in Requests :
          /\ rq'[q].pc \in {"join", "wait"} \cup FlightSteps => rq'[q].unit \in Units
          /\ rq'[q].pc \in LinkSteps => rq'[q].unit = ArchiveOf[BuildOf[q]] /\ rq'[q].unit \in Archives
          /\ rq'[q].pc \in {"trunc", "name"} => rq'[q].unit \in Archives
  BY DEF IInv, Flights
<1>2. \A q \in Requests :
          /\ rq'[q].pc \in FlightSteps => flight'[rq'[q].unit] = q
          /\ rq'[q].pc = "wait" => flight'[rq'[q].unit] # NoOne
  BY DEF IInv, Flights
<1>3. \A u \in Units : flight'[u] # NoOne => /\ rq'[flight[u]].pc \in FlightSteps
                                             /\ rq'[flight[u]].unit = u
  BY DEF IInv, Flights, TypeOK
<1>4. up'
  BY DEF IInv, Flights
<1> QED
  BY <1>1, <1>2, <1>3, <1>4 DEF Flights

\* One request moves, makes no hop and, if it now wants a store path, either wanted it
\* before or has found all that come before it mounted.
LEMMA MoveKeepsClimbing ==
    ASSUME IInv, NEW r \in Requests,
           \A q \in Requests \ {r} : rq'[q] = rq[q],
           mounted' = mounted, rq[r].pc # "end", rq'[r].pc # "idle", rq'[r].hop = rq[r].hop,
           rq'[r].pc \in {"join", "wait"} \cup FlightSteps /\ rq'[r].unit \in Paths =>
               \/ rq[r].pc \in {"join", "wait"} \cup FlightSteps /\ rq'[r].unit = rq[r].unit
               \/ \E i \in 1..Len(Leads[r]) : /\ rq[r].hop < i
                                              /\ rq'[r].unit = Leads[r][i]
                                              /\ \A j \in 1..(i - 1) : Leads[r][j] \in mounted
    PROVE  Climbing'
<1>1. ASSUME NEW q \in Requests \ {r}, rq'[q].pc # "end"
      PROVE  /\ rq'[q].pc = "idle" => rq'[q].hop = 0
             /\ rq'[q].hop <= Len(Leads[q])
             /\ \A j \in 1..rq'[q].hop : Leads[q][j] \in mounted'
             /\ rq'[q].pc \in {"join", "wait"} \cup FlightSteps /\ rq'[q].unit \in Paths =>
                   \E i \in 1..Len(Leads[q]) : /\ rq'[q].hop < i
                                               /\ rq'[q].unit = Leads[q][i]
                                               /\ \A j \in 1..(i - 1) : Leads[q][j] \in mounted'
  <2>1. rq'[q] = rq[q]
    OBVIOUS
  <2> QED
    BY <1>1, <2>1 DEF IInv, Climbing
<1>2. /\ rq'[r].hop <= Len(Leads[r])
      /\ \A j \in 1..rq'[r].hop : Leads[r][j] \in mounted'
  BY DEF IInv, Climbing
<1>3. rq'[r].pc \in {"join", "wait"} \cup FlightSteps /\ rq'[r].unit \in Paths =>
          \E i \in 1..Len(Leads[r]) : /\ rq'[r].hop < i
                                      /\ rq'[r].unit = Leads[r][i]
                                      /\ \A j \in 1..(i - 1) : Leads[r][j] \in mounted'
  BY DEF IInv, Climbing
<1> QED
  BY <1>1, <1>2, <1>3 DEF Climbing

\* The requests of a build id that are about to work on its link change by one request.
LEMMA MoveAt ==
    ASSUME NEW r \in Requests, \A q \in Requests \ {r} : rq'[q] = rq[q], NEW b, NEW pc
    PROVE  /\ BuildOf[r] # b => At(b, pc)' = At(b, pc)
           /\ rq'[r].pc # pc => At(b, pc)' = At(b, pc) \ {r}
           /\ rq'[r].pc = pc /\ BuildOf[r] = b => At(b, pc)' = At(b, pc) \cup {r}
           /\ rq[r].pc # pc => r \notin At(b, pc)
BY DEF At

\* A request that ends, goes on, or goes on with a unit it wants, and nothing else.
LEMMA EndMoves ==
    ASSUME IInv, NEW r \in Requests, NEW status \in Statuses, End(r, status)
    PROVE  /\ rq' \in [Requests -> Handlers] /\ \A q \in Requests \ {r} : rq'[q] = rq[q]
           /\ rq'[r].unit = rq[r].unit /\ rq'[r].asked = rq[r].asked /\ rq'[r].hop = rq[r].hop
           /\ rq'[r].pc = "end" /\ rq'[r].status = status
BY HandlersTyped, StepNames, "end" \in Steps DEF End, Ended, Handlers

\* The same for Goto.
LEMMA GotoMoves ==
    ASSUME IInv, NEW r \in Requests, NEW pc \in Steps, Goto(r, pc)
    PROVE  /\ rq' \in [Requests -> Handlers] /\ \A q \in Requests \ {r} : rq'[q] = rq[q]
           /\ rq'[r].unit = rq[r].unit /\ rq'[r].asked = rq[r].asked /\ rq'[r].hop = rq[r].hop
           /\ rq'[r].pc = pc /\ rq'[r].status = rq[r].status
BY HandlersTyped DEF Goto, Handlers

\* The same for a move that chooses a unit.
LEMMA WantMoves ==
    ASSUME IInv, NEW r \in Requests, NEW pc \in Steps, NEW u \in Units,
           rq' = [rq EXCEPT ![r].pc = pc, ![r].unit = u]
    PROVE  /\ rq' \in [Requests -> Handlers] /\ \A q \in Requests \ {r} : rq'[q] = rq[q]
           /\ rq'[r].unit = u /\ rq'[r].asked = rq[r].asked /\ rq'[r].hop = rq[r].hop
           /\ rq'[r].pc = pc /\ rq'[r].status = rq[r].status
BY HandlersTyped DEF Handlers

\* A request moves outside flights and link making and changes nothing else but an index.
LEMMA QuietMove ==
    ASSUME IInv, NEW r \in Requests,
           rq' \in [Requests -> Handlers], \A q \in Requests \ {r} : rq'[q] = rq[q],
           UNCHANGED <<image, tmp, name, link, linkTmp, spoilt, dirs, kernel, mounted, broken, flight, slots,
                       gone, up, faults, hit>>,
           idx' \in [Builds -> {"none", "empty", "full"}],
           up \/ Active(r), rq[r].pc # "end", rq'[r].pc # "idle",
           rq[r].pc \notin FlightSteps \cup LinkSteps,
           rq'[r].pc \notin FlightSteps \cup LinkSteps \cup {"wait"},
           rq'[r].asked = rq[r].asked, rq'[r].hop = rq[r].hop,
           rq'[r].status = "500" => \/ rq[r].status = "500" \/ rq[r].hop = MaxResolveHops
                                    \/ r \in Unreadable \/ Refused(r),
           rq'[r].pc = "join" =>
               \/ rq'[r].unit \in Archives
               \/ \E i \in 1..Len(Leads[r]) : /\ rq[r].hop < i
                                              /\ rq'[r].unit = Leads[r][i]
                                              /\ \A j \in 1..(i - 1) : Leads[r][j] \in mounted
    PROVE  IInv'
<1>1. TypeOK'
  BY DEF IInv, TypeOK, Handlers
<1>2. rq'[r].pc = "join" => rq'[r].unit \in Units
  BY TwoKinds, ConstantTypes
<1>3. Flights'
  BY <1>2, MoveKeepsFlights DEF IInv, Flights, FlightSteps, BuildSteps
<1>4. Building' = Building
  BY DEF Building, FlightSteps
<1>5. SlotsAccounted'
  BY <1>4, BuildersCounted
<1>6. ImagesWhole' /\ Work'
  BY DEF IInv, ImagesWhole, Work, FlightSteps, BuildSteps, MountSteps
<1>7. NoStrayMountPoint'
  <2>1. rq[r].pc \notin {"mount", "record"}
    BY DEF FlightSteps, MountSteps
  <2> QED
    BY <2>1 DEF IInv, TypeOK, NoStrayMountPoint
<1>8. \A u \in Units : Waiting(u)' \subseteq Waiting(u)
  BY DEF Waiting
<1>9. Shared'
  BY <1>8 DEF IInv, Shared
<1>10. FaultsHeal'
  BY DEF IInv, FaultsHeal, Refused, Climbing
<1>11. Climbing'
  BY TwoKinds, MoveKeepsClimbing
<1>12. \A b : /\ At(b, "clear")' = At(b, "clear") /\ At(b, "symlink")' = At(b, "symlink")
              /\ At(b, "rename")' = At(b, "rename")
  BY DEF At, LinkSteps
<1>14. \A b : /\ Trusting(b, "symlink")' = Trusting(b, "symlink")
              /\ Trusting(b, "rename")' = Trusting(b, "rename")
  BY DEF Trusting, LinkSteps
<1>13. LinkPassedOn'
  BY <1>12, <1>14 DEF IInv, LinkPassedOn
<1> QED
  BY <1>1, <1>3, <1>5, <1>6, <1>7, <1>9, <1>10, <1>11, <1>13 DEF IInv

\* A leader moves on inside its flight: what is about flights, faults, hops and links stays.
LEMMA FlightMove ==
    ASSUME IInv, NEW r \in Requests, \A q \in Requests \ {r} : rq'[q] = rq[q],
           UNCHANGED <<link, linkTmp, spoilt, mounted, flight, gone, up, hit>>,
           rq[r].pc \in FlightSteps, rq'[r].pc \in FlightSteps,
           rq'[r].pc \in {"trunc", "name"} => rq'[r].unit \in Archives,
           rq'[r].unit = rq[r].unit, rq'[r].asked = rq[r].asked, rq'[r].hop = rq[r].hop,
           rq'[r].status = rq[r].status
    PROVE  Flights' /\ Shared' /\ FaultsHeal' /\ Climbing' /\ LinkPassedOn'
<1>1. /\ rq[r].pc \notin LinkSteps /\ rq'[r].pc \notin LinkSteps
      /\ rq'[r].pc \notin {"idle", "join", "wait"} /\ rq[r].pc # "end" /\ Active(r)
  BY DEF FlightSteps, BuildSteps, MountSteps, LinkSteps, Active
<1>2. Flights'
  BY <1>1, MoveKeepsFlights DEF IInv, Flights
<1>3. \A u \in Units : Waiting(u)' \subseteq Waiting(u)
  BY <1>1 DEF Waiting
<1>4. Shared' /\ FaultsHeal'
  BY <1>3 DEF IInv, Shared, FaultsHeal
<1>5. Climbing'
  BY <1>1, MoveKeepsClimbing
<1>6. \A b : /\ At(b, "clear")' = At(b, "clear") /\ At(b, "symlink")' = At(b, "symlink")
             /\ At(b, "rename")' = At(b, "rename")
  BY <1>1 DEF At, LinkSteps
<1>8. \A b : /\ Trusting(b, "symlink")' = Trusting(b, "symlink")
             /\ Trusting(b, "rename")' = Trusting(b, "rename")
  BY <1>1 DEF Trusting, LinkSteps
<1>7. LinkPassedOn'
  BY <1>6, <1>8 DEF IInv, LinkPassedOn
<1> QED
  BY <1>2, <1>4, <1>5, <1>7

\* Arrive preserves the invariant.
LEMMA ArriveKeepsIInv ==
    ASSUME IInv, NEW r \in Requests, Arrive(r)
    PROVE  IInv'
<1>1. \/ End(r, "500") /\ Refused(r)
      \/ \E pc \in {"open", "link"} : Goto(r, pc)
  BY DEF Arrive, StatusOf
<1>2. rq' \in [Requests -> Handlers]
  BY <1>1, EndMoves, GotoMoves, StepNames
<1>3. \A q \in Requests \ {r} : rq'[q] = rq[q]
  BY <1>1, EndMoves, GotoMoves, StepNames
<1>4. /\ up /\ rq[r].pc = "idle"
      /\ rq'[r].unit = rq[r].unit /\ rq'[r].asked = rq[r].asked /\ rq'[r].hop = rq[r].hop
      /\ \/ rq'[r].pc \in {"open", "link"} /\ rq'[r].status = rq[r].status
         \/ rq'[r].pc = "end" /\ Refused(r)
  BY <1>1, EndMoves, GotoMoves, StepNames DEF Arrive
<1>5. UNCHANGED <<image, tmp, name, link, linkTmp, spoilt, dirs, kernel, mounted, broken, flight, slots,
                  idx, gone, up, faults, hit>>
  BY DEF Arrive, files, links, mounts, world
<1> QED
  BY <1>2, <1>3, <1>4, <1>5, QuietMove
     DEF IInv, TypeOK, Active, FlightSteps, BuildSteps, MountSteps, LinkSteps

\* ReadLink preserves the invariant.
LEMMA ReadLinkKeepsIInv ==
    ASSUME IInv, NEW r \in Requests, ReadLink(r)
    PROVE  IInv'
<1>0. {"meta", "join"} \subseteq Steps /\ ArchiveOf[BuildOf[r]] \in Units \cup {NoOne}
  BY StepNames, ConstantTypes, TwoKinds
<1>1. rq \in [Requests -> Handlers]
  BY HandlersTyped
<1>2. rq' \in [Requests -> Handlers]
  BY <1>0, <1>1 DEF ReadLink, Goto, Handlers
<1>3. \A q \in Requests \ {r} : rq'[q] = rq[q]
  BY <1>1 DEF ReadLink, Goto
<1>4. /\ rq[r].pc = "link"
      /\ rq'[r].asked = rq[r].asked /\ rq'[r].hop = rq[r].hop /\ rq'[r].status = rq[r].status
      /\ \/ rq'[r].pc = "meta"
         \/ rq'[r].pc = "join" /\ rq'[r].unit \in Archives
  BY <1>1 DEF ReadLink, Goto, Handlers, IInv, Flights
<1>5. UNCHANGED <<image, tmp, name, link, linkTmp, spoilt, dirs, kernel, mounted, broken, flight, slots,
                  idx, gone, up, faults, hit>>
  BY DEF ReadLink, Goto, files, links, mounts, world
<1> QED
  BY <1>2, <1>3, <1>4, <1>5, QuietMove
     DEF IInv, TypeOK, Active, FlightSteps, BuildSteps, MountSteps, LinkSteps

\* A fault leaves the counter in range and its mark on r.
LEMMA FaultReaches ==
    ASSUME IInv, NEW r \in Requests, NEW kind, Fault(kind, r)
    PROVE  faults' \in 0..MaxFaults /\ hit' = hit \cup Reached(r) /\ r \in hit'
BY ReachedShared, ConstantsAssumption DEF Fault, IInv, TypeOK

\* DebuginfoMeta preserves the invariant.
LEMMA DebuginfoMetaKeepsIInv ==
    ASSUME IInv, NEW r \in Requests, DebuginfoMeta(r)
    PROVE  IInv'
<1>1. \/ End(r, "404") /\ hit' = hit
      \/ End(r, "500") /\ hit' = hit /\ r \in gone
      \/ End(r, "500") /\ hit' = hit \cup Reached(r)
      \/ /\ rq' = [rq EXCEPT ![r].pc = "clear", ![r].unit = ArchiveOf[BuildOf[r]]]
         /\ ArchiveOf[BuildOf[r]] \in Archives /\ ArchiveOf[BuildOf[r]] \in Units /\ hit' = hit
  BY ConstantTypes, TwoKinds DEF DebuginfoMeta, CallFails, Fault, StatusOf
<1>2. rq' \in [Requests -> Handlers]
  BY <1>1, EndMoves, GotoMoves, WantMoves, StepNames
<1>3. \A q \in Requests \ {r} : rq'[q] = rq[q]
  BY <1>1, EndMoves, GotoMoves, WantMoves, StepNames
<1>4. /\ rq[r].pc = "meta"
      /\ rq'[r].asked = rq[r].asked /\ rq'[r].hop = rq[r].hop
      /\ \/ rq'[r].pc = "end" /\ hit' = hit /\ (rq'[r].status = "500" => r \in gone)
         \/ rq'[r].pc = "end" /\ hit' = hit \cup Reached(r)
         \/ /\ rq'[r].pc = "clear" /\ rq'[r].unit = ArchiveOf[BuildOf[r]] /\ rq'[r].unit \in Archives
            /\ rq'[r].status = rq[r].status /\ hit' = hit
  BY <1>1, EndMoves, GotoMoves, WantMoves, StepNames DEF DebuginfoMeta, IInv, Flights
<1>5. UNCHANGED <<image, tmp, name, link, linkTmp, spoilt, dirs, kernel, mounted, broken, flight, slots,
                  idx, gone, up>>
  BY DEF DebuginfoMeta, End, Ended, StatusOf, CallFails, Fault, files, links, mounts, world
<1>6. faults' \in 0..MaxFaults /\ hit' \subseteq Requests
  BY ReachedShared, ConstantsAssumption DEF DebuginfoMeta, CallFails, Fault, IInv, TypeOK
<1>7. TypeOK'
  BY <1>2, <1>3, <1>4, <1>5, <1>6 DEF IInv, TypeOK, Handlers
<1>8. Flights'
  BY <1>2, <1>3, <1>4, <1>5, TwoKinds, MoveKeepsFlights DEF IInv, Flights, Active, FlightSteps,
     BuildSteps, MountSteps, LinkSteps
<1>9. Building' = Building
  BY <1>2, <1>3, <1>4, <1>5 DEF Handlers, Building, FlightSteps, BuildSteps, MountSteps, LinkSteps
<1>10. SlotsAccounted'
  BY <1>2, <1>3, <1>4, <1>5, <1>9, BuildersCounted DEF IInv
<1>11. ImagesWhole'
  BY <1>2, <1>3, <1>4, <1>5 DEF IInv, TypeOK, ImagesWhole, Work, Flights, FlightSteps,
     BuildSteps, MountSteps, LinkSteps
<1>12. Work'
  BY <1>2, <1>3, <1>4, <1>5, TwoKinds DEF IInv, TypeOK, ImagesWhole, Work, Flights, Contents,
     FlightSteps, BuildSteps, MountSteps, LinkSteps
<1>13. NoStrayMountPoint'
  BY <1>2, <1>3, <1>4, <1>5 DEF IInv, TypeOK, NoStrayMountPoint, Flights, FlightSteps,
     BuildSteps, MountSteps, LinkSteps
<1>14. \A u \in Units : Waiting(u)' \subseteq Waiting(u)
  BY <1>2, <1>3, <1>4, <1>5 DEF Waiting, FlightSteps, BuildSteps, MountSteps, LinkSteps
<1>15. Shared'
  BY <1>2, <1>3, <1>4, <1>5, <1>14, ReachedShared DEF IInv, Shared
<1>16. FaultsHeal'
  BY <1>2, <1>3, <1>4, <1>5, ReachedShared DEF IInv, FaultsHeal, Shared, Climbing
<1>17. Climbing'
  BY <1>2, <1>3, <1>4, <1>5, TwoKinds, MoveKeepsClimbing DEF FlightSteps, BuildSteps,
     MountSteps, LinkSteps
<1>18. LinkPassedOn'
  <2>1. \A b : /\ At(b, "clear") \subseteq At(b, "clear")' /\ At(b, "symlink")' = At(b, "symlink")
               /\ At(b, "rename")' = At(b, "rename")
    BY <1>3, <1>4 DEF At
  <2>2. \A b : /\ Trusting(b, "symlink")' = Trusting(b, "symlink")
               /\ Trusting(b, "rename")' = Trusting(b, "rename")
    BY <1>3, <1>4, <1>5 DEF Trusting
  <2> QED
    BY <1>5, <2>1, <2>2 DEF IInv, LinkPassedOn
<1> QED
  BY <1>7, <1>8, <1>10, <1>11, <1>12, <1>13, <1>15, <1>16, <1>17, <1>18 DEF IInv

\* ClearLinkTmp preserves the invariant.
LEMMA ClearLinkTmpKeepsIInv ==
    ASSUME IInv, NEW r \in Requests, ClearLinkTmp(r)
    PROVE  IInv'
<1>0. {"symlink"} \subseteq Steps
  BY StepNames
<1>1. rq \in [Requests -> Handlers]
  BY HandlersTyped
<1>2. rq' \in [Requests -> Handlers]
  BY <1>0, <1>1 DEF ClearLinkTmp, Goto, Handlers
<1>3. \A q \in Requests \ {r} : rq'[q] = rq[q]
  BY <1>1 DEF ClearLinkTmp, Goto
<1>4. /\ rq[r].pc = "clear"
      /\ rq'[r].unit = rq[r].unit /\ rq'[r].asked = rq[r].asked /\ rq'[r].hop = rq[r].hop
      /\ rq'[r].status = rq[r].status
      /\ rq'[r].pc = "symlink" /\ linkTmp' = linkTmp \ {BuildOf[r]}
  BY <1>1 DEF ClearLinkTmp, Goto, Handlers
<1>5. UNCHANGED <<image, tmp, name, link, spoilt, dirs, kernel, mounted, broken, flight, slots, idx,
                  gone, up, faults, hit>>
  BY DEF ClearLinkTmp, Goto, files, links, mounts, world
<1>6. TypeOK'
  BY <1>2, <1>3, <1>4, <1>5 DEF IInv, TypeOK, Handlers
<1>7. Flights'
  BY <1>2, <1>3, <1>4, <1>5, TwoKinds, MoveKeepsFlights DEF IInv, Flights, Active, FlightSteps,
     BuildSteps, MountSteps, LinkSteps
<1>8. Building' = Building
  BY <1>2, <1>3, <1>4, <1>5 DEF Handlers, Building, FlightSteps, BuildSteps, MountSteps, LinkSteps
<1>9. SlotsAccounted'
  BY <1>2, <1>3, <1>4, <1>5, <1>8, BuildersCounted DEF IInv
<1>10. ImagesWhole'
  BY <1>2, <1>3, <1>4, <1>5 DEF IInv, TypeOK, ImagesWhole, Work, Flights, FlightSteps,
     BuildSteps, MountSteps, LinkSteps
<1>11. Work'
  BY <1>2, <1>3, <1>4, <1>5, TwoKinds DEF IInv, TypeOK, ImagesWhole, Work, Flights, Contents,
     FlightSteps, BuildSteps, MountSteps, LinkSteps
<1>12. NoStrayMountPoint'
  BY <1>2, <1>3, <1>4, <1>5 DEF IInv, TypeOK, NoStrayMountPoint, Flights, FlightSteps,
     BuildSteps, MountSteps, LinkSteps
<1>13. \A u \in Units : Waiting(u)' \subseteq Waiting(u)
  BY <1>2, <1>3, <1>4, <1>5 DEF Waiting, FlightSteps, BuildSteps, MountSteps, LinkSteps
<1>14. Shared'
  BY <1>2, <1>3, <1>4, <1>5, <1>13 DEF IInv, Shared
<1>15. FaultsHeal'
  BY <1>2, <1>3, <1>4, <1>5 DEF IInv, FaultsHeal, Shared, Climbing
<1>16. Climbing'
  BY <1>2, <1>3, <1>4, <1>5, TwoKinds, MoveKeepsClimbing DEF FlightSteps, BuildSteps,
     MountSteps, LinkSteps
<1>17. LinkPassedOn'
  <2>1. ASSUME NEW b \in Builds \ link, b # BuildOf[r]
        PROVE  /\ At(b, "clear")' = At(b, "clear") /\ At(b, "symlink")' = At(b, "symlink")
               /\ At(b, "rename")' = At(b, "rename") /\ (b \in linkTmp' <=> b \in linkTmp)
    BY <1>3, <1>4, <2>1, MoveAt
  <2>2. BuildOf[r] \notin linkTmp' /\ r \in At(BuildOf[r], "symlink")'
    BY <1>4, <1>5, MoveAt, <1>3
  <2>3. ASSUME NEW b \in Builds \ link, b # BuildOf[r], NEW pc
        PROVE  Trusting(b, pc)' = Trusting(b, pc)
    BY <1>3, <1>5, <2>3 DEF Trusting
  <2> QED
    BY <1>5, <2>1, <2>2, <2>3 DEF IInv, LinkPassedOn
<1> QED
  BY <1>6, <1>7, <1>9, <1>10, <1>11, <1>12, <1>14, <1>15, <1>16, <1>17 DEF IInv

\* SymlinkTmp preserves the invariant.
LEMMA SymlinkTmpKeepsIInv ==
    ASSUME IInv, NEW r \in Requests, SymlinkTmp(r)
    PROVE  IInv'
<1>0. {"join", "rename"} \subseteq Steps
  BY StepNames
<1>1. rq \in [Requests -> Handlers]
  BY HandlersTyped
<1>2. rq' \in [Requests -> Handlers]
  BY <1>0, <1>1 DEF SymlinkTmp, Goto, Handlers
<1>3. \A q \in Requests \ {r} : rq'[q] = rq[q]
  BY <1>1 DEF SymlinkTmp, Goto
<1>4. /\ rq[r].pc = "symlink"
      /\ rq'[r].unit = rq[r].unit /\ rq'[r].hop = rq[r].hop /\ rq'[r].status = rq[r].status
      /\ /\ linkTmp' = linkTmp \cup {BuildOf[r]}
         /\ IF BuildOf[r] \in linkTmp THEN rq'[r].pc = "join" ELSE rq'[r].pc = "rename" /\ rq'[r].asked = rq[r].asked
  BY <1>1 DEF SymlinkTmp, Goto, Handlers
<1>5. UNCHANGED <<image, tmp, name, link, spoilt, dirs, kernel, mounted, broken, flight, slots, idx,
                  gone, up, faults, hit>>
  BY DEF SymlinkTmp, Goto, files, links, mounts, world
<1>6. TypeOK'
  BY <1>2, <1>4, <1>5, ConstantTypes DEF IInv, TypeOK, Handlers
<1>7. Flights'
  BY <1>2, <1>3, <1>4, <1>5, TwoKinds, MoveKeepsFlights DEF IInv, Flights, Active, FlightSteps,
     BuildSteps, MountSteps, LinkSteps
<1>8. Building' = Building
  BY <1>2, <1>3, <1>4, <1>5 DEF Handlers, Building, FlightSteps, BuildSteps, MountSteps, LinkSteps
<1>9. SlotsAccounted'
  BY <1>2, <1>3, <1>4, <1>5, <1>8, BuildersCounted DEF IInv
<1>10. ImagesWhole'
  BY <1>2, <1>3, <1>4, <1>5 DEF IInv, TypeOK, ImagesWhole, Work, Flights, FlightSteps,
     BuildSteps, MountSteps, LinkSteps
<1>11. Work'
  BY <1>2, <1>3, <1>4, <1>5, TwoKinds DEF IInv, TypeOK, ImagesWhole, Work, Flights, Contents,
     FlightSteps, BuildSteps, MountSteps, LinkSteps
<1>12. NoStrayMountPoint'
  BY <1>2, <1>3, <1>4, <1>5 DEF IInv, TypeOK, NoStrayMountPoint, Flights, FlightSteps,
     BuildSteps, MountSteps, LinkSteps
<1>13. \A u \in Units : Waiting(u)' \subseteq Waiting(u)
  BY <1>2, <1>3, <1>4, <1>5 DEF Waiting, FlightSteps, BuildSteps, MountSteps, LinkSteps
<1>14. Shared'
  BY <1>2, <1>3, <1>4, <1>5, <1>13 DEF IInv, Shared
<1>15. FaultsHeal'
  BY <1>2, <1>3, <1>4, <1>5 DEF IInv, FaultsHeal, Shared, Climbing
<1>16. Climbing'
  BY <1>2, <1>3, <1>4, <1>5, TwoKinds, MoveKeepsClimbing DEF IInv, Flights, FlightSteps,
     BuildSteps, MountSteps, LinkSteps
<1>17. LinkPassedOn'
  <2>1. ASSUME NEW b \in Builds \ link, b # BuildOf[r]
        PROVE  /\ At(b, "clear")' = At(b, "clear") /\ At(b, "symlink")' = At(b, "symlink")
               /\ At(b, "rename")' = At(b, "rename") /\ (b \in linkTmp' <=> b \in linkTmp)
               /\ \A q \in Requests : BuildOf[q] = b => rq'[q] = rq[q]
    BY <1>3, <1>4, <2>1, MoveAt
  <2>2. ASSUME NEW b \in Builds \ link, b # BuildOf[r], NEW pc
        PROVE  Trusting(b, pc)' = Trusting(b, pc)
    BY <1>3, <1>5, <2>2 DEF Trusting
  <2>3. ASSUME BuildOf[r] \notin link, Trusting(BuildOf[r], "symlink")' # {}
        PROVE  At(BuildOf[r], "rename")' # {}
    <3>1. CASE BuildOf[r] \in linkTmp
      <4>1. Trusting(BuildOf[r], "symlink") # {}
        BY <1>3, <1>4, <1>5, <2>3 DEF Trusting
      <4>2. PICK q \in At(BuildOf[r], "rename") : TRUE
        BY <2>3, <3>1, <4>1, ConstantTypes DEF IInv, LinkPassedOn
      <4>3. q \in At(BuildOf[r], "rename")'
        BY <1>3, <1>4, <4>2 DEF At
      <4> QED
        BY <4>3
    <3>2. CASE BuildOf[r] \notin linkTmp
      BY <1>4, <3>2 DEF At
    <3> QED
      BY <3>1, <3>2
  <2> QED
    BY <1>4, <1>5, <2>1, <2>2, <2>3 DEF IInv, LinkPassedOn
<1> QED
  BY <1>6, <1>7, <1>9, <1>10, <1>11, <1>12, <1>14, <1>15, <1>16, <1>17 DEF IInv

\* RenameLink preserves the invariant.
LEMMA RenameLinkKeepsIInv ==
    ASSUME IInv, NEW r \in Requests, RenameLink(r)
    PROVE  IInv'
<1>0. {"join"} \subseteq Steps
  BY StepNames
<1>1. rq \in [Requests -> Handlers]
  BY HandlersTyped
<1>2. rq' \in [Requests -> Handlers]
  BY <1>0, <1>1 DEF RenameLink, Handlers
<1>3. \A q \in Requests \ {r} : rq'[q] = rq[q]
  BY <1>1 DEF RenameLink
<1>4. /\ rq[r].pc = "rename"
      /\ rq'[r].unit = rq[r].unit /\ rq'[r].hop = rq[r].hop /\ rq'[r].status = rq[r].status
      /\ /\ rq'[r].pc = "join" /\ linkTmp' = linkTmp \ {BuildOf[r]}
         /\ link' = IF BuildOf[r] \in linkTmp THEN link \cup {BuildOf[r]} ELSE link
  BY <1>1 DEF RenameLink, Handlers
<1>5. UNCHANGED <<image, tmp, name, spoilt, dirs, kernel, mounted, broken, flight, slots, idx, gone, up,
                  faults, hit>>
  BY DEF RenameLink, files, links, mounts, world
<1>6. TypeOK'
  BY <1>2, <1>3, <1>4, <1>5 DEF IInv, TypeOK, Handlers
<1>7. Flights'
  BY <1>2, <1>3, <1>4, <1>5, TwoKinds, MoveKeepsFlights DEF IInv, Flights, Active, FlightSteps,
     BuildSteps, MountSteps, LinkSteps
<1>8. Building' = Building
  BY <1>2, <1>3, <1>4, <1>5 DEF Handlers, Building, FlightSteps, BuildSteps, MountSteps, LinkSteps
<1>9. SlotsAccounted'
  BY <1>2, <1>3, <1>4, <1>5, <1>8, BuildersCounted DEF IInv
<1>10. ImagesWhole'
  BY <1>2, <1>3, <1>4, <1>5 DEF IInv, TypeOK, ImagesWhole, Work, Flights, FlightSteps,
     BuildSteps, MountSteps, LinkSteps
<1>11. Work'
  BY <1>2, <1>3, <1>4, <1>5, TwoKinds DEF IInv, TypeOK, ImagesWhole, Work, Flights, Contents,
     FlightSteps, BuildSteps, MountSteps, LinkSteps
<1>12. NoStrayMountPoint'
  BY <1>2, <1>3, <1>4, <1>5 DEF IInv, TypeOK, NoStrayMountPoint, Flights, FlightSteps,
     BuildSteps, MountSteps, LinkSteps
<1>13. \A u \in Units : Waiting(u)' \subseteq Waiting(u)
  BY <1>2, <1>3, <1>4, <1>5 DEF Waiting, FlightSteps, BuildSteps, MountSteps, LinkSteps
<1>14. Shared'
  BY <1>2, <1>3, <1>4, <1>5, <1>13 DEF IInv, Shared
<1>15. FaultsHeal'
  BY <1>2, <1>3, <1>4, <1>5 DEF IInv, FaultsHeal, Shared, Climbing
<1>16. Climbing'
  BY <1>2, <1>3, <1>4, <1>5, TwoKinds, MoveKeepsClimbing DEF IInv, Flights, FlightSteps,
     BuildSteps, MountSteps, LinkSteps
<1>17. LinkPassedOn'
  <2>1. ASSUME NEW b \in Builds \ link, b # BuildOf[r]
        PROVE  /\ At(b, "clear")' = At(b, "clear") /\ At(b, "symlink")' = At(b, "symlink")
               /\ At(b, "rename")' = At(b, "rename") /\ (b \in linkTmp' <=> b \in linkTmp)
               /\ \A q \in Requests : BuildOf[q] = b => rq'[q] = rq[q]
    BY <1>3, <1>4, <2>1, MoveAt
  <2>2. ASSUME NEW b \in Builds \ link, b # BuildOf[r], NEW pc
        PROVE  Trusting(b, pc)' = Trusting(b, pc)
    BY <1>3, <1>5, <2>2 DEF Trusting
  <2>3. ASSUME BuildOf[r] \notin link', Trusting(BuildOf[r], "rename")' # {}
        PROVE  At(BuildOf[r], "symlink")' # {}
    <3>1. BuildOf[r] \notin linkTmp /\ BuildOf[r] \notin link
      BY <1>4, <2>3
    <3>2. Trusting(BuildOf[r], "rename") # {}
      BY <1>3, <1>4, <1>5, <2>3 DEF Trusting
    <3>3. At(BuildOf[r], "symlink") # {}
      BY <3>1, <3>2, ConstantTypes DEF IInv, LinkPassedOn
    <3>4. At(BuildOf[r], "symlink")' = At(BuildOf[r], "symlink")
      BY <1>3, <1>4 DEF At
    <3> QED
      BY <3>3, <3>4
  <2>4. \A b \in Builds \ link' : b \in Builds \ link
    BY <1>4
  <2>5. BuildOf[r] \notin linkTmp'
    BY <1>4
  <2> QED
    BY <2>1, <2>2, <2>3, <2>4, <2>5 DEF IInv, LinkPassedOn
<1> QED
  BY <1>6, <1>7, <1>9, <1>10, <1>11, <1>12, <1>14, <1>15, <1>16, <1>17 DEF IInv

\* LinkDirFails preserves the invariant.
LEMMA LinkDirFailsKeepsIInv ==
    ASSUME IInv, NEW r \in Requests, LinkDirFails(r)
    PROVE  IInv'
<1>1. End(r, "500") /\ Fault("disk", r)
  BY DEF LinkDirFails, StatusOf
<1>2. rq' \in [Requests -> Handlers]
  BY <1>1, EndMoves, StepNames
<1>3. \A q \in Requests \ {r} : rq'[q] = rq[q]
  BY <1>1, EndMoves, StepNames
<1>4. /\ rq[r].pc = "clear"
      /\ rq'[r].asked = rq[r].asked /\ rq'[r].hop = rq[r].hop
      /\ rq'[r].pc = "end" /\ hit' = hit \cup Reached(r)
  BY <1>1, EndMoves, StepNames, FaultReaches DEF LinkDirFails
<1>5. UNCHANGED <<image, tmp, name, link, linkTmp, spoilt, dirs, kernel, mounted, broken, flight, slots,
                  idx, gone, up>>
  BY DEF LinkDirFails, End, files, links, mounts, world
<1>6. faults' \in 0..MaxFaults /\ hit' \subseteq Requests
  BY <1>1, FaultReaches, ReachedShared DEF IInv, TypeOK
<1>7. TypeOK'
  BY <1>2, <1>3, <1>4, <1>5, <1>6 DEF IInv, TypeOK, Handlers
<1>8. Flights'
  BY <1>2, <1>3, <1>4, <1>5, TwoKinds, MoveKeepsFlights DEF IInv, Flights, Active, FlightSteps,
     BuildSteps, MountSteps, LinkSteps
<1>9. Building' = Building
  BY <1>2, <1>3, <1>4, <1>5 DEF Handlers, Building, FlightSteps, BuildSteps, MountSteps, LinkSteps
<1>10. SlotsAccounted'
  BY <1>2, <1>3, <1>4, <1>5, <1>9, BuildersCounted DEF IInv
<1>11. ImagesWhole'
  BY <1>2, <1>3, <1>4, <1>5 DEF IInv, TypeOK, ImagesWhole, Work, Flights, FlightSteps,
     BuildSteps, MountSteps, LinkSteps
<1>12. Work'
  BY <1>2, <1>3, <1>4, <1>5, TwoKinds DEF IInv, TypeOK, ImagesWhole, Work, Flights, Contents,
     FlightSteps, BuildSteps, MountSteps, LinkSteps
<1>13. NoStrayMountPoint'
  BY <1>2, <1>3, <1>4, <1>5 DEF IInv, TypeOK, NoStrayMountPoint, Flights, FlightSteps,
     BuildSteps, MountSteps, LinkSteps
<1>14. \A u \in Units : Waiting(u)' \subseteq Waiting(u)
  BY <1>2, <1>3, <1>4, <1>5 DEF Waiting, FlightSteps, BuildSteps, MountSteps, LinkSteps
<1>15. Shared'
  BY <1>2, <1>3, <1>4, <1>5, <1>14, ReachedShared DEF IInv, Shared
<1>16. FaultsHeal'
  BY <1>2, <1>3, <1>4, <1>5, ReachedShared DEF IInv, FaultsHeal, Shared, Climbing
<1>17. Climbing'
  BY <1>2, <1>3, <1>4, <1>5, TwoKinds, MoveKeepsClimbing DEF FlightSteps, BuildSteps,
     MountSteps, LinkSteps
<1>18. LinkPassedOn'
  <2>1. \A b : /\ At(b, "symlink")' = At(b, "symlink")
               /\ At(b, "rename")' = At(b, "rename")
    BY <1>3, <1>4 DEF At
  <2>2. \A b : /\ Trusting(b, "symlink")' = Trusting(b, "symlink")
               /\ Trusting(b, "rename")' = Trusting(b, "rename")
    BY <1>3, <1>4, <1>5 DEF Trusting
  <2> QED
    BY <1>5, <2>1, <2>2 DEF IInv, LinkPassedOn
<1> QED
  BY <1>7, <1>8, <1>10, <1>11, <1>12, <1>13, <1>15, <1>16, <1>17, <1>18 DEF IInv

\* LinkFails preserves the invariant.
LEMMA LinkFailsKeepsIInv ==
    ASSUME IInv, NEW r \in Requests, LinkFails(r)
    PROVE  IInv'
<1>0. {"symlink", "join"} \subseteq Steps /\ Fault("disk", r)
  BY StepNames DEF LinkFails
<1>1. rq \in [Requests -> Handlers]
  BY HandlersTyped
<1>2. rq' \in [Requests -> Handlers]
  BY <1>0, <1>1 DEF LinkFails, Goto, Handlers
<1>3. \A q \in Requests \ {r} : rq'[q] = rq[q]
  BY <1>1 DEF LinkFails, Goto
<1>4. /\ rq[r].pc \in LinkSteps /\ rq'[r].pc \in {"symlink", "join"}
      /\ rq'[r].unit = rq[r].unit /\ rq'[r].hop = rq[r].hop /\ rq'[r].status = rq[r].status
      /\ hit' = hit \cup Reached(r) /\ spoilt' = spoilt \cup OnItsWay(BuildOf[r])
  BY <1>0, <1>1, FaultReaches DEF LinkFails, Goto, Handlers
<1>5. UNCHANGED <<image, tmp, name, link, linkTmp, dirs, kernel, mounted, broken, flight, slots,
                  idx, gone, up>>
  BY DEF LinkFails, files, mounts, world
<1>6. faults' \in 0..MaxFaults /\ hit' \subseteq Requests /\ spoilt' \subseteq Requests
  BY <1>0, <1>4, FaultReaches, ReachedShared DEF IInv, TypeOK, OnItsWay
<1>7. TypeOK'
  BY <1>2, <1>3, <1>4, <1>5, <1>6 DEF IInv, TypeOK, Handlers
<1>8. Flights'
  BY <1>2, <1>3, <1>4, <1>5, TwoKinds, MoveKeepsFlights DEF IInv, Flights, Active, FlightSteps,
     BuildSteps, MountSteps, LinkSteps
<1>9. Building' = Building
  BY <1>2, <1>3, <1>4, <1>5 DEF Handlers, Building, FlightSteps, BuildSteps, MountSteps, LinkSteps
<1>10. SlotsAccounted'
  BY <1>2, <1>3, <1>4, <1>5, <1>9, BuildersCounted DEF IInv
<1>11. ImagesWhole'
  BY <1>2, <1>3, <1>4, <1>5 DEF IInv, TypeOK, ImagesWhole, Work, Flights, FlightSteps,
     BuildSteps, MountSteps, LinkSteps
<1>12. Work'
  BY <1>2, <1>3, <1>4, <1>5, TwoKinds DEF IInv, TypeOK, ImagesWhole, Work, Flights, Contents,
     FlightSteps, BuildSteps, MountSteps, LinkSteps
<1>13. NoStrayMountPoint'
  BY <1>2, <1>3, <1>4, <1>5 DEF IInv, TypeOK, NoStrayMountPoint, Flights, FlightSteps,
     BuildSteps, MountSteps, LinkSteps
<1>14. \A u \in Units : Waiting(u)' \subseteq Waiting(u)
  BY <1>2, <1>3, <1>4, <1>5 DEF Waiting, FlightSteps, BuildSteps, MountSteps, LinkSteps
<1>15. Shared'
  BY <1>2, <1>3, <1>4, <1>5, <1>14, ReachedShared DEF IInv, Shared
<1>16. FaultsHeal'
  <2>1. \A q \in Requests : rq'[q].status = rq[q].status
    BY <1>3, <1>4
  <2>2. hit \subseteq hit'
    BY <1>4
  <2> QED
    BY <2>1, <2>2 DEF IInv, FaultsHeal
<1>17. Climbing'
  <2>1. rq[r].pc \notin {"idle", "end"} /\ rq'[r].pc \notin {"idle", "end"}
    BY <1>4 DEF LinkSteps
  <2>2. rq'[r].unit \notin Paths
    BY <1>4, TwoKinds DEF IInv, Flights
  <2> QED
    BY <1>3, <1>4, <1>5, <2>1, <2>2, MoveKeepsClimbing
<1>18. LinkPassedOn'
  <2>1. ASSUME NEW b \in Builds \ link, b # BuildOf[r]
        PROVE  At(b, "symlink")' = At(b, "symlink") /\ At(b, "rename")' = At(b, "rename")
    BY <1>3, <1>4, <2>1, MoveAt
  <2>2. ASSUME NEW b \in Builds \ link, b # BuildOf[r], NEW pc
        PROVE  Trusting(b, pc)' = Trusting(b, pc)
    BY <1>3, <1>4, <2>2 DEF Trusting, OnItsWay
  <2>3. Trusting(BuildOf[r], "symlink")' = {} /\ Trusting(BuildOf[r], "rename")' = {}
    BY <1>3, <1>4 DEF Trusting, OnItsWay, LinkSteps
  <2> QED
    BY <1>5, <2>1, <2>2, <2>3 DEF IInv, LinkPassedOn
<1> QED
  BY <1>7, <1>8, <1>10, <1>11, <1>12, <1>13, <1>15, <1>16, <1>17, <1>18 DEF IInv

\* Join preserves the invariant.
LEMMA JoinKeepsIInv ==
    ASSUME IInv, NEW r \in Requests, Join(r)
    PROVE  IInv'
<1>0. {"wait"} \subseteq Steps
  BY StepNames
<1>1. rq \in [Requests -> Handlers]
  BY HandlersTyped
<1>2. rq' \in [Requests -> Handlers]
  BY <1>0, <1>1 DEF Join, Goto, Handlers
<1>3. \A q \in Requests \ {r} : rq'[q] = rq[q]
  BY <1>1 DEF Join, Goto
<1>4. /\ rq[r].pc = "join" /\ flight[rq[r].unit] # NoOne
      /\ rq'[r].unit = rq[r].unit /\ rq'[r].asked = rq[r].asked /\ rq'[r].hop = rq[r].hop
      /\ rq'[r].status = rq[r].status
      /\ /\ rq'[r].pc = "wait"
         /\ hit' = IF flight[rq[r].unit] \in hit THEN hit \cup {r} ELSE hit
  BY <1>1 DEF Join, Goto, Handlers
<1>5. UNCHANGED <<image, tmp, name, link, linkTmp, spoilt, dirs, kernel, mounted, broken, flight, slots,
                  idx, gone, up, faults>>
  BY DEF Join, Goto, files, links, mounts, world
<1>6. TypeOK'
  BY <1>2, <1>3, <1>4, <1>5 DEF IInv, TypeOK, Handlers
<1>7. Flights'
  BY <1>2, <1>3, <1>4, <1>5, TwoKinds, MoveKeepsFlights DEF IInv, Flights, Active, FlightSteps,
     BuildSteps, MountSteps, LinkSteps
<1>8. Building' = Building
  BY <1>2, <1>3, <1>4, <1>5 DEF Handlers, Building, FlightSteps, BuildSteps, MountSteps, LinkSteps
<1>9. SlotsAccounted'
  BY <1>2, <1>3, <1>4, <1>5, <1>8, BuildersCounted DEF IInv
<1>10. ImagesWhole'
  BY <1>2, <1>3, <1>4, <1>5 DEF IInv, TypeOK, ImagesWhole, Work, Flights, FlightSteps,
     BuildSteps, MountSteps, LinkSteps
<1>11. Work'
  BY <1>2, <1>3, <1>4, <1>5, TwoKinds DEF IInv, TypeOK, ImagesWhole, Work, Flights, Contents,
     FlightSteps, BuildSteps, MountSteps, LinkSteps
<1>12. NoStrayMountPoint'
  BY <1>2, <1>3, <1>4, <1>5 DEF IInv, TypeOK, NoStrayMountPoint, Flights, FlightSteps,
     BuildSteps, MountSteps, LinkSteps
<1>13. \A u \in Units : Waiting(u)' \subseteq IF u = rq[r].unit THEN Waiting(u) \cup {r} ELSE Waiting(u)
  BY <1>2, <1>3, <1>4, <1>5 DEF Waiting, FlightSteps, BuildSteps, MountSteps, LinkSteps
<1>14. Shared'
  <2>1. rq[r].unit \in Units /\ flight[rq[r].unit] # r
    BY <1>4 DEF IInv, Flights, FlightSteps, BuildSteps, MountSteps
  <2>2. gone' \subseteq hit'
    BY <1>4, <1>5 DEF IInv, Shared
  <2>3. ASSUME NEW u \in Units, flight[u] \in hit', u # rq[r].unit PROVE Waiting(u)' \subseteq hit'
    <3>1. flight[u] # r
      BY <1>4, ConstantTypes DEF IInv, Flights, FlightSteps, BuildSteps, MountSteps
    <3> QED
      BY <1>4, <2>3, <3>1, <1>13 DEF IInv, Shared
  <2>4. flight[rq[r].unit] \in hit' => Waiting(rq[r].unit)' \subseteq hit'
    BY <1>4, <2>1, <1>13 DEF IInv, Shared
  <2> QED
    BY <1>4, <1>5, <2>2, <2>3, <2>4 DEF Shared
<1>15. FaultsHeal'
  BY <1>2, <1>3, <1>4, <1>5 DEF IInv, FaultsHeal, Shared, Climbing
<1>16. Climbing'
  BY <1>2, <1>3, <1>4, <1>5, TwoKinds, MoveKeepsClimbing DEF FlightSteps, BuildSteps,
     MountSteps, LinkSteps
<1>17. \A b : At(b, "clear")' = At(b, "clear") /\ At(b, "symlink")' = At(b, "symlink") /\ At(b, "rename")' = At(b, "rename")
  BY <1>2, <1>3, <1>4, <1>5 DEF At, FlightSteps, BuildSteps, MountSteps, LinkSteps
<1>18. LinkPassedOn'
  BY <1>2, <1>3, <1>4, <1>5, <1>17 DEF IInv, LinkPassedOn, Trusting, LinkSteps
<1> QED
  BY <1>6, <1>7, <1>9, <1>10, <1>11, <1>12, <1>14, <1>15, <1>16, <1>18 DEF IInv

\* Lead preserves the invariant.
LEMMA LeadKeepsIInv ==
    ASSUME IInv, NEW r \in Requests, Lead(r)
    PROVE  IInv'
<1>0. {"mounted", "stat"} \subseteq Steps
  BY StepNames
<1>1. rq \in [Requests -> Handlers]
  BY HandlersTyped
<1>2. rq' \in [Requests -> Handlers]
  BY <1>0, <1>1 DEF Lead, Goto, Handlers
<1>3. \A q \in Requests \ {r} : rq'[q] = rq[q]
  BY <1>1 DEF Lead, Goto
<1>4. /\ rq[r].pc = "join" /\ flight[rq[r].unit] = NoOne
      /\ rq'[r].unit = rq[r].unit /\ rq'[r].asked = rq[r].asked /\ rq'[r].hop = rq[r].hop
      /\ rq'[r].status = rq[r].status
      /\ /\ flight' = [flight EXCEPT ![rq[r].unit] = r]
         /\ rq'[r].pc = IF rq[r].unit \in Paths THEN "mounted" ELSE "stat"
  BY <1>1 DEF Lead, Goto, Handlers
<1>5. UNCHANGED <<image, tmp, name, link, linkTmp, spoilt, dirs, kernel, mounted, broken, slots, idx,
                  gone, up, faults, hit>>
  BY DEF Lead, Goto, files, links, mounts, world
<1>6. rq[r].unit \in Units /\ rq[r].unit \in Paths => rq[r].unit \notin Archives
  BY <1>2, <1>3, <1>4, <1>5, TwoKinds DEF IInv, Flights
<1>7. TypeOK'
  BY <1>2, <1>3, <1>4, <1>5 DEF IInv, TypeOK, Handlers
<1>8. Flights'
  <2>1. flight'[rq[r].unit] = r /\ \A u \in Units \ {rq[r].unit} : flight'[u] = flight[u]
    BY <1>4, <1>6 DEF IInv, TypeOK, Flights
  <2>2. rq'[r].pc \in FlightSteps /\ rq'[r].pc \in {"mounted", "stat"} /\ rq[r].unit \in Units
    BY <1>4, StepNames DEF IInv, Flights
  <2>3. \A q \in Requests : /\ rq[q].pc \in FlightSteps => rq[q].unit # rq[r].unit
                            /\ rq[q].pc = "wait" => rq[q].unit # rq[r].unit
    BY <1>4, ConstantTypes DEF IInv, Flights
  <2>4. \A q \in Requests :
          /\ rq'[q].pc \in {"join", "wait"} \cup FlightSteps => rq'[q].unit \in Units
          /\ rq'[q].pc \in LinkSteps => rq'[q].unit = ArchiveOf[BuildOf[q]] /\ rq'[q].unit \in Archives
          /\ rq'[q].pc \in {"trunc", "name"} => rq'[q].unit \in Archives
    BY <1>3, <1>4, <2>2 DEF IInv, Flights, LinkSteps
  <2>5. \A q \in Requests :
          /\ rq'[q].pc \in FlightSteps => flight'[rq'[q].unit] = q
          /\ rq'[q].pc = "wait" => flight'[rq'[q].unit] # NoOne
    BY <1>3, <1>4, <2>1, <2>2, <2>3 DEF IInv, Flights
  <2>6. \A u \in Units : flight'[u] # NoOne => /\ rq'[flight'[u]].pc \in FlightSteps
                                               /\ rq'[flight'[u]].unit = u
    BY <1>3, <1>4, <2>1, <2>2 DEF IInv, Flights, TypeOK
  <2>7. up'
    BY <1>4, <1>5 DEF IInv, Flights, Active
  <2> QED
    BY <1>5, <2>4, <2>5, <2>6, <2>7 DEF IInv, Flights
<1>9. Building' = Building
  BY <1>2, <1>3, <1>4, <1>5 DEF Handlers, Building, FlightSteps, BuildSteps, MountSteps, LinkSteps
<1>10. SlotsAccounted'
  BY <1>2, <1>3, <1>4, <1>5, <1>9, BuildersCounted DEF IInv
<1>11. ImagesWhole'
  BY <1>2, <1>3, <1>4, <1>5 DEF IInv, TypeOK, ImagesWhole, Work, Flights, FlightSteps,
     BuildSteps, MountSteps, LinkSteps
<1>12. Work'
  BY <1>2, <1>3, <1>4, <1>5, TwoKinds, <1>6 DEF IInv, TypeOK, ImagesWhole, Work, Flights,
     Contents, FlightSteps, BuildSteps, MountSteps, LinkSteps
<1>13. NoStrayMountPoint'
  BY <1>2, <1>3, <1>4, <1>5 DEF IInv, TypeOK, NoStrayMountPoint, Flights, FlightSteps,
     BuildSteps, MountSteps, LinkSteps
<1>14. \A u \in Units : Waiting(u)' \subseteq Waiting(u)
  BY <1>2, <1>3, <1>4, <1>5 DEF Waiting, FlightSteps, BuildSteps, MountSteps, LinkSteps
<1>15. Waiting(rq[r].unit)' = {}
  BY <1>2, <1>3, <1>4, <1>5, <1>14 DEF IInv, Flights, Waiting, FlightSteps, BuildSteps,
     MountSteps, LinkSteps
<1>16. Shared'
  BY <1>2, <1>3, <1>4, <1>5, <1>14, <1>15 DEF IInv, Shared, TypeOK
<1>17. FaultsHeal'
  BY <1>2, <1>3, <1>4, <1>5 DEF IInv, FaultsHeal, Shared, Climbing
<1>18. Climbing'
  BY <1>2, <1>3, <1>4, <1>5, TwoKinds, MoveKeepsClimbing DEF FlightSteps, BuildSteps,
     MountSteps, LinkSteps
<1>19. \A b : At(b, "clear")' = At(b, "clear") /\ At(b, "symlink")' = At(b, "symlink") /\ At(b, "rename")' = At(b, "rename")
  BY <1>2, <1>3, <1>4, <1>5 DEF At, FlightSteps, BuildSteps, MountSteps, LinkSteps
<1>20. LinkPassedOn'
  BY <1>2, <1>3, <1>4, <1>5, <1>19 DEF IInv, LinkPassedOn, Trusting, LinkSteps
<1> QED
  BY <1>7, <1>8, <1>10, <1>11, <1>12, <1>13, <1>16, <1>17, <1>18, <1>20 DEF IInv

\* StatImage preserves the invariant.
LEMMA StatImageKeepsIInv ==
    ASSUME IInv, NEW r \in Requests, StatImage(r)
    PROVE  IInv'
<1>0. {"slot", "mkdir", "mounted"} \subseteq Steps
  BY StepNames
<1>1. rq \in [Requests -> Handlers]
  BY HandlersTyped
<1>2. rq' \in [Requests -> Handlers]
  BY <1>0, <1>1 DEF StatImage, Goto, AfterBuild, Handlers
<1>3. \A q \in Requests \ {r} : rq'[q] = rq[q]
  BY <1>1 DEF StatImage, Goto, AfterBuild
<1>4. /\ rq[r].pc = "stat"
      /\ rq'[r].unit = rq[r].unit /\ rq'[r].asked = rq[r].asked /\ rq'[r].hop = rq[r].hop
      /\ rq'[r].status = rq[r].status
      /\ \/ rq'[r].pc = "slot"
         \/ /\ image[ImageOf[rq[r].unit]] # "none"
            /\ rq'[r].pc = IF rq[r].unit \in Paths THEN "mkdir" ELSE "mounted"
  BY <1>1 DEF StatImage, Goto, AfterBuild, Handlers
<1>5. UNCHANGED <<image, tmp, name, link, linkTmp, spoilt, dirs, kernel, mounted, broken, flight, slots,
                  idx, gone, up, faults, hit>>
  BY DEF StatImage, Goto, AfterBuild, files, links, mounts, world
<1>6. image[ImageOf[rq[r].unit]] \in {"none", "whole"}
  BY <1>2, <1>3, <1>4, <1>5, ConstantTypes DEF IInv, TypeOK, ImagesWhole, Flights, Contents,
     FlightSteps, BuildSteps, MountSteps, LinkSteps
<1>7. TypeOK'
  BY <1>2, <1>3, <1>4, <1>5 DEF IInv, TypeOK, Handlers
<1>8. Flights' /\ Shared' /\ FaultsHeal' /\ Climbing' /\ LinkPassedOn'
  BY <1>2, <1>3, <1>4, <1>5, FlightMove DEF FlightSteps, BuildSteps, MountSteps, LinkSteps
<1>9. Building' = Building
  BY <1>2, <1>3, <1>4, <1>5 DEF Handlers, Building, FlightSteps, BuildSteps, MountSteps, LinkSteps
<1>10. SlotsAccounted'
  BY <1>2, <1>3, <1>4, <1>5, <1>9, BuildersCounted DEF IInv
<1>11. ImagesWhole'
  BY <1>2, <1>3, <1>4, <1>5, <1>6 DEF IInv, TypeOK, ImagesWhole, Work, Flights, FlightSteps,
     BuildSteps, MountSteps, LinkSteps
<1>12. Work'
  BY <1>2, <1>3, <1>4, <1>5, TwoKinds, <1>6 DEF IInv, TypeOK, ImagesWhole, Work, Flights,
     Contents, FlightSteps, BuildSteps, MountSteps, LinkSteps
<1>13. NoStrayMountPoint'
  BY <1>2, <1>3, <1>4, <1>5 DEF IInv, TypeOK, NoStrayMountPoint, Flights, FlightSteps,
     BuildSteps, MountSteps, LinkSteps
<1> QED
  BY <1>7, <1>8, <1>10, <1>11, <1>12, <1>13 DEF IInv

\* Acquire preserves the invariant.
LEMMA AcquireKeepsIInv ==
    ASSUME IInv, NEW r \in Requests, Acquire(r)
    PROVE  IInv'
<1>0. {"restat"} \subseteq Steps
  BY StepNames
<1>1. rq \in [Requests -> Handlers]
  BY HandlersTyped
<1>2. rq' \in [Requests -> Handlers]
  BY <1>0, <1>1 DEF Acquire, Goto, Handlers
<1>3. \A q \in Requests \ {r} : rq'[q] = rq[q]
  BY <1>1 DEF Acquire, Goto
<1>4. /\ rq[r].pc = "slot" /\ slots < MaxFetches
      /\ rq'[r].unit = rq[r].unit /\ rq'[r].asked = rq[r].asked /\ rq'[r].hop = rq[r].hop
      /\ rq'[r].status = rq[r].status
      /\ rq'[r].pc = "restat" /\ slots' = slots + 1
  BY <1>1 DEF Acquire, Goto, Handlers
<1>5. UNCHANGED <<image, tmp, name, link, linkTmp, spoilt, dirs, kernel, mounted, broken, flight, idx,
                  gone, up, faults, hit>>
  BY DEF Acquire, Goto, files, links, mounts, world
<1>6. TypeOK'
  BY <1>2, <1>3, <1>4, <1>5, BuildersCounted DEF IInv, TypeOK, Handlers, Building, BuildSteps
<1>7. Flights' /\ Shared' /\ FaultsHeal' /\ Climbing' /\ LinkPassedOn'
  BY <1>2, <1>3, <1>4, <1>5, FlightMove DEF FlightSteps, BuildSteps, MountSteps, LinkSteps
<1>8. Building' = Building \cup {r} /\ r \notin Building
  BY <1>2, <1>3, <1>4, <1>5 DEF Handlers, Building, FlightSteps, BuildSteps, MountSteps, LinkSteps
<1>9. SlotsAccounted'
  BY <1>2, <1>3, <1>4, <1>5, <1>8, BuildersCounted DEF IInv
<1>10. ImagesWhole'
  BY <1>2, <1>3, <1>4, <1>5 DEF IInv, TypeOK, ImagesWhole, Work, Flights, FlightSteps,
     BuildSteps, MountSteps, LinkSteps
<1>11. Work'
  BY <1>2, <1>3, <1>4, <1>5, TwoKinds DEF IInv, TypeOK, ImagesWhole, Work, Flights, Contents,
     FlightSteps, BuildSteps, MountSteps, LinkSteps
<1>12. NoStrayMountPoint'
  BY <1>2, <1>3, <1>4, <1>5 DEF IInv, TypeOK, NoStrayMountPoint, Flights, FlightSteps,
     BuildSteps, MountSteps, LinkSteps
<1> QED
  BY <1>6, <1>7, <1>9, <1>10, <1>11, <1>12 DEF IInv

\* RestatImage preserves the invariant.
LEMMA RestatImageKeepsIInv ==
    ASSUME IInv, NEW r \in Requests, RestatImage(r)
    PROVE  IInv'
<1>0. {"nar", "mkdir", "mounted"} \subseteq Steps
  BY StepNames
<1>1. rq \in [Requests -> Handlers]
  BY HandlersTyped
<1>2. rq' \in [Requests -> Handlers]
  BY <1>0, <1>1 DEF RestatImage, Goto, AfterBuild, Handlers
<1>3. \A q \in Requests \ {r} : rq'[q] = rq[q]
  BY <1>1 DEF RestatImage, Goto, AfterBuild
<1>4. /\ rq[r].pc = "restat"
      /\ rq'[r].unit = rq[r].unit /\ rq'[r].asked = rq[r].asked /\ rq'[r].hop = rq[r].hop
      /\ rq'[r].status = rq[r].status
      /\ \/ rq'[r].pc = "nar" /\ image[ImageOf[rq[r].unit]] = "none" /\ slots' = slots
         \/ /\ image[ImageOf[rq[r].unit]] # "none" /\ slots' = slots - 1
            /\ rq'[r].pc = IF rq[r].unit \in Paths THEN "mkdir" ELSE "mounted"
  BY <1>1 DEF RestatImage, Goto, AfterBuild, Handlers
<1>5. UNCHANGED <<image, tmp, name, link, linkTmp, spoilt, dirs, kernel, mounted, broken, flight, idx,
                  gone, up, faults, hit>>
  BY DEF RestatImage, Goto, AfterBuild, files, links, mounts, world
<1>6. image[ImageOf[rq[r].unit]] \in {"none", "whole"}
  BY <1>2, <1>3, <1>4, <1>5, ConstantTypes DEF IInv, TypeOK, ImagesWhole, Flights, Contents,
     FlightSteps, BuildSteps, MountSteps, LinkSteps
<1>7. TypeOK'
  BY <1>2, <1>3, <1>4, <1>5, BuildersCounted DEF IInv, TypeOK, Handlers, Building, BuildSteps
<1>8. Flights' /\ Shared' /\ FaultsHeal' /\ Climbing' /\ LinkPassedOn'
  BY <1>2, <1>3, <1>4, <1>5, FlightMove DEF FlightSteps, BuildSteps, MountSteps, LinkSteps
<1>9. \/ Building' = Building /\ slots' = slots
      \/ Building' = Building \ {r} /\ r \in Building /\ slots' = slots - 1
  <2>1. CASE rq'[r].pc = "nar"
    <3>1. slots' = slots
      BY <1>4, <2>1
    <3>2. r \in Building /\ r \in Building'
      BY <1>4, <2>1 DEF Building, BuildSteps
    <3>3. Building' = Building
      BY <1>3, <3>2 DEF Building
    <3> QED
      BY <3>1, <3>3
  <2>2. CASE rq'[r].pc \in {"mkdir", "mounted"}
    BY <1>3, <1>4, <2>2 DEF Building, BuildSteps
  <2> QED
    BY <1>4, <2>1, <2>2
<1>10. SlotsAccounted'
  BY <1>2, <1>3, <1>4, <1>5, <1>9, BuildersCounted DEF IInv
<1>11. ImagesWhole'
  BY <1>2, <1>3, <1>4, <1>5, <1>6 DEF IInv, TypeOK, ImagesWhole, Work, Flights, FlightSteps,
     BuildSteps, MountSteps, LinkSteps
<1>12. Work'
  BY <1>2, <1>3, <1>4, <1>5, TwoKinds, <1>6 DEF IInv, TypeOK, ImagesWhole, Work, Flights,
     Contents, FlightSteps, BuildSteps, MountSteps, LinkSteps
<1>13. NoStrayMountPoint'
  BY <1>2, <1>3, <1>4, <1>5 DEF IInv, TypeOK, NoStrayMountPoint, Flights, FlightSteps,
     BuildSteps, MountSteps, LinkSteps
<1> QED
  BY <1>7, <1>8, <1>10, <1>11, <1>12, <1>13 DEF IInv

\* FetchNar preserves the invariant.
LEMMA FetchNarKeepsIInv ==
    ASSUME IInv, NEW r \in Requests, FetchNar(r)
    PROVE  IInv'
<1>0. {"unpack"} \subseteq Steps
  BY StepNames
<1>1. rq \in [Requests -> Handlers]
  BY HandlersTyped
<1>2. rq' \in [Requests -> Handlers]
  BY <1>0, <1>1 DEF FetchNar, Goto, Handlers
<1>3. \A q \in Requests \ {r} : rq'[q] = rq[q]
  BY <1>1 DEF FetchNar, Goto
<1>4. /\ rq[r].pc = "nar"
      /\ rq'[r].unit = rq[r].unit /\ rq'[r].asked = rq[r].asked /\ rq'[r].hop = rq[r].hop
      /\ rq'[r].status = rq[r].status
      /\ rq'[r].pc = "unpack" /\ tmp' = [tmp EXCEPT ![r] = "partial"]
  BY <1>1 DEF FetchNar, Goto, Handlers
<1>5. UNCHANGED <<image, name, link, linkTmp, spoilt, dirs, kernel, mounted, broken, flight, slots, idx,
                  gone, up, faults, hit>>
  BY DEF FetchNar, Goto, files, links, mounts, world
<1>6. TypeOK'
  BY <1>2, <1>3, <1>4, <1>5 DEF IInv, TypeOK, Handlers, Contents
<1>7. Flights' /\ Shared' /\ FaultsHeal' /\ Climbing' /\ LinkPassedOn'
  BY <1>2, <1>3, <1>4, <1>5, FlightMove DEF FlightSteps, BuildSteps, MountSteps, LinkSteps
<1>8. Building' = Building
  BY <1>2, <1>3, <1>4, <1>5 DEF Handlers, Building, FlightSteps, BuildSteps, MountSteps, LinkSteps
<1>9. SlotsAccounted'
  BY <1>2, <1>3, <1>4, <1>5, <1>8, BuildersCounted DEF IInv
<1>10. ImagesWhole'
  BY <1>2, <1>3, <1>4, <1>5 DEF IInv, TypeOK, ImagesWhole, Work, Flights, FlightSteps,
     BuildSteps, MountSteps, LinkSteps
<1>11. Work'
  BY <1>2, <1>3, <1>4, <1>5, TwoKinds DEF IInv, TypeOK, ImagesWhole, Work, Flights, Contents,
     FlightSteps, BuildSteps, MountSteps, LinkSteps
<1>12. NoStrayMountPoint'
  BY <1>2, <1>3, <1>4, <1>5 DEF IInv, TypeOK, NoStrayMountPoint, Flights, FlightSteps,
     BuildSteps, MountSteps, LinkSteps
<1> QED
  BY <1>6, <1>7, <1>9, <1>10, <1>11, <1>12 DEF IInv

\* Unpack preserves the invariant.
LEMMA UnpackKeepsIInv ==
    ASSUME IInv, NEW r \in Requests, Unpack(r)
    PROVE  IInv'
<1>0. {"trunc", "publish"} \subseteq Steps
  BY StepNames
<1>1. rq \in [Requests -> Handlers]
  BY HandlersTyped
<1>2. rq' \in [Requests -> Handlers]
  BY <1>0, <1>1 DEF Unpack, Goto, AfterUnpack, Handlers
<1>3. \A q \in Requests \ {r} : rq'[q] = rq[q]
  BY <1>1 DEF Unpack, Goto, AfterUnpack
<1>4. /\ rq[r].pc = "unpack"
      /\ rq'[r].unit = rq[r].unit /\ rq'[r].asked = rq[r].asked /\ rq'[r].hop = rq[r].hop
      /\ rq'[r].status = rq[r].status
      /\ /\ tmp' = [tmp EXCEPT ![r] = "whole"]
         /\ rq'[r].pc = IF rq[r].unit \in Archives THEN "trunc" ELSE "publish"
  BY <1>1 DEF Unpack, Goto, AfterUnpack, Handlers
<1>5. UNCHANGED <<image, name, link, linkTmp, spoilt, dirs, kernel, mounted, broken, flight, slots, idx,
                  gone, up, faults, hit>>
  BY DEF Unpack, Goto, AfterUnpack, files, links, mounts, world
<1>6. TypeOK'
  BY <1>2, <1>3, <1>4, <1>5 DEF IInv, TypeOK, Handlers, Contents
<1>7. Flights' /\ Shared' /\ FaultsHeal' /\ Climbing' /\ LinkPassedOn'
  BY <1>2, <1>3, <1>4, <1>5, FlightMove DEF FlightSteps, BuildSteps, MountSteps, LinkSteps
<1>8. Building' = Building
  BY <1>2, <1>3, <1>4, <1>5 DEF Handlers, Building, FlightSteps, BuildSteps, MountSteps, LinkSteps
<1>9. SlotsAccounted'
  BY <1>2, <1>3, <1>4, <1>5, <1>8, BuildersCounted DEF IInv
<1>10. ImagesWhole'
  BY <1>2, <1>3, <1>4, <1>5 DEF IInv, TypeOK, ImagesWhole, Work, Flights, FlightSteps,
     BuildSteps, MountSteps, LinkSteps
<1>11. Work'
  BY <1>2, <1>3, <1>4, <1>5, TwoKinds DEF IInv, TypeOK, ImagesWhole, Work, Flights, Contents,
     FlightSteps, BuildSteps, MountSteps, LinkSteps
<1>12. NoStrayMountPoint'
  BY <1>2, <1>3, <1>4, <1>5 DEF IInv, TypeOK, NoStrayMountPoint, Flights, FlightSteps,
     BuildSteps, MountSteps, LinkSteps
<1> QED
  BY <1>6, <1>7, <1>9, <1>10, <1>11, <1>12 DEF IInv

\* TruncName preserves the invariant.
LEMMA TruncNameKeepsIInv ==
    ASSUME IInv, NEW r \in Requests, TruncName(r)
    PROVE  IInv'
<1>0. {"name"} \subseteq Steps
  BY StepNames
<1>1. rq \in [Requests -> Handlers]
  BY HandlersTyped
<1>2. rq' \in [Requests -> Handlers]
  BY <1>0, <1>1 DEF TruncName, Goto, Handlers
<1>3. \A q \in Requests \ {r} : rq'[q] = rq[q]
  BY <1>1 DEF TruncName, Goto
<1>4. /\ rq[r].pc = "trunc"
      /\ rq'[r].unit = rq[r].unit /\ rq'[r].asked = rq[r].asked /\ rq'[r].hop = rq[r].hop
      /\ rq'[r].status = rq[r].status
      /\ rq'[r].pc = "name" /\ name' = [name EXCEPT ![rq[r].unit] = "empty"]
  BY <1>1 DEF TruncName, Goto, Handlers
<1>5. UNCHANGED <<image, tmp, link, linkTmp, spoilt, dirs, kernel, mounted, broken, flight, slots, idx,
                  gone, up, faults, hit>>
  BY DEF TruncName, Goto, files, links, mounts, world
<1>6. TypeOK'
  BY <1>2, <1>3, <1>4, <1>5 DEF IInv, TypeOK, Handlers
<1>7. Flights' /\ Shared' /\ FaultsHeal' /\ Climbing' /\ LinkPassedOn'
  BY <1>2, <1>3, <1>4, <1>5, FlightMove DEF IInv, Flights, FlightSteps, BuildSteps, MountSteps,
     LinkSteps
<1>8. Building' = Building
  BY <1>2, <1>3, <1>4, <1>5 DEF Handlers, Building, FlightSteps, BuildSteps, MountSteps, LinkSteps
<1>9. SlotsAccounted'
  BY <1>2, <1>3, <1>4, <1>5, <1>8, BuildersCounted DEF IInv
<1>10. ImagesWhole'
  BY <1>2, <1>3, <1>4, <1>5 DEF IInv, TypeOK, ImagesWhole, Work, Flights, FlightSteps,
     BuildSteps, MountSteps, LinkSteps
<1>11. Work'
  BY <1>2, <1>3, <1>4, <1>5, TwoKinds DEF IInv, TypeOK, ImagesWhole, Work, Flights, Contents,
     FlightSteps, BuildSteps, MountSteps, LinkSteps
<1>12. NoStrayMountPoint'
  BY <1>2, <1>3, <1>4, <1>5 DEF IInv, TypeOK, NoStrayMountPoint, Flights, FlightSteps,
     BuildSteps, MountSteps, LinkSteps
<1> QED
  BY <1>6, <1>7, <1>9, <1>10, <1>11, <1>12 DEF IInv

\* WriteName preserves the invariant.
LEMMA WriteNameKeepsIInv ==
    ASSUME IInv, NEW r \in Requests, WriteName(r)
    PROVE  IInv'
<1>0. {"publish"} \subseteq Steps
  BY StepNames
<1>1. rq \in [Requests -> Handlers]
  BY HandlersTyped
<1>2. rq' \in [Requests -> Handlers]
  BY <1>0, <1>1 DEF WriteName, Goto, Handlers
<1>3. \A q \in Requests \ {r} : rq'[q] = rq[q]
  BY <1>1 DEF WriteName, Goto
<1>4. /\ rq[r].pc = "name"
      /\ rq'[r].unit = rq[r].unit /\ rq'[r].asked = rq[r].asked /\ rq'[r].hop = rq[r].hop
      /\ rq'[r].status = rq[r].status
      /\ rq'[r].pc = "publish" /\ name' = [name EXCEPT ![rq[r].unit] = "whole"]
  BY <1>1 DEF WriteName, Goto, Handlers
<1>5. UNCHANGED <<image, tmp, link, linkTmp, spoilt, dirs, kernel, mounted, broken, flight, slots, idx,
                  gone, up, faults, hit>>
  BY DEF WriteName, Goto, files, links, mounts, world
<1>6. TypeOK'
  BY <1>2, <1>3, <1>4, <1>5 DEF IInv, TypeOK, Handlers
<1>7. Flights' /\ Shared' /\ FaultsHeal' /\ Climbing' /\ LinkPassedOn'
  BY <1>2, <1>3, <1>4, <1>5, FlightMove DEF FlightSteps, BuildSteps, MountSteps, LinkSteps
<1>8. Building' = Building
  BY <1>2, <1>3, <1>4, <1>5 DEF Handlers, Building, FlightSteps, BuildSteps, MountSteps, LinkSteps
<1>9. SlotsAccounted'
  BY <1>2, <1>3, <1>4, <1>5, <1>8, BuildersCounted DEF IInv
<1>10. ImagesWhole'
  BY <1>2, <1>3, <1>4, <1>5 DEF IInv, TypeOK, ImagesWhole, Work, Flights, FlightSteps,
     BuildSteps, MountSteps, LinkSteps
<1>11. Work'
  BY <1>2, <1>3, <1>4, <1>5, TwoKinds DEF IInv, TypeOK, ImagesWhole, Work, Flights, Contents,
     FlightSteps, BuildSteps, MountSteps, LinkSteps
<1>12. NoStrayMountPoint'
  BY <1>2, <1>3, <1>4, <1>5 DEF IInv, TypeOK, NoStrayMountPoint, Flights, FlightSteps,
     BuildSteps, MountSteps, LinkSteps
<1> QED
  BY <1>6, <1>7, <1>9, <1>10, <1>11, <1>12 DEF IInv

\* RenameImage preserves the invariant.
LEMMA RenameImageKeepsIInv ==
    ASSUME IInv, NEW r \in Requests, RenameImage(r)
    PROVE  IInv'
<1>0. {"mkdir", "mounted"} \subseteq Steps
  BY StepNames
<1>1. rq \in [Requests -> Handlers]
  BY HandlersTyped
<1>2. rq' \in [Requests -> Handlers]
  BY <1>0, <1>1 DEF RenameImage, Goto, AfterBuild, Handlers
<1>3. \A q \in Requests \ {r} : rq'[q] = rq[q]
  BY <1>1 DEF RenameImage, Goto, AfterBuild
<1>4. /\ rq[r].pc = "publish"
      /\ rq'[r].unit = rq[r].unit /\ rq'[r].asked = rq[r].asked /\ rq'[r].hop = rq[r].hop
      /\ rq'[r].status = rq[r].status
      /\ /\ image' = [image EXCEPT ![ImageOf[rq[r].unit]] = tmp[r]]
         /\ tmp' = [tmp EXCEPT ![r] = "none"] /\ slots' = slots - 1
         /\ rq'[r].pc = IF rq[r].unit \in Paths THEN "mkdir" ELSE "mounted"
  BY <1>1 DEF RenameImage, Goto, AfterBuild, Handlers
<1>5. UNCHANGED <<name, link, linkTmp, spoilt, dirs, kernel, mounted, broken, flight, idx, gone, up,
                  faults, hit>>
  BY DEF RenameImage, Goto, AfterBuild, files, links, mounts, world
<1>6. rq[r].unit \in Units /\ tmp[r] = "whole" /\ image \in [Images -> Contents] /\ tmp \in [Requests -> Contents]
  BY <1>2, <1>3, <1>4, <1>5 DEF IInv, TypeOK, Flights, Work, FlightSteps, BuildSteps,
     MountSteps, LinkSteps
<1>7. \A u \in Units : image'[ImageOf[u]] = IF ImageOf[u] = ImageOf[rq[r].unit] THEN "whole" ELSE image[ImageOf[u]]
  BY <1>2, <1>3, <1>4, <1>5, ConstantTypes, <1>6 DEF Contents
<1>8. \A q \in Requests \ {r} : rq[q].pc \in FlightSteps => rq[q].unit \in Units /\ rq[q].unit # rq[r].unit
  BY <1>2, <1>3, <1>4, <1>5, <1>6, <1>7 DEF IInv, Flights, FlightSteps, BuildSteps, MountSteps,
     LinkSteps
<1>9. TypeOK'
  <2>1. image' \in [Images -> Contents] /\ tmp' \in [Requests -> Contents]
    BY <1>4, <1>6 DEF Contents
  <2>2. slots' \in Nat
    BY <1>4, BuildersCounted DEF Building, BuildSteps
  <2> QED
    BY <1>2, <1>5, <2>1, <2>2 DEF IInv, TypeOK, Handlers
<1>10. Flights' /\ Shared' /\ FaultsHeal' /\ Climbing' /\ LinkPassedOn'
  BY <1>2, <1>3, <1>4, <1>5, FlightMove DEF FlightSteps, BuildSteps, MountSteps, LinkSteps
<1>11. Building' = Building \ {r} /\ r \in Building
  BY <1>2, <1>3, <1>4, <1>5 DEF Handlers, Building, FlightSteps, BuildSteps, MountSteps, LinkSteps
<1>12. SlotsAccounted'
  BY <1>2, <1>3, <1>4, <1>5, <1>11, BuildersCounted DEF IInv
<1>13. ImagesWhole'
  <2>1. \A i \in Images : image'[i] # "partial"
    BY <1>4, <1>6 DEF IInv, ImagesWhole
  <2>2. \A u \in kernel' : image'[ImageOf[u]] = "whole"
    BY <1>5, <1>7 DEF IInv, ImagesWhole, TypeOK
  <2>3. ASSUME NEW a \in Archives, image'[ImageOf[a]] # "none" PROVE name'[a] = "whole"
    <3>1. CASE a = rq[r].unit
      BY <1>4, <1>5, <3>1 DEF IInv, Work
    <3>2. CASE a # rq[r].unit
      BY <1>5, <1>6, <1>7, <2>3, <3>2, ConstantTypes DEF IInv, ImagesWhole
    <3> QED
      BY <3>1, <3>2
  <2> QED
    BY <2>1, <2>2, <2>3 DEF ImagesWhole
<1>14. Work'
  <2>1. image'[ImageOf[rq[r].unit]] = "whole"
    BY <1>6, <1>7
  <2>2. ASSUME NEW q \in Requests \ {r}, rq[q].pc \in FlightSteps
        PROVE  /\ rq[q].unit \in Archives => image'[ImageOf[rq[q].unit]] = image[ImageOf[rq[q].unit]]
               /\ image[ImageOf[rq[q].unit]] = "whole" => image'[ImageOf[rq[q].unit]] = "whole"
    BY <1>6, <1>7, <1>8, <2>2, ConstantTypes
  <2>3. \A q \in Requests \ {r} : tmp'[q] = tmp[q]
    BY <1>4, <1>6
  <2> QED
    BY <1>3, <1>4, <1>5, <2>1, <2>2, <2>3 DEF IInv, Work, FlightSteps, BuildSteps, MountSteps
<1>15. NoStrayMountPoint'
  BY <1>2, <1>3, <1>4, <1>5 DEF IInv, TypeOK, NoStrayMountPoint, Flights, FlightSteps,
     BuildSteps, MountSteps, LinkSteps
<1> QED
  BY <1>9, <1>10, <1>12, <1>13, <1>14, <1>15 DEF IInv

\* MkdirPoint preserves the invariant.
LEMMA MkdirPointKeepsIInv ==
    ASSUME IInv, NEW r \in Requests, MkdirPoint(r)
    PROVE  IInv'
<1>0. {"mount"} \subseteq Steps
  BY StepNames
<1>1. rq \in [Requests -> Handlers]
  BY HandlersTyped
<1>2. rq' \in [Requests -> Handlers]
  BY <1>0, <1>1 DEF MkdirPoint, Goto, Handlers
<1>3. \A q \in Requests \ {r} : rq'[q] = rq[q]
  BY <1>1 DEF MkdirPoint, Goto
<1>4. /\ rq[r].pc = "mkdir"
      /\ rq'[r].unit = rq[r].unit /\ rq'[r].asked = rq[r].asked /\ rq'[r].hop = rq[r].hop
      /\ rq'[r].status = rq[r].status
      /\ rq'[r].pc = "mount" /\ dirs' = dirs \cup {rq[r].unit}
  BY <1>1 DEF MkdirPoint, Goto, Handlers
<1>5. UNCHANGED <<image, tmp, name, link, linkTmp, spoilt, kernel, mounted, broken, flight, slots, idx,
                  gone, up, faults, hit>>
  BY DEF MkdirPoint, Goto, files, links, mounts, world
<1>6. rq[r].unit \in Units
  BY <1>2, <1>3, <1>4, <1>5 DEF IInv, Flights, FlightSteps, BuildSteps, MountSteps, LinkSteps
<1>7. TypeOK'
  BY <1>2, <1>3, <1>4, <1>5, <1>6 DEF IInv, TypeOK, Handlers
<1>8. Flights' /\ Shared' /\ FaultsHeal' /\ Climbing' /\ LinkPassedOn'
  BY <1>2, <1>3, <1>4, <1>5, FlightMove DEF FlightSteps, BuildSteps, MountSteps, LinkSteps
<1>9. Building' = Building
  BY <1>2, <1>3, <1>4, <1>5 DEF Handlers, Building, FlightSteps, BuildSteps, MountSteps, LinkSteps
<1>10. SlotsAccounted'
  BY <1>2, <1>3, <1>4, <1>5, <1>9, BuildersCounted DEF IInv
<1>11. ImagesWhole'
  BY <1>2, <1>3, <1>4, <1>5, <1>6 DEF IInv, TypeOK, ImagesWhole, Work, Flights, FlightSteps,
     BuildSteps, MountSteps, LinkSteps
<1>12. Work'
  BY <1>2, <1>3, <1>4, <1>5, TwoKinds, <1>6 DEF IInv, TypeOK, ImagesWhole, Work, Flights,
     Contents, FlightSteps, BuildSteps, MountSteps, LinkSteps
<1>13. NoStrayMountPoint'
  <2>1. flight[rq[r].unit] = r
    BY <1>4 DEF IInv, Flights, FlightSteps, MountSteps
  <2>2. ASSUME NEW u \in dirs, up, u # rq[r].unit
        PROVE  \/ u \in mounted \/ u \in broken
               \/ flight[u] # NoOne /\ rq'[flight[u]].pc \in {"mount", "record"}
    <3>1. flight[u] # r \/ u \in mounted \/ u \in broken
      BY <1>4, <2>2, ConstantTypes DEF IInv, NoStrayMountPoint
    <3> QED
      BY <1>3, <2>2, <3>1 DEF IInv, NoStrayMountPoint, TypeOK
  <2> QED
    BY <1>4, <1>5, <2>1, <2>2, ConstantTypes DEF NoStrayMountPoint
<1> QED
  BY <1>7, <1>8, <1>10, <1>11, <1>12, <1>13 DEF IInv

\* MountErofs preserves the invariant.
LEMMA MountErofsKeepsIInv ==
    ASSUME IInv, NEW r \in Requests, MountErofs(r)
    PROVE  IInv'
<1>0. {"record"} \subseteq Steps
  BY StepNames
<1>1. rq \in [Requests -> Handlers]
  BY HandlersTyped
<1>2. rq' \in [Requests -> Handlers]
  BY <1>0, <1>1 DEF MountErofs, Goto, Handlers
<1>3. \A q \in Requests \ {r} : rq'[q] = rq[q]
  BY <1>1 DEF MountErofs, Goto
<1>4. /\ rq[r].pc = "mount"
      /\ rq'[r].unit = rq[r].unit /\ rq'[r].asked = rq[r].asked /\ rq'[r].hop = rq[r].hop
      /\ rq'[r].status = rq[r].status
      /\ rq'[r].pc = "record" /\ kernel' = kernel \cup {rq[r].unit}
  BY <1>1 DEF MountErofs, Goto, Handlers
<1>5. UNCHANGED <<image, tmp, name, link, linkTmp, spoilt, dirs, mounted, broken, flight, slots, idx,
                  gone, up, faults, hit>>
  BY DEF MountErofs, Goto, files, links, mounts, world
<1>6. rq[r].unit \in Units
  BY <1>2, <1>3, <1>4, <1>5 DEF IInv, Flights, FlightSteps, BuildSteps, MountSteps, LinkSteps
<1>7. TypeOK'
  BY <1>2, <1>3, <1>4, <1>5, <1>6 DEF IInv, TypeOK, Handlers
<1>8. Flights' /\ Shared' /\ FaultsHeal' /\ Climbing' /\ LinkPassedOn'
  BY <1>2, <1>3, <1>4, <1>5, FlightMove DEF FlightSteps, BuildSteps, MountSteps, LinkSteps
<1>9. Building' = Building
  BY <1>2, <1>3, <1>4, <1>5 DEF Handlers, Building, FlightSteps, BuildSteps, MountSteps, LinkSteps
<1>10. SlotsAccounted'
  BY <1>2, <1>3, <1>4, <1>5, <1>9, BuildersCounted DEF IInv
<1>11. ImagesWhole'
  BY <1>2, <1>3, <1>4, <1>5, <1>6 DEF IInv, TypeOK, ImagesWhole, Work, Flights, FlightSteps,
     BuildSteps, MountSteps, LinkSteps
<1>12. Work'
  BY <1>2, <1>3, <1>4, <1>5, TwoKinds, <1>6 DEF IInv, TypeOK, ImagesWhole, Work, Flights,
     Contents, FlightSteps, BuildSteps, MountSteps, LinkSteps
<1>13. NoStrayMountPoint'
  BY <1>2, <1>3, <1>4, <1>5, <1>6 DEF IInv, TypeOK, NoStrayMountPoint, Flights, FlightSteps,
     BuildSteps, MountSteps, LinkSteps
<1> QED
  BY <1>7, <1>8, <1>10, <1>11, <1>12, <1>13 DEF IInv

\* OpenFile preserves the invariant.
LEMMA OpenFileKeepsIInv ==
    ASSUME IInv, NEW r \in Requests, OpenFile(r)
    PROVE  IInv'
<1>1. \/ End(r, "500") /\ rq[r].hop = MaxResolveHops
      \/ \E pc \in {"missing", "index", "send"} : Goto(r, pc)
  BY DEF OpenFile, StatusOf
<1>2. rq' \in [Requests -> Handlers]
  BY <1>1, EndMoves, GotoMoves, WantMoves, StepNames
<1>3. \A q \in Requests \ {r} : rq'[q] = rq[q]
  BY <1>1, EndMoves, GotoMoves, WantMoves, StepNames
<1>4. /\ rq[r].pc = "open"
      /\ rq'[r].unit = rq[r].unit /\ rq'[r].asked = rq[r].asked /\ rq'[r].hop = rq[r].hop
      /\ \/ rq'[r].pc = "end" /\ rq[r].hop = MaxResolveHops
         \/ rq'[r].pc \in {"missing", "index", "send"} /\ rq'[r].status = rq[r].status
  BY <1>1, EndMoves, GotoMoves, WantMoves, StepNames DEF OpenFile, IInv, Flights
<1>5. UNCHANGED <<image, tmp, name, link, linkTmp, spoilt, dirs, kernel, mounted, broken, flight, slots,
                  idx, gone, up, faults, hit>>
  BY DEF OpenFile, Goto, End, Ended, StatusOf, files, links, mounts, world
<1> QED
  BY <1>2, <1>3, <1>4, <1>5, QuietMove
     DEF IInv, TypeOK, Active, FlightSteps, BuildSteps, MountSteps, LinkSteps

\* OpenFails preserves the invariant.
LEMMA OpenFailsKeepsIInv ==
    ASSUME IInv, NEW r \in Requests, OpenFails(r)
    PROVE  IInv'
<1>1. End(r, "500") /\ r \in Unreadable
  BY DEF OpenFails, StatusOf
<1>2. rq' \in [Requests -> Handlers]
  BY <1>1, EndMoves, StepNames
<1>3. \A q \in Requests \ {r} : rq'[q] = rq[q]
  BY <1>1, EndMoves, StepNames
<1>4. /\ rq[r].pc = "open"
      /\ rq'[r].unit = rq[r].unit /\ rq'[r].asked = rq[r].asked /\ rq'[r].hop = rq[r].hop
      /\ rq'[r].pc = "end"
  BY <1>1, EndMoves, StepNames DEF OpenFails, IInv, Flights
<1>5. UNCHANGED <<image, tmp, name, link, linkTmp, spoilt, dirs, kernel, mounted, broken, flight, slots,
                  idx, gone, up, faults, hit>>
  BY DEF OpenFails, End, Ended, StatusOf, files, links, mounts, world
<1>6. up \/ Active(r)
  BY <1>4 DEF Active
<1>7. r \in Unreadable
  BY <1>1
<1>8. idx' \in [Builds -> {"none", "empty", "full"}]
  BY <1>5 DEF IInv, TypeOK
<1>9. /\ rq[r].pc \notin FlightSteps \cup LinkSteps
      /\ rq'[r].pc \notin FlightSteps \cup LinkSteps \cup {"wait"}
  BY <1>4 DEF FlightSteps, BuildSteps, MountSteps, LinkSteps
<1> QED
  BY <1>2, <1>3, <1>4, <1>5, <1>6, <1>7, <1>8, <1>9, QuietMove

\* MissingFor preserves the invariant.
LEMMA MissingForKeepsIInv ==
    ASSUME IInv, NEW r \in Requests, MissingFor(r)
    PROVE  IInv'
<1>1. \/ End(r, "404")
      \/ \E i \in 1..Len(Leads[r]) : /\ rq' = [rq EXCEPT ![r].pc = "join", ![r].unit = Leads[r][i]]
                                      /\ Leads[r][i] \in Units /\ Leads[r][i] \notin mounted
                                      /\ \A j \in 1..(i - 1) : Leads[r][j] \in mounted
  <2>1. Len(Leads[r]) \in Nat /\ \A i \in 1..Len(Leads[r]) : Leads[r][i] \in Units
    BY ConstantTypes, TwoKinds
  <2> DEFINE absent == {i \in 1..Len(Leads[r]) : Leads[r][i] \notin mounted}
  <2>2. CASE absent = {}
    BY <2>2 DEF MissingFor, StatusOf
  <2>3. CASE absent # {}
    <3>1. PICK i \in absent : /\ \A j \in absent : i <= j
                              /\ rq' = [rq EXCEPT ![r].pc = "join", ![r].unit = Leads[r][i]]
      BY <2>3 DEF MissingFor
    <3>2. \A j \in 1..(i - 1) : j \in 1..Len(Leads[r]) /\ ~(i <= j)
      BY <2>1, <3>1
    <3>3. \A j \in 1..(i - 1) : Leads[r][j] \in mounted
      BY <3>1, <3>2
    <3> QED
      BY <2>1, <3>1, <3>3
  <2> QED
    BY <2>2, <2>3
<1>2. rq' \in [Requests -> Handlers]
  BY <1>1, EndMoves, GotoMoves, WantMoves, StepNames
<1>3. \A q \in Requests \ {r} : rq'[q] = rq[q]
  BY <1>1, EndMoves, GotoMoves, WantMoves, StepNames
<1>4. /\ rq[r].pc = "missing"
      /\ rq'[r].asked = rq[r].asked /\ rq'[r].hop = rq[r].hop
      /\ \/ rq'[r].pc = "end" /\ rq'[r].status = "404"
         \/ /\ rq'[r].pc = "join" /\ rq'[r].status = rq[r].status /\ rq'[r].unit \in Units
            /\ \E i \in 1..Len(Leads[r]) : /\ rq'[r].unit = Leads[r][i] /\ Leads[r][i] \notin mounted
                                          /\ \A j \in 1..(i - 1) : Leads[r][j] \in mounted
  BY <1>1, EndMoves, GotoMoves, WantMoves, StepNames DEF MissingFor, IInv, Flights
<1>5. UNCHANGED <<image, tmp, name, link, linkTmp, spoilt, dirs, kernel, mounted, broken, flight, slots,
                  idx, gone, up, faults, hit>>
  BY DEF MissingFor, End, Ended, StatusOf, files, links, mounts, world
<1>6. \A i \in 1..Len(Leads[r]) : Leads[r][i] \notin mounted => rq[r].hop < i
  BY <1>4, HandlersTyped DEF IInv, Handlers, Climbing
<1> QED
  BY <1>2, <1>3, <1>4, <1>5, <1>6, QuietMove
     DEF IInv, TypeOK, Active, FlightSteps, BuildSteps, MountSteps, LinkSteps

\* FindInIndex preserves the invariant.
LEMMA FindInIndexKeepsIInv ==
    ASSUME IInv, NEW r \in Requests, FindInIndex(r)
    PROVE  IInv'
<1>1. End(r, "404") \/ Goto(r, "send") \/ Goto(r, "walk")
  BY DEF FindInIndex, Answer, StatusOf
<1>2. rq' \in [Requests -> Handlers]
  BY <1>1, EndMoves, GotoMoves, WantMoves, StepNames
<1>3. \A q \in Requests \ {r} : rq'[q] = rq[q]
  BY <1>1, EndMoves, GotoMoves, WantMoves, StepNames
<1>4. /\ rq[r].pc = "index"
      /\ rq'[r].unit = rq[r].unit /\ rq'[r].asked = rq[r].asked /\ rq'[r].hop = rq[r].hop
      /\ \/ rq'[r].pc = "end" /\ rq'[r].status = "404"
         \/ rq'[r].pc \in {"send", "walk"} /\ rq'[r].status = rq[r].status
  BY <1>1, EndMoves, GotoMoves, WantMoves, StepNames DEF FindInIndex, IInv, Flights
<1>5. UNCHANGED <<image, tmp, name, link, linkTmp, spoilt, dirs, kernel, mounted, broken, flight, slots,
                  idx, gone, up, faults, hit>>
  BY DEF FindInIndex, Answer, Goto, End, Ended, StatusOf, files, links, mounts, world
<1> QED
  BY <1>2, <1>3, <1>4, <1>5, QuietMove
     DEF IInv, TypeOK, Active, FlightSteps, BuildSteps, MountSteps, LinkSteps

\* WalkIndex preserves the invariant.
LEMMA WalkIndexKeepsIInv ==
    ASSUME IInv, NEW r \in Requests, WalkIndex(r)
    PROVE  IInv'
<1>1. End(r, "404") \/ Goto(r, "send")
  BY DEF WalkIndex, Answer, StatusOf
<1>2. rq' \in [Requests -> Handlers]
  BY <1>1, EndMoves, GotoMoves, WantMoves, StepNames
<1>3. \A q \in Requests \ {r} : rq'[q] = rq[q]
  BY <1>1, EndMoves, GotoMoves, WantMoves, StepNames
<1>4. /\ rq[r].pc = "walk"
      /\ rq'[r].unit = rq[r].unit /\ rq'[r].asked = rq[r].asked /\ rq'[r].hop = rq[r].hop
      /\ \/ rq'[r].pc = "end" /\ rq'[r].status = "404"
         \/ rq'[r].pc \in {"send", "walk"} /\ rq'[r].status = rq[r].status
  BY <1>1, EndMoves, GotoMoves, WantMoves, StepNames DEF WalkIndex, IInv, Flights
<1>5. UNCHANGED <<image, tmp, name, link, linkTmp, spoilt, dirs, kernel, mounted, broken, flight, slots,
                  gone, up, faults, hit>> /\ idx' \in [Builds -> {"none", "empty", "full"}]
  BY DEF IInv, TypeOK, WalkIndex, Answer, Goto, End, Ended, StatusOf, files, links, mounts, world
<1> QED
  BY <1>2, <1>3, <1>4, <1>5, QuietMove
     DEF IInv, TypeOK, Active, FlightSteps, BuildSteps, MountSteps, LinkSteps

\* Send preserves the invariant.
LEMMA SendKeepsIInv ==
    ASSUME IInv, NEW r \in Requests, Send(r)
    PROVE  IInv'
<1>0. {"end"} \subseteq Steps /\ {"200", "cut"} \subseteq Statuses
  BY StepNames
<1>1. rq \in [Requests -> Handlers]
  BY HandlersTyped
<1>2. rq' \in [Requests -> Handlers]
  BY <1>0, <1>1 DEF Send, End, Ended, Handlers
<1>3. \A q \in Requests \ {r} : rq'[q] = rq[q]
  BY <1>1 DEF Send, End, Ended
<1>4. /\ rq[r].pc = "send"
      /\ rq'[r].unit = rq[r].unit /\ rq'[r].asked = rq[r].asked /\ rq'[r].hop = rq[r].hop
      /\ rq'[r].pc = "end" /\ rq'[r].status # "500"
  BY <1>1 DEF Send, End, Ended, Handlers
<1>5. UNCHANGED <<image, tmp, name, link, linkTmp, spoilt, dirs, kernel, mounted, broken, flight, slots,
                  idx, gone, up, faults, hit>>
  BY DEF Send, End, Ended, files, links, mounts, world
<1> QED
  BY <1>2, <1>3, <1>4, <1>5, QuietMove
     DEF IInv, TypeOK, Active, FlightSteps, BuildSteps, MountSteps, LinkSteps

-----------------------------------------------------------------------------
\* The end of a flight preserves the invariant: with a mount if it went well, and
\* otherwise with a fault that has reached everybody who shares the flight.
LEMMA LandKeepsIInv ==
    ASSUME IInv, NEW r \in Requests, rq[r].pc \in FlightSteps,
           NEW res \in {"ok", "error", "notfound"}, Land(r, res),
           UNCHANGED <<image, name, link, linkTmp, spoilt, dirs, kernel, idx, gone, up>>,
           tmp' = tmp \/ tmp' = [tmp EXCEPT ![r] = "none"],
           mounted' = mounted \/ mounted' = mounted \cup {rq[r].unit},
           broken' = broken \/ broken' = broken \cup {rq[r].unit},
           res = "ok" => rq[r].unit \in mounted',
           rq[r].unit \in dirs /\ rq[r].pc \in {"mount", "record"} => rq[r].unit \in mounted' \cup broken',
           hit' = hit \/ hit' = hit \cup Reached(r),
           res = "error" => r \in hit',
           faults' \in 0..MaxFaults,
           \/ rq[r].pc \in BuildSteps /\ slots' = slots - 1
           \/ rq[r].pc \notin BuildSteps /\ slots' = slots
    PROVE  IInv'
<1> DEFINE u == rq[r].unit
           landing == Waiting(u) \cup {r}
<1>1. /\ rq' \in [Requests -> Handlers]
      /\ flight' = [flight EXCEPT ![u] = NoOne]
      /\ \A q \in Requests \ landing : rq'[q] = rq[q]
      /\ \A q \in landing :
            /\ rq'[q].pc \in {"open", "end"}
            /\ rq'[q].asked = rq[q].asked
            /\ rq'[q].pc = "open" =>
                  res = "ok" /\ rq'[q].hop = IF u \in Paths THEN rq[q].hop + 1 ELSE rq[q].hop
            /\ rq'[q].status = "500" => res = "error" \/ rq[q].status = "500"
  BY LandMoves
<1>2. /\ u \in Units /\ flight[u] = r /\ up
      /\ \A q \in landing : q \in Requests /\ rq[q].unit = u /\ (q = r \/ rq[q].pc = "wait")
      /\ flight'[u] = NoOne /\ \A v \in Units \ {u} : flight'[v] = flight[v] /\ flight[v] # r
  <2>1. u \in Units /\ flight[u] = r
    BY DEF IInv, Flights
  <2>2. up
    BY DEF IInv, Flights, Active, FlightSteps, BuildSteps, MountSteps
  <2>3. \A q \in landing : q \in Requests /\ rq[q].unit = u /\ (q = r \/ rq[q].pc = "wait")
    BY DEF Waiting
  <2>4. \A v \in Units \ {u} : flight[v] # r
    BY ConstantTypes DEF IInv, Flights
  <2> QED
    BY <1>1, <2>1, <2>2, <2>3, <2>4 DEF IInv, TypeOK
<1>3. \A q \in Requests \ landing : /\ rq[q].pc \in FlightSteps => rq[q].unit # u
                                    /\ rq[q].pc = "wait" => rq[q].unit # u
  BY <1>2 DEF IInv, Flights, Waiting
<1> HIDE DEF u, landing
<1>4. \A v \in Units : Waiting(v)' \subseteq Waiting(v)
  BY <1>1, <1>2 DEF Waiting
<1>5. TypeOK'
  <2>1. slots' \in Nat
    BY BuildersCounted DEF IInv, TypeOK, Building
  <2>2. flight' \in [Units -> Requests \cup {NoOne}] /\ tmp' \in [Requests -> Contents]
    BY <1>1 DEF IInv, TypeOK, Contents
  <2>3. mounted' \subseteq Units /\ broken' \subseteq Units
    BY <1>2 DEF IInv, TypeOK, u
  <2>4. hit' \subseteq Requests
    BY ReachedShared DEF IInv, TypeOK
  <2> QED
    BY <1>1, <2>1, <2>2, <2>3, <2>4 DEF IInv, TypeOK, Handlers
<1>6. Flights'
  <2>1. \A q \in Requests :
          /\ rq'[q].pc \in {"join", "wait"} \cup FlightSteps => rq'[q].unit \in Units
          /\ rq'[q].pc \in LinkSteps => rq'[q].unit = ArchiveOf[BuildOf[q]] /\ rq'[q].unit \in Archives
          /\ rq'[q].pc \in {"trunc", "name"} => rq'[q].unit \in Archives
    BY <1>1 DEF IInv, Flights, FlightSteps, BuildSteps, MountSteps, LinkSteps
  <2>2. ASSUME NEW q \in Requests
        PROVE  /\ rq'[q].pc \in FlightSteps => flight'[rq'[q].unit] = q
               /\ rq'[q].pc = "wait" => flight'[rq'[q].unit] # NoOne
    <3>1. CASE q \in landing
      BY <1>1, <3>1 DEF FlightSteps, BuildSteps, MountSteps
    <3>2. CASE q \notin landing
      BY <1>1, <1>2, <1>3, <3>2 DEF IInv, Flights
    <3> QED
      BY <3>1, <3>2
  <2>3. ASSUME NEW v \in Units, flight'[v] # NoOne
        PROVE  rq'[flight'[v]].pc \in FlightSteps /\ rq'[flight'[v]].unit = v
    <3>1. v # u /\ flight'[v] = flight[v]
      BY <1>2, <2>3
    <3>2. flight[v] \in Requests /\ rq[flight[v]].pc \in FlightSteps /\ rq[flight[v]].unit = v
      BY <2>3, <3>1 DEF IInv, Flights, TypeOK
    <3>3. flight[v] \notin landing
      BY <1>2, <3>1, <3>2
    <3> QED
      BY <1>1, <3>1, <3>2, <3>3
  <2> QED
    BY <1>2, <2>1, <2>2, <2>3 DEF IInv, Flights
<1>7. SlotsAccounted'
  <2>1. \A q \in landing : rq'[q].pc \notin BuildSteps
    BY <1>1 DEF BuildSteps
  <2>2. \A q \in landing \ {r} : rq[q].pc \notin BuildSteps
    BY <1>2 DEF BuildSteps
  <2>3. Building' = Building \ {r}
    BY <1>1, <1>2, <2>1, <2>2 DEF Building, landing
  <2> QED
    BY <2>3, BuildersCounted DEF Building
<1>8. ImagesWhole'
  BY DEF IInv, ImagesWhole
<1>9. Work'
  <2>1. \A q \in Requests \ landing : tmp'[q] = tmp[q] /\ rq'[q] = rq[q]
    BY <1>1 DEF IInv, TypeOK, landing
  <2>2. \A q \in landing : rq'[q].pc \in {"open", "end"}
    BY <1>1
  <2> QED
    BY <2>1, <2>2 DEF IInv, Work
<1>10. NoStrayMountPoint'
  <2>1. ASSUME NEW v \in dirs
        PROVE  \/ v \in mounted' \/ v \in broken'
               \/ flight'[v] # NoOne /\ rq'[flight'[v]].pc \in {"mount", "record"}
    <3>1. CASE v = u
      BY <1>2, <3>1 DEF IInv, NoStrayMountPoint, u
    <3>2. CASE v # u
      <4>1. v \in Units /\ flight'[v] = flight[v]
        BY <1>2, <3>2 DEF IInv, TypeOK
      <4>2. CASE v \in mounted \/ v \in broken
        BY <4>2
      <4>3. CASE flight[v] # NoOne /\ rq[flight[v]].pc \in {"mount", "record"}
        <5>1. flight[v] \in Requests /\ rq[flight[v]].unit = v
          BY <4>1, <4>3 DEF IInv, Flights, TypeOK
        <5> QED
          BY <1>1, <1>2, <3>2, <4>1, <4>3, <5>1
      <4> QED
        BY <1>2, <4>2, <4>3 DEF IInv, NoStrayMountPoint
    <3> QED
      BY <3>1, <3>2
  <2> QED
    BY <2>1 DEF NoStrayMountPoint
<1>11. Shared'
  <2>1. \A v \in Units : flight[v] \in hit' => Waiting(v) \subseteq hit'
    BY ReachedShared DEF IInv, Shared
  <2>2. NoOne \notin hit'
    BY <1>5, ConstantTypes DEF TypeOK
  <2> QED
    BY <1>2, <1>4, <2>1, <2>2 DEF IInv, Shared
<1>12. FaultsHeal'
  <2>1. res = "error" => landing \subseteq hit'
    BY <1>2, ReachedShared DEF IInv, Shared, landing, u
  <2> QED
    BY <1>1, <2>1 DEF IInv, FaultsHeal
<1>13. Climbing'
  <2>1. mounted \subseteq mounted'
    OBVIOUS
  <2>2. ASSUME NEW q \in Requests \ landing, rq'[q].pc # "end"
        PROVE  /\ rq'[q].pc = "idle" => rq'[q].hop = 0
               /\ rq'[q].hop <= Len(Leads[q])
               /\ \A j \in 1..rq'[q].hop : Leads[q][j] \in mounted'
               /\ rq'[q].pc \in {"join", "wait"} \cup FlightSteps /\ rq'[q].unit \in Paths =>
                     \E i \in 1..Len(Leads[q]) : /\ rq'[q].hop < i
                                                 /\ rq'[q].unit = Leads[q][i]
                                                 /\ \A j \in 1..(i - 1) : Leads[q][j] \in mounted'
    <3>1. rq'[q] = rq[q]
      BY <1>1
    <3>2. /\ rq[q].pc = "idle" => rq[q].hop = 0
          /\ rq[q].hop <= Len(Leads[q])
          /\ \A j \in 1..rq[q].hop : Leads[q][j] \in mounted
          /\ rq[q].pc \in {"join", "wait"} \cup FlightSteps /\ rq[q].unit \in Paths =>
                \E i \in 1..Len(Leads[q]) : /\ rq[q].hop < i
                                            /\ rq[q].unit = Leads[q][i]
                                            /\ \A j \in 1..(i - 1) : Leads[q][j] \in mounted
      BY <2>2, <3>1 DEF IInv, Climbing
    <3> QED
      BY <2>1, <3>1, <3>2
  <2>3. ASSUME NEW q \in landing, rq'[q].pc # "end"
        PROVE  /\ rq'[q].hop <= Len(Leads[q])
               /\ \A j \in 1..rq'[q].hop : Leads[q][j] \in mounted'
    <3>1. /\ q \in Requests /\ rq[q].pc \in {"wait"} \cup FlightSteps /\ rq[q].pc # "end"
          /\ rq[q].unit = u /\ u \in mounted'
      BY <1>1, <1>2, <2>3 DEF u, FlightSteps, BuildSteps, MountSteps
    <3>2. rq[q].hop \in Nat /\ Len(Leads[q]) \in Nat
      BY <3>1, HandlersTyped, ConstantTypes DEF Handlers
    <3>3. /\ rq[q].hop <= Len(Leads[q])
          /\ \A j \in 1..rq[q].hop : Leads[q][j] \in mounted
      BY <3>1 DEF IInv, Climbing
    <3>4. CASE u \in Paths
      <4>1. PICK i \in 1..Len(Leads[q]) : /\ rq[q].hop < i /\ u = Leads[q][i]
                                          /\ \A j \in 1..(i - 1) : Leads[q][j] \in mounted
        BY <3>1, <3>4 DEF IInv, Climbing
      <4>2. rq'[q].hop = rq[q].hop + 1
        BY <1>1, <2>3, <3>4
      <4>3. \A j \in 1..i : Leads[q][j] \in mounted'
        BY <2>1, <3>1, <4>1
      <4> QED
        BY <3>2, <4>1, <4>2, <4>3
    <3>5. CASE u \notin Paths
      BY <1>1, <2>1, <2>3, <3>3, <3>5
    <3> QED
      BY <3>4, <3>5
  <2>4. \A q \in landing : rq'[q].pc \notin {"idle", "join", "wait"} \cup FlightSteps
    BY <1>1 DEF FlightSteps, BuildSteps, MountSteps
  <2> QED
    BY <2>2, <2>3, <2>4 DEF Climbing
<1>14. LinkPassedOn'
  <2>1. \A q \in landing : rq[q].pc \notin LinkSteps /\ rq'[q].pc \notin LinkSteps
    BY <1>1, <1>2 DEF LinkSteps, FlightSteps, BuildSteps, MountSteps
  <2>2. \A b : /\ At(b, "clear")' = At(b, "clear") /\ At(b, "symlink")' = At(b, "symlink")
               /\ At(b, "rename")' = At(b, "rename")
    BY <1>1, <2>1 DEF At, LinkSteps
  <2>3. \A q \in Requests : rq'[q].asked = rq[q].asked
    BY <1>1
  <2>4. \A b : /\ Trusting(b, "symlink")' = Trusting(b, "symlink")
               /\ Trusting(b, "rename")' = Trusting(b, "rename")
    BY <1>1, <2>1, <2>3 DEF Trusting, LinkSteps
  <2> QED
    BY <2>2, <2>4 DEF IInv, LinkPassedOn
<1> QED
  BY <1>5, <1>6, <1>7, <1>8, <1>9, <1>10, <1>11, <1>12, <1>13, <1>14 DEF IInv

\* The same for a call that fails, by a fault or because the client is gone.
LEMMA CallFailsReaches ==
    ASSUME IInv, NEW r \in Requests, CallFails(r)
    PROVE  /\ faults' \in 0..MaxFaults /\ r \in hit'
           /\ hit' = hit \/ hit' = hit \cup Reached(r)
BY FaultReaches DEF CallFails, IInv, TypeOK, Shared

\* A failing build lands, and with it the slot.
LEMMA BuildFailsKeepsIInv ==
    ASSUME IInv, NEW r \in Requests, rq[r].pc \in BuildSteps, NEW res \in {"error", "notfound"},
           BuildFails(r, res), UNCHANGED <<image, name, links, mounts, idx, world>>,
           faults' \in 0..MaxFaults, r \in hit', hit' = hit \/ hit' = hit \cup Reached(r)
    PROVE  IInv'
<1>1. rq[r].pc \in FlightSteps /\ rq[r].pc \notin {"mount", "record"}
  BY DEF FlightSteps, BuildSteps
<1>2. UNCHANGED <<image, name, link, linkTmp, spoilt, dirs, kernel, mounted, broken, idx, gone, up>>
  BY DEF links, mounts, world
<1>3. Land(r, res) /\ slots' = slots - 1 /\ tmp' = [tmp EXCEPT ![r] = "none"]
  BY DEF BuildFails
<1> QED
  BY <1>1, <1>2, <1>3, LandKeepsIInv

\* GiveUpSlot preserves the invariant.
LEMMA GiveUpSlotKeepsIInv ==
    ASSUME IInv, NEW r \in Requests, GiveUpSlot(r)
    PROVE  IInv'
<1>1. rq[r].pc \in FlightSteps /\ rq[r].pc \notin BuildSteps /\ rq[r].pc \notin {"mount", "record"}
  BY DEF GiveUpSlot, FlightSteps, BuildSteps
<1>2. UNCHANGED <<image, tmp, name, link, linkTmp, spoilt, dirs, kernel, mounted, broken, slots, idx,
                  gone, up, faults, hit>>
  BY DEF GiveUpSlot, files, links, mounts, world
<1>3. Land(r, "error") /\ r \in hit' /\ faults' \in 0..MaxFaults
  BY <1>2 DEF GiveUpSlot, IInv, Shared, TypeOK
<1> QED
  BY <1>1, <1>2, <1>3, LandKeepsIInv

\* FetchNarFails preserves the invariant.
LEMMA FetchNarFailsKeepsIInv ==
    ASSUME IInv, NEW r \in Requests, FetchNarFails(r)
    PROVE  IInv'
<1>1. rq[r].pc \in BuildSteps /\ UNCHANGED <<image, name, links, mounts, idx, world>>
  BY DEF FetchNarFails, BuildSteps
<1>2. PICK res \in {"error", "notfound"} : BuildFails(r, res)
  BY DEF FetchNarFails
<1>3. CallFails(r)
  BY DEF FetchNarFails
<1> QED
  BY <1>1, <1>2, <1>3, CallFailsReaches, BuildFailsKeepsIInv

\* UnpackFails preserves the invariant.
LEMMA UnpackFailsKeepsIInv ==
    ASSUME IInv, NEW r \in Requests, UnpackFails(r)
    PROVE  IInv'
<1>1. rq[r].pc \in BuildSteps /\ UNCHANGED <<image, name, links, mounts, idx, world>>
  BY DEF UnpackFails, BuildSteps
<1>2. CallFails(r) /\ BuildFails(r, "error")
  BY DEF UnpackFails
<1> QED
  BY <1>1, <1>2, CallFailsReaches, BuildFailsKeepsIInv

\* DiskFails preserves the invariant.
LEMMA DiskFailsKeepsIInv ==
    ASSUME IInv, NEW r \in Requests, DiskFails(r)
    PROVE  IInv'
<1>1. rq[r].pc \in BuildSteps /\ UNCHANGED <<image, name, links, mounts, idx, world>>
  BY DEF DiskFails, BuildSteps
<1>2. Fault("disk", r) /\ BuildFails(r, "error")
  BY DEF DiskFails
<1> QED
  BY <1>1, <1>2, FaultReaches, BuildFailsKeepsIInv

\* MountFails preserves the invariant.
LEMMA MountFailsKeepsIInv ==
    ASSUME IInv, NEW r \in Requests, MountFails(r)
    PROVE  IInv'
<1>1. rq[r].pc \in FlightSteps /\ rq[r].pc \notin BuildSteps
  BY DEF MountFails, FlightSteps, BuildSteps, MountSteps
<1>2. UNCHANGED <<image, tmp, name, link, linkTmp, spoilt, dirs, kernel, mounted, slots, idx, gone, up>>
  BY DEF MountFails, files, links, world
<1>3. Land(r, "error") /\ Fault("mount", r) /\ broken' = broken \cup (dirs \cap {rq[r].unit})
  BY DEF MountFails
<1>4. broken' = broken \/ broken' = broken \cup {rq[r].unit}
  BY <1>3
<1>5. rq[r].pc \in {"mount", "record"} => rq[r].unit \in broken' \/ rq[r].unit \notin dirs
  BY <1>3
<1> QED
  BY <1>1, <1>2, <1>3, <1>4, <1>5, FaultReaches, LandKeepsIInv

\* RecordMount preserves the invariant.
LEMMA RecordMountKeepsIInv ==
    ASSUME IInv, NEW r \in Requests, RecordMount(r)
    PROVE  IInv'
<1>1. rq[r].pc \in FlightSteps /\ rq[r].pc \notin BuildSteps
  BY DEF RecordMount, FlightSteps, BuildSteps, MountSteps
<1>2. UNCHANGED <<image, tmp, name, link, linkTmp, spoilt, dirs, kernel, broken, slots, idx, gone, up,
                  faults, hit>>
  BY DEF RecordMount, files, links, world
<1>3. Land(r, "ok") /\ mounted' = mounted \cup {rq[r].unit} /\ faults' \in 0..MaxFaults
  BY <1>2 DEF RecordMount, IInv, TypeOK
<1> QED
  BY <1>1, <1>2, <1>3, LandKeepsIInv

\* CheckMounted preserves the invariant: it lands or goes on inside the flight.
LEMMA CheckMountedKeepsIInv ==
    ASSUME IInv, NEW r \in Requests, CheckMounted(r)
    PROVE  IInv'
<1>1. rq[r].pc = "mounted" /\ rq[r].pc \in FlightSteps /\ rq[r].pc \notin BuildSteps
  BY DEF CheckMounted, FlightSteps, BuildSteps, MountSteps
<1>2. UNCHANGED <<image, tmp, name, link, linkTmp, spoilt, dirs, kernel, mounted, broken, slots, idx,
                  gone, up, faults, hit>>
  BY DEF CheckMounted, files, links, mounts, world
<1>3. CASE rq[r].unit \in mounted
  <2>1. Land(r, "ok") /\ faults' \in 0..MaxFaults /\ rq[r].pc \notin {"mount", "record"}
    BY <1>1, <1>2, <1>3 DEF CheckMounted, IInv, TypeOK
  <2> QED
    BY <1>1, <1>2, <1>3, <2>1, LandKeepsIInv
<1>4. CASE rq[r].unit \notin mounted
  <2>1. flight' = flight /\ \E pc \in {"stat", "mkdir"} : Goto(r, pc) /\ (pc = "mkdir" => rq[r].unit \notin Paths)
    BY <1>4 DEF CheckMounted
  <2>2. /\ rq' \in [Requests -> Handlers] /\ \A q \in Requests \ {r} : rq'[q] = rq[q]
        /\ rq'[r].unit = rq[r].unit /\ rq'[r].asked = rq[r].asked /\ rq'[r].hop = rq[r].hop
        /\ rq'[r].pc \in {"stat", "mkdir"} /\ rq'[r].status = rq[r].status
        /\ rq'[r].pc = "mkdir" => rq[r].unit \notin Paths
    BY <2>1, GotoMoves, StepNames
  <2>3. TypeOK'
    BY <1>2, <2>1, <2>2 DEF IInv, TypeOK, Handlers
  <2>4. Flights' /\ Shared' /\ FaultsHeal' /\ Climbing' /\ LinkPassedOn'
    BY <1>1, <1>2, <2>1, <2>2, StepNames, FlightMove
  <2>5. Building' = Building
    BY <1>1, <2>2 DEF Building, BuildSteps
  <2>6. SlotsAccounted'
    BY <1>2, <2>5, BuildersCounted
  <2>7. ImagesWhole'
    BY <1>2 DEF IInv, ImagesWhole
  <2>8. rq'[r].pc = "mkdir" => rq[r].unit \in Archives
    BY <1>1, <2>2 DEF IInv, Flights, Units
  <2>9. Work'
    BY <1>1, <1>2, <2>2, <2>8 DEF IInv, Work
  <2>10. NoStrayMountPoint'
    BY <1>1, <1>2, <2>1, <2>2 DEF IInv, TypeOK, NoStrayMountPoint
  <2> QED
    BY <2>3, <2>4, <2>6, <2>7, <2>9, <2>10 DEF IInv
<1> QED
  BY <1>3, <1>4

-----------------------------------------------------------------------------
\* Disconnect preserves the invariant: it only marks requests.
LEMMA DisconnectKeepsIInv ==
    ASSUME IInv, NEW r \in Requests, Disconnect(r)
    PROVE  IInv'
<1>1. UNCHANGED <<image, tmp, name, link, linkTmp, spoilt, dirs, kernel, mounted, broken, flight, slots,
                  idx, rq, up>>
  BY DEF Disconnect, files, links, mounts
<1>2. /\ gone' = gone \cup {r} /\ faults' \in 0..MaxFaults
      /\ hit' = hit \cup Reached(r) /\ r \in hit' /\ Reached(r) \subseteq Requests
  BY FaultReaches, ReachedShared DEF Disconnect
<1>3. TypeOK'
  BY <1>1, <1>2 DEF IInv, TypeOK
<1>4. Flights' /\ Work' /\ Climbing'
  BY <1>1 DEF IInv, Flights, Active, Work, Climbing
<1>5. SlotsAccounted' /\ ImagesWhole' /\ NoStrayMountPoint'
  BY <1>1 DEF IInv, SlotsAccounted, ImagesWhole, NoStrayMountPoint
<1>6. Shared'
  <2>1. \A u \in Units : Waiting(u)' = Waiting(u)
    BY <1>1 DEF Waiting
  <2>2. \A u \in Units : flight[u] \in hit' => Waiting(u) \subseteq hit'
    BY <1>2, ReachedShared
  <2> QED
    BY <1>1, <1>2, <2>1, <2>2 DEF IInv, Shared
<1>7. FaultsHeal'
  BY <1>1, <1>2 DEF IInv, FaultsHeal
<1>8. LinkPassedOn'
  BY <1>1 DEF IInv, LinkPassedOn, At, Trusting
<1> QED
  BY <1>3, <1>4, <1>5, <1>6, <1>7, <1>8 DEF IInv

\* Kill preserves the invariant: nobody is left inside a flight.
LEMMA KillKeepsIInv ==
    ASSUME IInv, Kill
    PROVE  IInv'
<1>1. UNCHANGED <<image, tmp, name, link, linkTmp, spoilt, dirs, kernel, gone, hit>>
  BY DEF Kill, files, links
<1>2. /\ up' = FALSE /\ mounted' = {} /\ broken' = {} /\ slots' = 0
      /\ flight' = [u \in Units |-> NoOne] /\ idx' = [b \in Builds |-> "none"]
      /\ faults < MaxFaults /\ faults' = faults + 1
  BY DEF Kill
<1>3. rq' \in [Requests -> Handlers]
      /\ \A r \in Requests : /\ rq'[r].pc \in {"idle", "end"} /\ rq'[r].asked = FALSE
                             /\ rq'[r].pc = "idle" => rq[r].pc = "idle" /\ rq'[r].hop = rq[r].hop
                             /\ rq'[r].status = "500" => rq[r].status = "500"
  <2>1. ASSUME NEW r \in Requests
        PROVE  /\ [Ended(rq[r], "killed") EXCEPT !.asked = FALSE] \in Handlers
               /\ [Ended(rq[r], "killed") EXCEPT !.asked = FALSE].pc = "end"
               /\ [Ended(rq[r], "killed") EXCEPT !.asked = FALSE].asked = FALSE
               /\ [Ended(rq[r], "killed") EXCEPT !.asked = FALSE].status = "killed"
    BY HandlersTyped, StepNames, "end" \in Steps DEF Ended, Handlers
  <2>2. ASSUME NEW r \in Requests
        PROVE  /\ [rq[r] EXCEPT !.asked = FALSE] \in Handlers
               /\ [rq[r] EXCEPT !.asked = FALSE].pc = rq[r].pc
               /\ [rq[r] EXCEPT !.asked = FALSE].asked = FALSE
               /\ [rq[r] EXCEPT !.asked = FALSE].hop = rq[r].hop
               /\ [rq[r] EXCEPT !.asked = FALSE].status = rq[r].status
    BY HandlersTyped DEF Handlers
  <2>3. \A r \in Requests : rq'[r] = IF Active(r) THEN [Ended(rq[r], "killed") EXCEPT !.asked = FALSE]
                                     ELSE [rq[r] EXCEPT !.asked = FALSE]
    BY DEF Kill
  <2>4. rq' \in [Requests -> Handlers]
    BY <2>1, <2>2 DEF Kill
  <2> QED
    BY <2>1, <2>2, <2>3, <2>4 DEF Active
<1>4. TypeOK'
  <2>1. faults' \in 0..MaxFaults
    BY <1>2, ConstantsAssumption DEF IInv, TypeOK
  <2>2. flight' \in [Units -> Requests \cup {NoOne}] /\ idx' \in [Builds -> {"none", "empty", "full"}]
    BY <1>2
  <2> QED
    BY <1>1, <1>2, <1>3, <2>1, <2>2 DEF IInv, TypeOK, Handlers
<1>5. Flights'
  BY <1>1, <1>2, <1>3 DEF IInv, Flights, Active, FlightSteps, BuildSteps, MountSteps, LinkSteps
<1>6. SlotsAccounted'
  <2>1. Building' = {}
    BY <1>3 DEF Building, BuildSteps
  <2> QED
    BY <1>2, <2>1, FS_EmptySet, ConstantTypes, 0 <= MaxFetches DEF SlotsAccounted, Building
<1>7. ImagesWhole' /\ NoStrayMountPoint'
  BY <1>1, <1>2 DEF IInv, ImagesWhole, NoStrayMountPoint
<1>8. Work'
  BY <1>3 DEF Work
<1>9. Shared'
  BY <1>1, <1>2, ConstantTypes DEF IInv, Shared, TypeOK
<1>10. FaultsHeal'
  BY <1>1, <1>3 DEF IInv, FaultsHeal
<1>11. Climbing'
  <2>1. \A r \in Requests : rq[r].pc = "idle" => rq[r].hop = 0
    BY DEF IInv, Climbing
  <2> QED
    BY <1>3, <2>1, ConstantTypes DEF Climbing, FlightSteps, BuildSteps, MountSteps
<1>12. LinkPassedOn'
  <2>1. \A b : Trusting(b, "symlink")' = {} /\ Trusting(b, "rename")' = {}
    BY <1>3 DEF Trusting
  <2> QED
    BY <2>1 DEF LinkPassedOn
<1> QED
  BY <1>4, <1>5, <1>6, <1>7, <1>8, <1>9, <1>10, <1>11, <1>12 DEF IInv

\* Restart preserves the invariant.
LEMMA RestartKeepsIInv ==
    ASSUME IInv, Restart
    PROVE  IInv'
<1>1. UNCHANGED <<image, tmp, name, link, linkTmp, spoilt, mounted, broken, flight, slots, idx, rq,
                  gone, faults, hit>>
  BY DEF Restart, files, links
<1>2. up' = TRUE /\ kernel' = {} /\ dirs' = {}
  BY DEF Restart
<1>3. TypeOK'
  BY <1>1, <1>2 DEF IInv, TypeOK
<1>4. Flights' /\ Work' /\ Climbing'
  BY <1>1, <1>2 DEF IInv, Flights, Active, Work, Climbing
<1>5. SlotsAccounted' /\ ImagesWhole' /\ NoStrayMountPoint'
  BY <1>1, <1>2 DEF IInv, SlotsAccounted, ImagesWhole, NoStrayMountPoint
<1>6. Shared' /\ FaultsHeal'
  BY <1>1 DEF IInv, Shared, FaultsHeal, Waiting
<1>7. LinkPassedOn'
  BY <1>1 DEF IInv, LinkPassedOn, At, Trusting
<1> QED
  BY <1>3, <1>4, <1>5, <1>6, <1>7 DEF IInv

-----------------------------------------------------------------------------
\* Every step preserves the invariant.
LEMMA NextKeepsIInv == IInv /\ [Next]_vars => IInv'
<1> SUFFICES ASSUME IInv, [Next]_vars PROVE IInv'
  OBVIOUS
<1>1. ASSUME NEW r \in Requests, Arrive(r) PROVE IInv'
  BY <1>1, ArriveKeepsIInv
<1>2. ASSUME NEW r \in Requests,
             \/ ReadLink(r) \/ DebuginfoMeta(r) \/ ClearLinkTmp(r) \/ SymlinkTmp(r) \/ RenameLink(r)
             \/ LinkDirFails(r) \/ LinkFails(r)
             \/ Join(r) \/ Lead(r) \/ CheckMounted(r) \/ StatImage(r)
      PROVE  IInv'
  BY <1>2, ReadLinkKeepsIInv, DebuginfoMetaKeepsIInv, ClearLinkTmpKeepsIInv, SymlinkTmpKeepsIInv,
     RenameLinkKeepsIInv, LinkDirFailsKeepsIInv, LinkFailsKeepsIInv, JoinKeepsIInv, LeadKeepsIInv, CheckMountedKeepsIInv, StatImageKeepsIInv
<1>3. ASSUME NEW r \in Requests,
             \/ Acquire(r) \/ GiveUpSlot(r) \/ RestatImage(r) \/ FetchNar(r) \/ FetchNarFails(r)
             \/ Unpack(r) \/ UnpackFails(r) \/ TruncName(r) \/ WriteName(r) \/ RenameImage(r) \/ DiskFails(r)
      PROVE  IInv'
  BY <1>3, AcquireKeepsIInv, GiveUpSlotKeepsIInv, RestatImageKeepsIInv, FetchNarKeepsIInv,
     FetchNarFailsKeepsIInv, UnpackKeepsIInv, UnpackFailsKeepsIInv, TruncNameKeepsIInv,
     WriteNameKeepsIInv, RenameImageKeepsIInv, DiskFailsKeepsIInv
<1>4. ASSUME NEW r \in Requests,
             \/ MkdirPoint(r) \/ MountErofs(r) \/ MountFails(r) \/ RecordMount(r)
             \/ OpenFile(r) \/ OpenFails(r) \/ MissingFor(r) \/ FindInIndex(r) \/ WalkIndex(r) \/ Send(r)
      PROVE  IInv'
  BY <1>4, MkdirPointKeepsIInv, MountErofsKeepsIInv, MountFailsKeepsIInv, RecordMountKeepsIInv,
     OpenFileKeepsIInv, OpenFailsKeepsIInv, MissingForKeepsIInv, FindInIndexKeepsIInv, WalkIndexKeepsIInv, SendKeepsIInv
<1>5. ASSUME NEW r \in Requests, Disconnect(r) PROVE IInv'
  BY <1>5, DisconnectKeepsIInv
<1>6. CASE Kill
  BY <1>6, KillKeepsIInv
<1>7. CASE Restart
  BY <1>7, RestartKeepsIInv
<1>8. CASE UNCHANGED vars
  BY <1>8 DEF vars, IInv, TypeOK, Flights, Active, SlotsAccounted, ImagesWhole, Work,
     NoStrayMountPoint,
     Shared, Waiting, FaultsHeal, Climbing, LinkPassedOn, At, Trusting
<1> QED
  BY <1>1, <1>2, <1>3, <1>4, <1>5, <1>6, <1>7, <1>8 DEF Next, Step

\* The inductive invariant holds throughout.
THEOREM Invariant == Spec => []IInv
BY InitIInv, NextKeepsIInv, PTL DEF Spec

\* The state has its type for any instance; in particular release never drains an empty
\* slots channel.
THEOREM TypeCorrect == Spec => []TypeOK
<1>1. IInv => TypeOK
  BY DEF IInv
<1> QED
  BY <1>1, Invariant, PTL

\* What is mounted or has its final name is a complete image, and the name of an archive
\* that has its image is recorded, across failures, kills and restarts.
THEOREM ImagesAreWhole == Spec => []ImagesWhole
<1>1. IInv => ImagesWhole
  BY DEF IInv
<1> QED
  BY <1>1, Invariant, PTL

\* The slots channel holds a token for every build and never more than maxFetches.
THEOREM SlotsAreAccounted == Spec => []SlotsAccounted
<1>1. IInv => SlotsAccounted
  BY DEF IInv
<1> QED
  BY <1>1, Invariant, PTL

\* A mount point without its mount belongs to a mount of this process that is under way
\* or has failed: reconcileMountRoots leaves nothing of an earlier one.
THEOREM MountPointsAreOwn == Spec => []NoStrayMountPoint
<1>1. IInv => NoStrayMountPoint
  BY DEF IInv
<1> QED
  BY <1>1, Invariant, PTL

\* A 500 is owed to a fault of the flight the request led or shared, or to what the request
\* itself names: an unreadable path, a short build id, a chain longer than Open follows.
THEOREM FaultsAreOwn == Spec => []FaultsHeal
<1>1. IInv => FaultsHeal
  BY DEF IInv
<1> QED
  BY <1>1, Invariant, PTL

\* Whoever interleaves in archiveFor, and whatever earlier processes and failing disks have
\* left behind, the first requests of a build id record its link.
THEOREM LinksAreRecorded == Spec => []LinkRecorded
<1>1. ASSUME IInv PROVE LinkRecorded
  <2>1. ASSUME NEW r \in Requests \ spoilt, rq[r].asked,
               \A q \in Requests : BuildOf[q] = BuildOf[r] => rq[q].pc \notin LinkSteps
        PROVE  BuildOf[r] \in link
    <3>1. At(BuildOf[r], "symlink") = {} /\ At(BuildOf[r], "rename") = {}
      BY <2>1 DEF At, LinkSteps
    <3>2. r \in Trusting(BuildOf[r], "symlink") /\ r \in Trusting(BuildOf[r], "rename")
      BY <2>1 DEF Trusting
    <3> QED
      BY <1>1, <3>1, <3>2, ConstantTypes DEF IInv, LinkPassedOn
  <2> QED
    BY <2>1 DEF LinkRecorded
<1> QED
  BY <1>1, Invariant, PTL

-----------------------------------------------------------------------------
(* Who waits for whom.                                                     *)

\* Only one request at a time is inside the function of a unit's flight, and no two requests
\* wait for each other: who waits for a flight waits for a leader that waits for no flight,
\* and a leader that finds no free slot waits for a build, which waits for nobody.
NoCircularWait ==
    /\ \A r, q \in Requests :
          rq[r].pc \in FlightSteps /\ rq[q].pc \in FlightSteps /\ rq[r].unit = rq[q].unit => r = q
    /\ \A r \in Requests : rq[r].pc = "wait" =>
          \E l \in Requests : rq[l].pc \in FlightSteps /\ rq[l].unit = rq[r].unit
    /\ \A r \in Requests : rq[r].pc = "slot" /\ ~(slots < MaxFetches) =>
          \E q \in Requests : rq[q].pc \in BuildSteps

\* The waits of nix-debuginfod form chains of at most three requests, whatever has failed,
\* disconnected or been killed: singleflight and the slots cannot deadlock each other.
THEOREM WaitsEnd == Spec => []NoCircularWait
<1>1. ASSUME IInv PROVE NoCircularWait
  <2>1. ASSUME NEW r \in Requests, NEW q \in Requests, rq[r].pc \in FlightSteps,
               rq[q].pc \in FlightSteps, rq[r].unit = rq[q].unit
        PROVE  r = q
    BY <1>1, <2>1 DEF IInv, Flights
  <2>2. ASSUME NEW r \in Requests, rq[r].pc = "wait"
        PROVE  \E l \in Requests : rq[l].pc \in FlightSteps /\ rq[l].unit = rq[r].unit
    <3>1. rq[r].unit \in Units /\ flight[rq[r].unit] # NoOne
      BY <1>1, <2>2 DEF IInv, Flights
    <3>2. flight[rq[r].unit] \in Requests
      BY <1>1, <3>1 DEF IInv, TypeOK
    <3> QED
      BY <1>1, <3>1, <3>2 DEF IInv, Flights
  <2>3. ASSUME NEW r \in Requests, ~(slots < MaxFetches)
        PROVE  \E q \in Requests : rq[q].pc \in BuildSteps
    <3>1. slots = Cardinality(Building) /\ slots \in Nat
      BY <1>1 DEF IInv, TypeOK, SlotsAccounted, Building
    <3>2. MaxFetches \in Nat \ {0}
      BY ConstantTypes
    <3>3. slots # 0
      BY <2>3, <3>1, <3>2
    <3>4. Cardinality({}) = 0
      BY FS_EmptySet
    <3>5. Building # {}
      BY <3>1, <3>3, <3>4
    <3> QED
      BY <3>5 DEF Building
  <2> QED
    BY <2>1, <2>2, <2>3 DEF NoCircularWait
<1> QED
  BY <1>1, Invariant, PTL
=============================================================================
