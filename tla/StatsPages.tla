----------------------------- MODULE StatsPages -----------------------------
(***************************************************************************)
(* The collector of /stats (cmd/proxy/stats.go): it lays out the days by   *)
(* its own clock, runs one query after the other, each of which counts     *)
(* back from ClickHouse's today, and renders a page per view length from   *)
(* tail cuts of the same daily series.  The pages are replaced all at once *)
(* and read by anybody at any time.                                        *)
(***************************************************************************)
EXTENDS AccessLog, Sequences

CONSTANTS
    Days,           \* STATS_DAYS
    ViewLengths,    \* statsViewLengths
    Asked,          \* the values of ?days= that come in
    NoPages

ASSUME StatsAssumption ==
    Days \in Nat \ {0} /\ ViewLengths \subseteq Nat /\ Asked \subseteq Nat /\ Days <= FirstDay

VARIABLES
    snap,       \* the collection under way, with the day it began, and what and when it last queried
    pages       \* [Views -> page], or NoPages

stats == <<snap, pages>>

Views == {v \in ViewLengths \cup {Days} : v > 0 /\ v <= Days}
defaultView == CHOOSE v \in Views : \A w \in Views : w <= v

NoSnap == [pc |-> "idle", days |-> <<>>, traffic |-> <<>>, requests |-> <<>>,
           began |-> 0, seen |-> {}, on |-> 0]

StatsInit == snap = NoSnap /\ pages = NoPages

\* The time axis is built from the clock.
CollectStats ==
    /\ snap.pc = "idle"
    /\ snap' = [NoSnap EXCEPT !.pc = "traffic", !.began = day,
                  !.days = [k \in 1..(Days + 1) |-> day - Days + k - 1]]
    /\ UNCHANGED <<log, pages>>

\* WHERE timestamp >= today() - days, and the rows that have a place on the axis.
Rows(k) == {row \in rows : row.day >= day - Days /\ row.day = snap.days[k] /\ Counted(row)}

Categories == {"served", "aborted", "notfound", "err5xx"}
CollectTraffic ==
    /\ snap.pc = "traffic"
    /\ snap' = [snap EXCEPT !.pc = "clients", !.seen = rows, !.on = day,
          !.traffic = [k \in 1..Len(snap.days) |->
                        [c \in Categories |-> Cardinality({row \in Rows(k) : Category(row) = c})]]]
    /\ UNCHANGED <<log, pages>>

\* The other queries run later, on a log that has grown.
CollectClients ==
    /\ snap.pc = "clients"
    /\ snap' = [snap EXCEPT !.pc = "render", !.on = day,
                  !.requests = [k \in 1..Len(snap.days) |-> Cardinality(Rows(k))]]
    /\ UNCHANGED <<log, pages>>

\* A failing query ends the collection and the old pages stay.
CollectFails ==
    /\ snap.pc \in {"traffic", "clients"}
    /\ DbFails
    /\ snap' = NoSnap
    /\ UNCHANGED <<rows, pages>>

\* Mutant: a window of n days keeps n days instead of today and the n before it.
SliceOneDayShort(v) ==
    LET from == Len(snap.days) - v
        Cut(series) == SubSeq(series, from + 1, Len(series))
    IN [days |-> Cut(snap.days), traffic |-> Cut(snap.traffic), requests |-> Cut(snap.requests),
        began |-> snap.began, seen |-> snap.seen, on |-> snap.on]

sliceSnapshot(v) ==
    LET n == Len(snap.days)
        keep == v + 1
        from == IF keep >= n THEN 0 ELSE n - keep
        Cut(series) == SubSeq(series, from + 1, n)
    IN [days |-> Cut(snap.days), traffic |-> Cut(snap.traffic), requests |-> Cut(snap.requests),
        began |-> snap.began, seen |-> snap.seen, on |-> snap.on]

Render ==
    /\ snap.pc = "render"
    /\ pages' = [v \in Views |-> sliceSnapshot(v)]
    /\ snap' = NoSnap
    /\ UNCHANGED log

StatsStep == CollectStats \/ CollectTraffic \/ CollectClients \/ CollectFails \/ Render

\* Mutant: any length is looked up as it is.
viewAsAsked(asked) == asked

\* An unknown length gets the longest view.
viewFromRequest(asked) == IF asked \in DOMAIN pages THEN asked ELSE defaultView

\* 503 while there is no page.
Handler(asked) ==
    IF pages = NoPages \/ viewFromRequest(asked) \notin DOMAIN pages
    THEN NoPages ELSE pages[viewFromRequest(asked)]
=============================================================================
