------------------------------- MODULE Proxy -------------------------------
(***************************************************************************)
(* The front of the proxy: requests that are attributed, served and logged *)
(* while the two address lists are refreshed, days pass and the statistics *)
(* pages are rebuilt from the log.                                         *)
(***************************************************************************)
EXTENDS ProxyRequest, StatsPages

CONSTANTS Addresses     \* the addresses TagMostSpecific asks for

ASSUME AddressesAssumption == \A ip \in Addresses : ip = [fam |-> ip.fam, n |-> ip.n] /\ ip.n \in Nat

vars == <<log, tags, rq, stats>>

Init == LogInit /\ TagsInit /\ RequestInit /\ StatsInit

Next ==
    \/ (\E r \in Requests : GetRealIP(r) \/ Step(r)) /\ UNCHANGED stats
    \/ TagsNext /\ UNCHANGED <<log, rq, stats>>
    \/ Midnight /\ UNCHANGED <<tags, rq, stats>>
    \/ StatsStep /\ UNCHANGED <<tags, rq>>

Spec == Init /\ [][Next]_vars

(* The goroutine of a request is scheduled and whatever it waits for ends  *)
(* (FindByBuildID returns, FileCache's requests terminate, WriteTimeout    *)
(* bounds a transfer); the worker's ticker fires again and again.          *)
Fairness ==
    /\ \A r \in Requests : WF_vars(Step(r) /\ UNCHANGED stats)
    /\ WF_vars(StatsStep /\ UNCHANGED <<tags, rq>>)
FairSpec == Spec /\ Fairness

-----------------------------------------------------------------------------
(* Properties.                                                             *)

D == INSTANCE Delivery WITH state <- clientState, got <- clientGot

\* What a client observes is what Delivery allows: an error page is never followed by a cut
\* connection, a body that is sent never ends normally before its last byte, and every
\* request gets its answer.
Delivers == D!FairSpec

Steps == {"idle", "tags", "find", "serve", "fetch", "copy", "returned", "log",
          "close", "ended", "aborted"}
Statuses == {0, 200, 404, 500, 501, 503}
Ips == {NoHeader} \cup {Peer[r] : r \in Requests} \cup {Header[r] : r \in Requests}
Tags == {"", "unclassified", "direct"} \cup {Services[k] : k \in 1..Len(Services)}

\* Types: a row is stamped with a day and a tag the configuration names and never with the
\* 0 of an answer that was not given; the series of a page are as long as its time axis.
TypeOK ==
    /\ rq \in [Requests -> [pc : Steps, ip : Ips, tag : Tags, day : (FirstDay..LastDay) \cup {0},
                            committed : BOOLEAN, status : Statuses, head : Statuses,
                            sent : 0..Size, err : Errors \cup {"nil"}]]
    /\ rows \ History \subseteq [of : Requests, day : FirstDay..LastDay, tag : Tags,
                                status : Statuses \ {0}, err : Errors \cup {"nil"}]
    /\ day \in FirstDay..LastDay /\ dbFaults \in 0..MaxDbFaults
    /\ pages # NoPages => \A v \in Views : /\ Len(pages[v].traffic) = Len(pages[v].days)
                                           /\ Len(pages[v].requests) = Len(pages[v].days)

\* The log, from which every chart is drawn, tells what the client saw: a row counts as
\* served exactly if the client got the whole file, as aborted exactly if its connection
\* was cut, and otherwise has the status of the error page.
RowTellsTruth ==
    \A row \in rows \ History :
        rq[row.of].pc \in {"ended", "aborted"} =>
            /\ (Category(row) = "served") = (ClientState(row.of) = "whole")
            /\ (Category(row) = "aborted") = (ClientState(row.of) = "cut")
            /\ row.status # 200 => row.status = rq[row.of].head

\* Whatever the lists were and however often they were refreshed, ghTagsFor attributes
\* every address by the narrowest range of the list that was last loaded.
TagsRight == TagMostSpecific(Addresses)

\* Every view that is shown covers its days up to the day the collection began.  Each
\* day's columns are the rows of that day that were in the log at the query, and its total
\* of requests is never less than the columns add up to.  A day that had left ClickHouse's
\* window when a collection ran over midnight may be empty; it never has another day's counts.
PagesTrue ==
    pages # NoPages =>
        \A v \in Views :
            LET page == pages[v]
                OfDay(d) == {row \in page.seen : row.day = d /\ Counted(row)}
                FellOut(d) == d < page.on - Days
            IN /\ Len(page.days) = v + 1 /\ page.began <= page.on
               /\ \A k \in 1..(v + 1) :
                     /\ page.days[k] = page.began - (v + 1) + k
                     /\ \/ \A c \in Categories : page.traffic[k][c] =
                              Cardinality({row \in OfDay(page.days[k]) : Category(row) = c})
                        \/ FellOut(page.days[k]) /\ \A c \in Categories : page.traffic[k][c] = 0
                     /\ \/ page.requests[k] >= Cardinality(OfDay(page.days[k]))
                        \/ FellOut(page.days[k]) /\ page.requests[k] = 0

\* /stats comes up and stays up, whatever length is asked for, although collections fail
\* and run over midnight.
PageComesUp == <>[](\A asked \in Asked : Handler(asked) # NoPages)
=============================================================================
