---------------------------- MODULE ProxyRequest ----------------------------
(***************************************************************************)
(* One request of the proxy, from the access log middleware around it to   *)
(* the end of its connection (cmd/proxy/context.go, proxyRequest in        *)
(* main.go).  The resolver and the file cache, modules Finder and          *)
(* FileCache, appear by what they may return: an error before or after the *)
(* first byte, a body, or that the cache is busy.                          *)
(***************************************************************************)
EXTENDS AccessLog, ClientTags

CONSTANTS
    Requests,
    Peer,       \* [Requests -> address]: who opened the connection
    Header,     \* [Requests -> address, NoHeader or Bad]: CF-Connecting-IP
    Cacheable,  \* the requests whose endpoint goes through the file cache
    Size        \* the chunks of a file

ASSUME RequestsAssumption == Size \in Nat

VARIABLE rq     \* [Requests -> record]: the handler, its log entry and its connection

Errors == {"notimpl", "notfound", "down", "other"}

Idle == [pc |-> "idle", ip |-> NoHeader, tag |-> "", day |-> 0, committed |-> FALSE,
         status |-> 0, head |-> 0, sent |-> 0, err |-> "nil"]

RequestInit == rq = [r \in Requests |-> Idle]

Goto(r, pc) == rq' = [rq EXCEPT ![r].pc = pc]
Return(r, e) == rq' = [rq EXCEPT ![r].pc = "returned", ![r].err = e]

-----------------------------------------------------------------------------
(* The middleware before the handler: two reads of shared lists.           *)

GetRealIP(r) ==
    /\ rq[r].pc = "idle"
    /\ rq' = [rq EXCEPT ![r].pc = "tags", ![r].ip = RealIP(Peer[r], Header[r]), ![r].day = day]
    /\ UNCHANGED <<log, tags>>

GhTags(r) ==
    /\ rq[r].pc = "tags"
    /\ rq' = [rq EXCEPT ![r].pc = "find", ![r].tag = TagFor(rq[r].ip)]
    /\ UNCHANGED <<log, tags>>

-----------------------------------------------------------------------------
(* proxyRequest.                                                           *)

FindByBuildID(r) ==
    /\ rq[r].pc = "find"
    /\ \/ Goto(r, IF r \in Cacheable THEN "serve" ELSE "fetch")
       \/ \E e \in Errors : Return(r, e)
    /\ UNCHANGED <<log, tags>>

WriteHeader(r) ==
    rq' = [rq EXCEPT ![r].pc = "copy", ![r].committed = TRUE, ![r].status = 200, ![r].head = 200]

\* Only a busy cache is passed by.
Serve(r) ==
    /\ rq[r].pc = "serve"
    /\ \/ WriteHeader(r)
       \/ Goto(r, "fetch")
       \/ \E e \in Errors \ {"down"} : Return(r, e)
    /\ UNCHANGED <<log, tags>>

\* Every answer but a 200 is an error.
Fetch(r) ==
    /\ rq[r].pc = "fetch"
    /\ WriteHeader(r) \/ \E e \in Errors \ {"down"} : Return(r, e)
    /\ UNCHANGED <<log, tags>>

\* Mutant: the body is read one chunk past its length.
CopyOneMore(r) ==
    /\ rq[r].pc = "copy"
    /\ \/ rq[r].sent <= Size /\ rq' = [rq EXCEPT ![r].sent = @ + 1]
       \/ rq[r].sent > Size /\ Return(r, "nil")
    /\ UNCHANGED <<log, tags>>

Copy(r) ==
    /\ rq[r].pc = "copy"
    /\ \/ rq[r].sent < Size /\ rq' = [rq EXCEPT ![r].sent = @ + 1]
       \/ rq[r].sent = Size /\ Return(r, "nil")
    /\ UNCHANGED <<log, tags>>

\* The upstream breaks off or the client leaves, with or without the last byte sent.
CopyFails(r) ==
    /\ rq[r].pc = "copy"
    /\ Return(r, "other")
    /\ UNCHANGED <<log, tags>>

-----------------------------------------------------------------------------
(* The middleware after the handler.                                       *)

StatusOf(e) ==
    CASE e = "notimpl" -> 501 [] e = "notfound" -> 404 [] e = "down" -> 503 [] OTHER -> 500

\* Mutant: whether the response is committed is read after the error page.
MapErrorThenCapture(r) ==
    /\ rq[r].pc = "returned"
    /\ rq' = [rq EXCEPT ![r].pc = "log", ![r].committed = (rq[r].err # "nil"),
                        ![r].status = IF rq[r].committed THEN @ ELSE StatusOf(rq[r].err),
                        ![r].head = IF rq[r].committed THEN @ ELSE StatusOf(rq[r].err)]
    /\ UNCHANGED <<log, tags>>

\* http.Error commits the response too, but not for committedByHandler.
MapError(r) ==
    /\ rq[r].pc = "returned"
    /\ IF rq[r].err # "nil" /\ ~rq[r].committed
       THEN rq' = [rq EXCEPT ![r].pc = "log", ![r].status = StatusOf(rq[r].err),
                             ![r].head = StatusOf(rq[r].err)]
       ELSE Goto(r, "log")
    /\ UNCHANGED <<log, tags>>

RowOf(r) == [of |-> r, day |-> rq[r].day, tag |-> rq[r].tag, status |-> rq[r].status,
             err |-> rq[r].err]

\* The entry is dead once its row is written.
Logged(r) == rq' = [rq EXCEPT ![r].pc = "close", ![r].ip = NoHeader, ![r].tag = "", ![r].day = 0]

\* Mutant: the error of a request that has sent its headers does not reach its row.
WriteRowWithoutLateError(r) ==
    /\ rq[r].pc = "log"
    /\ Insert([RowOf(r) EXCEPT !.err = IF rq[r].committed THEN "nil" ELSE @])
    /\ Logged(r)
    /\ UNCHANGED tags

WriteRow(r) ==
    /\ rq[r].pc = "log"
    /\ Insert(RowOf(r))
    /\ Logged(r)
    /\ UNCHANGED tags

\* panic(http.ErrAbortHandler), or a normal return that ends the body.
Close(r) ==
    /\ rq[r].pc = "close"
    /\ Goto(r, IF rq[r].err # "nil" /\ rq[r].committed THEN "aborted" ELSE "ended")
    /\ UNCHANGED <<log, tags>>

Step(r) ==
    \/ GhTags(r) \/ FindByBuildID(r) \/ Serve(r) \/ Fetch(r)
    \/ Copy(r) \/ CopyFails(r) \/ MapError(r) \/ WriteRow(r) \/ Close(r)

-----------------------------------------------------------------------------
(* What the client sees: the head it has received and how the connection   *)
(* ends.                                                                   *)
ClientState(r) ==
    CASE rq[r].pc = "idle" -> "idle"
      [] rq[r].pc # "idle" /\ rq[r].head = 0 -> "waiting"
      [] rq[r].head = 200 /\ rq[r].pc = "ended" -> "whole"
      [] rq[r].head = 200 /\ rq[r].pc # "ended" /\ rq[r].pc # "aborted" -> "streaming"
      [] rq[r].head > 200 /\ rq[r].pc # "aborted" -> "refused"
      [] OTHER -> "cut"

clientState == [r \in Requests |-> ClientState(r)]
clientGot == [r \in Requests |-> rq[r].sent]
=============================================================================
