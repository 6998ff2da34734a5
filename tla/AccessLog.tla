------------------------------ MODULE AccessLog ------------------------------
(***************************************************************************)
(* The table access_log of the proxy (cmd/proxy/db.go): what the request   *)
(* handler inserts and the statistics pages read, and the day both stamp   *)
(* and count by.  A row keeps the columns the pages tell apart.            *)
(***************************************************************************)
EXTENDS Naturals, FiniteSets

CONSTANTS
    History,        \* the rows earlier requests have left
    FirstDay,       \* today, when the model starts
    LastDay,        \* bound: the last day
    MaxDbFaults     \* bound: failing statements

ASSUME DaysAssumption == FirstDay \in Nat /\ LastDay \in Nat /\ FirstDay <= LastDay
ASSUME HistoryAssumption == IsFiniteSet(History)
ASSUME FaultsAssumption == MaxDbFaults \in Nat

VARIABLES
    rows,       \* a set: a request writes at most one row
    day,        \* the UTC day, for the process and for ClickHouse
    dbFaults

log == <<rows, day, dbFaults>>

LogInit == rows = History /\ day = FirstDay /\ dbFaults = 0

Midnight ==
    /\ day < LastDay
    /\ day' = day + 1
    /\ UNCHANGED <<rows, dbFaults>>

\* A statement fails or runs into its timeout.
DbFails == dbFaults < MaxDbFaults /\ dbFaults' = dbFaults + 1 /\ UNCHANGED day

\* An insert that has timed out may be stored all the same.
Insert(row) ==
    \/ rows' = rows \cup {row} /\ UNCHANGED <<day, dbFaults>>
    \/ DbFails /\ rows' \in {rows, rows \cup {row}}

(* The queries' split of the rows: excludeCI, and the four columns of the  *)
(* traffic panel.                                                          *)
Counted(row) == row.tag # "github_actions"
Category(row) ==
    CASE row.status = 200 /\ row.err = "nil" -> "served"
      [] row.status = 200 /\ row.err # "nil" -> "aborted"
      [] row.status # 200 /\ (row.status < 500 \/ row.status \in {501, 503}) -> "notfound"
      [] OTHER -> "err5xx"
=============================================================================
