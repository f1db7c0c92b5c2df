---------------------------- MODULE MacAssignments ----------------------------
(***************************************************************************)
(* The query that tells the monitor whose device is whose (store.go,       *)
(* macAssignments).  It reads the joined rows of macs and accounts one at  *)
(* a time, in whatever order SQLite delivers them, and folds them into a   *)
(* map from device to account, in which "" stands for a device that        *)
(* several accounts claim.                                                 *)
(***************************************************************************)
EXTENDS FiniteSets, Claims

CONSTANTS Mac, Email, NoEmail   \* NoEmail: Go's ""

ASSUME NoEmailAssumption == NoEmail \notin Email

VARIABLES
  table,        \* the rows of the query's snapshot
  unread,       \* the rows it has not delivered yet
  assignments,  \* the map: a function on the devices seen so far
  status        \* "reading", then what the function returns: "ok" or "error"

maVars == <<table, unread, assignments, status>>

MATypeOK ==
  /\ table \in SUBSET (Mac \X Email) /\ unread \in SUBSET table
  /\ DOMAIN assignments \in SUBSET Mac
  /\ assignments \in [DOMAIN assignments -> Email \cup {NoEmail}]
  /\ status \in {"reading", "ok", "error"}

MAInit ==
  /\ table \in SUBSET (Mac \X Email) /\ unread = table
  /\ assignments = [m \in {} |-> NoEmail] /\ status = "reading"

\* assignments[m] = e.
Assigned(m, e) ==
  [x \in DOMAIN assignments \cup {m} |-> IF x = m THEN e ELSE assignments[x]]

\* Mutant: a third claim takes a disputed device.
ScanRowForgetting(r) ==
  /\ status = "reading" /\ r \in unread
  /\ unread' = unread \ {r}
  /\ LET taken == r[1] \in DOMAIN assignments /\ assignments[r[1]] \notin {r[2], NoEmail}
     IN  assignments' = Assigned(r[1], IF taken THEN NoEmail ELSE r[2])
  /\ UNCHANGED <<table, status>>

\* Mutant: a disputed device is left out of the map.
ScanRowDeleting(r) ==
  /\ status = "reading" /\ r \in unread
  /\ unread' = unread \ {r}
  /\ assignments' =
       IF r[1] \in DOMAIN assignments /\ assignments[r[1]] # r[2]
       THEN [x \in DOMAIN assignments \ {r[1]} |-> assignments[x]]
       ELSE Assigned(r[1], r[2])
  /\ UNCHANGED <<table, status>>

\* One turn of rows.Next and rows.Scan.
ScanRow(r) ==
  /\ status = "reading" /\ r \in unread
  /\ unread' = unread \ {r}
  /\ LET taken == r[1] \in DOMAIN assignments /\ assignments[r[1]] # r[2]
     IN  assignments' = Assigned(r[1], IF taken THEN NoEmail ELSE r[2])
  /\ UNCHANGED <<table, status>>

\* The driver fails at a row, or rows.Err reports that it stopped early.
ScanError ==
  /\ status = "reading" /\ status' = "error"
  /\ UNCHANGED <<table, unread, assignments>>

Return ==
  /\ status = "reading" /\ unread = {} /\ status' = "ok"
  /\ UNCHANGED <<table, unread, assignments>>

MANext == ScanError \/ Return \/ \E r \in unread : ScanRow(r)

MASpec == MAInit /\ [][MANext]_maVars

-------------------------------------------------------------------------------
\* At any row, and so whatever the order of the rows, the map holds exactly the
\* devices read so far, each with its owner or, from the second owner on and
\* for good, with "".
FoldExact ==
  LET read == table \ unread IN
  /\ DOMAIN assignments = {r[1] : r \in read}
  /\ \A m \in DOMAIN assignments :
       IF \E e \in Email : OwnersOf(read, m) = {e}
       THEN OwnersOf(read, m) = {assignments[m]}
       ELSE assignments[m] = NoEmail

\* What the monitor's loop does not skip is what HubMonitor takes it to be: the
\* undisputed claims of the table (hub_monitor.go, `email == ""`).
YieldsSoleClaims ==
  status = "ok" =>
    {<<m, assignments[m]>> : m \in {x \in DOMAIN assignments : assignments[x] # NoEmail}}
      = SoleClaims(table)
===============================================================================
