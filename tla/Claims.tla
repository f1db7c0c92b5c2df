-------------------------------- MODULE Claims --------------------------------
(***************************************************************************)
(* The rows of the macs table, joined with accounts, as a set of pairs     *)
(* <<mac, email>>, and what one account's claim to a device means.  Both   *)
(* the query that builds the monitor's assignment map (MacAssignments) and *)
(* the monitor that uses it (HubMonitor) build on these two operators.     *)
(***************************************************************************)

\* The accounts that have registered device m.
OwnersOf(rows, m) == {r[2] : r \in {x \in rows : x[1] = m}}

\* The claims nobody disputes: the device is registered by that account only.
SoleClaims(rows) == {r \in rows : OwnersOf(rows, r[1]) = {r[2]}}
===============================================================================
