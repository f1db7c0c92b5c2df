------------------------------ MODULE TokenTable ------------------------------
(***************************************************************************)
(* What becomes of the tokens table, as an abstract specification that the *)
(* two who write to it share: HubMonitor, which sees of a token only what  *)
(* it is good for, and Credentials, which follows the tokens themselves.   *)
(*                                                                         *)
(* A callback puts in a new token, or an empty one.  The monitor borrows   *)
(* an OAuth token, one at a time, and gives one back, or nothing at all.   *)
(***************************************************************************)

CONSTANTS Account, NoAccount

VARIABLES
  kept,      \* what is in the table for each account
  borrower   \* the account whose token the monitor is about to replace

tableVars == <<kept, borrower>>

\* Go's canAuthorize is false of "none".
Use == {"none", "pat", "oauth"}

TableInit == kept \in [Account -> Use] /\ borrower = NoAccount

\* saveToken in a callback.
Authorize(a) ==
  /\ \E u \in {"none", "oauth"} : kept' = [kept EXCEPT ![a] = u]
  /\ UNCHANGED borrower

\* bearerToken reads it.
Borrow(a) ==
  /\ borrower = NoAccount /\ kept[a] = "oauth"
  /\ borrower' = a /\ UNCHANGED kept

\* saveToken in bearerToken.
GiveBack ==
  /\ borrower # NoAccount /\ borrower' = NoAccount
  /\ kept' = [kept EXCEPT ![borrower] = "oauth"]

\* An error or a crash in between.
GiveUp == borrower # NoAccount /\ borrower' = NoAccount /\ UNCHANGED kept

TableNext == GiveBack \/ GiveUp \/ \E a \in Account : Authorize(a) \/ Borrow(a)

TableSpec == TableInit /\ [][TableNext]_tableVars
===============================================================================
