------------------------------ MODULE MCSessions ------------------------------
(***************************************************************************)
(* Sessions on a small instance.  Accounts, ids and requests are           *)
(* interchangeable.                                                        *)
(***************************************************************************)
EXTENDS Sessions, TLC

Interchangeable == Permutations(Email) \cup Permutations(Sid) \cup Permutations(Request)
===============================================================================
