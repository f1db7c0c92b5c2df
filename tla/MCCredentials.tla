---------------------------- MODULE MCCredentials ----------------------------
(***************************************************************************)
(* Credentials on a small instance.  Accounts, states and requests are     *)
(* interchangeable.                                                        *)
(***************************************************************************)
EXTENDS Credentials, TLC

Interchangeable == Permutations(Email) \cup Permutations(State) \cup Permutations(Request)
===============================================================================
