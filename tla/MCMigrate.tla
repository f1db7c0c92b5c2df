------------------------------- MODULE MCMigrate -------------------------------
(* Instances of Migrate for TLC. *)
EXTENDS Migrate, TLC

AccountSymmetry == Permutations(Account)
===============================================================================
