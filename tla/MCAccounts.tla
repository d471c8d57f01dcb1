----------------------------- MODULE MCAccounts -----------------------------
(* Instances of Accounts for TLC. *)
EXTENDS Accounts, TLC

Interchangeable == Permutations(Request) \cup Permutations(Account)
                       \cup Permutations(Name \ {BootName})
=============================================================================
