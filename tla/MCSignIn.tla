------------------------------ MODULE MCSignIn ------------------------------
(* Instances of SignIn for TLC. *)
EXTENDS SignIn, TLC

Interchangeable == Permutations(Request) \cup Permutations(Password)
                       \cup Permutations(Secret) \cup Permutations(Link)
=============================================================================
