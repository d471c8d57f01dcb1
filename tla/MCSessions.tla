----------------------------- MODULE MCSessions -----------------------------
(* Instances of Sessions for TLC. *)
EXTENDS Sessions, TLC

Interchangeable == Permutations(Token) \cup Permutations(Request) \cup Permutations(User)
=============================================================================
