---------------------------- MODULE GuessLimiter ----------------------------
(***************************************************************************)
(* What the brute-force protection promises: MaxFailed misses in a row bar *)
(* the account, a barred account accepts neither hits nor misses, a hit    *)
(* starts the count again.                                                 *)
(***************************************************************************)
EXTENDS Naturals

CONSTANT MaxFailed

VARIABLES misses, barred

Init == misses \in 0 .. (MaxFailed - 1) /\ barred = FALSE

Miss == ~barred /\ misses + 1 < MaxFailed /\ misses' = misses + 1 /\ UNCHANGED barred
Bar  == ~barred /\ misses + 1 = MaxFailed /\ misses' = 0 /\ barred' = TRUE
Hit  == ~barred /\ misses' = 0 /\ UNCHANGED barred

\* Time passes, or the password is reset.
Lift    == barred /\ barred' = FALSE /\ UNCHANGED misses
Restart == misses' = 0 /\ barred' = FALSE

Next == Miss \/ Bar \/ Hit \/ Lift \/ Restart

Spec == Init /\ [][Next]_<<misses, barred>>
=============================================================================
