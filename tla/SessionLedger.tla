--------------------------- MODULE SessionLedger ----------------------------
(***************************************************************************)
(* What the session code promises, without requests, statements or locks:  *)
(* a ledger of token families on which every operation is one step.        *)
(* Strict says what holds when requests do not overlap: a token is rotated *)
(* at most once and while it is live, and ending an account or a family    *)
(* ends all of it.  Without Strict a rotation may replace a token that is  *)
(* no longer live and an ending may miss tokens, but tokens still keep to  *)
(* their family and account, and no stamp is taken back.                   *)
(***************************************************************************)
CONSTANTS User, Token, Strict

VARIABLES issued, owner, family, parent, rotated, revoked, expired

links == <<owner, family, parent>>
ledger == <<issued, links, rotated, revoked, expired>>

Init ==
    /\ issued = {} /\ rotated = {} /\ revoked = {} /\ expired = {}
    /\ family = [t \in Token |-> t]
    /\ parent = [t \in Token |-> t]
    /\ DOMAIN owner = Token /\ \A s, t \in Token : owner[s] = owner[t]

Add(t, u, f, p) ==
    /\ t \in Token \ issued
    /\ issued' = issued \cup {t}
    /\ owner' = [owner EXCEPT ![t] = u]
    /\ family' = [family EXCEPT ![t] = f]
    /\ parent' = [parent EXCEPT ![t] = p]

Open(u, t) ==
    /\ Add(t, u, t, t)
    /\ UNCHANGED <<rotated, revoked, expired>>

Rotate(t, c) ==
    /\ t \in issued
    /\ Strict => t \notin rotated \cup revoked
    /\ Add(c, owner[t], family[t], t)
    /\ rotated' = rotated \cup {t}
    /\ UNCHANGED <<revoked, expired>>

Revoke(S) == revoked' = revoked \cup S /\ UNCHANGED <<issued, links, rotated, expired>>

EndOf(T) == IF Strict THEN {T} ELSE SUBSET T

EndAccount(u) == \E S \in EndOf({t \in issued : owner[t] = u}) : Revoke(S)
EndFamily(f)  == \E S \in EndOf({t \in issued : family[t] = f}) : Revoke(S)

\* Housekeeping may run late: it revokes tokens that have expired, not all.
Purge == \E S \in SUBSET expired : Revoke(S)

Expire(t) ==
    /\ t \in issued
    /\ expired' = expired \cup {t}
    /\ UNCHANGED <<issued, links, rotated, revoked>>

Next ==
    \/ \E u \in User : EndAccount(u) \/ \E t \in Token : Open(u, t)
    \/ \E t \in Token : EndFamily(t) \/ Expire(t) \/ \E c \in Token : Rotate(t, c)
    \/ Purge

Spec == Init /\ [][Next]_ledger
=============================================================================
