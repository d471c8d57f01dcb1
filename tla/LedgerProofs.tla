---------------------------- MODULE LedgerProofs ----------------------------
(***************************************************************************)
(* What SessionLedger amounts to, for any number of accounts and tokens.   *)
(*                                                                         *)
(* Of the loose ledger, only how tokens are related; of the strict one,    *)
(* that a family has one live token at most and does not come back once it *)
(* has none.                                                               *)
(***************************************************************************)
EXTENDS SessionLedger, TLAPS

Live == issued \ (rotated \cup revoked)

\* A family is named by the token that opened it, and is one account's.
Families ==
    \A t \in issued : /\ parent[t] \in issued /\ family[t] = family[parent[t]]
                      /\ family[t] \in issued /\ owner[t] = owner[family[t]]

OneLive == \A s, t \in Live : family[s] = family[t] => s = t

\* Nobody is signed in with family f any more.
Ended(f) == f \in issued /\ \A t \in Live : family[t] # f

Columns ==
    /\ issued \subseteq Token /\ rotated \subseteq issued
    /\ DOMAIN owner = Token /\ DOMAIN family = Token /\ DOMAIN parent = Token

IInv == Columns /\ Families

-----------------------------------------------------------------------------
\* A token added is the only one whose row changes.
LEMMA AddFacts ==
    ASSUME Columns, NEW t, NEW u, NEW f, NEW p, Add(t, u, f, p)
    PROVE  /\ t \in Token /\ t \notin issued /\ issued' = issued \cup {t}
           /\ owner'[t] = u /\ family'[t] = f /\ parent'[t] = p
           /\ \A s \in issued : /\ owner'[s] = owner[s] /\ family'[s] = family[s]
                                /\ parent'[s] = parent[s]
           /\ DOMAIN owner' = Token /\ DOMAIN family' = Token /\ DOMAIN parent' = Token
  BY DEF Columns, Add

\* The two operations that add a token, and what the others leave.
LEMMA Steps ==
    ASSUME [Next]_ledger
    PROVE  \/ \E u \in User, t \in Token : Open(u, t)
           \/ \E t, c \in Token : Rotate(t, c)
           \/ /\ UNCHANGED <<issued, links, rotated>> /\ revoked \subseteq revoked'
  BY DEF Next, ledger, EndAccount, EndFamily, EndOf, Purge, Revoke, Expire

\* The invariant is inductive, strict or not.
LEMMA NextInv ==
    ASSUME IInv, [Next]_ledger
    PROVE  IInv'
<1> USE DEF IInv
<1>1. ASSUME NEW u, NEW t, Open(u, t)
      PROVE  IInv'
  <2>1. Add(t, u, t, t) /\ rotated' = rotated
    BY <1>1 DEF Open
  <2> QED
    BY <2>1, AddFacts DEF Columns, Families
<1>2. ASSUME NEW t, NEW c, Rotate(t, c)
      PROVE  IInv'
  <2>1. t \in issued /\ Add(c, owner[t], family[t], t) /\ rotated' = rotated \cup {t}
    BY <1>2 DEF Rotate
  <2> QED
    BY <2>1, AddFacts DEF Columns, Families
<1>3. CASE UNCHANGED <<issued, links, rotated>>
  BY <1>3 DEF links, Columns, Families
<1> QED
  BY <1>1, <1>2, <1>3, Steps

LEMMA Invariance == Spec => []IInv
<1>1. Init => IInv
  BY DEF Init, IInv, Columns, Families
<1> QED
  BY <1>1, NextInv, PTL DEF Spec

-----------------------------------------------------------------------------
(* The strict ledger. *)

\* What a step may make live, when only live tokens are rotated.
LEMMA StrictLive ==
    ASSUME Strict, IInv, [Next]_ledger
    PROVE  /\ issued \subseteq issued'
           /\ \A s \in Live' \cap issued : s \in Live /\ family'[s] = family[s]
           /\ \A c \in issued' \ issued :
                 \/ family'[c] = c
                 \/ \E t \in Live : t \notin Live' /\ family'[c] = family[t]
           /\ \A c, d \in issued' \ issued : c = d
<1> USE DEF IInv
<1>1. ASSUME NEW u, NEW t, Open(u, t)
      PROVE  /\ issued' = issued \cup {t} /\ UNCHANGED <<rotated, revoked>>
             /\ family'[t] = t /\ \A s \in issued : family'[s] = family[s]
  BY <1>1, AddFacts DEF Open
<1>2. ASSUME NEW t, NEW c, Rotate(t, c)
      PROVE  /\ t \in Live /\ c \notin issued /\ issued' = issued \cup {c}
             /\ rotated' = rotated \cup {t} /\ revoked' = revoked
             /\ family'[c] = family[t] /\ \A s \in issued : family'[s] = family[s]
  BY <1>2, AddFacts DEF Rotate, Live
<1>3. CASE UNCHANGED <<issued, links, rotated>> /\ revoked \subseteq revoked'
  BY <1>3 DEF links, Live
<1>4. CASE \E u \in User, t \in Token : Open(u, t)
  BY <1>1, <1>4 DEF Live
<1>5. CASE \E t, c \in Token : Rotate(t, c)
  BY <1>2, <1>5 DEF Live
<1> QED
  BY <1>3, <1>4, <1>5, Steps

-----------------------------------------------------------------------------
(* The theorems. *)

\* service.py: whatever overlaps, a rotated token and its successor are of one
\* family, and a family of one account.
THEOREM LedgerFamilies == Spec => []Families
  BY Invariance, PTL DEF IInv

\* models.py: in the strict ledger a family has one live token at most.
THEOREM LedgerOneLive ==
    ASSUME Strict
    PROVE  Spec => []OneLive
<1>1. Init => OneLive
  BY DEF Init, OneLive, Live
<1>2. IInv /\ OneLive /\ [Next]_ledger => OneLive'
  <2> SUFFICES ASSUME IInv, OneLive, [Next]_ledger,
                      NEW s \in Live', NEW t \in Live', family'[s] = family'[t]
               PROVE  s = t
    BY DEF OneLive
  <2>1. Live' \subseteq issued' /\ Live \subseteq issued
    BY DEF Live
  <2>2. CASE s \in issued /\ t \in issued
    BY <2>2, StrictLive DEF OneLive
  <2>3. CASE s \notin issued /\ t \notin issued
    BY <2>1, <2>3, StrictLive
  <2>4. ASSUME NEW x \in Live', NEW y \in Live', x \in issued, y \notin issued,
               family'[x] = family'[y]
        PROVE  FALSE
    <3>1. x \in Live /\ family'[x] = family[x] /\ family[x] \in issued
      BY <2>4, StrictLive DEF IInv, Families
    <3>2. PICK z \in Live : z \notin Live' /\ family'[y] = family[z]
      BY <2>1, <2>4, <3>1, StrictLive
    <3> QED
      BY <2>4, <3>1, <3>2 DEF OneLive
  <2> QED
    BY <2>2, <2>3, <2>4
<1> QED
  BY <1>1, <1>2, Invariance, PTL DEF Spec

\* service.py: in the strict ledger a family that was ended, by a logout, by a
\* reuse or by the closing of the account, stays ended: none of its tokens can
\* be exchanged for a live one.
THEOREM LedgerEndings ==
    ASSUME Strict
    PROVE  Spec => [][\A f \in Token : Ended(f) => Ended(f)']_ledger
<1>1. IInv /\ [Next]_ledger => [\A f \in Token : Ended(f) => Ended(f)']_ledger
  <2> SUFFICES ASSUME IInv, [Next]_ledger, NEW f \in Token, Ended(f)
               PROVE  Ended(f)'
    OBVIOUS
  <2>1. ASSUME NEW t \in Live', family'[t] = f
        PROVE  FALSE
    BY <2>1, StrictLive DEF Ended, Live
  <2>2. f \in issued'
    BY StrictLive DEF Ended
  <2> QED
    BY <2>1, <2>2 DEF Ended
<1> QED
  BY <1>1, Invariance, PTL DEF Spec
=============================================================================
