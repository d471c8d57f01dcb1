--------------------------- MODULE SessionsProofs ---------------------------
(***************************************************************************)
(* Proofs about Sessions, for any number of accounts, tokens and requests. *)
(*                                                                         *)
(* The invariants TLC checks are not inductive: what a commit does depends *)
(* on what its request read and wrote several statements earlier.  SlotOK  *)
(* says what is still true of that when the other requests have moved on.  *)
(***************************************************************************)
EXTENDS Sessions, TLAPS

\* What an in-flight request relies on: the account it works for, the token
\* it presented, the row it will insert and the rows it has updated.
SlotOK(r) ==
    /\ req[r].op # "purge" => req[r].user \in User
    /\ req[r].op = "refresh" => /\ req[r].tok \in issued
                                /\ owner[req[r].tok] = req[r].user
    /\ req[r].child # NoToken => req[r].child \notin issued /\ req[r].op \in Issues
    /\ req[r].pc \in {"account", "clear", "insert"} => req[r].op \in Issues
    /\ req[r].ahead \subseteq issued
    /\ req[r].hits \subseteq issued
    /\ req[r].pc = "select" => req[r].hits = {}
    /\ req[r].known \subseteq issued

ChildrenDiffer ==
    \A r, s \in Request : r # s /\ req[r].child # NoToken => req[r].child # req[s].child

TypeInv == TypeOK /\ (\A r \in Request : SlotOK(r)) /\ ChildrenDiffer

-----------------------------------------------------------------------------
\* Every accepted request starts by one Begin, on an account that exists and,
\* when it refreshes, with a committed token that is neither rotated nor revoked,
\* when it reports a reuse, with one that is.
LEMMA ArriveBegins ==
    ASSUME TypeOK, NEW r \in Request, Arrive(r)
    PROVE  \E op \in AllOps, u \in User \cup {NoUser}, t \in Token \cup {NoToken} :
              /\ ~Busy(r)
              /\ Begin(r, op, u, t)
              /\ op # "purge" => u \in User
              /\ op = "refresh" => /\ t \in issued \ (rotated \cup revoked)
                                   /\ owner[t] = u
              /\ op = "login" => t = NoToken
              /\ op = "reuse" => t \in issued \cap (rotated \cup revoked)
              /\ op \in {"reuse", "logout"} => t \in issued /\ owner[t] = u
<1> USE DEF TypeOK, AllOps, Closes, ClosesAndWrites, RevokeFamily, Issues
<1>1. ASSUME NEW u \in User, Login(r, u) \/ LogoutAll(r, u) \/ ChangePassword(r, u)
      PROVE  \E op \in {"login", "logout_all", "password"} :
                ~Busy(r) /\ Begin(r, op, u, NoToken)
  BY <1>1 DEF Login, LogoutAll, ChangePassword, Begin
<1>2. ASSUME NEW t \in Token, Refresh(r, t)
      PROVE  ~Busy(r) /\ Begin(r, "refresh", owner[t], t) /\ owner[t] \in User
             /\ t \in issued \ (rotated \cup revoked)
  BY <1>2 DEF Refresh, Begin
<1>3. ASSUME NEW t \in Token, Reuse(r, t)
      PROVE  ~Busy(r) /\ Begin(r, "reuse", owner[t], t) /\ owner[t] \in User
             /\ t \in issued \cap (rotated \cup revoked)
  BY <1>3 DEF Reuse, Begin
<1>4. ASSUME NEW u \in User, NEW t \in Token, Logout(r, u, t)
      PROVE  ~Busy(r) /\ Begin(r, "logout", u, t) /\ t \in issued /\ owner[t] = u
  BY <1>4 DEF Logout, Begin
<1>5. ASSUME NEW u \in User,
             \/ ResetPassword(r, u) \/ CliSetPassword(r, u) \/ ChangeRole(r, u)
             \/ GrantSourcer(r, u) \/ CliPromote(r, u) \/ DeleteUser(r, u)
             \/ \E on \in BOOLEAN : SetActive(r, u, on)
      PROVE  \E op \in {"reset", "role", "delete", "reactivate", "deactivate"} :
                ~Busy(r) /\ Begin(r, op, u, NoToken)
  BY <1>5 DEF ResetPassword, CliSetPassword, ChangeRole, GrantSourcer, CliPromote, DeleteUser,
              SetActive, OnAccount, Begin
<1>6. ASSUME Purge(r)
      PROVE  ~Busy(r) /\ Begin(r, "purge", NoUser, NoToken)
  BY <1>6 DEF Purge, Begin
<1>7. CASE \E u \in User : Login(r, u) \/ LogoutAll(r, u) \/ ChangePassword(r, u)
  BY <1>1, <1>7
<1>8. CASE \E t \in Token : Refresh(r, t) \/ Reuse(r, t)
  <2>1. CASE \E t \in Token : Refresh(r, t)
    <3>1. PICK t \in Token : Refresh(r, t)
      BY <2>1
    <3> QED
      BY <1>2, <3>1
  <2>2. CASE \E t \in Token : Reuse(r, t)
    <3>1. PICK t \in Token : Reuse(r, t)
      BY <2>2
    <3> QED
      BY <1>3, <3>1
  <2> QED
    BY <1>8, <2>1, <2>2
<1>9. CASE \E u \in User, t \in Token : Logout(r, u, t)
  BY <1>4, <1>9
<1>10. CASE \E u \in User :
              \/ ResetPassword(r, u) \/ CliSetPassword(r, u) \/ ChangeRole(r, u)
              \/ GrantSourcer(r, u) \/ CliPromote(r, u) \/ DeleteUser(r, u)
              \/ \E on \in BOOLEAN : SetActive(r, u, on)
  <2>1. PICK u \in User, op \in {"reset", "role", "delete", "reactivate", "deactivate"} :
               ~Busy(r) /\ Begin(r, op, u, NoToken)
    BY <1>5, <1>10
  <2> QED
    BY <2>1
<1>11. CASE Purge(r)
  <2>1. "purge" \in AllOps /\ NoUser \in User \cup {NoUser} /\ NoToken \in Token \cup {NoToken}
    OBVIOUS
  <2> HIDE DEF TypeOK, AllOps, Closes, ClosesAndWrites, RevokeFamily, Issues
  <2> QED
    BY <1>6, <1>11, <2>1
<1> HIDE DEF TypeOK, AllOps, Closes, ClosesAndWrites, RevokeFamily, Issues
<1>12. \/ \E u \in User : Login(r, u) \/ LogoutAll(r, u) \/ ChangePassword(r, u)
       \/ \E t \in Token : Refresh(r, t) \/ Reuse(r, t)
       \/ \E u \in User, t \in Token : Logout(r, u, t)
       \/ \E u \in User :
              \/ ResetPassword(r, u) \/ CliSetPassword(r, u) \/ ChangeRole(r, u)
              \/ GrantSourcer(r, u) \/ CliPromote(r, u) \/ DeleteUser(r, u)
              \/ \E on \in BOOLEAN : SetActive(r, u, on)
       \/ Purge(r)
  BY DEF Arrive
<1> QED
  BY <1>7, <1>8, <1>9, <1>10, <1>11, <1>12

\* Follow always names a statement; an issuing request starts before its INSERT,
\* any other one after it.
LEMMA FollowType == \A op, pc : Follow(op, pc) \in PCs
  BY DEF Follow, PCs

LEMMA StartsType ==
    ASSUME NEW op, NEW pc \in Starts(op)
    PROVE  /\ pc \in PCs
           /\ pc \in {"account", "clear", "insert"} <=> op \in Issues
           /\ pc \notin {"revoke", "commit"}
           /\ op # "login" => pc = Follow(op, "idle")
<1>1. pc = Follow(op, "idle") \/ (op = "login" /\ pc = "clear")
  BY DEF Starts
<1>2. Follow(op, "idle") \in {"account", "insert", "flush", "select"}
  BY DEF Follow
<1>3. Follow(op, "idle") \in {"account", "insert"} <=> op \in {"login", "refresh"}
  BY DEF Follow
<1> QED
  BY <1>1, <1>2, <1>3 DEF PCs, Issues

\* The empty tables and free slots at start are sound.
LEMMA InitTypeInv == Init => TypeInv
<1> SUFFICES ASSUME Init PROVE TypeInv
  OBVIOUS
<1> USE DEF Init
<1>1. Free \in Slots
  BY NoneAreFresh DEF Free, Slots, PCs, AllOps
<1>2. TypeOK
  BY <1>1 DEF TypeOK
<1>3. \A r \in Request : SlotOK(r)
  BY DEF SlotOK, Free
<1>4. ChildrenDiffer
  BY DEF ChildrenDiffer, Free
<1> QED
  BY <1>2, <1>3, <1>4 DEF TypeInv

\* A step that only moves one slot keeps TypeInv when the new slot is sound.
LEMMA SlotStep ==
    ASSUME TypeInv, NEW r \in Request, NEW q \in Slots, Advance(r, q),
           UNCHANGED <<rows, expired, users, ghosts>>,
           q.op # "purge" => q.user \in User,
           q.op = "refresh" => q.tok \in issued /\ owner[q.tok] = q.user,
           q.child # NoToken => q.child \notin issued /\ q.op \in Issues,
           q.pc \in {"account", "clear", "insert"} => q.op \in Issues,
           q.ahead \subseteq issued, q.hits \subseteq issued,
           q.pc = "select" => q.hits = {},
           q.known \subseteq issued,
           q.child # NoToken => \A s \in Request \ {r} : req[s].child # q.child
    PROVE  TypeInv'
<1> USE DEF TypeInv, Advance, rows, users, ghosts
<1>1. req' \in [Request -> Slots] /\ req'[r] = q
      /\ \A s \in Request : s # r => req'[s] = req[s]
  BY DEF TypeOK
<1>2. TypeOK'
  BY <1>1 DEF TypeOK
<1>3. \A s \in Request : SlotOK(s)'
  BY <1>1 DEF SlotOK
<1>4. ChildrenDiffer'
  BY <1>1 DEF ChildrenDiffer
<1> QED
  BY <1>2, <1>3, <1>4

\* A request that has read a committed token of its account holds a sound slot.
LEMMA BeginTypeInv ==
    ASSUME TypeInv, NEW r \in Request, NEW op \in AllOps, NEW u \in User \cup {NoUser},
           NEW t \in Token \cup {NoToken}, Begin(r, op, u, t),
           op # "purge" => u \in User,
           op = "refresh" => t \in issued /\ owner[t] = u
    PROVE  TypeInv'
<1>1. PICK pc \in Starts(op) :
         Advance(r, [Free EXCEPT !.pc = pc, !.op = op, !.user = u, !.tok = t,
                                 !.act = op \in WritesActive => u \in active,
                                 !.gen = IF op = "login" THEN gen[u] ELSE 0,
                                 !.known = IF op \in Closes THEN issued ELSE {}])
  BY DEF Begin, Advance
<1> DEFINE q == [Free EXCEPT !.pc = pc, !.op = op, !.user = u, !.tok = t,
                             !.act = op \in WritesActive => u \in active,
                             !.gen = IF op = "login" THEN gen[u] ELSE 0,
                             !.known = IF op \in Closes THEN issued ELSE {}]
<1>2. /\ q.op = op /\ q.user = u /\ q.tok = t /\ q.child = NoToken
      /\ q.ahead = {} /\ q.hits = {} /\ q.pc = pc
      /\ q.known \subseteq issued
  BY DEF Free
<1>3. pc \in PCs /\ (pc \in {"account", "clear", "insert"} => op \in Issues)
  BY StartsType
<1>4. q \in Slots
  <2>1. (IF op = "login" THEN gen[u] ELSE 0) \in Nat
    BY DEF TypeInv, TypeOK
  <2>2. (IF op \in Closes THEN issued ELSE {}) \in SUBSET Token
    BY DEF TypeInv, TypeOK
  <2>3. (op \in WritesActive => u \in active) \in BOOLEAN
    OBVIOUS
  <2> QED
    BY <1>3, <2>1, <2>2, <2>3 DEF Free, Slots
<1>5. Advance(r, q) /\ UNCHANGED <<rows, expired, users, ghosts>>
  BY <1>1 DEF Begin
<1> HIDE DEF q
<1> QED
  BY <1>2, <1>3, <1>4, <1>5, SlotStep

\* What an arrival puts into the slot, and that it moves no other.
LEMMA BeginSlot ==
    ASSUME TypeInv, NEW r \in Request, NEW op, NEW u, NEW t, Begin(r, op, u, t)
    PROVE  /\ \A s \in Request : s # r => req'[s] = req[s]
           /\ req'[r].op = op /\ req'[r].user = u /\ req'[r].tok = t
           /\ req'[r].child = NoToken /\ req'[r].ahead = {} /\ req'[r].hits = {}
           /\ req'[r].gen = IF op = "login" THEN gen[u] ELSE 0
           /\ req'[r].known = IF op \in Closes THEN issued ELSE {}
           /\ ~req'[r].wrote /\ ~req'[r].late
           /\ req'[r].pc \in Starts(op)
           /\ UNCHANGED <<rows, expired, users, ghosts>>
<1>1. PICK pc \in Starts(op) :
         req' = [req EXCEPT ![r] =
                   [Free EXCEPT !.pc = pc, !.op = op, !.user = u, !.tok = t,
                                !.act = op \in WritesActive => u \in active,
                                !.gen = IF op = "login" THEN gen[u] ELSE 0,
                                !.known = IF op \in Closes THEN issued ELSE {}]]
  BY DEF Begin
<1>2. UNCHANGED <<rows, expired, users, ghosts>>
  BY DEF Begin
<1> QED
  BY <1>1, <1>2 DEF Free, TypeInv, TypeOK

\* The unrevoked rows that the WHERE clause of r's bulk UPDATE names now.
Targets(r) == {t \in issued \ revoked : Matches(req[r].op, req[r].user, req[r].tok, t)}

\* A step of r between its arrival and its COMMIT.
Sends(r) ==
    \/ LoadAccount(r) \/ InsertToken(r) \/ SelectRows(r) \/ RevokeRow(r) \/ FlushUser(r)
    \/ Abort(r) \/ Victim(r)

\* What it leaves alone: what the request was asked for, and its history.
Keeps(r) ==
    /\ req'[r].op = req[r].op /\ req'[r].user = req[r].user /\ req'[r].tok = req[r].tok
    /\ req'[r].gen = req[r].gen /\ req'[r].known = req[r].known
    /\ req'[r].late = req[r].late

\* What each statement does to the slot of its request.
Loaded(r) ==
    /\ req[r].pc = "account" /\ req'[r].pc = "insert" /\ req'[r].child = req[r].child
    /\ req'[r].ahead = req[r].ahead /\ req'[r].hits = req[r].hits
    /\ req'[r].wrote = req[r].wrote

Inserted(r) ==
    /\ req[r].pc = "insert" /\ req'[r].pc = "flush"
    /\ req'[r].child \in Token \ issued /\ req'[r].child # NoToken
    /\ \A s \in Request : req[s].child # req'[r].child
    /\ req'[r].ahead = req[r].ahead /\ req'[r].hits = req[r].hits
    /\ req'[r].wrote = req[r].wrote

Selected(r) ==
    /\ req[r].pc = "select" /\ req'[r].pc = "revoke" /\ req'[r].child = req[r].child
    /\ req'[r].ahead = Targets(r) /\ req'[r].hits = req[r].hits
    /\ req'[r].wrote = req[r].wrote

Updated(r) ==
    /\ req[r].pc = "revoke" /\ req'[r].child = req[r].child
    /\ req'[r].ahead \subseteq req[r].ahead
    /\ req[r].hits \subseteq req'[r].hits
    /\ req'[r].hits \subseteq req[r].hits \cup (req[r].ahead \ revoked)
    /\ req[r].ahead \subseteq req'[r].ahead \cup req'[r].hits \cup revoked
    /\ \/ req'[r].pc = "revoke"
       \/ req'[r].ahead = {} /\ req'[r].pc = Past(r)
    /\ req'[r].wrote = req[r].wrote

Flushed(r) ==
    /\ FlushUser(r) /\ req'[r].wrote /\ req'[r].child = req[r].child
    /\ req'[r].ahead = req[r].ahead /\ req'[r].hits = req[r].hits
    /\ \/ req[r].pc = "clear" /\ req'[r].pc = "insert"
       \/ req[r].pc = "flush" /\ req'[r].pc = "commit"

\* A statement moves one slot and no table; Abort and the like free it.
LEMMA SendsSlot ==
    ASSUME TypeInv, NEW r \in Request, Sends(r)
    PROVE  /\ UNCHANGED <<rows, expired, users, ghosts>>
           /\ req' \in [Request -> Slots]
           /\ \A s \in Request : s # r => req'[s] = req[s]
           /\ \/ req'[r] = Free /\ (LoadAccount(r) \/ Abort(r) \/ Victim(r))
              \/ Keeps(r) /\ (Loaded(r) \/ Inserted(r) \/ Selected(r) \/ Updated(r) \/ Flushed(r))
<1>1. req \in [Request -> Slots] /\ req[r] \in Slots /\ Free \in Slots /\ Past(r) \in PCs
  BY FollowType, NoneAreFresh DEF TypeInv, TypeOK, Free, Slots, PCs, AllOps, Past
<1>2. ASSUME Advance(r, Free) PROVE req' \in [Request -> Slots] /\ req'[r] = Free
                                   /\ \A s \in Request : s # r => req'[s] = req[s]
  BY <1>1, <1>2 DEF Advance
<1>3. CASE Abort(r) \/ Victim(r)
  BY <1>2, <1>3 DEF Abort, Victim
<1>4. CASE LoadAccount(r)
  <2>1. CASE req[r].user \in deleted
    BY <1>2, <1>4, <2>1 DEF LoadAccount
  <2>2. CASE req[r].user \notin deleted
    <3>1. Past(r) = "insert"
      BY <1>4 DEF LoadAccount, Past, Follow
    <3> QED
      BY <1>1, <1>4, <2>2, <3>1 DEF LoadAccount, Advance, Slots, Keeps, Loaded
  <2> QED
    BY <2>1, <2>2
<1>5. CASE InsertToken(r)
  <2>1. PICK t \in Token \ issued :
           /\ \A s \in Request : req[s].child # t
           /\ Advance(r, [req[r] EXCEPT !.pc = Past(r), !.child = t])
    BY <1>5 DEF InsertToken
  <2>2. Past(r) = "flush" /\ req[r].pc = "insert" /\ t # NoToken
    BY <1>5, NoneAreFresh DEF InsertToken, Past, Follow
  <2>3. req' \in [Request -> Slots] /\ \A s \in Request : s # r => req'[s] = req[s]
    BY <1>1, <2>1 DEF Advance, Slots
  <2>4. Keeps(r) /\ Inserted(r)
    BY <1>1, <2>1, <2>2 DEF Advance, Slots, Keeps, Inserted
  <2> QED
    BY <1>5, <2>3, <2>4 DEF InsertToken
<1>6. CASE SelectRows(r)
  <2> DEFINE S == Targets(r)
  <2>1. PICK n \in ComesTo(S) :
           Advance(r, [req[r] EXCEPT !.pc = Past(r), !.ahead = S, !.next = n])
    BY <1>6 DEF SelectRows, Targets
  <2>2. S \subseteq Token /\ n \in Token \cup {NoToken}
    BY <2>1 DEF ComesTo, Targets, TypeInv, TypeOK
  <2>3. Past(r) = "revoke" /\ req[r].pc = "select"
    BY <1>6 DEF SelectRows, Past, Follow
  <2> HIDE DEF S
  <2>4. req' \in [Request -> Slots] /\ \A s \in Request : s # r => req'[s] = req[s]
    BY <1>1, <2>1, <2>2 DEF Advance, Slots
  <2>5. Keeps(r) /\ req'[r].pc = "revoke" /\ req'[r].child = req[r].child
        /\ req'[r].ahead = S /\ req'[r].hits = req[r].hits /\ req'[r].wrote = req[r].wrote
    BY <1>1, <2>1, <2>3 DEF Advance, Slots, Keeps
  <2> QED
    BY <1>6, <2>3, <2>4, <2>5 DEF SelectRows, S, Selected
<1>7. CASE RevokeRow(r)
  <2> DEFINE n == req[r].next
             rest == req[r].ahead \ {n}
             more == req[r].hits \cup ((req[r].ahead \cap {n}) \ revoked)
             pc == IF rest = {} THEN Past(r) ELSE "revoke"
  <2>1. PICK m \in ComesTo(rest) :
           Advance(r, [req[r] EXCEPT !.pc = pc, !.ahead = rest, !.next = m, !.hits = more])
    BY <1>7 DEF RevokeRow
  <2>2. /\ rest \subseteq Token /\ more \subseteq Token /\ m \in Token \cup {NoToken}
        /\ pc \in PCs
    BY <1>1, <2>1 DEF ComesTo, Slots, PCs
  <2>3. /\ rest \subseteq req[r].ahead /\ req[r].hits \subseteq more
        /\ more \subseteq req[r].hits \cup (req[r].ahead \ revoked)
        /\ req[r].ahead \subseteq rest \cup more \cup revoked
        /\ pc = "revoke" \/ (rest = {} /\ pc = Past(r))
    OBVIOUS
  <2> HIDE DEF n, rest, more, pc
  <2>4. req' \in [Request -> Slots] /\ \A s \in Request : s # r => req'[s] = req[s]
    BY <1>1, <2>1, <2>2 DEF Advance, Slots
  <2>5. Keeps(r) /\ req'[r].pc = pc /\ req'[r].child = req[r].child
        /\ req'[r].ahead = rest /\ req'[r].hits = more /\ req'[r].wrote = req[r].wrote
    BY <1>1, <2>1 DEF Advance, Slots, Keeps
  <2> QED
    BY <1>7, <2>3, <2>4, <2>5 DEF RevokeRow, Updated
<1>8. CASE FlushUser(r)
  <2>1. \/ req[r].pc = "clear" /\ Past(r) = "insert"
        \/ req[r].pc = "flush" /\ Past(r) = "commit"
    BY <1>8 DEF FlushUser, Past, Follow
  <2>2. Advance(r, [req[r] EXCEPT !.pc = Past(r), !.wrote = TRUE])
    BY <1>8 DEF FlushUser
  <2>3. req' \in [Request -> Slots] /\ \A s \in Request : s # r => req'[s] = req[s]
    BY <1>1, <2>2 DEF Advance, Slots
  <2>4. /\ Keeps(r) /\ req'[r].wrote /\ req'[r].pc = Past(r)
        /\ req'[r].child = req[r].child /\ req'[r].ahead = req[r].ahead
        /\ req'[r].hits = req[r].hits
    BY <1>1, <2>2 DEF Advance, Slots, Keeps
  <2> QED
    <3>1. UNCHANGED <<rows, expired, users, ghosts>>
      BY <1>8 DEF FlushUser
    <3> QED
      BY <1>8, <2>1, <2>3, <2>4, <3>1 DEF Flushed
<1> QED
  BY <1>3, <1>4, <1>5, <1>6, <1>7, <1>8 DEF Sends

\* Each statement keeps the slot sound: an INSERT takes an unused row, a bulk
\* UPDATE only rows of its snapshot.
LEMMA SendsTypeInv ==
    ASSUME TypeInv, NEW r \in Request, Sends(r)
    PROVE  TypeInv'
<1>1. /\ UNCHANGED <<rows, expired, users, ghosts>> /\ req' \in [Request -> Slots]
      /\ \A s \in Request : s # r => req'[s] = req[s]
      /\ \/ req'[r] = Free
         \/ Keeps(r) /\ (Loaded(r) \/ Inserted(r) \/ Selected(r) \/ Updated(r) \/ Flushed(r))
  BY SendsSlot
<1>2. TypeOK'
  BY <1>1 DEF TypeInv, TypeOK, rows, users, ghosts
<1>3. SlotOK(r) /\ ChildrenDiffer /\ issued' = issued /\ owner' = owner
  BY <1>1 DEF TypeInv, rows
<1>4. SlotOK(r)' /\ (req'[r].child # NoToken => \A s \in Request \ {r} : req[s].child # req'[r].child)
  <2>1. CASE req'[r] = Free
    BY <2>1 DEF SlotOK, Free
  <2>2. CASE Keeps(r) /\ Loaded(r)
    BY <1>3, <2>2 DEF SlotOK, ChildrenDiffer, Keeps, Loaded
  <2>3. CASE Keeps(r) /\ Inserted(r)
    BY <1>3, <2>3 DEF SlotOK, Keeps, Inserted
  <2>4. CASE Keeps(r) /\ Selected(r)
    BY <1>3, <2>4 DEF SlotOK, ChildrenDiffer, Keeps, Selected, Targets
  <2>5. CASE Keeps(r) /\ Updated(r)
    <3>1. req[r].pc = "revoke" => Past(r) \in {"flush", "commit"}
      BY DEF Past, Follow
    <3> QED
      BY <1>3, <2>5, <3>1 DEF SlotOK, ChildrenDiffer, Keeps, Updated
  <2>6. CASE Keeps(r) /\ Flushed(r)
    BY <1>3, <2>6 DEF SlotOK, ChildrenDiffer, Keeps, Flushed
  <2> QED
    BY <1>1, <2>1, <2>2, <2>3, <2>4, <2>5, <2>6
<1>5. \A s \in Request : SlotOK(s)'
  BY <1>1, <1>3, <1>4 DEF TypeInv, SlotOK
<1>6. ChildrenDiffer'
  BY <1>1, <1>3, <1>4 DEF ChildrenDiffer
<1> QED
  BY <1>2, <1>5, <1>6 DEF TypeInv

-----------------------------------------------------------------------------
\* What a commit does to the token rows: it stamps the presented and the
\* selected rows, and adds one new row or none; rows already there keep their
\* owner, family, parent and generation.
LEMMA CommitRows ==
    ASSUME TypeInv, NEW r \in Request, Commit(r)
    PROVE  LET c == req[r].child IN
           /\ rotated \subseteq rotated' /\ revoked \subseteq revoked'
           /\ revoked' = revoked \cup req[r].hits
           /\ rotated' = IF req[r].op = "refresh" THEN rotated \cup {req[r].tok} ELSE rotated
           /\ c = NoToken => UNCHANGED <<issued, owner, family, parent, born>>
           /\ c # NoToken =>
                /\ c \in Token \ issued /\ issued' = issued \cup {c}
                /\ req[r].op \in Issues
                /\ owner'[c] = req[r].user
                /\ req[r].op = "refresh" =>
                     /\ family'[c] = family[req[r].tok] /\ parent'[c] = req[r].tok
                     /\ born'[c] = born[req[r].tok]
                /\ req[r].op # "refresh" =>
                     family'[c] = c /\ parent'[c] = c /\ born'[c] = req[r].gen
           /\ \A t \in issued : /\ owner'[t] = owner[t] /\ family'[t] = family[t]
                                /\ parent'[t] = parent[t] /\ born'[t] = born[t]
<1>1. req[r] \in Slots /\ SlotOK(r)
  BY DEF TypeInv, TypeOK
<1>2. rotated' = RotatedAfter(r) /\ revoked' = RevokedAfter(r)
      /\ PublishToken(r) /\ RecordHistory(r)
  BY DEF Commit
<1>3. req[r].child \in Token \cup {NoToken}
  BY <1>1 DEF Slots
<1>4. born' = IF req[r].child = NoToken THEN born
              ELSE [born EXCEPT ![req[r].child] =
                       IF req[r].op = "refresh" THEN born[req[r].tok] ELSE req[r].gen]
  BY <1>2 DEF RecordHistory
<1>5. CASE req[r].child = NoToken
  BY <1>2, <1>4, <1>5 DEF PublishToken, RotatedAfter, RevokedAfter
<1>6. CASE req[r].child # NoToken
  <2>1. req[r].child \in Token \ issued /\ req[r].op \in Issues
    BY <1>1, <1>3, <1>6 DEF SlotOK
  <2>2. /\ issued' = issued \cup {req[r].child}
        /\ owner'  = [owner EXCEPT ![req[r].child] = req[r].user]
        /\ family' = [family EXCEPT ![req[r].child] = FamilyOf(r)]
        /\ parent' = [parent EXCEPT ![req[r].child] = ParentOf(r)]
    BY <1>2, <1>6 DEF PublishToken
  <2>3. owner \in [Token -> User \cup {NoUser}] /\ family \in [Token -> Token]
        /\ parent \in [Token -> Token] /\ born \in [Token -> Nat] /\ issued \subseteq Token
    BY DEF TypeInv, TypeOK
  <2> QED
    BY <1>2, <1>4, <1>6, <2>1, <2>2, <2>3
    DEF RotatedAfter, RevokedAfter, FamilyOf, ParentOf
<1> QED
  BY <1>5, <1>6

\* What it does to the other requests' slots: nothing but the history mark.
LEMMA CommitSlots ==
    ASSUME TypeInv, NEW r \in Request, Commit(r), NEW s \in Request
    PROVE  /\ s = r => req'[s] = Free
           /\ s # r =>
                /\ req'[s] \in Slots
                /\ req'[s].pc = req[s].pc /\ req'[s].op = req[s].op
                /\ req'[s].user = req[s].user /\ req'[s].tok = req[s].tok
                /\ req'[s].child = req[s].child /\ req'[s].gen = req[s].gen
                /\ req'[s].ahead = req[s].ahead /\ req'[s].hits = req[s].hits
                /\ req'[s].known = req[s].known /\ req'[s].wrote = req[s].wrote
                /\ req'[s].late = (req[s].late \/ Overlaps(r, s))
           /\ req' \in [Request -> Slots]
<1>1. req' = [x \in Request |->
                 IF x = r THEN Free
                 ELSE [req[x] EXCEPT !.late = @ \/ Overlaps(r, x)]]
  BY DEF Commit
<1>2. \A x \in Request : Overlaps(r, x) \in BOOLEAN
  BY DEF Overlaps
<1>3. \A x \in Request : req[x] \in Slots
  BY DEF TypeInv, TypeOK
<1>4. Free \in Slots
  BY NoneAreFresh DEF Free, Slots, PCs, AllOps
<1> QED
  BY <1>1, <1>2, <1>3, <1>4 DEF Slots

\* A commit writes sound rows, and leaves the reads of the open requests sound:
\* rows never go away and issued tokens stay issued.
LEMMA CommitTypeInv ==
    ASSUME TypeInv, NEW r \in Request, Commit(r)
    PROVE  TypeInv'
<1>1. req[r] \in Slots /\ SlotOK(r) /\ TypeOK /\ \A s \in Request : SlotOK(s)
  BY DEF TypeInv, TypeOK
<1>2. /\ active' = ActiveAfter(r) /\ deleted' = DeletedAfter(r)
      /\ RecordHistory(r) /\ expired' = expired
  BY DEF Commit
<1>3. req[r].op # "purge" => req[r].user \in User
  BY <1>1 DEF SlotOK
<1>4. active' \subseteq User /\ deleted' \subseteq User
  <2>1. ActiveAfter(r) \subseteq User
    BY <1>1, <1>3 DEF ActiveAfter, TypeOK
  <2>2. DeletedAfter(r) \subseteq User
    BY <1>1, <1>3 DEF DeletedAfter, TypeOK
  <2> QED
    BY <1>2, <2>1, <2>2
<1>5. gen' \in [User -> Nat]
  <2>1. req[r].op \in Closes => req[r].user \in User
    BY <1>3 DEF Closes, ClosesAndWrites
  <2>2. gen' = IF req[r].op \in Closes THEN [gen EXCEPT ![req[r].user] = @ + 1] ELSE gen
    BY <1>2 DEF RecordHistory
  <2>3. gen \in [User -> Nat]
    BY <1>1 DEF TypeOK
  <2> QED
    BY <2>1, <2>2, <2>3
<1>6. rotated' \subseteq issued' /\ revoked' \subseteq issued' /\ expired' \subseteq issued'
      /\ issued' \subseteq Token /\ issued \subseteq issued'
  BY <1>1, <1>2, CommitRows DEF SlotOK, TypeOK
<1>7. raced' \subseteq issued'
  <2>1. raced' \subseteq raced \cup issued
                          \cup (IF req[r].child # NoToken THEN {req[r].child} ELSE {})
    BY <1>2 DEF RecordHistory
  <2> QED
    BY <1>1, <1>6, <2>1, CommitRows DEF TypeOK
<1>8. contested' \subseteq issued'
  BY <1>1, <1>2, <1>6 DEF RecordHistory, TypeOK, SlotOK
<1>9. /\ owner' \in [Token -> User \cup {NoUser}] /\ family' \in [Token -> Token]
      /\ parent' \in [Token -> Token] /\ born' \in [Token -> Nat]
  <2>1. PublishToken(r)
    BY DEF Commit
  <2>2. req[r].child # NoToken => req[r].child \in Token /\ req[r].op \in Issues
    BY <1>1 DEF SlotOK, Slots
  <2>3. req[r].op = "refresh" => req[r].tok \in Token
    BY <1>1 DEF SlotOK, TypeOK
  <2>4. req[r].gen \in Nat /\ req[r].user \in User \cup {NoUser}
    BY <1>1 DEF Slots
  <2>5. FamilyOf(r) \in Token \cup {NoToken} /\ ParentOf(r) \in Token \cup {NoToken}
        /\ (req[r].child # NoToken => FamilyOf(r) \in Token /\ ParentOf(r) \in Token)
    BY <1>1, <2>2, <2>3 DEF FamilyOf, ParentOf, TypeOK, Slots
  <2>6. born' \in [Token -> Nat]
    BY <1>1, <1>2, <2>2, <2>3, <2>4 DEF RecordHistory, TypeOK
  <2> QED
    BY <1>1, <2>1, <2>2, <2>4, <2>5, <2>6 DEF PublishToken, TypeOK
<1>10. \A t \in issued' : owner'[t] \in User
  BY <1>1, <1>3, CommitRows DEF TypeOK, Issues
<1>11. TypeOK'
  BY <1>4, <1>5, <1>6, <1>7, <1>8, <1>9, <1>10, CommitSlots DEF TypeOK
<1>12. ASSUME NEW s \in Request PROVE SlotOK(s)'
  <2>1. CASE s = r
    BY <2>1, CommitSlots DEF SlotOK, Free
  <2>2. CASE s # r
    <3>1. SlotOK(s) /\ (req[r].child # NoToken => req[s].child # req[r].child)
      BY <1>1, <2>2 DEF TypeInv, ChildrenDiffer
    <3>2. req[s].child # NoToken => req[s].child \notin issued'
      BY <1>1, <3>1, CommitRows DEF SlotOK
    <3> QED
      BY <1>6, <2>2, <3>1, <3>2, CommitRows, CommitSlots DEF SlotOK
  <2> QED
    BY <2>1, <2>2
<1>13. ChildrenDiffer'
  BY CommitSlots DEF ChildrenDiffer, TypeInv, Free
<1> QED
  BY <1>11, <1>12, <1>13 DEF TypeInv

\* The clock moves expires_at into the past and disturbs no slot.
LEMMA ExpireTypeInv ==
    ASSUME TypeInv, NEW t \in Token, Expire(t)
    PROVE  TypeInv'
  BY DEF TypeInv, TypeOK, Expire, rows, users, ghosts, SlotOK, ChildrenDiffer

\* TypeInv is inductive: one lemma above for each kind of step.
LEMMA NextTypeInv == TypeInv /\ [Next]_vars => TypeInv'
<1> SUFFICES ASSUME TypeInv, [Next]_vars PROVE TypeInv'
  OBVIOUS
<1>1. ASSUME NEW r \in Request, Arrive(r) PROVE TypeInv'
  BY <1>1, ArriveBegins, BeginTypeInv DEF TypeInv
<1>2. ASSUME NEW r \in Request, Sends(r) \/ Commit(r) PROVE TypeInv'
  BY <1>2, SendsTypeInv, CommitTypeInv
<1>3. ASSUME NEW t \in Token, Expire(t) PROVE TypeInv'
  BY <1>3, ExpireTypeInv
<1>4. CASE UNCHANGED vars
  BY <1>4 DEF TypeInv, TypeOK, SlotOK, ChildrenDiffer, vars, rows, users, ghosts
<1> QED
  BY <1>1, <1>2, <1>3, <1>4 DEF Next, Statement, Sends

\* Every variable keeps its type, and every request in flight can rely on what
\* it read: the rows it works on stay committed and its new row stays its own.
THEOREM TypeInvariant == Spec => []TypeInv
<1>1. Init => TypeInv
  BY InitTypeInv
<1>2. TypeInv /\ [Next]_vars => TypeInv'
  BY NextTypeInv
<1> QED
  BY <1>1, <1>2, PTL DEF Spec

\* The type invariant of the runs.
THEOREM TypesHold == Spec => []TypeOK
<1>1. TypeInv => TypeOK
  BY DEF TypeInv
<1> QED
  BY <1>1, TypeInvariant, PTL

-----------------------------------------------------------------------------
\* Only commits and the clock touch the tables.
LEMMA QuietSteps ==
    ASSUME TypeInv, [Next]_vars
    PROVE  \/ \E r \in Request : Commit(r)
           \/ \E t \in Token : Expire(t)
           \/ UNCHANGED <<rows, expired, users, ghosts>>
<1>1. ASSUME NEW r \in Request, Arrive(r)
      PROVE  UNCHANGED <<rows, expired, users, ghosts>>
  BY <1>1, ArriveBegins DEF TypeInv, Begin
<1>2. ASSUME NEW r \in Request, Sends(r)
      PROVE  UNCHANGED <<rows, expired, users, ghosts>>
  BY <1>2, SendsSlot
<1> QED
  BY <1>1, <1>2 DEF Next, Statement, Sends, vars

\* A statement leaves alone what the requests were asked for.
LEMMA SendsKeeps ==
    ASSUME TypeInv, NEW r \in Request, Sends(r), NEW s \in Request
    PROVE  req'[s] = Free \/ Keeps(s)
  BY SendsSlot DEF Keeps

\* Revoked and rotated stamps are never taken back, by any interleaving.
THEOREM StampsNeverRecede == Spec => StampsAreFinal
<1>1. TypeInv /\ [Next]_vars
         => [revoked \subseteq revoked' /\ rotated \subseteq rotated']_vars
  <2> SUFFICES ASSUME TypeInv, [Next]_vars
               PROVE  revoked \subseteq revoked' /\ rotated \subseteq rotated'
    OBVIOUS
  <2>1. CASE \E r \in Request : Commit(r)
    BY <2>1, CommitRows
  <2>2. CASE \E t \in Token : Expire(t)
    BY <2>2 DEF Expire, rows
  <2>3. CASE UNCHANGED <<rows, expired, users, ghosts>>
    BY <2>3 DEF rows
  <2> QED
    BY <2>1, <2>2, <2>3, QuietSteps
<1> QED
  BY <1>1, TypeInvariant, PTL DEF Spec, StampsAreFinal

\* Lineage is inductive: only the commit of a refresh adds a child, of the token
\* it rotates and in its family.
LEMMA NextLineage == TypeInv /\ Lineage /\ [Next]_vars => Lineage'
<1> SUFFICES ASSUME TypeInv, Lineage, [Next]_vars PROVE Lineage'
  OBVIOUS
<1>1. ASSUME NEW r \in Request, Commit(r) PROVE Lineage'
  <2> DEFINE c == req[r].child
  <2>1. SlotOK(r) /\ TypeOK
    BY DEF TypeInv
  <2>2. ASSUME NEW t \in issued
        PROVE  /\ parent'[t] \in issued /\ owner'[parent'[t]] = owner'[t]
               /\ family'[parent'[t]] = family'[t] /\ family'[t] \in issued
               /\ parent'[t] # t => parent'[t] \in rotated'
               /\ parent'[t] = t => family'[t] = t
    <3>1. parent'[t] = parent[t] /\ owner'[t] = owner[t] /\ family'[t] = family[t]
          /\ rotated \subseteq rotated'
      BY <1>1, CommitRows
    <3>2. parent[t] \in issued
      BY DEF Lineage
    <3>3. owner'[parent[t]] = owner[parent[t]] /\ family'[parent[t]] = family[parent[t]]
      BY <1>1, <3>2, CommitRows
    <3> QED
      BY <3>1, <3>2, <3>3 DEF Lineage
  <2>3. CASE c = NoToken
    BY <1>1, <2>2, <2>3, CommitRows DEF Lineage
  <2>4. CASE c # NoToken
    <3>1. c \notin issued /\ issued' = issued \cup {c} /\ owner'[c] = req[r].user
      BY <1>1, <2>4, CommitRows
    <3>2. CASE req[r].op = "refresh"
      <4>1. /\ family'[c] = family[req[r].tok] /\ parent'[c] = req[r].tok
            /\ rotated' = rotated \cup {req[r].tok}
        BY <1>1, <2>4, <3>2, CommitRows
      <4>2. req[r].tok \in issued /\ owner[req[r].tok] = req[r].user
        BY <2>1, <3>2 DEF SlotOK
      <4>3. owner'[req[r].tok] = owner[req[r].tok] /\ family'[req[r].tok] = family[req[r].tok]
        BY <1>1, <4>2, CommitRows
      <4>4. family[req[r].tok] \in issued
        BY <4>2 DEF Lineage
      <4> QED
        BY <2>2, <3>1, <4>1, <4>2, <4>3, <4>4 DEF Lineage
    <3>3. CASE req[r].op # "refresh"
      <4>1. family'[c] = c /\ parent'[c] = c
        BY <1>1, <2>4, <3>3, CommitRows
      <4> QED
        BY <2>2, <3>1, <4>1 DEF Lineage
    <3> QED
      BY <3>2, <3>3
  <2> QED
    BY <2>3, <2>4
<1>2. ASSUME NEW t \in Token, Expire(t) PROVE Lineage'
  BY <1>2 DEF Expire, rows, Lineage
<1>3. CASE UNCHANGED <<rows, expired, users, ghosts>>
  BY <1>3 DEF rows, Lineage
<1> QED
  BY <1>1, <1>2, <1>3, QuietSteps

\* Every committed token links to a committed, rotated parent of its own
\* account and family, or is the first of its family.
THEOREM LineageHolds == Spec => []Lineage
<1>1. Init => Lineage
  BY DEF Init, Lineage
<1> QED
  BY <1>1, NextLineage, TypeInvariant, PTL DEF Spec

-----------------------------------------------------------------------------
\* A request refreshing a token that is rotated by now is one of several.
RefreshesOK ==
    \A r \in Request : req[r].op = "refresh" /\ req[r].tok \in rotated
                           => req[r].tok \in contested

ForkInv == ForkOnlyIfContested /\ RefreshesOK

\* ForkInv is inductive: a second child of a token can only come from a request
\* that read the token unrotated, hence overlapped the first.
LEMMA NextForkInv == TypeInv /\ Lineage /\ ForkInv /\ [Next]_vars => ForkInv'
<1> SUFFICES ASSUME TypeInv, Lineage, ForkInv, [Next]_vars PROVE ForkInv'
  OBVIOUS
<1>1. ASSUME NEW r \in Request, Commit(r) PROVE ForkInv'
  <2>1. contested' = IF req[r].op = "refresh" /\ (\E s \in Request \ {r} :
                             req[s].op = "refresh" /\ req[s].tok = req[r].tok)
                     THEN contested \cup {req[r].tok} ELSE contested
    BY <1>1 DEF Commit, RecordHistory
  <2>2. RefreshesOK'
    <3> SUFFICES ASSUME NEW s \in Request, req'[s].op = "refresh", req'[s].tok \in rotated'
                 PROVE  req'[s].tok \in contested'
      BY DEF RefreshesOK
    <3>1. s # r /\ req[s].op = "refresh" /\ req[s].tok = req'[s].tok
      BY <1>1, CommitSlots DEF Free
    <3>2. req[s].tok \in rotated \/ (req[r].op = "refresh" /\ req[s].tok = req[r].tok)
      BY <1>1, <3>1, CommitRows
    <3> QED
      BY <2>1, <3>1, <3>2 DEF ForkInv, RefreshesOK
  <2>3. ForkOnlyIfContested'
    <3> SUFFICES ASSUME NEW s \in issued', NEW t \in issued', s # t,
                        parent'[s] = parent'[t], parent'[s] # s, parent'[t] # t
                 PROVE  parent'[s] \in contested'
      BY DEF ForkOnlyIfContested
    <3>1. CASE s \in issued /\ t \in issued
      BY <1>1, <2>1, <3>1, CommitRows DEF ForkInv, ForkOnlyIfContested
    <3>2. ASSUME NEW x \in issued, NEW y \in issued', y \notin issued,
                 parent'[x] = parent'[y], parent'[x] # x, parent'[y] # y
          PROVE  parent'[x] \in contested'
      <4>1. y = req[r].child /\ y # NoToken
        BY <1>1, <3>2, CommitRows
      <4>2. req[r].op = "refresh" /\ parent'[y] = req[r].tok /\ parent'[x] = parent[x]
        BY <1>1, <3>2, <4>1, CommitRows
      <4>3. parent[x] \in rotated
        BY <3>2, <4>2 DEF Lineage
      <4> QED
        BY <2>1, <3>2, <4>2, <4>3 DEF ForkInv, RefreshesOK
    <3>3. s \in issued \/ t \in issued
      BY <1>1, CommitRows
    <3> QED
      BY <3>1, <3>2, <3>3
  <2> QED
    BY <2>2, <2>3 DEF ForkInv
<1>2. ASSUME NEW r \in Request, Arrive(r) PROVE ForkInv'
  <2>1. PICK op \in AllOps, u \in User \cup {NoUser}, t \in Token \cup {NoToken} :
           /\ Begin(r, op, u, t)
           /\ op = "refresh" => t \in issued \ (rotated \cup revoked)
    BY <1>2, ArriveBegins DEF TypeInv
  <2>2. /\ \A s \in Request : s # r => req'[s] = req[s]
        /\ req'[r].op = op /\ req'[r].tok = t
        /\ UNCHANGED <<rows, expired, users, ghosts>>
    BY <2>1, BeginSlot
  <2> QED
    BY <2>1, <2>2 DEF ForkInv, RefreshesOK, ForkOnlyIfContested, rows, ghosts
<1>3. ASSUME NEW r \in Request, Sends(r) PROVE ForkInv'
  <2>1. UNCHANGED <<rows, expired, users, ghosts>>
    BY <1>3, SendsSlot
  <2>2. \A s \in Request : req'[s].op = "refresh" =>
                              req[s].op = "refresh" /\ req'[s].tok = req[s].tok
    BY <1>3, SendsKeeps DEF Free, Keeps
  <2> QED
    BY <2>1, <2>2 DEF ForkInv, RefreshesOK, ForkOnlyIfContested, rows, ghosts
<1>4. ASSUME NEW t \in Token, Expire(t) PROVE ForkInv'
  BY <1>4 DEF Expire, rows, ghosts, ForkInv, ForkOnlyIfContested, RefreshesOK
<1>5. CASE UNCHANGED vars
  BY <1>5 DEF vars, rows, ghosts, ForkInv, ForkOnlyIfContested, RefreshesOK
<1> QED
  BY <1>1, <1>2, <1>3, <1>4, <1>5 DEF Next, Statement, Sends

\* A token gets two successors only if two refreshes presented it before
\* either committed: the rotation is single-use as long as they do not race.
THEOREM ForksAreRaces == Spec => []ForkOnlyIfContested
<1>1. Init => ForkInv
  BY DEF Init, ForkInv, ForkOnlyIfContested, RefreshesOK
<1>2. ForkInv => ForkOnlyIfContested
  BY DEF ForkInv
<1> QED
  BY <1>1, <1>2, NextForkInv, LineageHolds, TypeInvariant, PTL DEF Spec

-----------------------------------------------------------------------------
\* The account's rows that were there when a closing request arrived are ahead of
\* its UPDATE, locked by it or revoked, and after the UPDATE one of the last two.
ClosingOK(r) ==
    req[r].op \in Closes =>
        \A t \in req[r].known : owner[t] = req[r].user =>
            /\ req[r].pc = "revoke" => t \in req[r].ahead \cup req[r].hits \cup revoked
            /\ req[r].pc \in {"flush", "commit"} => t \in req[r].hits \cup revoked

\* What an issuing request knows of its account's generation, and what a
\* closing request has done by the time it commits.
GenerationOK(r) ==
    /\ req[r].op = "login" /\ req[r].gen < gen[req[r].user] => req[r].late
    /\ req[r].op = "refresh" /\ born[req[r].tok] < gen[req[r].user]
          => req[r].late \/ req[r].tok \in raced
    /\ ClosingOK(r)

StaleInv == StaleOnlyIfRaced /\ \A r \in Request : GenerationOK(r)

\* The commit of a request that inserts leaves a session behind a closing one
\* only when the two overlapped; the commit of a closing one has revoked the rest.
LEMMA CommitStaleInv ==
    ASSUME TypeInv, StaleInv, NEW r \in Request, Commit(r)
    PROVE  StaleInv'
<1> DEFINE c == req[r].child
           u == req[r].user
<1>1. SlotOK(r) /\ TypeOK /\ GenerationOK(r) /\ req[r].pc = "commit" /\ req[r] \in Slots
  BY DEF TypeInv, StaleInv, Commit, TypeOK
<1>2. /\ gen' = IF req[r].op \in Closes THEN [gen EXCEPT ![u] = @ + 1] ELSE gen
      /\ raced' = raced \cup (IF req[r].op \in Closes
                              THEN {t \in issued \ (req[r].known \cup revoked \cup req[r].hits) :
                                      owner[t] = u}
                              ELSE {})
                        \cup (IF c # NoToken /\ (req[r].late \/ req[r].tok \in raced)
                              THEN {c} ELSE {})
  BY DEF Commit, RecordHistory
<1>3. req[r].op \in Closes => u \in User /\ c = NoToken
  BY <1>1 DEF SlotOK, Closes, ClosesAndWrites, Issues
<1>4. gen \in [User -> Nat] /\ gen' \in [User -> Nat]
  BY <1>1, <1>2, <1>3 DEF TypeOK
<1>5. raced \subseteq raced' /\ revoked \subseteq revoked'
  BY <1>2, CommitRows
<1>6. \A x \in User : gen'[x] # gen[x] => req[r].op \in Closes /\ x = u
  BY <1>2, <1>3, <1>4
<1>7. StaleOnlyIfRaced'
  <2> SUFFICES ASSUME NEW t \in issued', born'[t] < gen'[owner'[t]]
               PROVE  t \in revoked' \cup raced'
    BY DEF StaleOnlyIfRaced
  <2>1. CASE t \in issued
    <3>1. owner'[t] = owner[t] /\ born'[t] = born[t] /\ owner[t] \in User
      BY <1>1, <2>1, CommitRows DEF TypeOK
    <3>2. CASE gen'[owner[t]] = gen[owner[t]]
      BY <1>5, <2>1, <3>1, <3>2 DEF StaleInv, StaleOnlyIfRaced
    <3>3. CASE gen'[owner[t]] # gen[owner[t]]
      <4>1. req[r].op \in Closes /\ owner[t] = u
        BY <1>6, <3>1, <3>3
      <4>2. t \in req[r].known => t \in revoked'
        BY <1>1, <4>1, CommitRows DEF GenerationOK, ClosingOK
      <4>3. revoked' = revoked \cup req[r].hits
        BY CommitRows
      <4> QED
        BY <1>2, <2>1, <4>1, <4>2, <4>3
    <3> QED
      BY <3>2, <3>3
  <2>2. CASE t \notin issued
    <3>1. t = c /\ c # NoToken /\ req[r].op \in Issues /\ owner'[t] = u
      BY <2>2, CommitRows
    <3>2. req[r].op \notin Closes /\ gen' = gen
      BY <1>2, <1>3, <3>1
    <3>3. CASE req[r].op = "refresh"
      <4>1. born'[t] = born[req[r].tok]
        BY <3>1, <3>3, CommitRows
      <4> QED
        BY <1>1, <1>2, <3>1, <3>2, <3>3, <4>1 DEF GenerationOK
    <3>4. CASE req[r].op = "login"
      <4>1. born'[t] = req[r].gen
        BY <3>1, <3>4, CommitRows
      <4> QED
        BY <1>1, <1>2, <3>1, <3>2, <3>4, <4>1 DEF GenerationOK
    <3> QED
      BY <3>1, <3>3, <3>4 DEF Issues
  <2> QED
    BY <2>1, <2>2
<1>8. ASSUME NEW s \in Request PROVE GenerationOK(s)'
  <2>1. CASE s = r
    BY <2>1, CommitSlots DEF GenerationOK, ClosingOK, Free, Closes, ClosesAndWrites
  <2>2. CASE s # r
    <3>1. /\ req'[s].pc = req[s].pc /\ req'[s].op = req[s].op /\ req'[s].user = req[s].user
          /\ req'[s].tok = req[s].tok /\ req'[s].gen = req[s].gen
          /\ req'[s].ahead = req[s].ahead /\ req'[s].hits = req[s].hits
          /\ req'[s].known = req[s].known
          /\ req'[s].late = (req[s].late \/ Overlaps(r, s))
      BY <2>2, CommitSlots
    <3>2. GenerationOK(s) /\ SlotOK(s)
      BY DEF StaleInv, TypeInv
    <3>3. req[s].op \in {"login", "refresh"} => req[s].user \in User
      BY <3>2 DEF SlotOK
    <3>4. req[s].op \in {"login", "refresh"} /\ gen'[req[s].user] # gen[req[s].user]
             => Overlaps(r, s)
      BY <1>6, <2>2, <3>3 DEF Overlaps, Issues
    <3>5. req[s].op = "refresh" => born'[req[s].tok] = born[req[s].tok]
      BY <3>2, CommitRows DEF SlotOK
    <3>6. \A t \in req[s].known : owner'[t] = owner[t]
      BY <3>2, CommitRows DEF SlotOK
    <3>7. ClosingOK(s)'
      BY <1>5, <3>1, <3>2, <3>6 DEF GenerationOK, ClosingOK
    <3> QED
      BY <1>5, <3>1, <3>2, <3>4, <3>5, <3>7 DEF GenerationOK
  <2> QED
    BY <2>1, <2>2
<1> QED
  BY <1>7, <1>8 DEF StaleInv

\* A closing operation comes to its last statements through its snapshot and
\* the UPDATE of the rows in it.
LEMMA SendsClosing ==
    ASSUME TypeInv, StaleInv, NEW r \in Request, Sends(r), NEW s \in Request
    PROVE  ClosingOK(s)'
<1>1. /\ UNCHANGED <<rows, expired, users, ghosts>>
      /\ \A x \in Request : x # r => req'[x] = req[x]
      /\ \/ req'[r] = Free
         \/ Keeps(r) /\ (Loaded(r) \/ Inserted(r) \/ Selected(r) \/ Updated(r) \/ Flushed(r))
  BY SendsSlot
<1>2. SlotOK(r) /\ ClosingOK(r) /\ ClosingOK(s)
  BY DEF TypeInv, StaleInv, GenerationOK
<1>3. CASE s # r
  BY <1>1, <1>2, <1>3 DEF ClosingOK, rows
<1>4. CASE s = r
  <2>1. CASE req'[r] = Free
    BY <1>4, <2>1 DEF ClosingOK, Free, Closes, ClosesAndWrites
  <2>2. CASE Keeps(r) /\ (Loaded(r) \/ Inserted(r))
    <3>1. req'[r].op \notin Closes
      BY <1>2, <2>2 DEF SlotOK, Keeps, Loaded, Inserted, Issues, Closes, ClosesAndWrites
    <3> QED
      BY <1>4, <3>1 DEF ClosingOK
  <2>3. CASE Keeps(r) /\ Selected(r)
    <3>1. req[r].op \in Closes => \A t \in issued : owner[t] = req[r].user
                                        => t \in Targets(r) \cup revoked
      BY DEF Targets, Matches, Closes, ClosesAndWrites, RevokeFamily
    <3> QED
      BY <1>1, <1>2, <1>4, <2>3, <3>1 DEF ClosingOK, SlotOK, Keeps, Selected, rows
  <2>4. CASE Keeps(r) /\ Updated(r)
    BY <1>1, <1>2, <1>4, <2>4 DEF ClosingOK, Keeps, Updated, rows
  <2>5. CASE Keeps(r) /\ Flushed(r)
    BY <1>1, <1>2, <1>4, <2>5 DEF ClosingOK, Keeps, Flushed, rows
  <2> QED
    BY <1>1, <2>1, <2>2, <2>3, <2>4, <2>5
<1> QED
  BY <1>3, <1>4

\* StaleInv is inductive; statements and arrivals only have to keep the slots'
\* part of it.
LEMMA NextStaleInv == TypeInv /\ StaleInv /\ [Next]_vars => StaleInv'
<1> SUFFICES ASSUME TypeInv, StaleInv, [Next]_vars PROVE StaleInv'
  OBVIOUS
<1>1. ASSUME NEW r \in Request, Arrive(r) PROVE StaleInv'
  <2>1. PICK op \in AllOps, u \in User \cup {NoUser}, t \in Token \cup {NoToken} :
           /\ Begin(r, op, u, t)
           /\ op # "purge" => u \in User
           /\ op = "refresh" => t \in issued \ (rotated \cup revoked) /\ owner[t] = u
    BY <1>1, ArriveBegins DEF TypeInv
  <2>2. /\ \A s \in Request : s # r => req'[s] = req[s]
        /\ req'[r].op = op /\ req'[r].tok = t /\ req'[r].user = u
        /\ op = "login" => req'[r].gen = gen[u]
        /\ UNCHANGED <<rows, expired, users, ghosts>>
    BY <2>1, BeginSlot
  <2>3. op = "login" => ~(gen[u] < gen[u])
    BY <2>1 DEF TypeInv, TypeOK
  <2>4. op = "refresh" /\ born[t] < gen[u] => t \in raced
    BY <2>1 DEF StaleInv, StaleOnlyIfRaced
  <2>5. op \in Closes => req'[r].pc = "select"
    <3>1. op \in Closes => op # "login" /\ Follow(op, "idle") = "select"
      BY DEF Follow, Closes, ClosesAndWrites
    <3> QED
      BY <2>1, <3>1, BeginSlot, StartsType
  <2>6. GenerationOK(r)'
    BY <2>2, <2>3, <2>4, <2>5 DEF GenerationOK, ClosingOK, rows, ghosts
  <2> QED
    BY <2>2, <2>6 DEF StaleInv, GenerationOK, ClosingOK, StaleOnlyIfRaced, rows, ghosts
<1>2. ASSUME NEW r \in Request, Sends(r) PROVE StaleInv'
  <2>1. UNCHANGED <<rows, expired, users, ghosts>>
    BY <1>2, SendsSlot
  <2>2. ASSUME NEW s \in Request PROVE GenerationOK(s)'
    <3>1. ClosingOK(s)' /\ (req'[s] = Free \/ Keeps(s))
      BY <1>2, SendsClosing, SendsKeeps
    <3> QED
      BY <2>1, <3>1 DEF GenerationOK, StaleInv, Free, Keeps, ghosts
  <2> QED
    BY <2>1, <2>2 DEF StaleInv, StaleOnlyIfRaced, rows, ghosts
<1>3. ASSUME NEW r \in Request, Commit(r) PROVE StaleInv'
  BY <1>3, CommitStaleInv
<1>4. ASSUME NEW t \in Token, Expire(t) PROVE StaleInv'
  BY <1>4 DEF Expire, rows, ghosts, StaleInv, StaleOnlyIfRaced, GenerationOK, ClosingOK
<1>5. CASE UNCHANGED vars
  BY <1>5 DEF vars, rows, ghosts, StaleInv, StaleOnlyIfRaced, GenerationOK, ClosingOK
<1> QED
  BY <1>1, <1>2, <1>3, <1>4, <1>5 DEF Next, Statement, Sends

\* An operation that must end every session of an account ends all but those
\* that were in flight with it: committed after its snapshot, or issued by a
\* request it overlapped, or successors of such a token.
THEOREM SurvivorsAreRaces == Spec => []StaleOnlyIfRaced
<1>1. Init => StaleInv
  <2>1. ASSUME Init, NEW r \in Request PROVE GenerationOK(r)
    BY <2>1 DEF Init, GenerationOK, ClosingOK, Free, Closes, ClosesAndWrites
  <2> QED
    BY <2>1 DEF Init, StaleInv, StaleOnlyIfRaced
<1>2. StaleInv => StaleOnlyIfRaced
  BY DEF StaleInv
<1> QED
  BY <1>1, <1>2, NextStaleInv, TypeInvariant, PTL DEF Spec

-----------------------------------------------------------------------------
\* Stronger than OneLivePerFamily, and inductive: a family none of whose tokens
\* was contested has one token that is not rotated, whether revoked or not.
OneUnrotated ==
    \A s, t \in issued \ rotated :
        s # t /\ family[s] = family[t] => \E p \in contested : family[p] = family[s]

\* A commit that adds an unrotated token to a family rotates its parent with it.
LEMMA CommitOneUnrotated ==
    ASSUME TypeInv, Lineage, ForkInv, OneUnrotated, NEW r \in Request, Commit(r)
    PROVE  OneUnrotated'
<1> DEFINE c == req[r].child
           tok == req[r].tok
<1>1. SlotOK(r) /\ TypeOK
  BY DEF TypeInv
<1>2. contested \subseteq contested' /\ contested \subseteq issued
  BY <1>1 DEF Commit, RecordHistory, TypeOK
<1>3. ASSUME NEW x \in issued, \E p \in contested : family[p] = family[x]
      PROVE  \E p \in contested' : family'[p] = family'[x]
  BY <1>2, <1>3, CommitRows
<1>4. ASSUME NEW x \in issued \ rotated', c # NoToken, family'[x] = family'[c]
      PROVE  \E p \in contested' : family'[p] = family'[x]
  <2>1. c \notin issued /\ family'[x] = family[x] /\ family[x] \in issued
    BY <1>4, CommitRows DEF Lineage
  <2>2. req[r].op = "refresh"
    BY <1>4, <2>1, CommitRows
  <2>3. /\ family'[c] = family[tok] /\ tok \in issued /\ x # tok
        /\ x \notin rotated
    BY <1>1, <1>4, <2>2, CommitRows DEF SlotOK
  <2>4. CASE tok \in rotated
    <3>1. tok \in contested
      BY <2>2, <2>4 DEF ForkInv, RefreshesOK
    <3> QED
      BY <1>3, <1>4, <2>1, <2>3, <3>1
  <2>5. CASE tok \notin rotated
    BY <1>3, <1>4, <2>1, <2>3, <2>5 DEF OneUnrotated
  <2> QED
    BY <2>4, <2>5
<1> SUFFICES ASSUME NEW s \in issued' \ rotated', NEW t \in issued' \ rotated',
                    s # t, family'[s] = family'[t]
             PROVE  \E p \in contested' : family'[p] = family'[s]
  BY DEF OneUnrotated
<1>5. CASE s \in issued /\ t \in issued
  <2>1. s \notin rotated /\ t \notin rotated /\ family[s] = family[t]
    BY <1>5, CommitRows
  <2> QED
    BY <1>3, <1>5, <2>1 DEF OneUnrotated
<1>6. CASE s \in issued /\ t \notin issued
  BY <1>4, <1>6, CommitRows
<1>7. CASE s \notin issued /\ t \in issued
  BY <1>4, <1>7, CommitRows
<1> QED
  BY <1>5, <1>6, <1>7, CommitRows

\* OneUnrotated is inductive; only commits change the rows it speaks of.
LEMMA NextOneUnrotated ==
    TypeInv /\ Lineage /\ ForkInv /\ OneUnrotated /\ [Next]_vars => OneUnrotated'
<1> SUFFICES ASSUME TypeInv, Lineage, ForkInv, OneUnrotated, [Next]_vars
             PROVE  OneUnrotated'
  OBVIOUS
<1>1. ASSUME NEW r \in Request, Commit(r) PROVE OneUnrotated'
  BY <1>1, CommitOneUnrotated
<1>2. ASSUME NEW t \in Token, Expire(t) PROVE OneUnrotated'
  BY <1>2 DEF Expire, rows, ghosts, OneUnrotated
<1>3. CASE UNCHANGED <<rows, expired, users, ghosts>>
  BY <1>3 DEF rows, ghosts, OneUnrotated
<1> QED
  BY <1>1, <1>2, <1>3, QuietSteps

\* A family has a single live token unless two refreshes raced for one of its
\* tokens, however many requests, families and rotations there are.
THEOREM OneLiveToken == Spec => []OneLivePerFamily
<1>1. Init => ForkInv /\ OneUnrotated
  BY DEF Init, ForkInv, ForkOnlyIfContested, RefreshesOK, OneUnrotated
<1>2. OneUnrotated => OneLivePerFamily
  BY DEF OneUnrotated, OneLivePerFamily, Live
<1> QED
  BY <1>1, <1>2, NextForkInv, NextOneUnrotated, LineageHolds, TypeInvariant, PTL DEF Spec
-----------------------------------------------------------------------------
\* The rows a bulk UPDATE is to come to or has updated.
Scope(r) == req[r].ahead \cup req[r].hits

\* What a bulk UPDATE may hit: tokens of the account, of the family of a token
\* of the account, or expired ones; a reuse is reported of a stamped token.
TargetsOK(r) ==
    /\ req[r].op = "reuse" => req[r].tok \in rotated \cup revoked
    /\ req[r].op \in RevokeFamily =>
          /\ req[r].tok \in issued /\ owner[req[r].tok] = req[r].user
          /\ \A s \in Scope(r) : family[s] = family[req[r].tok]
    /\ req[r].op = "purge" => Scope(r) \subseteq expired
    /\ req[r].op \notin RevokeFamily \cup {"purge"} =>
          \A s \in Scope(r) : owner[s] = req[r].user

\* TargetsOK is inductive: rows keep their owner and family, stamps stay.
LEMMA NextTargetsOK ==
    ASSUME TypeInv, \A r \in Request : TargetsOK(r), [Next]_vars, NEW s \in Request
    PROVE  TargetsOK(s)'
<1>1. req \in [Request -> Slots] /\ SlotOK(s) /\ TargetsOK(s)
  BY DEF TypeInv, TypeOK
<1>2. ASSUME NEW r \in Request, Arrive(r) PROVE TargetsOK(s)'
  <2>1. PICK op \in AllOps, u \in User \cup {NoUser}, t \in Token \cup {NoToken} :
           /\ ~Busy(r) /\ Begin(r, op, u, t)
           /\ op = "reuse" => t \in issued \cap (rotated \cup revoked)
           /\ op \in {"reuse", "logout"} => t \in issued /\ owner[t] = u
    BY <1>2, ArriveBegins DEF TypeInv
  <2>2. UNCHANGED <<issued, rotated, revoked, family, owner, expired>>
    BY <2>1 DEF Begin, rows
  <2>3. CASE s = r
    <3>1. req'[s].op = op /\ req'[s].user = u /\ req'[s].tok = t /\ Scope(s)' = {}
      BY <2>1, <2>3, BeginSlot DEF Scope
    <3> QED
      BY <2>1, <2>2, <3>1 DEF TargetsOK, RevokeFamily
  <2>4. CASE s # r
    <3>1. req'[s] = req[s]
      BY <2>1, <2>4, BeginSlot
    <3> QED
      BY <1>1, <2>2, <3>1 DEF TargetsOK, Scope
  <2> QED
    BY <2>3, <2>4
<1>3. ASSUME NEW r \in Request, Commit(r) PROVE TargetsOK(s)'
  <2>1. CASE s = r
    BY <1>3, <2>1, CommitSlots DEF TargetsOK, Scope, Free, RevokeFamily
  <2>2. CASE s # r
    <3>1. /\ req'[s].op = req[s].op /\ req'[s].user = req[s].user
          /\ req'[s].tok = req[s].tok /\ Scope(s)' = Scope(s)
      BY <1>3, <2>2, CommitSlots DEF Scope
    <3>2. /\ rotated \subseteq rotated' /\ revoked \subseteq revoked'
          /\ \A t \in issued : t \in issued' /\ family'[t] = family[t] /\ owner'[t] = owner[t]
          /\ expired' = expired
      BY <1>3, CommitRows DEF Commit
    <3> QED
      BY <1>1, <3>1, <3>2 DEF TargetsOK, Scope, SlotOK
  <2> QED
    BY <2>1, <2>2
<1>4. ASSUME NEW r \in Request, Sends(r) PROVE TargetsOK(s)'
  <2>1. /\ UNCHANGED <<issued, rotated, revoked, family, owner, expired>>
        /\ \A x \in Request : x # r => req'[x] = req[x]
        /\ \/ req'[r] = Free
           \/ Keeps(r) /\ (Loaded(r) \/ Inserted(r) \/ Selected(r) \/ Updated(r) \/ Flushed(r))
    BY <1>4, SendsSlot DEF rows
  <2>2. CASE req'[s] = Free
    BY <2>2 DEF TargetsOK, Scope, Free, RevokeFamily
  <2>3. CASE req'[s] = req[s]
    BY <1>1, <2>1, <2>3 DEF TargetsOK, Scope
  <2>4. CASE s = r /\ Keeps(r) /\ (Loaded(r) \/ Inserted(r) \/ Updated(r) \/ Flushed(r))
    <3>1. Scope(s)' \subseteq Scope(s)
      BY <2>4 DEF Scope, Loaded, Inserted, Updated, Flushed
    <3> QED
      BY <1>1, <2>1, <2>4, <3>1 DEF TargetsOK, Keeps
  <2>5. CASE s = r /\ Keeps(r) /\ Selected(r)
    <3>1. Scope(s)' = Targets(s)
      BY <1>1, <2>5 DEF Scope, Selected, SlotOK
    <3> QED
      BY <1>1, <2>1, <2>5, <3>1 DEF Targets, TargetsOK, Matches, RevokeFamily, Keeps
  <2> QED
    BY <2>1, <2>2, <2>3, <2>4, <2>5
<1>5. ASSUME NEW t \in Token, Expire(t) PROVE TargetsOK(s)'
  BY <1>1, <1>5 DEF Expire, rows, TargetsOK, Scope
<1>6. CASE UNCHANGED vars
  BY <1>1, <1>6 DEF vars, rows, TargetsOK, Scope
<1> QED
  BY <1>2, <1>3, <1>4, <1>5, <1>6 DEF Next, Statement, Sends

\* Purging expired sessions costs nobody a session in use, however often the
\* purged tokens come back: the false alarm finds only rotated tokens to revoke,
\* unless the family was contested.
THEOREM PurgedTokensAreHarmless == Spec => FalseAlarmIsHarmless
<1> DEFINE TargetsInv == \A r \in Request : TargetsOK(r)
           Harmless == \A r \in Request :
              Commit(r) /\ req[r].op = "reuse" /\ req[r].tok \notin rotated =>
                 \A t \in revoked' \ revoked :
                     t \in rotated \/ \E p \in contested : family[p] = family[t]
<1>1. Init => ForkInv /\ OneUnrotated /\ TargetsInv
  BY DEF Init, ForkInv, ForkOnlyIfContested, RefreshesOK, OneUnrotated, TargetsOK, Scope, Free,
         RevokeFamily
<1>2. TypeInv /\ TargetsInv /\ [Next]_vars => TargetsInv'
  BY NextTargetsOK
<1>3. TypeInv /\ OneUnrotated /\ TargetsInv => [Harmless]_vars
  <2> SUFFICES ASSUME TypeInv, OneUnrotated, TargetsInv, NEW r \in Request, Commit(r),
                      req[r].op = "reuse", req[r].tok \notin rotated,
                      NEW t \in revoked' \ revoked, t \notin rotated
               PROVE  \E p \in contested : family[p] = family[t]
    OBVIOUS
  <2>1. SlotOK(r) /\ TargetsOK(r)
    BY DEF TypeInv
  <2>2. t \in Scope(r) /\ t \in issued
    BY <2>1, CommitRows DEF Scope, SlotOK
  <2>3. /\ t \in issued \ rotated /\ req[r].tok \in issued \ rotated
        /\ t # req[r].tok /\ family[t] = family[req[r].tok]
    BY <2>1, <2>2 DEF SlotOK, TargetsOK, RevokeFamily
  <2> QED
    BY <2>3 DEF OneUnrotated
<1>4. [][Harmless]_vars => FalseAlarmIsHarmless
  BY DEF FalseAlarmIsHarmless
<1> QED
  BY <1>1, <1>2, <1>3, <1>4, NextForkInv, NextOneUnrotated, LineageHolds, TypeInvariant,
     PTL DEF Spec
\* The tokens of a family belong to one account: the owner of its first one.
FamilyOwner == \A t \in issued : owner[family[t]] = owner[t]

\* FamilyOwner is inductive: a commit hands on the family with the owner.
LEMMA NextFamilyOwner ==
    TypeInv /\ Lineage /\ FamilyOwner /\ [Next]_vars => FamilyOwner'
<1> SUFFICES ASSUME TypeInv, Lineage, FamilyOwner, [Next]_vars PROVE FamilyOwner'
  OBVIOUS
<1>1. ASSUME NEW r \in Request, Commit(r) PROVE FamilyOwner'
  <2> DEFINE c == req[r].child
  <2>1. ASSUME NEW t \in issued PROVE owner'[family'[t]] = owner'[t]
    <3>1. family[t] \in issued
      BY DEF Lineage
    <3> QED
      BY <1>1, <3>1, CommitRows DEF FamilyOwner
  <2>2. CASE c # NoToken
    <3>1. CASE req[r].op = "refresh"
      <4>1. req[r].tok \in issued /\ owner[req[r].tok] = req[r].user
        BY <3>1 DEF TypeInv, SlotOK
      <4>2. family'[c] = family[req[r].tok] /\ owner'[c] = req[r].user
        BY <1>1, <2>2, <3>1, CommitRows
      <4>3. family[req[r].tok] \in issued
        BY <4>1 DEF Lineage
      <4> QED
        BY <1>1, <2>1, <2>2, <4>1, <4>2, <4>3, CommitRows DEF FamilyOwner
    <3>2. CASE req[r].op # "refresh"
      BY <1>1, <2>1, <2>2, <3>2, CommitRows DEF FamilyOwner
    <3> QED
      BY <3>1, <3>2
  <2>3. CASE c = NoToken
    BY <1>1, <2>1, <2>3, CommitRows DEF FamilyOwner
  <2> QED
    BY <2>2, <2>3
<1>2. ASSUME NEW t \in Token, Expire(t) PROVE FamilyOwner'
  BY <1>2 DEF Expire, rows, FamilyOwner
<1>3. CASE UNCHANGED <<rows, expired, users, ghosts>>
  BY <1>3 DEF rows, FamilyOwner
<1> QED
  BY <1>1, <1>2, <1>3, QuietSteps

\* No request revokes a session of another account, whatever token it is given;
\* the purge revokes expired ones only.
THEOREM RevocationsAreOwn == Spec => RevokesOwnOnly
<1> DEFINE TargetsInv == \A r \in Request : TargetsOK(r)
           OwnOnly == \A r \in Request : Commit(r) =>
                         \A t \in revoked' \ revoked : owner[t] = req[r].user \/ t \in expired
<1>1. Init => FamilyOwner /\ TargetsInv
  BY DEF Init, FamilyOwner, TargetsOK, Scope, Free, RevokeFamily
<1>2. TypeInv /\ TargetsInv /\ [Next]_vars => TargetsInv'
  BY NextTargetsOK
<1>3. TypeInv /\ FamilyOwner /\ TargetsInv => [OwnOnly]_vars
  <2> SUFFICES ASSUME TypeInv, FamilyOwner, TargetsInv, NEW r \in Request, Commit(r),
                      NEW t \in revoked' \ revoked
               PROVE  owner[t] = req[r].user \/ t \in expired
    OBVIOUS
  <2>1. SlotOK(r) /\ TargetsOK(r)
    BY DEF TypeInv
  <2>2. t \in Scope(r) /\ t \in issued
    BY <2>1, CommitRows DEF Scope, SlotOK
  <2>3. CASE req[r].op \in RevokeFamily
    BY <2>1, <2>2, <2>3 DEF TargetsOK, FamilyOwner
  <2> QED
    BY <2>1, <2>2, <2>3 DEF TargetsOK
<1>4. [][OwnOnly]_vars => RevokesOwnOnly
  BY DEF RevokesOwnOnly
<1> QED
  BY <1>1, <1>2, <1>3, <1>4, NextFamilyOwner, LineageHolds, TypeInvariant, PTL DEF Spec

-----------------------------------------------------------------------------
\* The order of the locks.  A request that has inserted is past its INSERT, one
\* that holds rows by a bulk UPDATE has only the users row left to ask for, and
\* one that holds the users row asks for no row another request may hold.
LockOrder(r) ==
    /\ req[r].child # NoToken => req[r].pc \in {"flush", "commit"}
    /\ req[r].hits # {} => req[r].pc \in {"revoke", "flush", "commit"}
    /\ req[r].pc = "clear" => req[r].op = "login"
    /\ req[r].wrote => \/ req[r].pc = "commit"
                       \/ req[r].op = "login" /\ req[r].pc \in {"insert", "flush"}
    /\ req[r].op = "login" => req[r].tok = NoToken

\* A users row is held by one request at a time.
OneWriter ==
    \A r, s \in Request :
        r # s /\ req[r].wrote /\ req[s].wrote => req[r].user # req[s].user

LockInv == (\A r \in Request : LockOrder(r)) /\ OneWriter

\* The statements keep to that order, and one that takes the users row has waited
\* for whoever had it.
LEMMA NextLockInv == TypeInv /\ LockInv /\ [Next]_vars => LockInv'
<1> SUFFICES ASSUME TypeInv, LockInv, [Next]_vars PROVE LockInv'
  OBVIOUS
<1>1. ASSUME NEW r \in Request, \A x \in Request : x # r => req'[x] = req[x],
             LockOrder(r)',
             ~req'[r].wrote \/ (req[r].wrote /\ req'[r].user = req[r].user)
      PROVE  LockInv'
  <2>1. \A x \in Request : LockOrder(x)'
    BY <1>1 DEF LockInv, LockOrder
  <2>2. OneWriter'
    BY <1>1 DEF LockInv, OneWriter
  <2> QED
    BY <2>1, <2>2 DEF LockInv
<1>2. ASSUME NEW r \in Request, Arrive(r) PROVE LockInv'
  <2>1. PICK op \in AllOps, u \in User \cup {NoUser}, t \in Token \cup {NoToken} :
           Begin(r, op, u, t) /\ (op = "login" => t = NoToken)
    BY <1>2, ArriveBegins DEF TypeInv
  <2>2. /\ \A x \in Request : x # r => req'[x] = req[x]
        /\ ~req'[r].wrote /\ req'[r].child = NoToken /\ req'[r].hits = {}
        /\ req'[r].op = op /\ req'[r].tok = t /\ req'[r].pc \in Starts(op)
    BY <2>1, BeginSlot
  <2>3. req'[r].pc = "clear" => op = "login"
    BY <2>2 DEF Starts, Follow
  <2> QED
    BY <1>1, <2>1, <2>2, <2>3 DEF LockOrder
<1>3. ASSUME NEW r \in Request, req'[r] = Free, \A x \in Request : x # r => req'[x] = req[x]
      PROVE  LockInv'
  BY <1>1, <1>3 DEF LockOrder, Free
<1>4. ASSUME NEW r \in Request, Sends(r) PROVE LockInv'
  <2>1. /\ \A x \in Request : x # r => req'[x] = req[x]
        /\ \/ req'[r] = Free
           \/ Keeps(r) /\ (Loaded(r) \/ Inserted(r) \/ Selected(r) \/ Updated(r) \/ Flushed(r))
    BY <1>4, SendsSlot
  <2>2. LockOrder(r) /\ SlotOK(r)
    BY DEF LockInv, TypeInv
  <2>3. CASE req'[r] = Free
    BY <1>3, <2>1, <2>3
  <2>4. CASE Keeps(r) /\ (Loaded(r) \/ Inserted(r) \/ Selected(r))
    BY <1>1, <2>1, <2>2, <2>4 DEF LockOrder, SlotOK, Keeps, Loaded, Inserted, Selected
  <2>5. CASE Keeps(r) /\ Updated(r)
    <3>1. req[r].pc = "revoke" => Past(r) \in {"flush", "commit"}
      BY DEF Past, Follow
    <3> QED
      BY <1>1, <2>1, <2>2, <2>5, <3>1 DEF LockOrder, Keeps, Updated
  <2>6. CASE Keeps(r) /\ Flushed(r)
    <3>1. \A x \in Request : LockOrder(x)'
      BY <2>1, <2>2, <2>6 DEF LockInv, LockOrder, Keeps, Flushed
    <3>2. ASSUME NEW x \in Request, x # r, req[x].wrote PROVE req[x].user # req[r].user
      BY <2>6, <3>2 DEF Flushed, FlushUser, Unblocked, WaitsFor, UserBlocked
    <3>3. OneWriter'
      BY <2>1, <2>6, <3>2 DEF LockInv, OneWriter, Keeps
    <3> QED
      BY <3>1, <3>3 DEF LockInv
  <2> QED
    BY <2>1, <2>3, <2>4, <2>5, <2>6
<1>5. ASSUME NEW r \in Request, Commit(r) PROVE LockInv'
  <2>1. \A x \in Request : LockOrder(x)'
    BY <1>5, CommitSlots DEF LockInv, LockOrder, Free
  <2>2. \A x \in Request :
           req'[x].wrote => x # r /\ req[x].wrote /\ req'[x].user = req[x].user
    BY <1>5, CommitSlots DEF Free
  <2>3. OneWriter'
    BY <2>2 DEF LockInv, OneWriter
  <2> QED
    BY <2>1, <2>3 DEF LockInv
<1>6. CASE UNCHANGED req
  BY <1>6 DEF LockInv, LockOrder, OneWriter
<1> QED
  BY <1>2, <1>4, <1>5, <1>6 DEF Next, Statement, Sends, Expire, vars

\* Whoever is part of a deadlock is in the middle of a bulk UPDATE: no request
\* that holds the users row waits, hence none that waits for the users row is
\* waited for, and one that waits at its INSERT holds nothing yet.  This holds
\* for any set of requests, without counting them.
THEOREM NoOtherDeadlock == Spec => []DeadlocksAreUpdates
<1>1. Init => LockInv
  BY DEF Init, LockInv, LockOrder, OneWriter, Free
<1>2. TypeInv /\ LockInv => DeadlocksAreUpdates
  <2> SUFFICES ASSUME TypeInv, LockInv, NEW S \in SUBSET Request, Deadlock(S), NEW r \in S
               PROVE  req[r].pc = "revoke"
    BY DEF DeadlocksAreUpdates
  <2>1. \A s \in S : /\ s \in Request /\ SlotOK(s) /\ LockOrder(s) /\ req[s] \in Slots
                     /\ \E x \in S : WaitsFor(s, x)
    BY DEF TypeInv, TypeOK, LockInv, Deadlock
  <2>2. ASSUME NEW s \in S, req[s].wrote PROVE FALSE
    <3>1. PICK x \in S : WaitsFor(s, x)
      BY <2>1
    <3>2. req[s].op = "login" /\ req[s].pc \in {"insert", "flush"} /\ req[s].tok = NoToken
      BY <2>1, <2>2, <3>1 DEF LockOrder, WaitsFor
    <3>3. NoToken \notin Held(x)
      BY <2>1, NoneAreFresh DEF Held, SlotOK, TypeInv, TypeOK
    <3>4. x # s /\ req[x].wrote /\ req[x].user = req[s].user
      BY <3>1, <3>2, <3>3 DEF WaitsFor, UserBlocked
    <3> QED
      BY <2>1, <2>2, <3>4 DEF LockInv, OneWriter
  <2>3. ASSUME NEW s \in S, req[s].pc \in {"clear", "flush"} PROVE FALSE
    <3>1. PICK x \in S : WaitsFor(s, x)
      BY <2>1
    <3>2. req[s].op = "delete" /\ req[x].child # NoToken
      BY <2>2, <2>3, <3>1 DEF WaitsFor, UserBlocked
    <3>3. req[x].op \in Issues /\ req[x].pc \in {"flush", "commit"}
      BY <2>1, <3>2 DEF SlotOK, LockOrder
    <3>4. PICK y \in S : WaitsFor(x, y)
      BY <2>1
    <3> QED
      BY <2>2, <3>3, <3>4 DEF WaitsFor, UserBlocked, Issues
  <2>4. PICK s \in S : WaitsFor(s, r)
    BY DEF Deadlock
  <2>5. Held(r) # {} \/ req[r].child # NoToken
    BY <2>2, <2>4 DEF WaitsFor, UserBlocked
  <2>6. req[r].hits # {} \/ req[r].child # NoToken
    BY <2>5 DEF Held
  <2>7. req[r].pc \notin {"flush", "commit"}
    BY <2>1, <2>3 DEF WaitsFor
  <2> QED
    BY <2>1, <2>6, <2>7 DEF LockOrder
<1> QED
  BY <1>1, <1>2, NextLockInv, TypeInvariant, PTL DEF Spec

-----------------------------------------------------------------------------
\* What the documents promise is what the code does when requests do not overlap.
Serial == \A r, s \in Request : r = s

\* Without overlap no token is contested and no closing operation misses one.
NoRace ==
    /\ raced = {} /\ contested = {}
    /\ \A r \in Request : /\ ~req[r].late
                          /\ req[r].op \in Closes => req[r].known = issued

\* NoRace is inductive: what the only request read at its arrival is still so.
LEMMA NextNoRace ==
    ASSUME Serial, TypeInv, NoRace, [Next]_vars
    PROVE  NoRace'
<1>1. req \in [Request -> Slots] /\ \A r \in Request : req[r] \in Slots
  BY DEF TypeInv, TypeOK
<1>2. ASSUME NEW r \in Request, Arrive(r) PROVE NoRace'
  <2>1. PICK op \in AllOps, u \in User \cup {NoUser}, t \in Token \cup {NoToken} :
           Begin(r, op, u, t)
    BY <1>2, ArriveBegins DEF TypeInv
  <2>2. UNCHANGED <<issued, raced, contested>>
    BY <2>1, BeginSlot DEF rows, ghosts
  <2>3. ~req'[r].late /\ req'[r].op = op
        /\ req'[r].known = IF op \in Closes THEN issued ELSE {}
    BY <2>1, BeginSlot
  <2> QED
    BY <2>2, <2>3 DEF NoRace, Serial
<1>3. ASSUME NEW r \in Request, Commit(r) PROVE NoRace'
  <2>1. \A s \in Request : req'[s] = Free
    BY <1>3, CommitSlots DEF Serial
  <2>2. contested' = {}
    BY <1>3 DEF Commit, RecordHistory, NoRace, Serial
  <2>3. raced' = {}
    <3>1. req[r].op \in Closes =>
             {t \in issued \ (req[r].known \cup revoked \cup req[r].hits) :
                 owner[t] = req[r].user} = {}
      BY DEF NoRace
    <3> QED
      BY <1>3, <3>1 DEF Commit, RecordHistory, NoRace
  <2> QED
    BY <2>1, <2>2, <2>3 DEF NoRace, Free, Closes, ClosesAndWrites
<1>4. ASSUME NEW r \in Request, Sends(r) PROVE NoRace'
  <2>1. UNCHANGED <<issued, raced, contested>>
    BY <1>4, SendsSlot DEF rows, ghosts
  <2>2. req'[r] = Free \/ Keeps(r)
    BY <1>4, SendsKeeps
  <2> QED
    BY <2>1, <2>2 DEF NoRace, Serial, Keeps, Free, Closes, ClosesAndWrites
<1>5. ASSUME NEW t \in Token, Expire(t) PROVE NoRace'
  BY <1>5 DEF Expire, rows, ghosts, NoRace
<1>6. CASE UNCHANGED vars
  BY <1>6 DEF vars, rows, ghosts, NoRace
<1> QED
  BY <1>2, <1>3, <1>4, <1>5, <1>6 DEF Next, Statement, Sends

\* One request at a time, a family has one live token.
THEOREM SerialRotation ==
    ASSUME Serial
    PROVE  Spec => []LiveIsUnique
<1>1. Init => NoRace
  BY DEF Init, NoRace, Free, Closes, ClosesAndWrites
<1>2. TypeInv /\ NoRace /\ [Next]_vars => NoRace'
  BY NextNoRace
<1>3. NoRace /\ OneLivePerFamily => LiveIsUnique
  BY DEF NoRace, OneLivePerFamily, LiveIsUnique
<1> QED
  BY <1>1, <1>2, <1>3, OneLiveToken, TypeInvariant, PTL DEF Spec

\* One request at a time, a closing operation ends every session there was.
THEOREM SerialClosing ==
    ASSUME Serial
    PROVE  Spec => []ClosingEndsSessions
<1>1. Init => NoRace
  BY DEF Init, NoRace, Free, Closes, ClosesAndWrites
<1>2. TypeInv /\ NoRace /\ [Next]_vars => NoRace'
  BY NextNoRace
<1>3. NoRace /\ StaleOnlyIfRaced => ClosingEndsSessions
  BY DEF NoRace, StaleOnlyIfRaced, ClosingEndsSessions
<1> QED
  BY <1>1, <1>2, <1>3, SurvivorsAreRaces, TypeInvariant, PTL DEF Spec

-----------------------------------------------------------------------------
(* Sessions implements the ledger. *)

\* A request that issues a token revokes nothing, and has its row when it commits.
IssuingOK(r) ==
    req[r].op \in Issues =>
        /\ req[r].pc \notin {"select", "revoke"} /\ req[r].hits = {}
        /\ req[r].pc \in {"flush", "commit"} => req[r].child # NoToken

\* IssuingOK is inductive: Follow leads login and refresh past the INSERT.
LEMMA NextIssuingOK ==
    ASSUME TypeInv, \A r \in Request : IssuingOK(r), [Next]_vars, NEW s \in Request
    PROVE  IssuingOK(s)'
<1>1. req \in [Request -> Slots] /\ req[s] \in Slots /\ IssuingOK(s)
  BY DEF TypeInv, TypeOK
<1>2. CASE req'[s] = req[s]
  BY <1>1, <1>2 DEF IssuingOK
<1>3. CASE req'[s] = Free
  BY <1>3 DEF IssuingOK, Free, Issues
<1>4. ASSUME NEW r \in Request, Arrive(r) PROVE IssuingOK(s)'
  <2>1. PICK op \in AllOps, u \in User \cup {NoUser}, t \in Token \cup {NoToken} :
           Begin(r, op, u, t)
    BY <1>4, ArriveBegins DEF TypeInv
  <2>2. CASE s = r
    <3>1. req'[s].op = op /\ req'[s].hits = {} /\ req'[s].pc \in Starts(op)
      BY <2>1, <2>2, BeginSlot
    <3>2. op \in Issues => req'[s].pc \in {"account", "clear", "insert"}
      BY <3>1, StartsType
    <3> QED
      BY <3>1, <3>2 DEF IssuingOK
  <2>3. CASE s # r
    BY <1>2, <2>1, <2>3, BeginSlot
  <2> QED
    BY <2>2, <2>3
<1>5. ASSUME NEW r \in Request, Sends(r) PROVE IssuingOK(s)'
  <2>1. /\ \A x \in Request : x # r => req'[x] = req[x]
        /\ \/ req'[r] = Free
           \/ Keeps(r) /\ (Loaded(r) \/ Inserted(r) \/ Selected(r) \/ Updated(r) \/ Flushed(r))
    BY <1>5, SendsSlot
  <2>2. CASE s = r /\ Keeps(r) /\ (Loaded(r) \/ Inserted(r) \/ Flushed(r))
    BY <1>1, <2>2 DEF IssuingOK, Keeps, Loaded, Inserted, Flushed
  <2>3. CASE s = r /\ Keeps(r) /\ (Selected(r) \/ Updated(r))
    BY <1>1, <2>3 DEF IssuingOK, Keeps, Selected, Updated
  <2> QED
    BY <1>2, <1>3, <2>1, <2>2, <2>3
<1>6. ASSUME NEW r \in Request, Commit(r) PROVE IssuingOK(s)'
  BY <1>1, <1>3, <1>6, CommitSlots DEF IssuingOK
<1>7. ASSUME NEW t \in Token, Expire(t) PROVE IssuingOK(s)'
  BY <1>1, <1>7 DEF Expire, IssuingOK
<1>8. CASE UNCHANGED vars
  BY <1>1, <1>8 DEF vars, IssuingOK
<1> QED
  BY <1>4, <1>5, <1>6, <1>7, <1>8 DEF Next, Statement, Sends

\* A commit is one step of the loose ledger: Open for a login, Rotate for a
\* refresh, an ending of an account or a family, or the purge.
LEMMA CommitIsLoose ==
    ASSUME TypeInv, NEW r \in Request, IssuingOK(r), TargetsOK(r), Commit(r)
    PROVE  Loosely!Next
<1>1. SlotOK(r) /\ req[r] \in Slots /\ TypeOK
  BY DEF TypeInv, TypeOK
<1>2. /\ expired' = expired /\ revoked' = revoked \cup req[r].hits
      /\ PublishToken(r) /\ rotated' = RotatedAfter(r)
  BY CommitRows DEF Commit
<1>3. CASE req[r].op \in Issues
  <2>1. req[r].hits = {} /\ req[r].child # NoToken /\ req[r].child \in Token \ issued
        /\ req[r].user \in User
    BY <1>1, <1>3 DEF IssuingOK, SlotOK, Commit, Slots, Issues
  <2>2. /\ issued' = issued \cup {req[r].child}
        /\ owner'  = [owner EXCEPT ![req[r].child] = req[r].user]
        /\ family' = [family EXCEPT ![req[r].child] = FamilyOf(r)]
        /\ parent' = [parent EXCEPT ![req[r].child] = ParentOf(r)]
        /\ revoked' = revoked
    BY <1>2, <2>1 DEF PublishToken
  <2>3. CASE req[r].op = "refresh"
    <3>1. /\ req[r].tok \in issued /\ req[r].tok \in Token /\ owner[req[r].tok] = req[r].user
          /\ FamilyOf(r) = family[req[r].tok] /\ ParentOf(r) = req[r].tok
          /\ rotated' = rotated \cup {req[r].tok}
      BY <1>1, <1>2, <2>3 DEF SlotOK, TypeOK, FamilyOf, ParentOf, RotatedAfter
    <3>2. Loosely!Rotate(req[r].tok, req[r].child)
      BY <1>2, <2>1, <2>2, <3>1 DEF Loosely!Rotate, Loosely!Add
    <3> QED
      BY <2>1, <3>1, <3>2 DEF Loosely!Next
  <2>4. CASE req[r].op # "refresh"
    <3>1. FamilyOf(r) = req[r].child /\ ParentOf(r) = req[r].child /\ rotated' = rotated
      BY <1>2, <2>4 DEF FamilyOf, ParentOf, RotatedAfter
    <3>2. Loosely!Open(req[r].user, req[r].child)
      BY <1>2, <2>1, <2>2, <3>1 DEF Loosely!Open, Loosely!Add
    <3> QED
      BY <2>1, <3>2 DEF Loosely!Next
  <2> QED
    BY <2>3, <2>4
<1>4. CASE req[r].op \notin Issues
  <2>1. /\ req[r].child = NoToken /\ rotated' = rotated
        /\ UNCHANGED <<issued, owner, family, parent>>
        /\ req[r].hits \subseteq Scope(r) /\ req[r].hits \subseteq issued
    BY <1>1, <1>2, <1>4 DEF SlotOK, Scope, PublishToken, RotatedAfter, Issues
  <2>2. Loosely!Revoke(req[r].hits)
    BY <1>2, <2>1 DEF Loosely!Revoke, Loosely!links
  <2>3. CASE req[r].op \in RevokeFamily
    <3>1. /\ req[r].tok \in Token
          /\ req[r].hits \in SUBSET {t \in issued : family[t] = family[req[r].tok]}
      BY <1>1, <2>1, <2>3 DEF TargetsOK, TypeOK
    <3>2. Loosely!EndFamily(family[req[r].tok]) /\ family[req[r].tok] \in Token
      BY <1>1, <2>2, <3>1 DEF Loosely!EndFamily, Loosely!EndOf, TypeOK
    <3> QED
      BY <3>2 DEF Loosely!Next
  <2>4. CASE req[r].op = "purge"
    <3>1. req[r].hits \in SUBSET expired
      BY <2>1, <2>4 DEF TargetsOK
    <3> QED
      BY <2>2, <3>1 DEF Loosely!Next, Loosely!Purge
  <2>5. CASE req[r].op \notin RevokeFamily \cup {"purge"}
    <3>1. /\ req[r].user \in User
          /\ req[r].hits \in SUBSET {t \in issued : owner[t] = req[r].user}
      BY <1>1, <2>1, <2>5 DEF TargetsOK, SlotOK
    <3>2. Loosely!EndAccount(req[r].user)
      BY <2>2, <3>1 DEF Loosely!EndAccount, Loosely!EndOf
    <3> QED
      BY <3>1, <3>2 DEF Loosely!Next
  <2> QED
    BY <2>3, <2>4, <2>5
<1> QED
  BY <1>3, <1>4

\* However requests overlap, the session code implements the loose ledger.
THEOREM ImplementsLedger == Spec => OverlapLedger
<1> DEFINE StepInv == \A r \in Request : IssuingOK(r) /\ TargetsOK(r)
<1>1. Init => StepInv
  BY DEF Init, IssuingOK, TargetsOK, Scope, Free, RevokeFamily, Issues
<1>2. TypeInv /\ StepInv /\ [Next]_vars => StepInv'
  BY NextIssuingOK, NextTargetsOK
<1>3. Init => Loosely!Init
  BY DEF Init, Loosely!Init
<1>4. TypeInv /\ StepInv /\ [Next]_vars => [Loosely!Next]_Loosely!ledger
  <2> SUFFICES ASSUME TypeInv, StepInv, [Next]_vars
               PROVE  Loosely!Next \/ UNCHANGED Loosely!ledger
    OBVIOUS
  <2>1. ASSUME NEW r \in Request, Commit(r) PROVE Loosely!Next
    BY <2>1, CommitIsLoose
  <2>2. ASSUME NEW t \in Token, Expire(t) PROVE Loosely!Next
    <3>1. Loosely!Expire(t)
      BY <2>2 DEF Expire, rows, Loosely!Expire, Loosely!links
    <3> QED
      BY <3>1 DEF Loosely!Next
  <2>3. CASE UNCHANGED <<rows, expired, users, ghosts>>
    BY <2>3 DEF rows, Loosely!ledger, Loosely!links
  <2> QED
    BY <2>1, <2>2, <2>3, QuietSteps
<1> QED
  BY <1>1, <1>2, <1>3, <1>4, TypeInvariant, PTL DEF Spec, OverlapLedger, Loosely!Spec

-----------------------------------------------------------------------------
(* One request at a time, the ledger it implements is the strict one. *)

\* What a request read is still so when it goes on: the token it exchanges is
\* live, and the rows its bulk UPDATE saw, and those it hit, are all there are.
UpToDate(r) ==
    /\ req[r].op = "refresh" => req[r].tok \notin rotated \cup revoked
    /\ req[r].op \in Closes \cup RevokeFamily =>
          /\ req[r].pc = "revoke" => Scope(r) = Targets(r)
          /\ req[r].pc \in {"flush", "commit"} => req[r].hits = Targets(r)
    /\ req[r].op = "reactivate" => req[r].pc \notin {"select", "revoke"} /\ req[r].hits = {}

\* The statements of a closing operation, in their order.
LEMMA ClosingOrder ==
    ASSUME NEW op \in Closes \cup RevokeFamily
    PROVE  /\ Follow(op, "idle") = "select" /\ Follow(op, "select") = "revoke"
           /\ Follow(op, "revoke") \in {"flush", "commit"} /\ Follow(op, "flush") = "commit"
           /\ op \notin {"refresh", "reactivate", "purge"}
  BY DEF Follow, Closes, ClosesAndWrites, RevokeFamily, WritesUser, Issues

\* UpToDate is inductive when nobody else writes.
LEMMA NextUpToDate ==
    ASSUME Serial, TypeInv, [Next]_vars, NEW r \in Request, UpToDate(r)
    PROVE  UpToDate(r)'
<1> USE DEF UpToDate
<1>1. /\ req \in [Request -> Slots] /\ req[r] \in Slots /\ SlotOK(r)
      /\ \A s \in Request : s = r
  BY DEF TypeInv, TypeOK, Serial
<1>2. ASSUME req'[r].op = req[r].op, req'[r].user = req[r].user, req'[r].tok = req[r].tok,
             UNCHANGED rows
      PROVE  /\ req'[r].op = "refresh" => req'[r].tok \notin rotated' \cup revoked'
             /\ req[r].op \in Closes \cup RevokeFamily => Targets(r)' = Targets(r)
  <2>1. ASSUME req[r].op \in Closes \cup RevokeFamily PROVE req[r].op # "purge"
    BY <2>1 DEF Closes, ClosesAndWrites, RevokeFamily
  <2>2. ASSUME req[r].op # "purge", NEW t \in issued
        PROVE  Matches(req[r].op, req[r].user, req[r].tok, t)'
                  = Matches(req[r].op, req[r].user, req[r].tok, t)
    BY <1>2, <2>2 DEF Matches, rows
  <2> QED
    BY <1>2, <2>1, <2>2 DEF Targets, rows
<1>3. ASSUME req'[r] = Free PROVE UpToDate(r)'
  BY <1>3 DEF Free, Closes, ClosesAndWrites, RevokeFamily
<1>4. CASE Arrive(r)
  <2>1. PICK op \in AllOps, u \in User \cup {NoUser}, t \in Token \cup {NoToken} :
           Begin(r, op, u, t) /\ (op = "refresh" => t \in issued \ (rotated \cup revoked))
    BY <1>4, ArriveBegins DEF TypeInv
  <2>2. req'[r].op = op /\ req'[r].tok = t /\ req'[r].pc \in Starts(op)
        /\ req'[r].hits = {} /\ rotated' = rotated /\ revoked' = revoked
    BY <2>1, BeginSlot DEF rows
  <2>3. op \in Closes \cup RevokeFamily => req'[r].pc = "select"
    <3>1. op \in Closes \cup RevokeFamily => op # "login"
      BY DEF Closes, ClosesAndWrites, RevokeFamily
    <3> QED
      BY <2>2, <3>1, ClosingOrder, StartsType
  <2>4. op = "reactivate" => req'[r].pc = "flush"
    BY <2>2, StartsType DEF Follow
  <2> QED
    BY <2>1, <2>2, <2>3, <2>4
<1>5. CASE Commit(r)
  BY <1>3, <1>5, CommitSlots
<1>6. CASE Sends(r)
  <2>1. /\ UNCHANGED rows
        /\ \/ req'[r] = Free
           \/ Keeps(r) /\ (Loaded(r) \/ Inserted(r) \/ Selected(r) \/ Updated(r) \/ Flushed(r))
    BY <1>6, SendsSlot
  <2>2. CASE Keeps(r) /\ (Loaded(r) \/ Inserted(r))
    <3>1. req[r].op \notin Closes \cup RevokeFamily /\ req[r].op # "reactivate"
      BY <1>1, <2>2 DEF SlotOK, Loaded, Inserted, Issues, Closes, ClosesAndWrites,
                        RevokeFamily
    <3> QED
      BY <1>2, <2>1, <2>2, <3>1 DEF Keeps
  <2>3. CASE Keeps(r) /\ Selected(r)
    <3>1. Scope(r)' = Targets(r)
      BY <1>1, <2>3 DEF Scope, Selected, SlotOK
    <3> QED
      BY <1>2, <2>1, <2>3, <3>1 DEF Keeps, Selected
  <2>4. CASE Keeps(r) /\ Updated(r)
    <3>1. req[r].op \in Closes \cup RevokeFamily => Scope(r)' = Targets(r)
      BY <2>4 DEF Scope, Targets, Updated
    <3>2. req[r].op \in Closes \cup RevokeFamily /\ req'[r].pc # "revoke" => req'[r].hits = Targets(r)
      BY <2>4, <3>1 DEF Scope, Updated
    <3> QED
      BY <1>2, <2>1, <2>4, <3>1, <3>2 DEF Keeps, Updated
  <2>5. CASE Keeps(r) /\ Flushed(r)
    <3>1. req[r].pc = "clear" => req[r].op \notin Closes \cup RevokeFamily
                                 /\ req[r].op # "reactivate"
      BY <1>1 DEF SlotOK, Issues, Closes, ClosesAndWrites, RevokeFamily
    <3> QED
      BY <1>2, <2>1, <2>5, <3>1 DEF Keeps, Flushed
  <2> QED
    BY <1>3, <2>1, <2>2, <2>3, <2>4, <2>5
<1>7. CASE UNCHANGED <<rows, req>>
  BY <1>2, <1>7 DEF Scope
<1> QED
  BY <1>1, <1>4, <1>5, <1>6, <1>7 DEF Next, Statement, Sends, Expire, vars

\* A commit is one step of the strict ledger.
LEMMA CommitIsStrict ==
    ASSUME TypeInv, NEW r \in Request, IssuingOK(r), TargetsOK(r), UpToDate(r), Commit(r)
    PROVE  Strictly!Next
<1>1. SlotOK(r) /\ req[r] \in Slots /\ TypeOK /\ req[r].pc = "commit"
  BY DEF TypeInv, TypeOK, Commit
<1>2. /\ expired' = expired /\ revoked' = revoked \cup req[r].hits
      /\ PublishToken(r) /\ rotated' = RotatedAfter(r)
  BY CommitRows DEF Commit
<1>3. CASE req[r].op \in Issues
  <2>1. req[r].hits = {} /\ req[r].child # NoToken /\ req[r].child \in Token \ issued
        /\ req[r].user \in User
    BY <1>1, <1>3 DEF IssuingOK, SlotOK, Slots, Issues
  <2>2. /\ issued' = issued \cup {req[r].child}
        /\ owner'  = [owner EXCEPT ![req[r].child] = req[r].user]
        /\ family' = [family EXCEPT ![req[r].child] = FamilyOf(r)]
        /\ parent' = [parent EXCEPT ![req[r].child] = ParentOf(r)]
        /\ revoked' = revoked
    BY <1>2, <2>1 DEF PublishToken
  <2>3. CASE req[r].op = "refresh"
    <3>1. /\ req[r].tok \in issued \ (rotated \cup revoked) /\ req[r].tok \in Token
          /\ owner[req[r].tok] = req[r].user
          /\ FamilyOf(r) = family[req[r].tok] /\ ParentOf(r) = req[r].tok
          /\ rotated' = rotated \cup {req[r].tok}
      BY <1>1, <1>2, <2>3 DEF SlotOK, TypeOK, FamilyOf, ParentOf, RotatedAfter, UpToDate
    <3>2. Strictly!Rotate(req[r].tok, req[r].child)
      BY <1>2, <2>1, <2>2, <3>1 DEF Strictly!Rotate, Strictly!Add
    <3> QED
      BY <2>1, <3>1, <3>2 DEF Strictly!Next
  <2>4. CASE req[r].op # "refresh"
    <3>1. FamilyOf(r) = req[r].child /\ ParentOf(r) = req[r].child /\ rotated' = rotated
      BY <1>2, <2>4 DEF FamilyOf, ParentOf, RotatedAfter
    <3>2. Strictly!Open(req[r].user, req[r].child)
      BY <1>2, <2>1, <2>2, <3>1 DEF Strictly!Open, Strictly!Add
    <3> QED
      BY <2>1, <3>2 DEF Strictly!Next
  <2> QED
    BY <2>3, <2>4
<1>4. CASE req[r].op \notin Issues
  <2>1. /\ req[r].child = NoToken /\ rotated' = rotated
        /\ UNCHANGED <<issued, owner, family, parent, expired>>
        /\ req[r].hits \subseteq Scope(r) /\ req[r].hits \subseteq issued
    BY <1>1, <1>2, <1>4 DEF SlotOK, Scope, PublishToken, RotatedAfter, Issues
  <2>2. ASSUME NEW S, revoked' = revoked \cup S PROVE Strictly!Revoke(S)
    BY <1>2, <2>1, <2>2 DEF Strictly!Revoke, Strictly!links
  <2>3. CASE req[r].op \in RevokeFamily
    <3> DEFINE f == family[req[r].tok]
               S == {t \in issued : family[t] = f}
    <3>1. f \in Token
      BY <1>1, <2>3 DEF TargetsOK, TypeOK
    <3>2. req[r].hits = Targets(r)
      BY <1>1, <2>3 DEF UpToDate
    <3>3. \A t \in issued : Matches(req[r].op, req[r].user, req[r].tok, t) <=> family[t] = f
      <4>1. req[r].op # "purge"
        BY <2>3 DEF RevokeFamily
      <4> QED
        BY <2>3, <4>1 DEF Matches
    <3>4. Strictly!Revoke(S)
      BY <1>2, <2>2, <3>2, <3>3 DEF Targets
    <3>5. Strictly!EndFamily(f)
      BY <3>4 DEF Strictly!EndFamily, Strictly!EndOf
    <3> QED
      BY <3>1, <3>5 DEF Strictly!Next
  <2>4. CASE req[r].op = "purge"
    <3>1. req[r].hits \in SUBSET expired
      BY <2>1, <2>4 DEF TargetsOK
    <3> QED
      BY <1>2, <2>2, <3>1 DEF Strictly!Next, Strictly!Purge
  <2>5. CASE req[r].op \in Closes
    <3> DEFINE S == {t \in issued : owner[t] = req[r].user}
    <3>1. req[r].user \in User /\ req[r].op \notin RevokeFamily \cup {"purge"}
      BY <1>1, <2>5 DEF SlotOK, Closes, ClosesAndWrites, RevokeFamily
    <3>2. req[r].hits = Targets(r)
      BY <1>1, <2>5 DEF UpToDate
    <3>3. \A t \in issued : Matches(req[r].op, req[r].user, req[r].tok, t)
                               <=> owner[t] = req[r].user
      BY <3>1 DEF Matches
    <3>4. Strictly!Revoke(S)
      BY <1>2, <2>2, <3>2, <3>3 DEF Targets
    <3>5. Strictly!EndAccount(req[r].user)
      BY <3>4 DEF Strictly!EndAccount, Strictly!EndOf
    <3> QED
      BY <3>1, <3>5 DEF Strictly!Next
  <2>6. CASE req[r].op = "reactivate"
    <3>1. Strictly!Revoke({})
      BY <1>2, <2>2, <2>6 DEF UpToDate
    <3> QED
      BY <3>1 DEF Strictly!Next, Strictly!Purge
  <2> QED
    BY <1>1, <1>4, <2>3, <2>4, <2>5, <2>6 DEF Slots, AllOps
<1> QED
  BY <1>3, <1>4

\* One request at a time, the session code implements the strict ledger: a token is
\* exchanged once and while it is live, and an ending misses no session there is.
THEOREM SerialRequestsImplementLedger ==
    ASSUME Serial
    PROVE  Spec => SerialLedger
<1> DEFINE StepInv == \A r \in Request : IssuingOK(r) /\ TargetsOK(r) /\ UpToDate(r)
<1>1. Init => StepInv
  BY DEF Init, IssuingOK, TargetsOK, Scope, UpToDate, Free, RevokeFamily, Issues, Closes,
         ClosesAndWrites
<1>2. TypeInv /\ StepInv /\ [Next]_vars => StepInv'
  BY NextIssuingOK, NextTargetsOK, NextUpToDate
<1>3. Init => Strictly!Init
  BY DEF Init, Strictly!Init
<1>4. TypeInv /\ StepInv /\ [Next]_vars => [Strictly!Next]_Strictly!ledger
  <2> SUFFICES ASSUME TypeInv, StepInv, [Next]_vars
               PROVE  Strictly!Next \/ UNCHANGED Strictly!ledger
    OBVIOUS
  <2>1. ASSUME NEW r \in Request, Commit(r) PROVE Strictly!Next
    BY <2>1, CommitIsStrict
  <2>2. ASSUME NEW t \in Token, Expire(t) PROVE Strictly!Next
    <3>1. Strictly!Expire(t)
      BY <2>2 DEF Expire, rows, Strictly!Expire, Strictly!links
    <3> QED
      BY <3>1 DEF Strictly!Next
  <2>3. CASE UNCHANGED <<rows, expired, users, ghosts>>
    BY <2>3 DEF rows, Strictly!ledger, Strictly!links
  <2> QED
    BY <2>1, <2>2, <2>3, QuietSteps
<1> QED
  BY <1>1, <1>2, <1>3, <1>4, TypeInvariant, PTL DEF Spec, SerialLedger, Strictly!Spec

-----------------------------------------------------------------------------
\* An operation that ends sessions is to revoke t: t is one its UPDATE will match,
\* is ahead of it, or is among the rows it locked; if another request revoked
\* t in between, that has been done.
Reaches(r, t) ==
    /\ t \in issued /\ req[r].op \in Closes \cup RevokeFamily
    /\ req[r].pc \in {"select", "revoke", "flush", "commit"}
    /\ req[r].pc = "select" => Matches(req[r].op, req[r].user, req[r].tok, t)
    /\ req[r].pc = "revoke" => t \in Scope(r) \cup revoked
    /\ req[r].pc \in {"flush", "commit"} => t \in req[r].hits \cup revoked

\* A slot that did not move, while stamps and owners stayed, still reaches t.
LEMMA StillReaches ==
    ASSUME NEW r \in Request, NEW t, Reaches(r, t), TargetsOK(r), SlotOK(r),
           req'[r].pc = req[r].pc, req'[r].op = req[r].op, req'[r].user = req[r].user,
           req'[r].tok = req[r].tok, req'[r].ahead = req[r].ahead, req'[r].hits = req[r].hits,
           issued \subseteq issued', revoked \subseteq revoked',
           \A s \in issued : owner'[s] = owner[s] /\ family'[s] = family[s]
    PROVE  Reaches(r, t)'
<1>1. Matches(req[r].op, req[r].user, req[r].tok, t)
         => Matches(req[r].op, req[r].user, req[r].tok, t)'
  BY DEF Matches, Reaches, TargetsOK, SlotOK, Closes, ClosesAndWrites, RevokeFamily
<1> QED
  BY <1>1 DEF Reaches, Matches, Scope

\* The request's own statements pass t on, from the WHERE clause to the snapshot
\* and from there to the rows it holds.
LEMMA SendsReaches ==
    ASSUME TypeInv, NEW r \in Request, NEW t, Reaches(r, t), Sends(r), ~Abort(r), ~Victim(r)
    PROVE  Reaches(r, t)'
<1>1. /\ UNCHANGED <<issued, revoked>>
      /\ \/ req'[r] = Free /\ LoadAccount(r)
         \/ Keeps(r) /\ (Loaded(r) \/ Inserted(r) \/ Selected(r) \/ Updated(r) \/ Flushed(r))
  BY SendsSlot DEF rows
<1>2. CASE Keeps(r) /\ Selected(r)
  BY <1>1, <1>2 DEF Reaches, Scope, Targets, Keeps, Selected
<1>3. CASE Keeps(r) /\ Updated(r)
  <2>1. req[r].pc = "revoke" /\ Past(r) \in {"flush", "commit"}
    BY <1>3 DEF Updated, Past, Follow
  <2> QED
    BY <1>1, <1>3, <2>1 DEF Reaches, Scope, Keeps, Updated
<1>4. CASE Keeps(r) /\ Flushed(r)
  BY <1>1, <1>4 DEF Reaches, Keeps, Flushed
<1> QED
  BY <1>1, <1>2, <1>3, <1>4 DEF Reaches, LoadAccount, Loaded, Inserted

\* repository.py 95-109, service.py 255-271: a token that an ending operation was
\* to revoke when its UPDATE began is revoked when it commits, however the requests
\* overlap; only the end of its transaction without a COMMIT lets it escape.  Of
\* ReuseEndsFamily this is all but that the request comes to its end.
THEOREM EndingsMissNothingSeen ==
    Spec => [][\A r \in Request, t \in Token : Reaches(r, t) =>
                  Reaches(r, t)' \/ (Commit(r) /\ t \in revoked') \/ Abort(r) \/ Victim(r)]_vars
<1> DEFINE TargetsInv == \A r \in Request : TargetsOK(r)
<1>1. Init => TargetsInv
  BY DEF Init, TargetsOK, Scope, Free, RevokeFamily
<1>2. TypeInv /\ TargetsInv /\ [Next]_vars => TargetsInv'
  BY NextTargetsOK
<1>3. TypeInv /\ TargetsInv /\ [Next]_vars =>
         [\A r \in Request, t \in Token : Reaches(r, t) =>
             Reaches(r, t)' \/ (Commit(r) /\ t \in revoked') \/ Abort(r) \/ Victim(r)]_vars
  <2> SUFFICES ASSUME TypeInv, TargetsInv, [Next]_vars,
                      NEW r \in Request, NEW t \in Token, Reaches(r, t), ~Abort(r), ~Victim(r)
               PROVE  Reaches(r, t)' \/ (Commit(r) /\ t \in revoked')
    OBVIOUS
  <2>1. req \in [Request -> Slots] /\ SlotOK(r) /\ TargetsOK(r)
    BY DEF TypeInv, TypeOK
  <2>2. CASE Commit(r)
    BY <2>2, CommitRows DEF Reaches, Commit
  <2>3. CASE Sends(r)
    BY <2>3, SendsReaches
  <2>4. ASSUME NEW s \in Request, s # r, Commit(s) PROVE Reaches(r, t)'
    <3>1. /\ req'[r].pc = req[r].pc /\ req'[r].op = req[r].op
          /\ req'[r].user = req[r].user /\ req'[r].tok = req[r].tok
          /\ req'[r].ahead = req[r].ahead /\ req'[r].hits = req[r].hits
      BY <2>4, CommitSlots
    <3>2. /\ issued \subseteq issued' /\ revoked \subseteq revoked'
          /\ \A x \in issued : owner'[x] = owner[x] /\ family'[x] = family[x]
      BY <2>4, CommitRows
    <3> QED
      BY <2>1, <3>1, <3>2, StillReaches
  <2>5. CASE req'[r] = req[r] /\ UNCHANGED rows
    BY <2>1, <2>5, StillReaches DEF rows
  <2>6. ASSUME NEW s \in Request, Arrive(s) PROVE req'[r] = req[r] /\ UNCHANGED rows
    <3>1. PICK op \in AllOps, u \in User \cup {NoUser}, x \in Token \cup {NoToken} :
             Begin(s, op, u, x)
      BY <2>6, ArriveBegins DEF TypeInv
    <3>2. s # r
      BY <3>1 DEF Begin, Busy, Reaches
    <3> QED
      BY <3>1, <3>2, BeginSlot
  <2>7. ASSUME NEW s \in Request, s # r, Sends(s)
        PROVE  req'[r] = req[r] /\ UNCHANGED rows
    BY <2>7, SendsSlot
  <2>8. ASSUME (\E x \in Token : Expire(x)) \/ UNCHANGED vars
        PROVE  req'[r] = req[r] /\ UNCHANGED rows
    BY <2>8 DEF Expire, vars
  <2> QED
    BY <2>2, <2>3, <2>4, <2>5, <2>6, <2>7, <2>8 DEF Next, Statement, Sends
<1> QED
  BY <1>1, <1>2, <1>3, TypeInvariant, PTL DEF Spec

-----------------------------------------------------------------------------
\* What the strict ledger amounts to is then true of the session code.
Serially == INSTANCE LedgerProofs WITH Strict <- TRUE

\* service.py 255-273, 294-310: one request at a time, a family that has no
\* live token left, by logout, by a detected reuse or by a closing operation, never
\* has one again: no late rotation brings a session back.
THEOREM EndedFamiliesStayEnded ==
    ASSUME Serial
    PROVE  Spec => [][\A f \in Token : Serially!Ended(f) => Serially!Ended(f)']_(Serially!ledger)
<1>1. Spec => SerialLedger
  BY SerialRequestsImplementLedger
<1>2. SerialLedger => Serially!Spec
  <2>1. Strictly!Init => Serially!Init
    BY DEF Strictly!Init, Serially!Init
  <2>2. [Strictly!Next]_(Strictly!ledger) => [Serially!Next]_(Serially!ledger)
    BY DEF Strictly!Next, Strictly!EndAccount, Strictly!EndFamily, Strictly!EndOf,
           Strictly!Open, Strictly!Rotate, Strictly!Add, Strictly!Expire, Strictly!Purge,
           Strictly!Revoke, Strictly!ledger, Strictly!links,
           Serially!Next, Serially!EndAccount, Serially!EndFamily, Serially!EndOf,
           Serially!Open, Serially!Rotate, Serially!Add, Serially!Expire, Serially!Purge,
           Serially!Revoke, Serially!ledger, Serially!links
  <2> QED
    BY <2>1, <2>2, PTL DEF SerialLedger, Strictly!Spec, Serially!Spec
<1>3. Serially!Spec => [][\A f \in Token : Serially!Ended(f) => Serially!Ended(f)']_(Serially!ledger)
  BY Serially!LedgerEndings
<1> QED
  BY <1>1, <1>2, <1>3
=============================================================================
