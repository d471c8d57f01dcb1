---------------------------- MODULE SignInProofs ----------------------------
(***************************************************************************)
(* Proofs about SignIn, for any number of overlapping requests, passwords, *)
(* secrets and links and any limit of attempts, without the bound on       *)
(* requests.                                                               *)
(*                                                                         *)
(* Computed says what a request is about to write, in terms of the row it  *)
(* has loaded; it survives whatever the other requests commit meanwhile.   *)
(***************************************************************************)
EXTENDS SignIn, TLAPS

\* What the operations may write, and over which loaded row.
Computed(q) ==
    /\ q.op = "wrong" => \/ Locked(q.new)
                         \/ "failures" \in q.writes /\ q.new.failures = q.old.failures + 1
    /\ "failures" \in q.writes => q.op \in Clearing \cup {"wrong", "panel"}
    /\ "locked" \in q.writes /\ q.new.locked = "no" =>
          q.op \in {"reset", "cli", "panel"} \/ (q.op \in Clearing /\ q.old.locked = "lapsed")
    /\ "hash" \in q.writes /\ q.op \notin Choosing =>
          q.op \in {"login", "challenge"} /\ q.old.hash.weak /\ q.new.hash.pwd = q.old.hash.pwd
    /\ q.op \in Choosing => "hash" \in q.writes
    /\ "enabled" \in q.writes /\ q.new.enabled => q.op \in {"confirm", "enrol", "panel"}
    /\ "secret" \in q.writes /\ q.new.secret # NoSecret => q.op \in {"setup", "enrol"}
    /\ q.op = "confirm" => q.old.secret # NoSecret /\ "secret" \notin q.writes
    /\ q.op = "enrol" => q.new.secret # NoSecret /\ "secret" \in q.writes
    /\ q.op = "setup" /\ q.old.enabled => "enabled" \in q.writes /\ ~q.new.enabled

SlotOK(r) ==
    /\ req[r].pc = "account" => req[r].op = "reset"
    /\ req[r].pc \in {"sweep", "commit"} =>
          Computed(req[r]) /\ {req[r].old.secret, req[r].new.secret} \subseteq drawn \cup {NoSecret}
    /\ req[r].swept \subseteq links
    /\ req[r].op = "reset" => /\ req[r].link \in links
                              /\ req[r].link \in spent => req[r].link \in shared
    /\ req[r].op = "forgot" /\ req[r].pc = "commit" /\ ~req[r].late =>
          links \ used \subseteq req[r].swept

\* The count keeps up with the guesses until a stale one replaces it.
CountKeepsUp == lost \/ guesses <= row.failures

RowOK == row.secret \in drawn \cup {NoSecret} /\ spent \subseteq used

SlotInv == TypeOK /\ RowOK /\ \A r \in Request : SlotOK(r)

-----------------------------------------------------------------------------
\* The first row and free slots are sound.
LEMMA InitSlotInv == Init => SlotInv
<1> SUFFICES ASSUME Init PROVE SlotInv
  OBVIOUS
<1> USE DEF Init
<1>1. Blank \in Rows
  BY MaxFailedIsPositive DEF Blank, Rows
<1>2. Free \in Slots
  BY <1>1 DEF Free, Slots, AllOps
<1>3. guesses \in 0 .. MaxFailed
  BY MaxFailedIsPositive DEF Rows
<1>4. drawn \subseteq Secret /\ verified \subseteq drawn /\ links \subseteq Link
      /\ chosen \in Password \cup {NoPassword} /\ temporary \in BOOLEAN
  BY DEF Rows
<1>5. TypeOK
  BY <1>2, <1>3, <1>4 DEF TypeOK
<1>6. RowOK
  BY DEF RowOK, Rows
<1>7. \A r \in Request : SlotOK(r)
  BY DEF SlotOK, Free
<1> QED
  BY <1>5, <1>6, <1>7 DEF SlotInv

\* A step that changes one slot only, and may draw a secret, keeps SlotInv.
LEMMA SlotStep ==
    ASSUME SlotInv, NEW r \in Request, NEW q \in Slots, req' = [req EXCEPT ![r] = q],
           UNCHANGED <<row, tokens, challenge, torn, verified, chosen, temporary, undone,
                       guesses, lost, spent, respent, shared, doubled>>,
           drawn \subseteq drawn', drawn' \subseteq Secret, served' \in Nat,
           q.pc = "account" => q.op = "reset",
           q.pc \in {"sweep", "commit"} =>
               Computed(q) /\ {q.old.secret, q.new.secret} \subseteq drawn' \cup {NoSecret},
           q.swept \subseteq links,
           q.op = "reset" => q.link \in links /\ (q.link \in spent => q.link \in shared),
           q.op = "forgot" /\ q.pc = "commit" /\ ~q.late => links \ used \subseteq q.swept
    PROVE  SlotInv'
<1> USE DEF SlotInv, tokens
<1>1. req' \in [Request -> Slots] /\ req'[r] = q
      /\ \A s \in Request : s # r => req'[s] = req[s]
  BY DEF TypeOK
<1>2. TypeOK'
  BY <1>1 DEF TypeOK
<1>3. RowOK'
  BY DEF RowOK
<1>4. SlotOK(r)'
  BY <1>1 DEF SlotOK
<1>5. ASSUME NEW s \in Request, s # r
      PROVE  SlotOK(s)'
  BY <1>1, <1>5 DEF SlotOK, Computed
<1> QED
  BY <1>2, <1>3, <1>4, <1>5

\* The slot Compute makes.
Slot(op, link, u, fresh) ==
    [Free EXCEPT !.pc = IF op = "forgot" THEN "sweep" ELSE "commit",
                 !.op = op, !.link = link, !.old = row, !.new = u,
                 !.writes = Writes(u, fresh)]

\* Loading the row and computing on it gives a sound slot when the row computed
\* is one, its secret was drawn, and it relates to the old row as the method says.
LEMMA ComputeStep ==
    ASSUME SlotInv, NEW r \in Request, NEW op \in AllOps, NEW link \in Link \cup {NoLink},
           NEW u \in Rows, NEW fresh \in SUBSET Columns,
           Compute(r, op, link, u, fresh), served' \in Nat,
           drawn \subseteq drawn', drawn' \subseteq Secret,
           u.secret \in drawn' \cup {NoSecret},
           op = "reset" => link \in links /\ (link \in spent => link \in shared),
           Computed(Slot(op, link, u, fresh))
    PROVE  SlotInv'
<1> DEFINE q == Slot(op, link, u, fresh)
<1>1. req' = [req EXCEPT ![r] = q]
      /\ UNCHANGED <<row, tokens, challenge, torn, verified, chosen, temporary, undone,
                     guesses, lost, spent, respent, shared, doubled>>
  BY DEF Compute, Slot
<1>2. row \in Rows /\ row.secret \in drawn \cup {NoSecret}
  BY DEF SlotInv, TypeOK, RowOK
<1>3. Writes(u, fresh) \in SUBSET Columns
  BY DEF Writes
<1>4. q \in Slots
  BY <1>2, <1>3 DEF Slot, Free, Slots
<1>5. /\ q.op = op /\ q.link = link /\ q.old = row /\ q.new = u /\ q.swept = {}
      /\ q.pc \in {"sweep", "commit"} /\ (op = "forgot" => q.pc = "sweep")
  BY DEF Slot, Free
<1> HIDE DEF q
<1>6. Computed(q)
  BY DEF q
<1> QED
  BY <1>1, <1>2, <1>4, <1>5, <1>6, SlotStep

-----------------------------------------------------------------------------
(* What each operation computes is sound. *)

\* The columns flushed are those that changed, and those forced by the program.
LEMMA WritesDiffer ==
    ASSUME NEW u, NEW fresh, NEW c \in Columns
    PROVE  c \in Writes(u, fresh) <=> u[c] # row[c] \/ c \in fresh
  BY DEF Writes

\* The same, column by column.
LEMMA RowColumns ==
    ASSUME row \in Rows, NEW u \in Rows, NEW fresh
    PROVE  /\ "hash" \in Writes(u, fresh) <=> u.hash # row.hash \/ "hash" \in fresh
           /\ "failures" \in Writes(u, fresh) <=> u.failures # row.failures \/ "failures" \in fresh
           /\ "locked" \in Writes(u, fresh) <=> u.locked # row.locked \/ "locked" \in fresh
           /\ "secret" \in Writes(u, fresh) <=> u.secret # row.secret \/ "secret" \in fresh
           /\ "enabled" \in Writes(u, fresh) <=> u.enabled # row.enabled \/ "enabled" \in fresh
  BY WritesDiffer DEF Rows, Columns

\* The rows the operations compute, column by column.
LEMMA FailedRow ==
    ASSUME row \in Rows
    PROVE  /\ Failed(row) \in Rows
           /\ Failed(row).hash = row.hash /\ Failed(row).secret = row.secret
           /\ Failed(row).enabled = row.enabled
           /\ \/ Locked(Failed(row))
              \/ Failed(row).failures = row.failures + 1 /\ Failed(row).locked = row.locked
<1>1. row.failures \in 0 .. (MaxFailed - 1) /\ 0 \in 0 .. (MaxFailed - 1)
  BY MaxFailedIsPositive DEF Rows
<1>2. CASE row.failures + 1 >= MaxFailed
  BY <1>1, <1>2 DEF Failed, Rows, Locked
<1>3. CASE ~(row.failures + 1 >= MaxFailed)
  <2>1. row.failures + 1 \in 0 .. (MaxFailed - 1)
    BY <1>1, <1>3, MaxFailedIsPositive
  <2> QED
    BY <1>3, <2>1 DEF Failed, Rows, Locked
<1> QED
  BY <1>2, <1>3

\* _clear_failures sets the two columns of the lock and no other.
LEMMA ClearedRow ==
    ASSUME NEW u \in Rows
    PROVE  /\ Cleared(u) \in Rows
           /\ Cleared(u).hash = u.hash /\ Cleared(u).secret = u.secret
           /\ Cleared(u).enabled = u.enabled /\ Cleared(u).must = u.must
           /\ Cleared(u).failures = 0 /\ Cleared(u).locked = "no"
<1>1. 0 \in 0 .. (MaxFailed - 1)
  BY MaxFailedIsPositive
<1> QED
  BY <1>1 DEF Cleared, Rows

\* Setting a password replaces the hash only.
LEMMA NewHashRow ==
    ASSUME NEW u \in Rows, NEW p \in Password \cup {NoPassword}
    PROVE  /\ NewHash(u, p) \in Rows
           /\ NewHash(u, p).hash = [pwd |-> p, weak |-> FALSE]
           /\ NewHash(u, p).secret = u.secret /\ NewHash(u, p).enabled = u.enabled
           /\ NewHash(u, p).failures = u.failures /\ NewHash(u, p).locked = u.locked
  BY DEF NewHash, Rows

\* A rehash keeps the password and only touches an outdated hash.
LEMMA RehashedRow ==
    ASSUME NEW u \in Rows
    PROVE  /\ Rehashed(u) \in Rows
           /\ Rehashed(u).hash.pwd = u.hash.pwd
           /\ Rehashed(u).hash # u.hash => u.hash.weak
           /\ Rehashed(u).secret = u.secret /\ Rehashed(u).enabled = u.enabled
           /\ Rehashed(u).failures = u.failures /\ Rehashed(u).locked = u.locked
<1>1. u.hash.pwd \in Password \cup {NoPassword}
  BY DEF Rows
<1>2. CASE u.hash.weak
  <2>1. PICK p \in Password \cup {NoPassword} : p = u.hash.pwd
    BY <1>1
  <2>2. Rehashed(u) = NewHash(u, p)
    BY <1>2, <2>1 DEF Rehashed
  <2> DEFINE v == NewHash(u, p)
  <2>3. /\ v \in Rows /\ v.hash = [pwd |-> p, weak |-> FALSE]
        /\ v.secret = u.secret /\ v.enabled = u.enabled
        /\ v.failures = u.failures /\ v.locked = u.locked
    BY NewHashRow
  <2>4. v.hash.pwd = u.hash.pwd
    BY <2>1, <2>3
  <2> HIDE DEF v
  <2> QED
    BY <1>2, <2>2, <2>3, <2>4 DEF v
<1>3. CASE ~u.hash.weak
  BY <1>3 DEF Rehashed
<1> QED
  BY <1>2, <1>3

\* must_change_password is cleared together with a new hash.
LEMMA MustCleared ==
    ASSUME NEW u \in Rows
    PROVE  LET v == [u EXCEPT !.must = FALSE] IN
           /\ v \in Rows /\ v.hash = u.hash /\ v.secret = u.secret /\ v.enabled = u.enabled
           /\ v.failures = u.failures /\ v.locked = u.locked
  BY DEF Rows

\* The count of requests served stays a number.
LEMMA AcceptType == ASSUME SlotInv, Accept PROVE served' \in Nat
  BY DEF SlotInv, TypeOK, Accept

\* Computed, from the row loaded and the row computed.
LEMMA SlotComputed ==
    ASSUME row \in Rows, NEW op, NEW link, NEW u \in Rows,
           NEW fresh \in SUBSET {"hash", "enabled"},
           op = "wrong" => Locked(u) \/ u.failures = row.failures + 1,
           u.failures # row.failures => op \in Clearing \cup {"wrong", "panel"},
           u.locked # row.locked /\ u.locked = "no" =>
               op \in {"reset", "cli", "panel"} \/ (op \in Clearing /\ row.locked = "lapsed"),
           u.hash # row.hash /\ op \notin Choosing =>
               op \in {"login", "challenge"} /\ row.hash.weak /\ u.hash.pwd = row.hash.pwd,
           op \in Choosing <=> "hash" \in fresh,
           u.enabled # row.enabled /\ u.enabled => op \in {"confirm", "enrol", "panel"},
           "enabled" \in fresh => op \in {"confirm", "enrol"},
           u.secret # row.secret /\ u.secret # NoSecret => op \in {"setup", "enrol"},
           op = "confirm" => row.secret # NoSecret /\ u.secret = row.secret,
           op = "enrol" => u.secret # NoSecret /\ u.secret # row.secret,
           op = "setup" => ~u.enabled
    PROVE  Computed(Slot(op, link, u, fresh))
<1> DEFINE q == Slot(op, link, u, fresh)
<1>1. q.op = op /\ q.old = row /\ q.new = u /\ q.writes = Writes(u, fresh)
  BY DEF Slot, Free
<1>2. row.failures \in Nat /\ row.enabled \in BOOLEAN /\ u.enabled \in BOOLEAN
  BY DEF Rows
<1>3. row.failures + 1 # row.failures
  BY <1>2
<1> HIDE DEF q
<1> QED
  BY <1>1, <1>2, <1>3, RowColumns DEF Computed, q

\* A reset of the password, by a link or by the command line.
LEMMA RestartComputed ==
    ASSUME row \in Rows, NEW op \in {"reset", "cli"}, NEW link, NEW u \in Rows,
           u.secret = row.secret, u.enabled = row.enabled
    PROVE  Computed(Slot(op, link, u, {"hash"}))
<1> DEFINE q == Slot(op, link, u, {"hash"})
<1>1. q.op = op /\ q.old = row /\ q.new = u /\ q.writes = Writes(u, {"hash"})
  BY DEF Slot, Free
<1>2. "enabled" \notin q.writes /\ "secret" \notin q.writes /\ "hash" \in q.writes
  BY <1>1, RowColumns
<1>3. op \in Choosing /\ op \in Clearing
  BY DEF Choosing, Clearing
<1>4. op # "wrong" /\ op # "confirm" /\ op # "enrol" /\ op # "setup"
  OBVIOUS
<1> HIDE DEF q
<1>5. Computed(q)
  BY <1>1, <1>2, <1>3, <1>4 DEF Computed
<1> QED
  BY <1>5 DEF q

\* Every operation that begins with loading the row keeps SlotInv: one step for
\* each method.
LEMMA ArriveStep ==
    ASSUME SlotInv, NEW r \in Request, Arrive(r)
    PROVE  SlotInv'
<1>1. /\ row \in Rows /\ row.secret \in drawn \cup {NoSecret} /\ drawn \subseteq Secret
      /\ row.secret \in Secret \cup {NoSecret}
  BY DEF SlotInv, TypeOK, RowOK
<1>2. ASSUME WrongPassword(r) \/ WrongCode(r)
      PROVE  SlotInv'
  <2> DEFINE u == Failed(row)
  <2>1. Accept /\ Compute(r, "wrong", NoLink, u, {}) /\ UNCHANGED drawn /\ row.locked # "yes"
    BY <1>2 DEF WrongPassword, WrongCode, Start, Locked
  <2>2. /\ u \in Rows /\ u.hash = row.hash /\ u.secret = row.secret /\ u.enabled = row.enabled
        /\ \/ Locked(u)
           \/ u.failures = row.failures + 1 /\ u.locked = row.locked
    BY <1>1, FailedRow
  <2> HIDE DEF u
  <2>3. u.locked # row.locked => u.locked = "yes"
    BY <2>2 DEF Locked
  <2>4. Computed(Slot("wrong", NoLink, u, {}))
    BY <1>1, <2>2, <2>3, SlotComputed DEF Clearing, Choosing
  <2>5. "wrong" \in AllOps /\ served' \in Nat
    BY <2>1, AcceptType DEF AllOps
  <2> QED
    BY <1>1, <2>1, <2>2, <2>4, <2>5, ComputeStep
<1>3. ASSUME Login(r)
      PROVE  SlotInv'
  <2> DEFINE u == Rehashed(Cleared(row))
  <2>1. PICK op \in {"login", "challenge"} :
           Accept /\ Compute(r, op, NoLink, u, {}) /\ UNCHANGED drawn /\ row.locked # "yes"
    BY <1>3 DEF Login, Start, Locked
  <2>2. /\ u \in Rows /\ u.secret = row.secret /\ u.enabled = row.enabled
        /\ u.locked = "no" /\ u.hash.pwd = row.hash.pwd
        /\ u.hash # row.hash => row.hash.weak
    <3> DEFINE v == Cleared(row)
    <3>1. /\ v \in Rows /\ v.hash = row.hash /\ v.secret = row.secret
          /\ v.enabled = row.enabled /\ v.locked = "no"
      BY <1>1, ClearedRow
    <3> HIDE DEF v
    <3>2. /\ Rehashed(v) \in Rows /\ Rehashed(v).hash.pwd = v.hash.pwd
          /\ Rehashed(v).hash # v.hash => v.hash.weak
          /\ Rehashed(v).secret = v.secret /\ Rehashed(v).enabled = v.enabled
          /\ Rehashed(v).locked = v.locked
      BY <3>1, RehashedRow
    <3> QED
      BY <3>1, <3>2 DEF v
  <2> HIDE DEF u
  <2>3. row.locked \in {"no", "lapsed"}
    BY <1>1, <2>1 DEF Rows
  <2>4. Computed(Slot(op, NoLink, u, {}))
    BY <1>1, <2>2, <2>3, SlotComputed DEF Clearing, Choosing
  <2> QED
    BY <1>1, <2>1, <2>2, <2>4, AcceptType, ComputeStep DEF AllOps, Clearing
<1>4. ASSUME CompleteMfa(r)
      PROVE  SlotInv'
  <2> DEFINE u == Cleared(row)
  <2>1. Accept /\ Compute(r, "code", NoLink, u, {}) /\ UNCHANGED drawn /\ row.locked # "yes"
    BY <1>4 DEF CompleteMfa, Start, Locked
  <2>2. /\ u \in Rows /\ u.hash = row.hash /\ u.secret = row.secret /\ u.enabled = row.enabled
        /\ u.locked = "no"
    BY <1>1, ClearedRow
  <2> HIDE DEF u
  <2>3. row.locked \in {"no", "lapsed"}
    BY <1>1, <2>1 DEF Rows
  <2>4. Computed(Slot("code", NoLink, u, {}))
    BY <1>1, <2>2, <2>3, SlotComputed DEF Clearing, Choosing
  <2> QED
    BY <1>1, <2>1, <2>2, <2>4, AcceptType, ComputeStep DEF AllOps, Clearing
<1>5. ASSUME NEW p \in Password, ChangePassword(r, p)
      PROVE  SlotInv'
  <2> DEFINE v == NewHash(row, p)
  <2> DEFINE u == [v EXCEPT !.must = FALSE]
  <2>1. Accept /\ Compute(r, "password", NoLink, u, {"hash"}) /\ UNCHANGED drawn
    BY <1>5 DEF ChangePassword, Start
  <2>2. /\ v \in Rows /\ v.secret = row.secret /\ v.enabled = row.enabled
        /\ v.failures = row.failures /\ v.locked = row.locked
    BY <1>1, NewHashRow
  <2> HIDE DEF v
  <2>3. /\ u \in Rows /\ u.secret = row.secret /\ u.enabled = row.enabled
        /\ u.failures = row.failures /\ u.locked = row.locked
    BY <2>2, MustCleared
  <2> HIDE DEF u
  <2>4. Computed(Slot("password", NoLink, u, {"hash"}))
    BY <1>1, <2>3, SlotComputed DEF Clearing, Choosing
  <2> QED
    BY <1>1, <2>1, <2>3, <2>4, AcceptType, ComputeStep DEF AllOps, Choosing, Columns
<1>6. ASSUME NEW p \in Password, CliSetPassword(r, p)
      PROVE  SlotInv'
  <2> DEFINE v == Cleared(row)
  <2> DEFINE u == NewHash(v, p)
  <2>1. Accept /\ Compute(r, "cli", NoLink, u, {"hash"}) /\ UNCHANGED drawn
    BY <1>6 DEF CliSetPassword, Start
  <2>2. v \in Rows /\ v.secret = row.secret /\ v.enabled = row.enabled
    BY <1>1, ClearedRow
  <2> HIDE DEF v
  <2>3. u \in Rows /\ u.secret = row.secret /\ u.enabled = row.enabled
    BY <2>2, NewHashRow
  <2> HIDE DEF u
  <2>4. Computed(Slot("cli", NoLink, u, {"hash"}))
    BY <1>1, <2>3, RestartComputed
  <2> QED
    BY <1>1, <2>1, <2>3, <2>4, AcceptType, ComputeStep DEF AllOps, Choosing, Columns
<1>7. ASSUME NEW k \in Link, FindLink(r, k)
      PROVE  SlotInv'
  <2> DEFINE q == [Free EXCEPT !.pc = "account", !.op = "reset", !.link = k]
  <2>1. Accept /\ k \in links /\ k \notin used /\ req' = [req EXCEPT ![r] = q]
        /\ UNCHANGED <<row, tokens, challenge, histories>>
    BY <1>7 DEF FindLink
  <2>2. Blank \in Rows
    BY MaxFailedIsPositive DEF Blank, Rows
  <2>3. q \in Slots
    BY <2>2 DEF Free, Slots, AllOps, Clearing
  <2>4. q.pc = "account" /\ q.op = "reset" /\ q.link = k /\ q.swept = {}
    BY DEF Free
  <2> HIDE DEF q
  <2>5. k \notin spent
    BY <2>1 DEF SlotInv, RowOK
  <2> QED
    BY <1>1, <2>1, <2>3, <2>4, <2>5, AcceptType, SlotStep DEF histories
<1>8. ASSUME NEW s \in Secret, StartSetup(r, s)
      PROVE  SlotInv'
  <2> DEFINE u == [row EXCEPT !.secret = s, !.enabled = FALSE]
  <2>1. Accept /\ Compute(r, "setup", NoLink, u, {}) /\ drawn' = drawn \cup {s}
    BY <1>8 DEF StartSetup
  <2>2. /\ u \in Rows /\ u.hash = row.hash /\ u.secret = s /\ u.enabled = FALSE
        /\ u.failures = row.failures /\ u.locked = row.locked
    BY <1>1 DEF Rows
  <2> HIDE DEF u
  <2>3. Computed(Slot("setup", NoLink, u, {}))
    BY <1>1, <2>2, SlotComputed DEF Clearing, Choosing
  <2>4. "setup" \in AllOps /\ served' \in Nat
    BY <2>1, AcceptType DEF AllOps
  <2> QED
    BY <1>1, <2>1, <2>2, <2>3, <2>4, ComputeStep
<1>9. ASSUME NEW s \in Secret, CliEnrolMfa(r, s)
      PROVE  SlotInv'
  <2> DEFINE u == [row EXCEPT !.secret = s, !.enabled = TRUE]
  <2>1. Accept /\ Compute(r, "enrol", NoLink, u, {"enabled"}) /\ drawn' = drawn \cup {s}
        /\ s # row.secret /\ s # NoSecret
    BY <1>1, <1>9, NonesAreFresh DEF CliEnrolMfa
  <2>2. /\ u \in Rows /\ u.hash = row.hash /\ u.secret = s
        /\ u.failures = row.failures /\ u.locked = row.locked
    BY <1>1 DEF Rows
  <2> HIDE DEF u
  <2>3. Computed(Slot("enrol", NoLink, u, {"enabled"}))
    BY <1>1, <2>1, <2>2, SlotComputed DEF Clearing, Choosing
  <2> QED
    BY <1>1, <2>1, <2>2, <2>3, AcceptType, ComputeStep DEF AllOps, Columns
<1>10. ASSUME ConfirmSetup(r)
       PROVE  SlotInv'
  <2> DEFINE u == [row EXCEPT !.enabled = TRUE]
  <2>1. Accept /\ Compute(r, "confirm", NoLink, u, {"enabled"}) /\ UNCHANGED drawn
        /\ row.secret # NoSecret
    BY <1>10 DEF ConfirmSetup, Start
  <2>2. /\ u \in Rows /\ u.hash = row.hash /\ u.secret = row.secret
        /\ u.failures = row.failures /\ u.locked = row.locked
    BY <1>1 DEF Rows
  <2> HIDE DEF u
  <2>3. Computed(Slot("confirm", NoLink, u, {"enabled"}))
    BY <1>1, <2>1, <2>2, SlotComputed DEF Clearing, Choosing
  <2> QED
    BY <1>1, <2>1, <2>2, <2>3, AcceptType, ComputeStep DEF AllOps, Columns
<1>11. ASSUME DisableMfa(r) \/ CliResetMfa(r)
       PROVE  SlotInv'
  <2> DEFINE u == NoMfa(row)
  <2>1. PICK op \in {"disable", "clear"} :
           Accept /\ Compute(r, op, NoLink, u, {}) /\ UNCHANGED drawn
    BY <1>11 DEF DisableMfa, CliResetMfa, Start
  <2>2. /\ u \in Rows /\ u.hash = row.hash /\ u.secret = NoSecret /\ u.enabled = FALSE
        /\ u.failures = row.failures /\ u.locked = row.locked
    BY <1>1 DEF NoMfa, Rows
  <2> HIDE DEF u
  <2>3. Computed(Slot(op, NoLink, u, {}))
    BY <1>1, <2>2, SlotComputed DEF Clearing, Choosing
  <2> QED
    BY <1>1, <2>1, <2>2, <2>3, AcceptType, ComputeStep DEF AllOps
<1>12. ASSUME Forgot(r)
       PROVE  SlotInv'
  <2>1. Accept /\ Compute(r, "forgot", NoLink, row, {}) /\ UNCHANGED drawn
    BY <1>12 DEF Forgot, Start
  <2>2. Computed(Slot("forgot", NoLink, row, {}))
    BY <1>1, SlotComputed DEF Clearing, Choosing
  <2> QED
    BY <1>1, <2>1, <2>2, AcceptType, ComputeStep DEF AllOps
<1>13. ASSUME PanelEdit(r)
       PROVE  SlotInv'
  <2>1. PICK n \in 0 .. (MaxFailed - 1), l \in {"no", "yes", "lapsed"}, on \in BOOLEAN,
             must \in BOOLEAN :
           Start(r, "panel", [row EXCEPT !.failures = n, !.locked = l,
                                         !.enabled = on, !.must = must], {})
    BY <1>13 DEF PanelEdit
  <2> DEFINE u == [row EXCEPT !.failures = n, !.locked = l, !.enabled = on, !.must = must]
  <2>2. Accept /\ Compute(r, "panel", NoLink, u, {}) /\ UNCHANGED drawn
    BY <2>1 DEF Start
  <2>3. u \in Rows /\ u.hash = row.hash /\ u.secret = row.secret
    BY <1>1 DEF Rows
  <2> HIDE DEF u
  <2>4. Computed(Slot("panel", NoLink, u, {}))
    BY <1>1, <2>3, SlotComputed DEF Clearing, Choosing
  <2> QED
    BY <1>1, <2>2, <2>3, <2>4, AcceptType, ComputeStep DEF AllOps
<1> QED
  BY <1>2, <1>3, <1>4, <1>5, <1>6, <1>7, <1>8, <1>9, <1>10, <1>11, <1>12, <1>13 DEF Arrive

-----------------------------------------------------------------------------
(* The other steps keep SlotInv. *)

\* reset_password, after the link was found unused: the account with the new password.
LEMMA ResetStep ==
    ASSUME SlotInv, NEW r \in Request, NEW p \in Password, ResetPassword(r, p)
    PROVE  SlotInv'
<1> DEFINE v == Cleared(row)
<1> DEFINE w == NewHash(v, p)
<1> DEFINE u == [w EXCEPT !.must = FALSE]
<1>1. /\ row \in Rows /\ row.secret \in drawn \cup {NoSecret} /\ drawn \subseteq Secret
      /\ served \in Nat /\ req[r].link \in Link \cup {NoLink}
      /\ req[r].link \in links /\ (req[r].link \in spent => req[r].link \in shared)
  BY DEF SlotInv, SlotOK, TypeOK, RowOK, ResetPassword, Slots
<1>2. Compute(r, "reset", req[r].link, u, {"hash"}) /\ UNCHANGED <<served, drawn>>
  BY DEF ResetPassword
<1>3. v \in Rows /\ v.secret = row.secret /\ v.enabled = row.enabled
  BY <1>1, ClearedRow
<1> HIDE DEF v
<1>4. w \in Rows /\ w.secret = row.secret /\ w.enabled = row.enabled
  BY <1>3, NewHashRow
<1> HIDE DEF w
<1>5. u \in Rows /\ u.secret = row.secret /\ u.enabled = row.enabled
  BY <1>4, MustCleared
<1> HIDE DEF u
<1>6. Computed(Slot("reset", req[r].link, u, {"hash"}))
  BY <1>1, <1>5, RestartComputed
<1> QED
  BY <1>1, <1>2, <1>5, <1>6, ComputeStep DEF AllOps, Choosing, Columns

\* The second statement of request_password_reset notes the links it will close.
LEMMA SweepStep ==
    ASSUME SlotInv, NEW r \in Request, SweepLinks(r)
    PROVE  SlotInv'
<1> DEFINE q == [req[r] EXCEPT !.pc = "commit", !.swept = links \ used]
<1>1. req[r] \in Slots /\ req[r].pc = "sweep" /\ SlotOK(r)
      /\ links \subseteq Link /\ drawn \subseteq Secret /\ served \in Nat
  BY DEF SlotInv, TypeOK, SweepLinks
<1>2. req' = [req EXCEPT ![r] = q] /\ UNCHANGED <<row, tokens, challenge, ghosts>>
  BY DEF SweepLinks
<1>3. q \in Slots
  BY <1>1 DEF Slots
<1>4. /\ q.pc = "commit" /\ q.swept = links \ used /\ q.op = req[r].op
      /\ q.old = req[r].old /\ q.new = req[r].new /\ q.writes = req[r].writes
      /\ q.link = req[r].link
  BY <1>1 DEF Slots
<1> HIDE DEF q
<1>5. Computed(q)
  BY <1>1, <1>4 DEF SlotOK, Computed
<1> QED
  BY <1>1, <1>2, <1>3, <1>4, <1>5, SlotStep DEF SlotOK, ghosts, histories

\* A request that ends without a commit leaves a free slot and nothing else.
LEMMA AbortStep ==
    ASSUME SlotInv, NEW r \in Request, Abort(r)
    PROVE  SlotInv'
<1>1. Free \in Slots
  <2>1. Blank \in Rows
    BY MaxFailedIsPositive DEF Blank, Rows
  <2> QED
    BY <2>1 DEF Free, Slots, AllOps
<1>2. req' = [req EXCEPT ![r] = Free] /\ UNCHANGED <<row, tokens, challenge, ghosts>>
      /\ served \in Nat /\ drawn \subseteq Secret
  BY DEF Abort, SlotInv, TypeOK
<1>3. Free.pc = "idle" /\ Free.op = "wrong" /\ Free.swept = {}
  BY DEF Free
<1> QED
  BY <1>1, <1>2, <1>3, SlotStep DEF ghosts, histories

\* The clock ends locks, challenges and links, and leaves the open requests alone.
LEMMA LapseStep ==
    ASSUME SlotInv, LapseLock \/ LapseChallenge \/ \E k \in Link : LapseLink(k)
    PROVE  SlotInv'
<1> USE DEF SlotInv, tokens, ghosts, histories
<1>1. CASE LapseLock
  <2>1. row' \in Rows /\ row'.secret = row.secret
    BY <1>1 DEF LapseLock, TypeOK, Rows
  <2> QED
    BY <1>1, <2>1 DEF LapseLock, TypeOK, RowOK, SlotOK, Computed
<1>2. CASE LapseChallenge
  <2>1. TypeOK'
    BY <1>2 DEF LapseChallenge, TypeOK
  <2>2. RowOK'
    BY <1>2 DEF LapseChallenge, RowOK
  <2>3. \A r \in Request : SlotOK(r)'
    BY <1>2 DEF LapseChallenge, SlotOK, Computed
  <2> QED
    BY <2>1, <2>2, <2>3
<1>3. ASSUME NEW k \in Link, LapseLink(k)
      PROVE  SlotInv'
  BY <1>3 DEF LapseLink, TypeOK, RowOK, SlotOK, Computed
<1> QED
  BY <1>1, <1>2, <1>3

-----------------------------------------------------------------------------
(* Commit. *)

\* Each column of the row is the one written, or the one of today.
LEMMA MergeColumns ==
    ASSUME SlotInv, NEW r \in Request
    PROVE  LET q == req[r]  m == Merge(r) IN
           /\ m \in Rows
           /\ m.hash = IF "hash" \in q.writes THEN q.new.hash ELSE row.hash
           /\ m.failures = IF "failures" \in q.writes THEN q.new.failures ELSE row.failures
           /\ m.locked = IF "locked" \in q.writes THEN q.new.locked ELSE row.locked
           /\ m.secret = IF "secret" \in q.writes THEN q.new.secret ELSE row.secret
           /\ m.enabled = IF "enabled" \in q.writes THEN q.new.enabled ELSE row.enabled
<1>1. row \in Rows /\ req[r].new \in Rows
  BY DEF SlotInv, TypeOK, Slots
<1> QED
  BY <1>1 DEF Merge, Columns, Rows

\* The merge of the written columns over the row of today is a sound row, and no
\* open request's slot is disturbed by it.
LEMMA CommitSlotInv ==
    ASSUME SlotInv, NEW r \in Request, Commit(r)
    PROVE  SlotInv'
<1> DEFINE q == req[r]
<1>1. /\ q \in Slots /\ q.pc = "commit" /\ Computed(q) /\ SlotOK(r)
      /\ {q.old.secret, q.new.secret} \subseteq drawn \cup {NoSecret}
  BY DEF SlotInv, TypeOK, SlotOK, Commit
<1>2. /\ row' = Merge(r) /\ row' \in Rows
      /\ row'.secret = IF "secret" \in q.writes THEN q.new.secret ELSE row.secret
  BY MergeColumns DEF Commit
<1>3. /\ links \subseteq links' /\ links' \subseteq Link
      /\ used' = UsedAfter(r) /\ used \subseteq used'
      /\ UNCHANGED <<lapsed, served, drawn>>
  BY DEF Commit, UsedAfter, SlotInv, TypeOK
<1>4. used' \subseteq links'
  BY <1>1, <1>3 DEF UsedAfter, SlotInv, TypeOK, SlotOK
<1>5. q.op = "forgot" \/ links' = links
  BY DEF Commit
<1>6. /\ req' \in [Request -> Slots] /\ req'[r] = Free
      /\ \A s \in Request : s # r =>
            /\ req'[s].pc = req[s].pc /\ req'[s].op = req[s].op /\ req'[s].link = req[s].link
            /\ req'[s].old = req[s].old /\ req'[s].new = req[s].new
            /\ req'[s].writes = req[s].writes /\ req'[s].swept = req[s].swept
            /\ req'[s].late = (req[s].late \/ (q.op = "forgot" /\ req[s].op = "forgot"))
  <2>1. Free \in Slots
    <3>1. Blank \in Rows
      BY MaxFailedIsPositive DEF Blank, Rows
    <3> QED
      BY <3>1 DEF Free, Slots, AllOps
  <2> QED
    BY <2>1 DEF Commit, SlotInv, TypeOK, Slots
<1>7. /\ verified' \subseteq drawn'
      /\ torn' \in BOOLEAN /\ undone' \in BOOLEAN /\ temporary' \in BOOLEAN
      /\ chosen' \in Password \cup {NoPassword}
  <2>1. q.op = "confirm" => q.old.secret \in drawn
    BY <1>1 DEF Computed
  <2>2. q.op = "enrol" => q.new.secret \in drawn
    BY <1>1 DEF Computed
  <2>3. q.new.hash.pwd \in Password \cup {NoPassword}
    BY <1>1 DEF Slots, Rows
  <2> QED
    BY <1>3, <2>1, <2>2, <2>3 DEF Commit, RecordCredentials, SlotInv, TypeOK
<1>8. /\ guesses' \in 0 .. MaxFailed
      /\ lost' \in BOOLEAN /\ doubled' \in BOOLEAN
  BY <1>1, MaxFailedIsPositive DEF Commit, RecordUse, SlotInv, TypeOK, Slots
<1>9. /\ spent' = spent \cup (IF q.op = "reset" THEN {q.link} ELSE {})
      /\ spent' \subseteq used' /\ respent' \subseteq spent'
      /\ shared \subseteq shared' /\ shared' \subseteq links'
      /\ \A s \in Request \ {r} :
            q.op = "reset" /\ req[s].op = "reset" /\ req[s].link = q.link => q.link \in shared'
  BY <1>1, <1>3 DEF Commit, RecordUse, UsedAfter, SlotInv, TypeOK, RowOK, SlotOK
<1>10. TypeOK'
  BY <1>2, <1>3, <1>4, <1>6, <1>7, <1>8, <1>9 DEF Commit, SlotInv, TypeOK
<1>11. RowOK'
  BY <1>1, <1>2, <1>3, <1>9 DEF SlotInv, RowOK
<1>12. SlotOK(r)'
  BY <1>6 DEF SlotOK, Free
<1>13. ASSUME NEW s \in Request, s # r
       PROVE  SlotOK(s)'
  <2>1. SlotOK(s)
    BY DEF SlotInv
  <2>2. req[s].op = "reset" =>
           /\ req[s].link \in links'
           /\ req[s].link \in spent' => req[s].link \in shared'
    BY <1>3, <1>9, <1>13, <2>1 DEF SlotOK
  <2>3. req[s].op = "forgot" /\ req[s].pc = "commit" /\ ~req'[s].late =>
           links' \ used' \subseteq req[s].swept
    BY <1>3, <1>5, <1>6, <1>13, <2>1 DEF SlotOK
  <2> QED
    BY <1>3, <1>6, <1>13, <2>1, <2>2, <2>3 DEF SlotOK, Computed
<1> QED
  BY <1>10, <1>11, <1>12, <1>13 DEF SlotInv

\* SlotInv is inductive.
LEMMA NextSlotInv == SlotInv /\ [Next]_vars => SlotInv'
<1> SUFFICES ASSUME SlotInv, [Next]_vars PROVE SlotInv'
  OBVIOUS
<1>1. CASE UNCHANGED vars
  <2> USE DEF vars, tokens, ghosts, histories
  <2>1. TypeOK'
    BY <1>1 DEF SlotInv, TypeOK
  <2>2. RowOK'
    BY <1>1 DEF SlotInv, RowOK
  <2>3. \A r \in Request : SlotOK(r)'
    BY <1>1 DEF SlotInv, SlotOK, Computed
  <2> QED
    BY <2>1, <2>2, <2>3 DEF SlotInv
<1>2. CASE Next
  BY <1>2, ArriveStep, ResetStep, SweepStep, CommitSlotInv, AbortStep, LapseStep DEF Next
<1> QED
  BY <1>1, <1>2

\* The type invariant: in particular the stored count never reaches the limit.
THEOREM TypesHold == Spec => []TypeOK
<1>1. Spec => []SlotInv
  BY InitSlotInv, NextSlotInv, PTL DEF Spec
<1>2. SlotInv => TypeOK
  BY DEF SlotInv
<1> QED
  BY <1>1, <1>2, PTL

-----------------------------------------------------------------------------
(* Safety.  Only Commit and the lapse of a lock change what the invariants *)
(* speak of.                                                               *)

\* What only commits change: everything the properties speak of, but for the lapse
\* of a lock.
LEMMA Quiet ==
    ASSUME [Next]_vars, ~\E r \in Request : Commit(r)
    PROVE  /\ UNCHANGED <<torn, verified, chosen, undone, guesses, lost, spent, respent, shared,
                          doubled, links, used>>
           /\ row' = row \/ LapseLock
<1> USE DEF vars, tokens, ghosts, histories
<1>1. CASE UNCHANGED vars
  BY <1>1
<1>2. ASSUME NEW r \in Request, Arrive(r) \/ \E p \in Password : ResetPassword(r, p)
      PROVE  UNCHANGED <<row, tokens, torn, verified, chosen, undone, guesses, lost, spent,
                         respent, shared, doubled>>
  <2>1. CASE \E k \in Link : FindLink(r, k)
    BY <2>1 DEF FindLink
  <2>2. CASE \E op, link, u, fresh : Compute(r, op, link, u, fresh)
    BY <2>2 DEF Compute
  <2> QED
    BY <1>2, <2>1, <2>2 DEF Arrive, WrongPassword, WrongCode, Login, CompleteMfa,
       ChangePassword, CliSetPassword, StartSetup, CliEnrolMfa, ConfirmSetup, DisableMfa,
       CliResetMfa, PanelEdit, Forgot, Start, ResetPassword
<1>3. ASSUME NEW r \in Request, SweepLinks(r) \/ Abort(r)
      PROVE  UNCHANGED <<row, tokens, ghosts>>
  BY <1>3 DEF SweepLinks, Abort
<1>4. CASE LapseLock \/ LapseChallenge \/ \E k \in Link : LapseLink(k)
  BY <1>4 DEF LapseLock, LapseChallenge, LapseLink
<1> QED
  BY <1>1, <1>2, <1>3, <1>4 DEF Next

\* What an invariant about the row needs of a lapse.
LEMMA LapseKeeps ==
    ASSUME SlotInv, LapseLock
    PROVE  /\ row'.hash = row.hash /\ row'.failures = row.failures
           /\ row'.secret = row.secret /\ row'.enabled = row.enabled
           /\ row'.locked = "lapsed"
  BY DEF LapseLock, SlotInv, TypeOK, Rows

\* What a commit does to the row, column by column, from a sound slot.
LEMMA CommitFacts ==
    ASSUME SlotInv, NEW r \in Request, Commit(r)
    PROVE  LET q == req[r] IN
           /\ Computed(q) /\ SlotOK(r) /\ q \in Slots /\ row \in Rows
           /\ row'.hash = IF "hash" \in q.writes THEN q.new.hash ELSE row.hash
           /\ row'.failures = IF "failures" \in q.writes THEN q.new.failures ELSE row.failures
           /\ row'.locked = IF "locked" \in q.writes THEN q.new.locked ELSE row.locked
           /\ row'.secret = IF "secret" \in q.writes THEN q.new.secret ELSE row.secret
           /\ row'.enabled = IF "enabled" \in q.writes THEN q.new.enabled ELSE row.enabled
  BY MergeColumns DEF Commit, SlotInv, SlotOK, TypeOK

\* The last password chosen stays unless a rehash of a stale load takes it back.
LEMMA PasswordStep ==
    ASSUME SlotInv, [Next]_vars, PasswordSticksUnlessUndone
    PROVE  PasswordSticksUnlessUndone'
<1> USE DEF PasswordSticksUnlessUndone, PasswordSticks
<1>1. ASSUME NEW r \in Request, Commit(r)
      PROVE  PasswordSticksUnlessUndone'
  <2>1. CASE req[r].op \in Choosing
    BY <1>1, <2>1, CommitFacts DEF Commit, RecordCredentials, Computed
  <2>2. CASE req[r].op \notin Choosing
    BY <1>1, <2>2, CommitFacts DEF Commit, RecordCredentials, Computed
  <2> QED
    BY <2>1, <2>2
<1> QED
  BY <1>1, Quiet, LapseKeeps

\* An enabled secret was verified, unless a setup and a confirmation crossed.
LEMMA VerifiedStep ==
    ASSUME SlotInv, [Next]_vars, EnabledIsVerifiedUnlessTorn
    PROVE  EnabledIsVerifiedUnlessTorn'
<1> USE DEF EnabledIsVerifiedUnlessTorn, EnabledIsVerified, MfaEnabled
<1>1. ASSUME NEW r \in Request, Commit(r), ~torn', row'.enabled, row'.secret # NoSecret
      PROVE  row'.secret \in verified'
  <2> DEFINE q == req[r]
  <2>1. /\ ~torn /\ verified \subseteq verified'
        /\ q.op = "confirm" => row.secret = q.old.secret /\ q.old.secret \in verified'
        /\ q.op = "enrol" => q.new.secret \in verified'
        /\ q.op = "setup" /\ row.enabled => q.old.enabled
        /\ q.op = "panel" /\ "enabled" \in q.writes => ~q.new.enabled
    BY <1>1 DEF Commit, RecordCredentials
  <2>2. CASE q.op \in {"confirm", "enrol"}
    BY <1>1, <2>1, <2>2, CommitFacts DEF Computed
  <2>3. CASE q.op \notin {"confirm", "enrol"}
    <3>1. row.enabled /\ ~("enabled" \in q.writes /\ q.new.enabled)
      BY <1>1, <2>1, <2>3, CommitFacts DEF Computed
    <3>2. "enabled" \notin q.writes
      BY <1>1, <3>1, CommitFacts
    <3>3. q.op # "setup"
      BY <1>1, <2>1, <3>1, <3>2, CommitFacts DEF Computed
    <3>4. row'.secret = row.secret
      BY <1>1, <2>3, <3>3, CommitFacts DEF Computed
    <3> QED
      BY <1>1, <2>1, <3>1, <3>4
  <2> QED
    BY <2>2, <2>3
<1> QED
  BY <1>1, Quiet, LapseKeeps

\* The stored count keeps up with the guesses unless an update of it is lost.
LEMMA CountStep ==
    ASSUME SlotInv, [Next]_vars, CountKeepsUp
    PROVE  CountKeepsUp'
<1> USE DEF CountKeepsUp
<1>1. ASSUME NEW r \in Request, Commit(r), ~lost'
      PROVE  guesses' <= row'.failures
  <2> DEFINE q == req[r]
  <2>1. /\ ~lost /\ guesses <= row.failures
        /\ q.op = "wrong" => ~(row.failures > q.old.failures)
        /\ q.op = "panel" => "failures" \notin q.writes
    BY <1>1 DEF Commit, RecordUse
  <2>2. /\ guesses \in Nat /\ row.failures \in Nat /\ q.old.failures \in Nat
        /\ q.new.failures \in Nat
    BY DEF SlotInv, TypeOK, Slots, Rows
  <2>3. row'.failures = IF "failures" \in q.writes THEN q.new.failures ELSE row.failures
    BY <1>1, CommitFacts
  <2>4. CASE q.op \in Clearing \/ (q.op = "wrong" /\ Locked(q.new))
    <3>1. guesses' = 0
      BY <1>1, <2>4 DEF Commit, RecordUse
    <3> QED
      BY <2>2, <2>3, <3>1
  <2>5. CASE q.op = "wrong" /\ ~Locked(q.new)
    <3>1. "failures" \in q.writes /\ q.new.failures = q.old.failures + 1
      BY <1>1, <2>5, CommitFacts DEF Computed
    <3>2. guesses' <= guesses + 1
      BY <1>1, <2>2, <2>5 DEF Commit, RecordUse, Clearing
    <3>3. guesses' \in Nat
      BY <1>1, <2>2, <2>5 DEF Commit, RecordUse, Clearing
    <3> QED
      BY <2>1, <2>2, <2>3, <2>5, <3>1, <3>2, <3>3
  <2>6. CASE q.op \notin Clearing \cup {"wrong"}
    BY <1>1, <2>1, <2>3, <2>6, CommitFacts DEF Commit, RecordUse, Computed
  <2> QED
    BY <2>4, <2>5, <2>6
<1> QED
  BY <1>1, Quiet, LapseKeeps

\* No link is used twice unless two resets loaded it unused.
LEMMA OneShotStep ==
    ASSUME SlotInv, [Next]_vars, LinksAreOneShot
    PROVE  LinksAreOneShot'
<1>1. ASSUME NEW r \in Request, Commit(r)
      PROVE  LinksAreOneShot'
  BY <1>1, CommitFacts DEF Commit, RecordUse, SlotOK, LinksAreOneShot
<1> QED
  BY <1>1, Quiet DEF LinksAreOneShot

\* No second unused link is issued unless two requests for one overlapped.
LEMMA OneOpenStep ==
    ASSUME SlotInv, [Next]_vars, OneOpenLink
    PROVE  OneOpenLink'
<1>1. ASSUME NEW r \in Request, Commit(r), ~doubled'
      PROVE  \A j, k \in links' \ used' : j = k
  <2>1. ~doubled /\ ~req[r].late /\ used \subseteq used' /\ req[r].swept \subseteq used'
    BY <1>1 DEF Commit, RecordUse, UsedAfter
  <2>2. CASE req[r].op = "forgot"
    <3>1. links \ used \subseteq req[r].swept
      BY <1>1, <2>1, <2>2, CommitFacts DEF SlotOK, Commit
    <3>2. PICK k \in Link : links' = links \cup {k}
      BY <1>1, <2>2 DEF Commit
    <3> QED
      BY <2>1, <3>1, <3>2
  <2>3. CASE req[r].op # "forgot"
    BY <1>1, <2>1, <2>3 DEF Commit, OneOpenLink
  <2> QED
    BY <2>2, <2>3
<1> QED
  BY <1>1, Quiet DEF OneOpenLink

\* All of it together.
IInv == /\ SlotInv /\ CountKeepsUp /\ PasswordSticksUnlessUndone
        /\ EnabledIsVerifiedUnlessTorn /\ LinksAreOneShot /\ OneOpenLink

\* IInv is inductive: the conjuncts are kept one by one by the lemmas above.
LEMMA InductiveInvariant == Spec => []IInv
<1>1. Init => IInv
  <2> SUFFICES ASSUME Init PROVE IInv
    OBVIOUS
  <2>1. row.failures \in Nat
    BY DEF Init, Rows
  <2> QED
    BY <2>1, InitSlotInv
       DEF Init, IInv, CountKeepsUp, PasswordSticksUnlessUndone, PasswordSticks,
           EnabledIsVerifiedUnlessTorn, EnabledIsVerified, MfaEnabled, LinksAreOneShot, OneOpenLink
<1>2. IInv /\ [Next]_vars => IInv'
  BY NextSlotInv, CountStep, PasswordStep, VerifiedStep, OneShotStep, OneOpenStep DEF IInv
<1> QED
  BY <1>1, <1>2, PTL DEF Spec

\* service.py, change_password and reset_password: however requests overlap, the
\* password in force is the one last set on purpose, unless a login rehashed
\* the one it had loaded before.
THEOREM PasswordHolds == Spec => []PasswordSticksUnlessUndone
  BY InductiveInvariant, PTL DEF IInv

\* service.py, the MFA handlers: the secret asked for was verified, unless a new
\* setup crossed the confirmation of the previous one.
THEOREM SecretWasVerified == Spec => []EnabledIsVerifiedUnlessTorn
  BY InductiveInvariant, PTL DEF IInv

\* service.py, _register_failed_attempt: MaxFailed failed attempts in a row lock
\* the account, unless a stale count has replaced a newer one.
THEOREM GuessesBounded == Spec => []GuessesAreBoundedUnlessLost
<1>1. IInv => GuessesAreBoundedUnlessLost
  <2> SUFFICES ASSUME IInv, ~lost PROVE guesses < MaxFailed
    BY DEF GuessesAreBoundedUnlessLost, GuessesAreBounded
  <2>1. guesses <= row.failures /\ guesses \in 0 .. MaxFailed
        /\ row.failures \in 0 .. (MaxFailed - 1)
    BY DEF IInv, CountKeepsUp, SlotInv, TypeOK, Rows
  <2> QED
    BY <2>1, MaxFailedIsPositive
<1> QED
  BY <1>1, InductiveInvariant, PTL

\* service.py, reset_password: a link sets a second password only for requests
\* that presented it together.
THEOREM LinksOneShot == Spec => []LinksAreOneShot
  BY InductiveInvariant, PTL DEF IInv

\* service.py, request_password_reset: requests that do not overlap leave one
\* open link.
THEOREM LinksExclusive == Spec => []OneOpenLink
  BY InductiveInvariant, PTL DEF IInv

\* service.py: no commit lifts a lock in force except a reset, or a sign-in that
\* had loaded an earlier lock already run out.
THEOREM LocksHold == Spec => LockHolds
<1>1. SlotInv /\ [Next]_vars =>
        [Locked(row) /\ row'.locked = "no" =>
          \E r \in Request : /\ Commit(r)
                             /\ \/ req[r].op \in {"reset", "cli", "panel"}
                                \/ req[r].op \in Clearing /\ req[r].old.locked = "lapsed"]_vars
  <2> SUFFICES ASSUME SlotInv, [Next]_vars, Locked(row), row'.locked = "no"
               PROVE  \E r \in Request : /\ Commit(r)
                             /\ \/ req[r].op \in {"reset", "cli", "panel"}
                                \/ req[r].op \in Clearing /\ req[r].old.locked = "lapsed"
    OBVIOUS
  <2>1. PICK r \in Request : Commit(r)
    BY Quiet, LapseKeeps DEF Locked
  <2>2. "locked" \in req[r].writes /\ req[r].new.locked = "no"
    BY <2>1, CommitFacts DEF Locked
  <2> QED
    BY <2>1, <2>2, CommitFacts DEF Computed
<1>2. Spec => []SlotInv
  BY InitSlotInv, NextSlotInv, PTL DEF Spec
<1> QED
  BY <1>1, <1>2, PTL DEF Spec, LockHolds
-----------------------------------------------------------------------------
(* What holds without exceptions when requests do not overlap. *)

Serial == \A r, s \in Request : r = s

\* What a request that loaded row old and computes u does to the count and the
\* lock: a failed attempt on an open account counts, a success on one clears, so
\* does a reset on any, and nothing else (but the panel) touches the two.
Counted(op, old, u) ==
    /\ op = "wrong" => /\ ~Locked(old)
                       /\ u.failures = Failed(old).failures /\ u.locked = Failed(old).locked
    /\ op \in {"login", "challenge", "code"} => ~Locked(old)
    /\ op \in Clearing => u.failures = 0 /\ u.locked = "no"
    /\ op \notin Clearing \cup {"wrong", "panel"} =>
          u.failures = old.failures /\ u.locked = old.locked

\* What it may do to the second factor: an administrator's is ended by reset-mfa
\* or on the panel.
Guarded(op, old, u) ==
    op \notin {"clear", "panel"} /\ old.admin /\ MfaEnabled(old) =>
        u.enabled /\ u.secret # NoSecret

Careful(op, old, u) == Counted(op, old, u) /\ Guarded(op, old, u)

\* The row the request loaded is that of today, but for a lock run out since.
Current(r) ==
    req[r].pc \in {"sweep", "commit"} =>
        LET q == req[r] IN
        /\ q.old.secret = row.secret /\ q.old.enabled = row.enabled
        /\ q.old.admin = row.admin /\ q.old.hash = row.hash
        /\ q.old.failures = row.failures
        /\ q.old.locked = row.locked \/ (q.old.locked = "yes" /\ row.locked = "lapsed")
        /\ Careful(q.op, q.old, q.new)
        /\ "failures" \in q.writes <=> q.new.failures # q.old.failures
        /\ "locked" \in q.writes <=> q.new.locked # q.old.locked
        /\ q.op \in Ops

\* None of the overlaps the histories record has happened.
NoOverlap ==
    /\ torn \/ lost => "panel" \in Ops
    /\ ~undone /\ ~doubled /\ shared = {}

Alone == NoOverlap /\ \A r \in Request : Current(r) /\ ~req[r].late

\* Every request that loads the row computes so, and forces no write of the two.
LEMMA RequestsAreCareful ==
    ASSUME SlotInv, NEW r \in Request,
           Arrive(r) \/ \E p \in Password : ResetPassword(r, p),
           ~\E k \in Link : FindLink(r, k)
    PROVE  \E op, link, u : \E fresh \in SUBSET {"hash", "enabled"} :
              Compute(r, op, link, u, fresh) /\ Careful(op, row, u)
<1> USE DEF Careful
<1>1. row \in Rows /\ drawn \subseteq Secret
  BY DEF SlotInv, TypeOK
<1>2. ASSUME NEW u, u.secret = row.secret, u.enabled = row.enabled \/ u.enabled,
             NEW op \in AllOps \ {"login"}
      PROVE  Guarded(op, row, u)
  BY <1>2 DEF Guarded, MfaEnabled
<1>3. ASSUME NEW u, u.failures = row.failures, u.locked = row.locked,
             NEW op \in AllOps \ (Clearing \cup {"wrong"})
      PROVE  Counted(op, row, u)
  BY <1>3 DEF Counted, Clearing
<1>4. ASSUME NEW u, u.failures = 0, u.locked = "no", NEW op \in Clearing,
             op \in {"login", "challenge", "code"} => ~Locked(row)
      PROVE  Counted(op, row, u)
  BY <1>4 DEF Counted, Clearing
<1>5. ASSUME WrongPassword(r) \/ WrongCode(r)
      PROVE  \E u : Compute(r, "wrong", NoLink, u, {}) /\ Careful("wrong", row, u)
  <2> DEFINE u == Failed(row)
  <2>1. Compute(r, "wrong", NoLink, u, {}) /\ ~Locked(row)
    BY <1>5 DEF WrongPassword, WrongCode, Start
  <2>2. u.secret = row.secret /\ u.enabled = row.enabled
    BY <1>1, FailedRow
  <2>3. Counted("wrong", row, u)
    BY <2>1 DEF Counted, Clearing
  <2> HIDE DEF u
  <2> QED
    BY <1>2, <2>1, <2>2, <2>3 DEF AllOps
<1>6. ASSUME Login(r)
      PROVE  \E op, u : Compute(r, op, NoLink, u, {}) /\ Careful(op, row, u)
  <2> DEFINE v == Cleared(row)
             u == Rehashed(v)
  <2>1. PICK op \in {"login", "challenge"} :
           Compute(r, op, NoLink, u, {}) /\ (op = "login" => ~MfaEnabled(row)) /\ ~Locked(row)
    BY <1>6 DEF Login, Start
  <2>2. v \in Rows /\ v.secret = row.secret /\ v.enabled = row.enabled
        /\ v.failures = 0 /\ v.locked = "no"
    BY <1>1, ClearedRow
  <2> HIDE DEF v
  <2>3. u.secret = row.secret /\ u.enabled = row.enabled /\ u.failures = 0 /\ u.locked = "no"
    BY <2>2, RehashedRow
  <2> HIDE DEF u
  <2>4. Guarded(op, row, u)
    BY <2>1, <2>3 DEF Guarded, MfaEnabled
  <2>5. Counted(op, row, u)
    BY <1>4, <2>1, <2>3 DEF Clearing
  <2> QED
    BY <2>1, <2>4, <2>5
<1>7. ASSUME CompleteMfa(r)
      PROVE  \E u : Compute(r, "code", NoLink, u, {}) /\ Careful("code", row, u)
  <2> DEFINE u == Cleared(row)
  <2>1. Compute(r, "code", NoLink, u, {}) /\ u.secret = row.secret /\ u.enabled = row.enabled
        /\ u.failures = 0 /\ u.locked = "no" /\ ~Locked(row)
    BY <1>1, <1>7, ClearedRow DEF CompleteMfa, Start
  <2> HIDE DEF u
  <2> QED
    BY <1>2, <1>4, <2>1 DEF AllOps, Clearing
<1>8. ASSUME NEW p \in Password, ChangePassword(r, p)
      PROVE  \E u : Compute(r, "password", NoLink, u, {"hash"}) /\ Careful("password", row, u)
  <2> DEFINE v == NewHash(row, p)
             u == [v EXCEPT !.must = FALSE]
  <2>1. Compute(r, "password", NoLink, u, {"hash"})
    BY <1>8 DEF ChangePassword, Start
  <2>2. v \in Rows /\ v.secret = row.secret /\ v.enabled = row.enabled
        /\ v.failures = row.failures /\ v.locked = row.locked
    BY <1>1, NewHashRow
  <2> HIDE DEF v
  <2>3. u.secret = row.secret /\ u.enabled = row.enabled
        /\ u.failures = row.failures /\ u.locked = row.locked
    BY <2>2, MustCleared
  <2> HIDE DEF u
  <2> QED
    BY <1>2, <1>3, <2>1, <2>3 DEF AllOps, Choosing, Clearing
<1>9. ASSUME NEW p \in Password, CliSetPassword(r, p)
      PROVE  \E u : Compute(r, "cli", NoLink, u, {"hash"}) /\ Careful("cli", row, u)
  <2> DEFINE v == Cleared(row)
             u == NewHash(v, p)
  <2>1. Compute(r, "cli", NoLink, u, {"hash"})
    BY <1>9 DEF CliSetPassword, Start
  <2>2. v \in Rows /\ v.secret = row.secret /\ v.enabled = row.enabled
        /\ v.failures = 0 /\ v.locked = "no"
    BY <1>1, ClearedRow
  <2> HIDE DEF v
  <2>3. u.secret = row.secret /\ u.enabled = row.enabled /\ u.failures = 0 /\ u.locked = "no"
    BY <2>2, NewHashRow
  <2> HIDE DEF u
  <2> QED
    BY <1>2, <1>4, <2>1, <2>3 DEF AllOps, Choosing, Clearing
<1>10. ASSUME NEW p \in Password, ResetPassword(r, p)
       PROVE  \E link, u : Compute(r, "reset", link, u, {"hash"}) /\ Careful("reset", row, u)
  <2> DEFINE v == Cleared(row)
             w == NewHash(v, p)
             u == [w EXCEPT !.must = FALSE]
  <2>1. Compute(r, "reset", req[r].link, u, {"hash"})
    BY <1>10 DEF ResetPassword
  <2>2. v \in Rows /\ v.secret = row.secret /\ v.enabled = row.enabled
        /\ v.failures = 0 /\ v.locked = "no"
    BY <1>1, ClearedRow
  <2> HIDE DEF v
  <2>3. w \in Rows /\ w.secret = row.secret /\ w.enabled = row.enabled
        /\ w.failures = 0 /\ w.locked = "no"
    BY <2>2, NewHashRow
  <2> HIDE DEF w
  <2>4. u.secret = row.secret /\ u.enabled = row.enabled /\ u.failures = 0 /\ u.locked = "no"
    BY <2>3, MustCleared
  <2> HIDE DEF u
  <2> QED
    BY <1>2, <1>4, <2>1, <2>4 DEF AllOps, Choosing, Clearing
<1>11. ASSUME NEW s \in Secret, StartSetup(r, s)
       PROVE  \E u : Compute(r, "setup", NoLink, u, {}) /\ Careful("setup", row, u)
  <2> DEFINE u == [row EXCEPT !.secret = s, !.enabled = FALSE]
  <2>1. Compute(r, "setup", NoLink, u, {}) /\ ~MfaEnabled(row)
    BY <1>11 DEF StartSetup
  <2>2. u.failures = row.failures /\ u.locked = row.locked
    BY <1>1 DEF Rows
  <2> HIDE DEF u
  <2> QED
    BY <1>3, <2>1, <2>2 DEF Guarded, AllOps, Clearing, Choosing
<1>12. ASSUME NEW s \in Secret, CliEnrolMfa(r, s)
       PROVE  \E u : Compute(r, "enrol", NoLink, u, {"enabled"}) /\ Careful("enrol", row, u)
  <2> DEFINE u == [row EXCEPT !.secret = s, !.enabled = TRUE]
  <2>1. Compute(r, "enrol", NoLink, u, {"enabled"})
    BY <1>12 DEF CliEnrolMfa
  <2>2. u.secret # NoSecret /\ u.enabled /\ u.failures = row.failures /\ u.locked = row.locked
    BY <1>1, NonesAreFresh DEF Rows
  <2> HIDE DEF u
  <2> QED
    BY <1>3, <2>1, <2>2 DEF Guarded, AllOps, Clearing, Choosing
<1>13. ASSUME ConfirmSetup(r)
       PROVE  \E u : Compute(r, "confirm", NoLink, u, {"enabled"}) /\ Careful("confirm", row, u)
  <2> DEFINE u == [row EXCEPT !.enabled = TRUE]
  <2>1. Compute(r, "confirm", NoLink, u, {"enabled"})
    BY <1>13 DEF ConfirmSetup, Start
  <2>2. u.secret = row.secret /\ u.enabled /\ u.failures = row.failures /\ u.locked = row.locked
    BY <1>1 DEF Rows
  <2> HIDE DEF u
  <2> QED
    BY <1>2, <1>3, <2>1, <2>2 DEF AllOps, Clearing, Choosing
<1>14. ASSUME DisableMfa(r) \/ CliResetMfa(r)
       PROVE  \E op, u : Compute(r, op, NoLink, u, {}) /\ Careful(op, row, u)
  <2> DEFINE u == NoMfa(row)
  <2>1. PICK op \in {"disable", "clear"} :
           Compute(r, op, NoLink, u, {}) /\ (op = "disable" => ~row.admin)
    BY <1>14 DEF DisableMfa, CliResetMfa, Start
  <2>2. u.failures = row.failures /\ u.locked = row.locked
    BY <1>1 DEF Rows, NoMfa
  <2> HIDE DEF u
  <2> QED
    BY <1>3, <2>1, <2>2 DEF Guarded, AllOps, Clearing, Choosing
<1>15. ASSUME Forgot(r)
       PROVE  Compute(r, "forgot", NoLink, row, {}) /\ Careful("forgot", row, row)
  BY <1>2, <1>3, <1>15 DEF Forgot, Start, AllOps, Clearing, Choosing
<1>16. ASSUME PanelEdit(r)
       PROVE  \E u : Compute(r, "panel", NoLink, u, {}) /\ Careful("panel", row, u)
  BY <1>16 DEF PanelEdit, Start, Guarded, Counted, Clearing
<1> QED
  BY <1>5, <1>6, <1>7, <1>8, <1>9, <1>10, <1>11, <1>12, <1>13, <1>14, <1>15, <1>16 DEF Arrive

\* Without overlap the row a request loaded is still there when it commits.
LEMMA AloneStep ==
    ASSUME Serial, SlotInv, Alone, [Next]_vars
    PROVE  Alone'
<1> USE DEF tokens, ghosts, histories, Alone
<1>1. /\ req \in [Request -> Slots] /\ \A r \in Request : req[r] \in Slots
      /\ \A r \in Request : Current(r) /\ ~req[r].late
      /\ \A r \in Request : req'[r] \in Slots
  BY NextSlotInv DEF SlotInv, TypeOK
<1>2. ASSUME NEW r \in Request, NEW k \in Link, FindLink(r, k) PROVE Alone'
  <2>1. req'[r].pc = "account" /\ ~req'[r].late
        /\ UNCHANGED <<torn, lost, undone, doubled, shared>>
    BY <1>1, <1>2 DEF FindLink, Free
  <2> QED
    BY <2>1 DEF NoOverlap, Current, Serial
<1>3. ASSUME NEW r \in Request, Arrive(r) \/ \E p \in Password : ResetPassword(r, p),
             ~\E k \in Link : FindLink(r, k)
      PROVE  Alone'
  <2>1. PICK op, link, u : \E fresh \in SUBSET {"hash", "enabled"} :
           Compute(r, op, link, u, fresh) /\ Careful(op, row, u)
    BY <1>3, RequestsAreCareful
  <2>2. PICK fresh \in SUBSET {"hash", "enabled"} : Compute(r, op, link, u, fresh)
    BY <2>1
  <2>3. /\ req'[r] = Slot(op, link, u, fresh) /\ row' = row /\ op \in Ops
        /\ UNCHANGED <<torn, lost, undone, doubled, shared>>
    BY <1>1, <2>2 DEF Compute, Slot
  <2>4. req'[r].op = op /\ req'[r].old = row /\ req'[r].new = u /\ ~req'[r].late
        /\ req'[r].writes = Writes(u, fresh)
    BY <2>3 DEF Slot, Free
  <2>5. row \in Rows /\ u \in Rows
    BY <1>1, <2>4 DEF Slots
  <2>6. /\ "failures" \in Writes(u, fresh) <=> u.failures # row.failures
        /\ "locked" \in Writes(u, fresh) <=> u.locked # row.locked
    BY <2>5, RowColumns
  <2>7. Current(r)'
    BY <2>1, <2>3, <2>4, <2>6 DEF Current
  <2> QED
    BY <2>3, <2>4, <2>7 DEF NoOverlap, Serial
<1>4. ASSUME NEW r \in Request, SweepLinks(r) PROVE Alone'
  <2>1. req'[r] = [req[r] EXCEPT !.pc = "commit", !.swept = links \ used]
        /\ UNCHANGED <<row, torn, lost, undone, doubled, shared>> /\ req[r].pc = "sweep"
    BY <1>1, <1>4 DEF SweepLinks
  <2>2. req'[r].op = req[r].op /\ req'[r].old = req[r].old /\ req'[r].new = req[r].new
        /\ req'[r].writes = req[r].writes /\ req'[r].late = req[r].late
    BY <1>1, <2>1 DEF Slots
  <2>3. Current(r)'
    BY <1>1, <2>1, <2>2 DEF Current
  <2> QED
    BY <1>1, <2>1, <2>2, <2>3 DEF NoOverlap, Serial
<1>5. ASSUME NEW r \in Request, Abort(r) PROVE Alone'
  <2>1. req'[r].pc = "idle" /\ ~req'[r].late
        /\ UNCHANGED <<torn, lost, undone, doubled, shared>>
    BY <1>1, <1>5 DEF Abort, Free
  <2> QED
    BY <2>1 DEF NoOverlap, Serial, Current
<1>6. ASSUME NEW r \in Request, Commit(r) PROVE Alone'
  <2>1. req'[r].pc = "idle" /\ ~req'[r].late
    BY <1>6 DEF Commit, Free
  <2>2. torn' => "panel" \in Ops
    BY <1>1, <1>6 DEF Commit, RecordCredentials, NoOverlap, Current
  <2>3. ~undone'
    BY <1>1, <1>6 DEF Commit, RecordCredentials, NoOverlap, Current
  <2>4. lost' => "panel" \in Ops
    <3>1. row.failures = req[r].old.failures /\ row.failures \in Nat /\ req[r].op \in Ops
      BY <1>1, <1>6 DEF Commit, Current, SlotInv, TypeOK, Rows
    <3>2. ~(row.failures > req[r].old.failures)
      BY <3>1
    <3> QED
      BY <1>6, <3>1, <3>2 DEF Commit, RecordUse, NoOverlap
  <2>5. ~doubled' /\ shared' = {}
    BY <1>1, <1>6 DEF Commit, RecordUse, NoOverlap, Serial
  <2> QED
    BY <2>1, <2>2, <2>3, <2>4, <2>5 DEF NoOverlap, Serial, Current
<1>7. CASE LapseLock \/ LapseChallenge \/ \E k \in Link : LapseLink(k)
  <2>1. UNCHANGED <<req, torn, lost, undone, doubled, shared>>
    BY <1>7 DEF LapseLock, LapseChallenge, LapseLink
  <2>2. /\ row'.secret = row.secret /\ row'.enabled = row.enabled /\ row'.admin = row.admin
        /\ row'.hash = row.hash /\ row'.failures = row.failures
        /\ row'.locked = row.locked \/ (row.locked = "yes" /\ row'.locked = "lapsed")
    BY <1>7 DEF LapseLock, LapseChallenge, LapseLink, Locked, SlotInv, TypeOK, Rows
  <2>3. ASSUME NEW r \in Request PROVE Current(r)'
    BY <1>1, <2>1, <2>2 DEF Current
  <2> QED
    BY <1>1, <2>1, <2>3 DEF NoOverlap
<1>8. CASE UNCHANGED vars
  BY <1>1, <1>8 DEF vars, NoOverlap, Current
<1> QED
  BY <1>2, <1>3, <1>4, <1>5, <1>6, <1>7, <1>8 DEF Next

\* Alone holds of every behaviour without overlap.
LEMMA AloneHolds ==
    ASSUME Serial
    PROVE  Spec => [](SlotInv /\ Alone)
<1>1. Init => Alone
  BY DEF Init, Alone, NoOverlap, Current, Free
<1> QED
  BY <1>1, InitSlotInv, NextSlotInv, AloneStep, PTL DEF Spec

\* manage_admin.py, enrol_mfa and the MFA handlers: one request at a time and
\* no hand on the panel, the secret asked for is one a code was checked against.
THEOREM SerialEnrolment ==
    ASSUME Serial, "panel" \notin Ops
    PROVE  Spec => []EnabledIsVerified
<1>1. Alone /\ EnabledIsVerifiedUnlessTorn => EnabledIsVerified
  BY DEF Alone, NoOverlap, EnabledIsVerifiedUnlessTorn
<1> QED
  BY <1>1, AloneHolds, SecretWasVerified, PTL

\* service.py, disable_mfa: one request at a time, an administrator's second
\* factor is ended by manage_admin.py reset-mfa, on the panel, and by nothing else.
THEOREM SerialAdmins ==
    ASSUME Serial
    PROVE  Spec => AdminKeepsMfa
<1>1. SlotInv /\ Alone /\ [Next]_vars =>
         [row.admin /\ MfaEnabled(row) /\ ~MfaEnabled(row)' =>
             \E r \in Request : Commit(r) /\ req[r].op \in {"clear", "panel"}]_vars
  <2> SUFFICES ASSUME SlotInv, Alone, [Next]_vars,
                      row.admin, MfaEnabled(row), ~MfaEnabled(row)'
               PROVE  \E r \in Request : Commit(r) /\ req[r].op \in {"clear", "panel"}
    OBVIOUS
  <2>1. PICK r \in Request : Commit(r)
    BY Quiet, LapseKeeps DEF MfaEnabled
  <2>2. CASE req[r].op \notin {"clear", "panel"}
    <3>1. req[r].new.enabled /\ req[r].new.secret # NoSecret
      BY <2>1, <2>2 DEF Alone, Current, Careful, Guarded, Commit, MfaEnabled
    <3> QED
      BY <2>1, <3>1, CommitFacts DEF MfaEnabled
  <2> QED
    BY <2>1, <2>2
<1> QED
  BY <1>1, AloneHolds, PTL DEF Spec, AdminKeepsMfa

\* README_IDENTITY.md, "5 failed attempts", and service.py, change_password and
\* reset_password: what the invariants except needs an overlap.  One request at
\* a time, the password in force is the one last set on purpose, a reset link
\* works once, one link is open; and with no hand on the panel failed attempts
\* stay below the limit.
THEOREM SerialCredentials ==
    ASSUME Serial
    PROVE  Spec => [](/\ PasswordSticks /\ respent = {} /\ \A j, k \in links \ used : j = k
                      /\ "panel" \notin Ops => GuessesAreBounded)
<1>1. Alone /\ PasswordSticksUnlessUndone => PasswordSticks
  BY DEF Alone, NoOverlap, PasswordSticksUnlessUndone
<1>2. Alone /\ LinksAreOneShot => respent = {}
  BY DEF Alone, NoOverlap, LinksAreOneShot
<1>3. Alone /\ OneOpenLink => \A j, k \in links \ used : j = k
  BY DEF Alone, NoOverlap, OneOpenLink
<1>4. Alone /\ GuessesAreBoundedUnlessLost => ("panel" \notin Ops => GuessesAreBounded)
  BY DEF Alone, NoOverlap, GuessesAreBoundedUnlessLost
<1> QED
  BY <1>1, <1>2, <1>3, <1>4, AloneHolds, PasswordHolds, LinksOneShot, LinksExclusive,
     GuessesBounded, PTL

\* A commit is a step of the limiter, or leaves count and lock alone.
LEMMA CommitLimits ==
    ASSUME SlotInv, Alone, "panel" \notin Ops, NEW r \in Request, Commit(r)
    PROVE  Limiter!Next \/ UNCHANGED <<row.failures, Locked(row)>>
<1> DEFINE q == req[r]
<1> USE DEF Limiter!Next, Locked
<1>1. /\ q.old.failures = row.failures /\ q.op # "panel"
      /\ q.old.locked = row.locked \/ (q.old.locked = "yes" /\ row.locked = "lapsed")
      /\ Counted(q.op, q.old, q.new)
      /\ "failures" \in q.writes <=> q.new.failures # q.old.failures
      /\ "locked" \in q.writes <=> q.new.locked # q.old.locked
  BY DEF Alone, Current, Careful, Commit
<1>2. /\ row'.failures = q.new.failures
      /\ q.new.locked # q.old.locked => row'.locked = q.new.locked
      /\ q.new.locked = q.old.locked => row'.locked = row.locked
      /\ row.failures \in 0 .. (MaxFailed - 1) /\ q.old \in Rows
  BY <1>1, CommitFacts DEF Rows, Slots
<1>3. CASE q.op = "wrong"
  <2>1. /\ ~Locked(row) /\ q.old.locked = row.locked
        /\ q.new.failures = Failed(q.old).failures /\ q.new.locked = Failed(q.old).locked
    BY <1>1, <1>3 DEF Counted
  <2>2. CASE row.failures + 1 >= MaxFailed
    <3>1. q.new.failures = 0 /\ q.new.locked = "yes" /\ row.failures + 1 = MaxFailed
      BY <1>1, <1>2, <2>1, <2>2, MaxFailedIsPositive DEF Failed, Rows
    <3>2. Limiter!Bar
      BY <1>2, <2>1, <3>1 DEF Limiter!Bar
    <3> QED
      BY <3>2
  <2>3. CASE ~(row.failures + 1 >= MaxFailed)
    <3>1. q.new.failures = row.failures + 1 /\ q.new.locked = row.locked
      BY <1>1, <1>2, <2>1, <2>3 DEF Failed, Rows
    <3>2. row.failures + 1 < MaxFailed
      BY <1>2, <2>3, MaxFailedIsPositive
    <3>3. Limiter!Miss
      BY <1>2, <2>1, <3>1, <3>2 DEF Limiter!Miss
    <3> QED
      BY <3>3
  <2> QED
    BY <2>2, <2>3
<1>4. CASE q.op \in {"login", "challenge", "code"}
  <2>1. q.new.failures = 0 /\ q.new.locked = "no" /\ q.old.locked = row.locked /\ ~Locked(row)
    BY <1>1, <1>4 DEF Counted, Clearing
  <2>2. Limiter!Hit
    BY <1>2, <2>1 DEF Limiter!Hit
  <2> QED
    BY <2>2
<1>5. CASE q.op \in {"reset", "cli"}
  <2>1. q.new.failures = 0 /\ q.new.locked = "no"
    BY <1>1, <1>5 DEF Counted, Clearing
  <2>2. Limiter!Restart
    BY <1>1, <1>2, <2>1 DEF Limiter!Restart
  <2> QED
    BY <2>2
<1>6. CASE q.op \notin Clearing \cup {"wrong"}
  BY <1>1, <1>2, <1>6 DEF Counted
<1> QED
  BY <1>3, <1>4, <1>5, <1>6 DEF Clearing

\* README_IDENTITY.md, brute force: for any limit, one request at a time and no
\* hand on the panel, the stored count and lock implement the limiter.
THEOREM SerialGuessing ==
    ASSUME Serial, "panel" \notin Ops
    PROVE  Spec => LimitsGuesses
<1>1. Init => Limiter!Init
  BY DEF Init, Rows, Locked, Limiter!Init
<1>2. SlotInv /\ Alone /\ [Next]_vars => [Limiter!Next]_<<row.failures, Locked(row)>>
  <2> SUFFICES ASSUME SlotInv, Alone, [Next]_vars
               PROVE  Limiter!Next \/ UNCHANGED <<row.failures, Locked(row)>>
    OBVIOUS
  <2>1. CASE \E r \in Request : Commit(r)
    BY <2>1, CommitLimits
  <2>2. CASE LapseLock
    <3>1. Limiter!Lift
      BY <2>2, LapseKeeps DEF LapseLock, Locked, Limiter!Lift
    <3> QED
      BY <3>1 DEF Limiter!Next
  <2>3. CASE row' = row
    BY <2>3 DEF Locked
  <2> QED
    BY <2>1, <2>2, <2>3, Quiet
<1> QED
  BY <1>1, <1>2, AloneHolds, PTL DEF Spec, LimitsGuesses, Limiter!Spec
=============================================================================
