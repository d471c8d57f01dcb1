------------------------------- MODULE SignIn -------------------------------
(***************************************************************************)
(* The credentials of one account of app/modules/identity: password, failed *)
(* attempts and lock, two-factor secret, reset links.                      *)
(*                                                                         *)
(* A request loads the users row once, computes on the object in memory,   *)
(* and COMMIT writes the columns it changed, with the values computed from *)
(* what it loaded.  Between the two, other requests commit.  An UPDATE     *)
(* that waits for the row lock has not been seen by anyone, so UPDATE and  *)
(* COMMIT are one action here; lock waits are the subject of Sessions, as  *)
(* are the refresh tokens these operations issue and revoke.  The account  *)
(* stays active and undeleted.                                             *)
(***************************************************************************)
EXTENDS Naturals, FiniteSets

CONSTANTS
    Password,
    NoPassword,  \* password_hash IS NULL
    Secret,      \* TOTP secrets that may ever be generated (a bound)
    NoSecret,
    Link,        \* rows password_reset_tokens may ever get (a bound)
    NoLink,
    Request,
    Ops,         \* operations clients call in this instance
    Edited,      \* columns the panel changes in this instance (a bound)
    MaxFailed,   \* settings.MAX_FAILED_LOGINS
    MaxServed,   \* bound: requests accepted in a behaviour; 0 for no bound
    CanAbort

ASSUME NonesAreFresh ==
    NoPassword \notin Password /\ NoSecret \notin Secret /\ NoLink \notin Link
ASSUME MaxFailedIsPositive == MaxFailed \in Nat \ {0}
ASSUME MaxServedIsNat == MaxServed \in Nat
ASSUME CanAbortIsBoolean == CanAbort \in BOOLEAN

VARIABLES
    row,         \* the committed users row
    links,       \* committed rows of password_reset_tokens
    used,        \* those with used_at IS NOT NULL
    lapsed,      \* those with expires_at in the past
    challenge,   \* is an unexpired MFA challenge out?
    req,
    served,      \* accepted requests, counted only under a bound
    drawn,       \* history: TOTP secrets generated so far
    verified,    \* history: secrets a code was checked against
    torn,        \* history: setup and confirmation crossed, or the panel enabled
    chosen,      \* history: the password last set on purpose
    temporary,   \* history: and was it set by somebody else?
    undone,      \* history: a stale rehash has overwritten it
    guesses,     \* history: failed attempts since the last success or lock
    lost,        \* history: a stale count or the panel's overwrote another one
    spent, respent, shared, \* history: links used, used again, used together
    doubled      \* history: overlapping requests for a link

tokens == <<links, used, lapsed>>
histories == <<drawn, verified, torn, chosen, temporary, undone, guesses, lost,
               spent, respent, shared, doubled>>
ghosts == <<served, histories>>
vars == <<row, tokens, challenge, req, ghosts>>

-----------------------------------------------------------------------------
Rows == [hash     : [pwd : Password \cup {NoPassword}, weak : BOOLEAN],
         failures : 0 .. (MaxFailed - 1),
         locked   : {"no", "yes", "lapsed"},   \* locked_until: NULL, future, past
         secret   : Secret \cup {NoSecret},    \* totp_secret
         enabled  : BOOLEAN,                   \* totp_enabled_at IS NOT NULL
         must     : BOOLEAN,                   \* must_change_password
         admin    : BOOLEAN]

Columns == {"hash", "failures", "locked", "secret", "enabled", "must", "admin"}

MfaEnabled(u) == u.enabled /\ u.secret # NoSecret

Clearing  == {"login", "challenge", "code", "reset", "cli"}
Choosing  == {"password", "reset", "cli"}
AllOps    == Clearing \cup Choosing \cup {"wrong", "setup", "confirm", "disable", "clear",
                                          "enrol", "forgot", "panel"}

Blank == [hash |-> [pwd |-> NoPassword, weak |-> FALSE], failures |-> 0, locked |-> "no",
          secret |-> NoSecret, enabled |-> FALSE, must |-> FALSE, admin |-> FALSE]

Free == [pc |-> "idle", op |-> "wrong", link |-> NoLink, old |-> Blank, new |-> Blank,
         writes |-> {}, swept |-> {}, late |-> FALSE]

Busy(r) == req[r].pc # "idle"

Slots == [pc : {"idle", "account", "sweep", "commit"}, op : AllOps,
          link : Link \cup {NoLink},   \* the reset link presented
          old : Rows, new : Rows,      \* the row as loaded, and as computed
          writes : SUBSET Columns,     \* columns COMMIT writes
          swept : SUBSET Link,         \* links a "forgot" invalidates
          late : BOOLEAN]              \* history: overlapped another "forgot"

\* Stored hashes may predate a change of cost; two-factor authentication may
\* be off, pending or on; a lock may have run out.  admin_create_user leaves
\* an account without a password and with a link to set one.
Init ==
    /\ row \in Rows
    /\ row.locked # "yes"
    /\ row.hash.weak => row.hash.pwd # NoPassword
    /\ row.enabled => row.secret # NoSecret
    /\ links \in (IF row.hash.pwd = NoPassword THEN {{k} : k \in Link} ELSE {{}})
    /\ used = {} /\ lapsed = {} /\ challenge = FALSE
    /\ req = [r \in Request |-> Free] /\ served = 0
    /\ drawn = {row.secret} \ {NoSecret}
    /\ verified = (IF row.enabled THEN {row.secret} ELSE {})
    /\ chosen = row.hash.pwd /\ temporary = row.must
    /\ guesses = row.failures
    /\ torn = FALSE /\ undone = FALSE /\ lost = FALSE /\ doubled = FALSE
    /\ spent = {} /\ respent = {} /\ shared = {}

-----------------------------------------------------------------------------
(* A request arrives, is checked against the rows it loads, and computes.  *)
(* A request that is refused without a write is left out.                  *)

\* Mutant: every column is written, as if the object were saved whole.
WritesAll(u, fresh) == Columns

\* The columns an UPDATE sets: those whose value differs from the loaded one.
\* A new hash or timestamp always does.
Writes(u, fresh) == {c \in Columns : u[c] # row[c]} \cup fresh

Accept ==
    IF MaxServed = 0 THEN UNCHANGED served
    ELSE served < MaxServed /\ served' = served + 1

\* The request has loaded the row and will write u over it.
Compute(r, op, link, u, fresh) ==
    /\ op \in Ops
    /\ req' = [req EXCEPT ![r] =
                 [Free EXCEPT !.pc = IF op = "forgot" THEN "sweep" ELSE "commit",
                              !.op = op, !.link = link, !.old = row, !.new = u,
                              !.writes = Writes(u, fresh)]]
    /\ UNCHANGED <<row, tokens, challenge, torn, verified, chosen, temporary, undone,
                   guesses, lost, spent, respent, shared, doubled>>

Start(r, op, u, fresh) ==
    ~Busy(r) /\ Accept /\ Compute(r, op, NoLink, u, fresh) /\ UNCHANGED drawn

\* Mutant: the count is compared before it is increased.
FailedLate(u) ==
    IF u.failures >= MaxFailed
    THEN [u EXCEPT !.failures = 0, !.locked = "yes"]
    ELSE [u EXCEPT !.failures = @ + 1]

\* _register_failed_attempt
Failed(u) ==
    IF u.failures + 1 >= MaxFailed
    THEN [u EXCEPT !.failures = 0, !.locked = "yes"]
    ELSE [u EXCEPT !.failures = @ + 1]

Cleared(u) == [u EXCEPT !.failures = 0, !.locked = "no"]

NewHash(u, p) == [u EXCEPT !.hash = [pwd |-> p, weak |-> FALSE]]

Locked(u) == u.locked = "yes"

\* login with another password; complete_mfa with another code.
WrongPassword(r) == ~Locked(row) /\ Start(r, "wrong", Failed(row), {})
WrongCode(r) == challenge /\ ~Locked(row) /\ Start(r, "wrong", Failed(row), {})

\* needs_rehash: the same password under the current cost.
Rehashed(u) == IF u.hash.weak THEN NewHash(u, u.hash.pwd) ELSE u

\* login with the password: a session, or a challenge when MFA is on.  (The
\* panel's own sign-in never asks for a code and writes no column of the row: it
\* is OpsLogin of Accounts.)
Login(r) ==
    /\ row.hash.pwd # NoPassword /\ ~Locked(row)
    /\ Start(r, IF MfaEnabled(row) THEN "challenge" ELSE "login", Rehashed(Cleared(row)), {})

\* complete_mfa asks for the challenge and a code of the stored secret; neither
\* the password nor mfa_enabled is looked at again.
CompleteMfa(r) ==
    /\ challenge /\ ~Locked(row) /\ row.secret # NoSecret
    /\ Start(r, "code", Cleared(row), {})

\* change_password: PendingUser, so must_change_password does not stop it.
ChangePassword(r, p) ==
    /\ row.hash.pwd # NoPassword /\ p # row.hash.pwd
    /\ Start(r, "password", [NewHash(row, p) EXCEPT !.must = FALSE], {"hash"})

\* reset_password loads the link, then the account.
FindLink(r, k) ==
    /\ ~Busy(r) /\ Accept /\ "reset" \in Ops
    /\ k \in links \ (used \cup lapsed)
    /\ req' = [req EXCEPT ![r] = [Free EXCEPT !.pc = "account", !.op = "reset", !.link = k]]
    /\ UNCHANGED <<row, tokens, challenge, histories>>

ResetPassword(r, p) ==
    /\ req[r].pc = "account"
    /\ Compute(r, "reset", req[r].link,
               [NewHash(Cleared(row), p) EXCEPT !.must = FALSE], {"hash"})
    /\ UNCHANGED <<served, drawn>>

\* manage_admin.py set-password.
CliSetPassword(r, p) == Start(r, "cli", NewHash(Cleared(row), p), {"hash"})

\* get_ready_user stands before the MFA endpoints.
Ready == ~row.must

\* Mutant: an enabled second factor gets a new secret and stays enabled.
SetupOverEnabled(r, s) ==
    /\ Ready /\ s \in Secret \ drawn
    /\ ~Busy(r) /\ Accept
    /\ Compute(r, "setup", NoLink, [row EXCEPT !.secret = s], {})
    /\ drawn' = drawn \cup {s}

\* start_mfa_setup
StartSetup(r, s) ==
    /\ Ready /\ ~MfaEnabled(row) /\ s \in Secret \ drawn
    /\ ~Busy(r) /\ Accept
    /\ Compute(r, "setup", NoLink, [row EXCEPT !.secret = s, !.enabled = FALSE], {})
    /\ drawn' = drawn \cup {s}

\* confirm_mfa_setup, with a code of the secret it loaded; again is allowed.
ConfirmSetup(r) ==
    /\ Ready /\ row.secret # NoSecret
    /\ Start(r, "confirm", [row EXCEPT !.enabled = TRUE], {"enabled"})

NoMfa(u) == [u EXCEPT !.secret = NoSecret, !.enabled = FALSE]

\* Mutant: an administrator may switch it off.
DisableAnyMfa(r) ==
    /\ Ready /\ MfaEnabled(row) /\ row.hash.pwd # NoPassword
    /\ Start(r, "disable", NoMfa(row), {})

\* disable_mfa, with password and code; ADMIN_REQUIRES_2FA.
DisableMfa(r) ==
    /\ Ready /\ MfaEnabled(row) /\ row.hash.pwd # NoPassword /\ ~row.admin
    /\ Start(r, "disable", NoMfa(row), {})

\* manage_admin.py reset-mfa: alone, or followed by an enrolment that checks a
\* code and is committed with it.
CliResetMfa(r) == Start(r, "clear", NoMfa(row), {})
CliEnrolMfa(r, s) ==
    /\ ~Busy(r) /\ Accept /\ s \in Secret \ drawn
    /\ Compute(r, "enrol", NoLink, [row EXCEPT !.secret = s, !.enabled = TRUE], {"enabled"})
    /\ drawn' = drawn \cup {s}

\* The panel's form writes every field it shows: these four may be as they were
\* when the page was opened, or typed in.  (Bounds: counts below the limit, Edited.)
PanelEdit(r) ==
    \E n \in 0 .. (MaxFailed - 1), l \in {"no", "yes", "lapsed"}, on, must \in BOOLEAN :
        LET u == [row EXCEPT !.failures = n, !.locked = l, !.enabled = on, !.must = must]
        IN  (\A c \in Columns \ Edited : u[c] = row[c]) /\ Start(r, "panel", u, {})

\* request_password_reset.  Bound: it arrives only while Link has a row for it.
Forgot(r) ==
    /\ Cardinality({s \in Request : req[s].op = "forgot"}) < Cardinality(Link \ links)
    /\ Start(r, "forgot", row, {})

Arrive(r) ==
    \/ WrongPassword(r) \/ WrongCode(r) \/ Login(r) \/ CompleteMfa(r)
    \/ \E p \in Password : ChangePassword(r, p) \/ CliSetPassword(r, p)
    \/ \E k \in Link : FindLink(r, k)
    \/ \E s \in Secret : StartSetup(r, s) \/ CliEnrolMfa(r, s)
    \/ ConfirmSetup(r) \/ DisableMfa(r) \/ CliResetMfa(r)
    \/ PanelEdit(r) \/ Forgot(r)

-----------------------------------------------------------------------------
(* An accepted request. *)

\* Mutant: earlier links stay open.
SweepNothing(r) ==
    /\ req[r].pc = "sweep"
    /\ req' = [req EXCEPT ![r].pc = "commit"]
    /\ UNCHANGED <<row, tokens, challenge, ghosts>>

\* invalidate_password_resets: the snapshot holds the links committed by now.
SweepLinks(r) ==
    /\ req[r].pc = "sweep"
    /\ req' = [req EXCEPT ![r].pc = "commit", ![r].swept = links \ used]
    /\ UNCHANGED <<row, tokens, challenge, ghosts>>

\* What the row becomes: the columns written, over the row of today.
Merge(r) ==
    [c \in Columns |-> IF c \in req[r].writes THEN req[r].new[c] ELSE row[c]]

\* Mutant: used_at is not stamped by the reset itself.
UsedBySweep(r) == used \cup req[r].swept

\* used_at of a link that was presented, or that a newer one replaces.
UsedAfter(r) == used \cup req[r].swept \cup (IF req[r].op = "reset" THEN {req[r].link} ELSE {})

\* History of passwords and of the second factor.
RecordCredentials(r) ==
    LET q == req[r] IN
    /\ chosen' = IF q.op \in Choosing THEN q.new.hash.pwd ELSE chosen
    /\ temporary' = IF q.op \in Choosing THEN q.op = "cli" ELSE temporary
    /\ undone' = IF q.op \in Choosing THEN FALSE
                 ELSE \/ undone
                      \/ /\ q.op \in {"login", "challenge"} /\ q.old.hash.weak
                         /\ row.hash.pwd # q.old.hash.pwd
    /\ verified' = verified \cup (CASE q.op = "confirm" -> {q.old.secret}
                                    [] q.op = "enrol"   -> {q.new.secret}
                                    [] OTHER            -> {})
    /\ torn' = \/ torn
               \/ q.op = "confirm" /\ row.secret # q.old.secret
               \/ q.op = "setup" /\ row.enabled /\ ~q.old.enabled
               \/ q.op = "panel" /\ "enabled" \in q.writes /\ q.new.enabled

\* History of attempts and links.
RecordUse(r) ==
    LET q == req[r]
        k == IF q.op = "reset" THEN {q.link} ELSE {}
    IN /\ guesses' = IF q.op \in Clearing \/ (q.op = "wrong" /\ Locked(q.new)) THEN 0
                     ELSE IF q.op = "wrong" /\ guesses < MaxFailed THEN guesses + 1
                     ELSE guesses
       /\ lost' = \/ lost
                  \/ q.op = "wrong" /\ row.failures > q.old.failures
                  \/ q.op = "panel" /\ "failures" \in q.writes
       /\ spent' = spent \cup k
       /\ respent' = respent \cup (k \cap spent)
       /\ shared' = shared \cup {l \in k : \E s \in Request \ {r} :
                                    req[s].op = "reset" /\ req[s].link = l}
       /\ doubled' = (doubled \/ q.late)

Commit(r) ==
    /\ req[r].pc = "commit"
    /\ row' = Merge(r)
    /\ used' = UsedAfter(r)
    /\ IF req[r].op = "forgot" THEN \E k \in Link \ links : links' = links \cup {k}
                               ELSE links' = links
    /\ challenge' = (challenge \/ req[r].op = "challenge")
    /\ RecordCredentials(r) /\ RecordUse(r)
    /\ req' = [s \in Request |->
                 IF s = r THEN Free
                 ELSE [req[s] EXCEPT !.late = @ \/ (req[r].op = "forgot" /\ req[s].op = "forgot")]]
    /\ UNCHANGED <<lapsed, served, drawn>>

\* Cancelled, failed or crashed before COMMIT.
Abort(r) ==
    /\ CanAbort /\ Busy(r)
    /\ req' = [req EXCEPT ![r] = Free]
    /\ UNCHANGED <<row, tokens, challenge, ghosts>>

\* Time passes.
LapseLock ==
    /\ Locked(row)
    /\ row' = [row EXCEPT !.locked = "lapsed"]
    /\ UNCHANGED <<tokens, challenge, req, ghosts>>

LapseLink(k) ==
    /\ k \in links \ lapsed
    /\ lapsed' = lapsed \cup {k}
    /\ UNCHANGED <<row, links, used, challenge, req, ghosts>>

LapseChallenge ==
    /\ challenge /\ challenge' = FALSE
    /\ UNCHANGED <<row, tokens, req, ghosts>>

Next ==
    \/ \E r \in Request : \/ Arrive(r) \/ SweepLinks(r) \/ Commit(r) \/ Abort(r)
                          \/ \E p \in Password : ResetPassword(r, p)
    \/ LapseLock \/ LapseChallenge \/ \E k \in Link : LapseLink(k)

Spec == Init /\ [][Next]_vars

-----------------------------------------------------------------------------
(* Properties. *)

\* Types.  The stored count stays below the limit, whoever writes it.
TypeOK ==
    /\ row \in Rows
    /\ links \subseteq Link /\ used \subseteq links /\ lapsed \subseteq links
    /\ challenge \in BOOLEAN
    /\ req \in [Request -> Slots] /\ served \in Nat
    /\ drawn \subseteq Secret /\ verified \subseteq drawn
    /\ torn \in BOOLEAN /\ undone \in BOOLEAN /\ lost \in BOOLEAN /\ doubled \in BOOLEAN
    /\ chosen \in Password \cup {NoPassword} /\ temporary \in BOOLEAN
    /\ guesses \in 0 .. MaxFailed
    /\ spent \subseteq links /\ respent \subseteq spent /\ shared \subseteq links

\* service.py: a successful change, reset or CLI reset decides the password;
\* upgrading a hash is transparent.  True when requests do not overlap.
PasswordSticks == row.hash.pwd = chosen

\* The password is the one last set on purpose, whatever overlaps, unless a
\* login that had loaded the previous hash rehashed it afterwards.
PasswordSticksUnlessUndone == undone \/ PasswordSticks

\* manage_admin.py: "Enabling without verification is how an administrator locks
\* themselves out": the secret asked for is one a code was checked against.
EnabledIsVerified == MfaEnabled(row) => row.secret \in verified

\* It can be another one only after a setup crossed a confirmation, or after the
\* panel, which has no code to check, set the date of enrolment.
EnabledIsVerifiedUnlessTorn == torn \/ EnabledIsVerified

\* README_IDENTITY.md: "5 failed attempts" lock the account.
GuessesAreBounded == guesses < MaxFailed

\* More failed attempts go without a lock only after a request has written a
\* count computed from one that had been increased meanwhile, or the panel has.
GuessesAreBoundedUnlessLost == lost \/ GuessesAreBounded

\* A lock in force ends by time, by a reset of the password, by the panel's form
\* (which need not have shown the lock), or by a sign-in that had loaded the
\* account with an earlier lock already run out; a sign-in that loaded it
\* unlocked does not touch the column.
LockHolds ==
    [][Locked(row) /\ row'.locked = "no" =>
          \E r \in Request : /\ Commit(r)
                             /\ \/ req[r].op \in {"reset", "cli", "panel"}
                                \/ req[r].op \in Clearing /\ req[r].old.locked = "lapsed"]_vars

\* A reset link sets a password twice only for requests that presented it
\* together; presented again after a commit it is refused.
LinksAreOneShot == respent \subseteq shared

\* Asking for a link again closes the previous one, unless the requests overlap.
OneOpenLink == doubled \/ \A j, k \in links \ used : j = k

\* README_IDENTITY.md: "Admins cannot disable 2FA"; reset-mfa of manage_admin.py
\* does it for them, and the panel's form can.
\* True when requests do not overlap.
AdminKeepsMfa ==
    [][row.admin /\ MfaEnabled(row) /\ ~MfaEnabled(row)' =>
          \E r \in Request : Commit(r) /\ req[r].op \in {"clear", "panel"}]_vars

\* models.py: must_change_password is "set on a bootstrap/recovery account": a
\* password set by somebody else is to be changed.
RecoveryIsTemporary == temporary => row.must
-----------------------------------------------------------------------------
(* The stored count and lock, seen as a GuessLimiter. *)

Limiter == INSTANCE GuessLimiter WITH misses <- row.failures, barred <- Locked(row)

\* README_IDENTITY.md, brute force: with one request at a time, and the panel's
\* form left alone, the count and the lock are those of a limiter.
LimitsGuesses == Limiter!Spec
=============================================================================
