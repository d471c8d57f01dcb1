------------------------------ MODULE Sessions ------------------------------
(***************************************************************************)
(* The refresh-token sessions of app/modules/identity: the refresh_tokens  *)
(* table, the columns of users that the session code reads and writes, and *)
(* the requests that work on them concurrently.                            *)
(*                                                                         *)
(* Every HTTP request (and every run of scripts/manage_admin.py) owns one  *)
(* AsyncSession, hence one READ COMMITTED transaction.  A request is a     *)
(* slot of Request whose pc names the next SQL statement it will send; an  *)
(* `await` lies between two statements, so one statement is one action.    *)
(* What a request wrote stays in its slot, with the row locks that protect *)
(* it, until Commit publishes it or Abort drops it.  The other variables   *)
(* hold committed rows only, which is exactly what a SELECT of another     *)
(* transaction sees.                                                       *)
(***************************************************************************)
EXTENDS Naturals, FiniteSets

CONSTANTS
    User,       \* accounts (rows of users)
    Token,      \* rows refresh_tokens may ever get (the bound on issuance)
    Request,    \* request slots: how many transactions may overlap
    NoUser, NoToken,
    Ops,        \* the operations clients call in this instance
    MaxGen,     \* bound: closing operations started per account
    CanAbort    \* may a request be cancelled, fail or crash before COMMIT?

ASSUME NoneAreFresh == NoUser \notin User /\ NoToken \notin Token
ASSUME MaxGenIsNat  == MaxGen \in Nat
ASSUME CanAbortIsBoolean == CanAbort \in BOOLEAN

VARIABLES
    issued,     \* committed rows of refresh_tokens
    owner,      \* user_id
    family,     \* family_id, named by the family's first token
    parent,     \* parent_id; a first token (parent_id IS NULL) is its own
    rotated,    \* rows with rotated_at IS NOT NULL
    revoked,    \* rows with revoked_at IS NOT NULL
    expired,    \* rows with expires_at in the past
    active,     \* users with is_active
    deleted,    \* users with deleted_at IS NOT NULL
    req,        \* request slots
    gen,        \* history: closing operations committed per account
    born,       \* history: gen of the owner when the session logged in
    raced,      \* history: tokens that a closing operation could not see
    contested   \* history: tokens rotated while another request held them

rows  == <<issued, owner, family, parent, rotated, revoked>>
users == <<active, deleted>>
ghosts == <<gen, born, raced, contested>>
vars  == <<rows, expired, users, req, ghosts>>

-----------------------------------------------------------------------------
(* Operations, by what they do to the two tables. *)

\* Call repo.revoke_all_for_user and write the users row.
\*   password   change_password           reset       reset_password, CLI
\*   role       admin_change_role, grant_sourcer_role, CLI promote
ClosesAndWrites == {"password", "reset", "role", "deactivate", "delete"}
Closes       == ClosesAndWrites \cup {"logout_all"}
RevokeFamily == {"logout", "reuse"}
Issues       == {"login", "refresh"}
WritesActive == {"deactivate", "reactivate", "delete"}
AllOps       == Closes \cup RevokeFamily \cup Issues \cup {"reactivate", "purge"}
WritesUser   == ClosesAndWrites \cup Issues \cup {"reactivate"}

PCs == {"idle", "account", "clear", "insert", "select", "revoke", "flush", "commit"}

\* Mutants: autoflush=True, a bulk UPDATE sends the pending users UPDATE first;
\* a password change revokes nothing.
FollowAutoflush(op, pc) ==
    CASE pc = "idle" /\ op = "refresh"    -> "account"
      [] pc = "idle" /\ op = "login"      -> "insert"
      [] pc = "idle" /\ op \in WritesUser -> "flush"
      [] pc \in {"account", "clear"}       -> "insert"
      [] pc = "insert"                    -> "flush"
      [] pc = "flush" /\ op \in ClosesAndWrites -> "select"
      [] pc = "select"                    -> "revoke"
      [] pc \in {"revoke", "flush"}       -> "commit"
      [] OTHER                            -> "select"

FollowNoRevoke(op, pc) ==
    CASE pc = "idle" /\ op = "refresh"    -> "account"
      [] pc = "idle" /\ op = "login"      -> "insert"
      [] pc = "idle" /\ op \in {"reactivate", "password"} -> "flush"
      [] pc \in {"account", "clear"}       -> "insert"
      [] pc = "insert"                    -> "flush"
      [] pc = "select"                    -> "revoke"
      [] pc = "revoke"                    -> IF op \in WritesUser THEN "flush" ELSE "commit"
      [] pc = "flush"                     -> "commit"
      [] OTHER                            -> "select"

\* The statement an operation sends after the one named pc.  autoflush=False:
\* the pending users UPDATE leaves with the audit INSERT, after the tokens.
\* One that login left pending before it (Starts) goes ahead of the token.
Follow(op, pc) ==
    CASE pc = "idle" /\ op = "refresh"    -> "account"
      [] pc = "idle" /\ op = "login"      -> "insert"
      [] pc = "idle" /\ op = "reactivate" -> "flush"
      [] pc \in {"account", "clear"}       -> "insert"
      [] pc = "insert"                    -> "flush"
      [] pc = "select"                    -> "revoke"
      [] pc = "revoke"                    -> IF op \in WritesUser THEN "flush" ELSE "commit"
      [] pc = "flush"                     -> "commit"
      [] OTHER                            -> "select"

\* The first statement.  login and complete_mfa reset the failure counter and
\* may rehash the password: if that changes a column, flush() in
\* add_refresh_token sends the users UPDATE before the INSERT.
Starts(op) == {Follow(op, "idle")} \cup (IF op = "login" THEN {"clear"} ELSE {})

Free == [pc |-> "idle", op |-> "purge", user |-> NoUser, tok |-> NoToken,
         child |-> NoToken, gen |-> 0, act |-> TRUE, ahead |-> {}, next |-> NoToken,
         hits |-> {}, wrote |-> FALSE, known |-> {}, late |-> FALSE]

Busy(r) == req[r].pc # "idle"

Slots == [pc : PCs, op : AllOps, user : User \cup {NoUser},
          tok : Token \cup {NoToken},       \* the token presented
          child : Token \cup {NoToken},     \* the token being inserted
          gen : Nat,                        \* history: generation of the login
          act : BOOLEAN,                    \* is_active as loaded
          ahead : SUBSET Token,             \* rows a bulk UPDATE has yet to come to
          next : Token \cup {NoToken},      \* the one of them it is at
          hits : SUBSET Token,              \* rows it updated and locked
          wrote : BOOLEAN,                  \* holds the users row
          known : SUBSET Token,             \* history: rows committed before it
          late : BOOLEAN]                   \* history: overlapped a closing commit

Init ==
    /\ issued = {} /\ rotated = {} /\ revoked = {} /\ expired = {}
    /\ owner = [t \in Token |-> NoUser]
    /\ family = [t \in Token |-> t]
    /\ parent = [t \in Token |-> t]
    /\ active = User /\ deleted = {}
    /\ req = [r \in Request |-> Free]
    /\ gen = [u \in User |-> 0]
    /\ born = [t \in Token |-> 0]
    /\ raced = {} /\ contested = {}

-----------------------------------------------------------------------------
(* Row locks. *)

\* refresh_tokens rows that r has updated and not yet committed.
Held(r) == req[r].hits \cup (IF req[r].child # NoToken /\ req[r].tok # NoToken
                             THEN {req[r].tok} ELSE {})

\* r must wait for s to lock the users row: both UPDATE it; or r's UPDATE moves
\* the unique e-mail (delete), which the foreign key of s's INSERT forbids.
UserBlocked(r, s) ==
    /\ req[s].user = req[r].user
    /\ \/ req[s].wrote
       \/ req[r].op = "delete" /\ req[s].child # NoToken

\* r must wait for s before its next statement.
WaitsFor(r, s) ==
    /\ r # s
    /\ \/ req[r].pc = "insert" /\ req[r].tok \in Held(s)
       \/ /\ req[r].pc = "insert" /\ req[s].op = "delete"
          /\ req[s].wrote /\ req[s].user = req[r].user
       \/ req[r].pc = "revoke" /\ req[r].next \in Held(s)
       \/ req[r].pc \in {"clear", "flush"} /\ UserBlocked(r, s)

Unblocked(r) == \A s \in Request : ~WaitsFor(r, s)

\* A deadlock: each request of S waits for one of S and keeps one of S waiting.
Deadlock(S) ==
    /\ S # {}
    /\ \A r \in S : (\E s \in S : WaitsFor(r, s)) /\ (\E s \in S : WaitsFor(s, r))

-----------------------------------------------------------------------------
(* A request arrives: its first SELECTs and the early returns they decide. *)
(* A request that is refused there has changed nothing and is left out.    *)

Begin(r, op, u, t) ==
    /\ ~Busy(r) /\ op \in Ops
    /\ \E pc \in Starts(op) :
          req' = [req EXCEPT ![r] =
                    [Free EXCEPT !.pc = pc, !.op = op, !.user = u, !.tok = t,
                                 !.act = op \in WritesActive => u \in active,
                                 !.gen = IF op = "login" THEN gen[u] ELSE 0,
                                 !.known = IF op \in Closes THEN issued ELSE {}]]
    /\ UNCHANGED <<rows, expired, users, ghosts>>

\* Bound: an issuing request arrives only while Token has a row left for it.
HasRoom ==
    Cardinality({r \in Request : req[r].op \in Issues}) < Cardinality(Token \ issued)

\* login, complete_mfa: get_by_email hides deleted accounts, is_active is
\* checked on the loaded row, and the credentials are the current ones.
Login(r, u) ==
    u \in active \ deleted /\ HasRoom /\ Begin(r, "login", u, NoToken)

\* Mutant: only revoked_at is looked at.
RefreshRotated(r, t) ==
    /\ t \in issued \ revoked
    /\ t \notin expired
    /\ owner[t] \in active
    /\ HasRoom
    /\ Begin(r, "refresh", owner[t], t)

\* refresh: get_refresh_by_hash joins the user, so is_active is decided here.
Refresh(r, t) ==
    /\ t \in issued \ (rotated \cup revoked)
    /\ t \notin expired
    /\ owner[t] \in active
    /\ HasRoom
    /\ Begin(r, "refresh", owner[t], t)

\* refresh, the other branch: a rotated or revoked token is presented again.
Reuse(r, t) == t \in issued \cap (rotated \cup revoked) /\ Begin(r, "reuse", owner[t], t)

\* get_current_user: an access token the account was issued, a live active row.
Authenticated(u) == u \in active \ deleted /\ \E t \in issued : owner[t] = u

\* Mutant: record.user_id is not compared with the caller.
LogoutAnyone(r, u, t) == Authenticated(u) /\ t \in issued /\ Begin(r, "logout", u, t)

\* logout with a refresh token: the caller's own, usable or not.
Logout(r, u, t) ==
    /\ Authenticated(u)
    /\ t \in issued /\ owner[t] = u
    /\ Begin(r, "logout", u, t)

LogoutAll(r, u) ==
    Authenticated(u) /\ gen[u] < MaxGen /\ Begin(r, "logout_all", u, NoToken)

ChangePassword(r, u) ==
    Authenticated(u) /\ gen[u] < MaxGen /\ Begin(r, "password", u, NoToken)

\* The other closing operations find the account with deleted_at IS NULL and
\* ask nothing else of it; a role is changed to a different one.
OnAccount(r, u, op) == u \notin deleted /\ gen[u] < MaxGen /\ Begin(r, op, u, NoToken)

ResetPassword(r, u)  == OnAccount(r, u, "reset")
CliSetPassword(r, u) == OnAccount(r, u, "reset")
ChangeRole(r, u)     == OnAccount(r, u, "role")
GrantSourcer(r, u)   == OnAccount(r, u, "role")
CliPromote(r, u)     == OnAccount(r, u, "role")
SetActive(r, u, on)  == OnAccount(r, u, IF on THEN "reactivate" ELSE "deactivate")
DeleteUser(r, u)     == OnAccount(r, u, "delete")

Purge(r) == Begin(r, "purge", NoUser, NoToken)

Arrive(r) ==
    \/ \E u \in User : Login(r, u) \/ LogoutAll(r, u) \/ ChangePassword(r, u)
    \/ \E t \in Token : Refresh(r, t) \/ Reuse(r, t)
    \/ \E u \in User, t \in Token : Logout(r, u, t)
    \/ \E u \in User : \/ ResetPassword(r, u) \/ CliSetPassword(r, u)
                        \/ ChangeRole(r, u) \/ GrantSourcer(r, u) \/ CliPromote(r, u)
                        \/ DeleteUser(r, u) \/ \E on \in BOOLEAN : SetActive(r, u, on)
    \/ Purge(r)

-----------------------------------------------------------------------------
(* The statements of an accepted request, one per action. *)

Advance(r, fields) == req' = [req EXCEPT ![r] = fields]

Past(r) == Follow(req[r].op, req[r].pc)

\* Mutant: the error leaves the session open.
LoadAccountLeaks(r) ==
    /\ req[r].pc = "account" /\ req[r].user \notin deleted
    /\ Advance(r, [req[r] EXCEPT !.pc = Past(r)])
    /\ UNCHANGED <<rows, expired, users, ghosts>>

\* refresh, get_user: the WHERE sees today's deleted_at, while the row object
\* (and its is_active) stays the one loaded with the token.
LoadAccount(r) ==
    /\ req[r].pc = "account"
    /\ Advance(r, IF req[r].user \in deleted THEN Free
                  ELSE [req[r] EXCEPT !.pc = Past(r)])
    /\ UNCHANGED <<rows, expired, users, ghosts>>

\* _issue_tokens: INSERT the new row and, when refreshing, UPDATE rotated_at of
\* the presented one by primary key, whatever its other columns are by now.
InsertToken(r) ==
    /\ req[r].pc = "insert"
    /\ Unblocked(r)
    /\ \E t \in Token \ issued :
          /\ \A s \in Request : req[s].child # t
          /\ Advance(r, [req[r] EXCEPT !.pc = Past(r), !.child = t])
    /\ UNCHANGED <<rows, expired, users, ghosts>>

\* Mutant: the presented token is left out of its family's revocation.
MatchesOthers(op, u, t, s) ==
    CASE op \in RevokeFamily -> family[s] = family[t] /\ s # t
      [] op = "purge"        -> s \in expired
      [] OTHER               -> owner[s] = u

\* The WHERE clauses of revoke_all_for_user, revoke_family and
\* purge_expired_tokens, without their revoked_at IS NULL.
Matches(op, u, t, s) ==
    CASE op \in RevokeFamily -> family[s] = family[t]
      [] op = "purge"        -> s \in expired
      [] OTHER               -> owner[s] = u

\* The row a scan comes to first, of those in S.  The order is anyone's guess:
\* each WHERE has its own index, and a row moves whenever it is updated.
ComesTo(S) == IF S = {} THEN {NoToken} ELSE S

\* A bulk UPDATE starts: its snapshot holds the rows committed by now.
SelectRows(r) ==
    LET S == {s \in issued \ revoked : Matches(req[r].op, req[r].user, req[r].tok, s)} IN
    /\ req[r].pc = "select"
    /\ \E n \in ComesTo(S) :
          Advance(r, [req[r] EXCEPT !.pc = Past(r), !.ahead = S, !.next = n])
    /\ UNCHANGED <<rows, expired, users, ghosts>>

\* It updates the row it is at once no other transaction holds it, checking
\* revoked_at IS NULL again on its current version, and goes on to another one;
\* after the last the statement ends.
RevokeRow(r) ==
    LET n == req[r].next
        rest == req[r].ahead \ {n}
    IN
    /\ req[r].pc = "revoke"
    /\ Unblocked(r)
    /\ \E m \in ComesTo(rest) :
          Advance(r, [req[r] EXCEPT !.pc = IF rest = {} THEN Past(r) ELSE "revoke",
                                    !.ahead = rest, !.next = m,
                                    !.hits = @ \cup ((req[r].ahead \cap {n}) \ revoked)])
    /\ UNCHANGED <<rows, expired, users, ghosts>>

\* The changed columns of the users row are flushed: by add_audit, and by
\* add_refresh_token what login changed before.
FlushUser(r) ==
    /\ req[r].pc \in {"clear", "flush"}
    /\ Unblocked(r)
    /\ Advance(r, [req[r] EXCEPT !.pc = Past(r), !.wrote = TRUE])
    /\ UNCHANGED <<rows, expired, users, ghosts>>

\* Mutants: the stamp goes to parent.id even without a parent, or nowhere; the
\* flush writes the whole row as loaded; the error is raised before COMMIT.
StampAlways(r) == IF req[r].op \in Issues THEN rotated \cup {req[r].tok} ELSE rotated
StampNever(r) == rotated
FlushWholeRow(r) ==
    (IF req[r].op = "refresh" THEN revoked \ {req[r].tok} ELSE revoked) \cup req[r].hits
RaiseFirst(r) == IF req[r].op = "reuse" THEN revoked ELSE revoked \cup req[r].hits

\* The flush writes a column only when it differs from the value loaded, so
\* no transaction writes NULL over a stamp that another one has put.
RotatedAfter(r) == IF req[r].op = "refresh" THEN rotated \cup {req[r].tok} ELSE rotated
RevokedAfter(r) == revoked \cup req[r].hits

ActiveAfter(r) ==
    CASE req[r].op \in {"deactivate", "delete"} /\ req[r].act -> active \ {req[r].user}
      [] req[r].op = "reactivate" /\ ~req[r].act -> active \cup {req[r].user}
      [] OTHER -> active

DeletedAfter(r) == IF req[r].op = "delete" THEN deleted \cup {req[r].user} ELSE deleted

\* Mutants: the family is not handed on; parent_id names the family.
FamilyAnew(r) == req[r].child
ParentIsRoot(r) == IF req[r].op = "refresh" THEN family[req[r].tok] ELSE req[r].child

\* family_id=record.family_id, parent_id=record.id; a login starts a family.
FamilyOf(r) == IF req[r].op = "refresh" THEN family[req[r].tok] ELSE req[r].child
ParentOf(r) == IF req[r].op = "refresh" THEN req[r].tok ELSE req[r].child

PublishToken(r) ==
    LET c == req[r].child IN
    IF c = NoToken THEN UNCHANGED <<issued, owner, family, parent>>
    ELSE /\ issued' = issued \cup {c}
         /\ owner'  = [owner EXCEPT ![c] = req[r].user]
         /\ family' = [family EXCEPT ![c] = FamilyOf(r)]
         /\ parent' = [parent EXCEPT ![c] = ParentOf(r)]

\* History.  A closing commit starts a new generation of its account, marks
\* the requests it overlaps and the tokens committed since it arrived.
Overlaps(r, s) ==
    /\ req[r].op \in Closes /\ req[s].op \in Issues
    /\ s # r /\ req[s].user = req[r].user

RecordHistory(r) ==
    LET q == req[r]
        c == q.child
        missed == {t \in issued \ (q.known \cup revoked \cup q.hits) : owner[t] = q.user}
    IN /\ gen' = IF q.op \in Closes THEN [gen EXCEPT ![q.user] = @ + 1] ELSE gen
       /\ born' = IF c = NoToken THEN born
                  ELSE [born EXCEPT ![c] = IF q.op = "refresh" THEN born[q.tok] ELSE q.gen]
       /\ raced' = raced \cup (IF q.op \in Closes THEN missed ELSE {})
                         \cup (IF c # NoToken /\ (q.late \/ q.tok \in raced)
                               THEN {c} ELSE {})
       /\ contested' = IF q.op = "refresh" /\ (\E s \in Request \ {r} :
                               req[s].op = "refresh" /\ req[s].tok = q.tok)
                       THEN contested \cup {q.tok} ELSE contested

Commit(r) ==
    /\ req[r].pc = "commit"
    /\ PublishToken(r)
    /\ rotated' = RotatedAfter(r)
    /\ revoked' = RevokedAfter(r)
    /\ active' = ActiveAfter(r)
    /\ deleted' = DeletedAfter(r)
    /\ RecordHistory(r)
    /\ req' = [s \in Request |->
                 IF s = r THEN Free
                 ELSE [req[s] EXCEPT !.late = @ \/ Overlaps(r, s)]]
    /\ UNCHANGED expired

\* get_db leaves the session without COMMIT: cancelled, failed, or the process
\* died.  PostgreSQL rolls back; a crash of the process is one Abort per slot.
Abort(r) ==
    /\ CanAbort /\ Busy(r)
    /\ Advance(r, Free)
    /\ UNCHANGED <<rows, expired, users, ghosts>>

\* PostgreSQL ends a deadlock by failing one of the statements in it.
Victim(r) ==
    /\ \E S \in SUBSET Request : r \in S /\ Deadlock(S)
    /\ Advance(r, Free)
    /\ UNCHANGED <<rows, expired, users, ghosts>>

Expire(t) ==
    /\ t \in issued \ expired
    /\ expired' = expired \cup {t}
    /\ UNCHANGED <<rows, users, req, ghosts>>

Statement(r) ==
    LoadAccount(r) \/ InsertToken(r) \/ SelectRows(r) \/ RevokeRow(r) \/ FlushUser(r)
        \/ Commit(r)

Next ==
    \/ \E r \in Request : Arrive(r) \/ Statement(r) \/ Abort(r) \/ Victim(r)
    \/ \E t \in Token : Expire(t)

Spec == Init /\ [][Next]_vars

\* A request that can send its next statement does: the event loop resumes it,
\* and PostgreSQL queues lock waiters first come first served, so one whose
\* lock is free again and again gets it.  One that waits for deadlock_timeout
\* in a deadlock is failed.
FairSpec ==
    Spec /\ \A r \in Request : SF_vars(Statement(r)) /\ WF_vars(Victim(r))

-----------------------------------------------------------------------------
(* Properties. *)

\* Types; stamps are only ever put on committed rows.
TypeOK ==
    /\ issued \subseteq Token /\ rotated \subseteq issued
    /\ revoked \subseteq issued /\ expired \subseteq issued
    /\ owner \in [Token -> User \cup {NoUser}] /\ \A t \in issued : owner[t] \in User
    /\ family \in [Token -> Token] /\ parent \in [Token -> Token]
    /\ active \subseteq User /\ deleted \subseteq User
    /\ req \in [Request -> Slots]
    /\ gen \in [User -> Nat] /\ born \in [Token -> Nat]
    /\ raced \subseteq issued /\ contested \subseteq issued

\* models.py: rotation links each new token to the one it replaced.  Whatever
\* overlaps, the parent of a committed token is committed, belongs to the same
\* account and family, and carries rotated_at; the family leads to its root.
Lineage ==
    \A t \in issued :
        /\ parent[t] \in issued
        /\ owner[parent[t]] = owner[t]
        /\ family[parent[t]] = family[t]
        /\ parent[t] # t => parent[t] \in rotated
        /\ family[t] \in issued
        /\ parent[t] = t => family[t] = t

\* A stamp is never taken back: no commit, however stale the row object it
\* flushes, makes a revoked or rotated token usable again.
StampsAreFinal == [][revoked \subseteq revoked' /\ rotated \subseteq rotated']_vars

\* Two tokens replace the same one only if two refreshes presented it before
\* either had committed; the second presentation is otherwise a reuse.
ForkOnlyIfContested ==
    \A s, t \in issued :
        s # t /\ parent[s] = parent[t] /\ parent[s] # s /\ parent[t] # t
            => parent[s] \in contested

Live == issued \ (rotated \cup revoked)

\* A family has one live token unless one of its tokens was contested.
OneLivePerFamily ==
    \A s, t \in Live :
        s # t /\ family[s] = family[t]
            => \E p \in contested : family[p] = family[s]

\* models.py: a token already rotated is not accepted again, so a family has a
\* single live token.  True when requests do not overlap.
LiveIsUnique == \A s, t \in Live : family[s] = family[t] => s = t

\* README_IDENTITY.md: "Password change and reset revoke every session"; so do
\* role change, deactivation, deletion and logout-all.  True when requests do
\* not overlap.
ClosingEndsSessions == \A t \in issued : born[t] < gen[owner[t]] => t \in revoked

\* README_IDENTITY.md: a password change, role change, deactivation, deletion or
\* logout-all ends every session.  A session of an earlier generation is still
\* unrevoked only through an overlap: its request was in flight at the closing
\* commit, or it was committed while the closing request was in flight.
StaleOnlyIfRaced ==
    \A t \in issued : born[t] < gen[owner[t]] => t \in revoked \cup raced

\* A commit revokes tokens of its own account only (and purge expired ones).
RevokesOwnOnly ==
    [][\A r \in Request : Commit(r) =>
          \A t \in revoked' \ revoked : owner[t] = req[r].user \/ t \in expired]_vars

\* repository.py, purge_expired_tokens: an expired token is stamped revoked, and
\* refresh takes it for a reused one when it comes back.  The alarm is then
\* false and ends nobody's session: unless the token presented was rotated, its
\* family has no other token in use for the alarm to revoke (or was contested).
FalseAlarmIsHarmless ==
    [][\A r \in Request :
          Commit(r) /\ req[r].op = "reuse" /\ req[r].tok \notin rotated =>
             \A t \in revoked' \ revoked :
                 t \in rotated \/ \E p \in contested : family[p] = family[t]]_vars

\* Only bulk UPDATEs that meet each other's rows in opposite orders wait in a
\* circle.  No request does so at its INSERT or at the users row: whoever takes
\* both kinds of rows takes the token rows first, and login and refresh, which
\* do not, wait where nobody waits for them.
DeadlocksAreUpdates ==
    \A S \in SUBSET Request : Deadlock(S) => \A r \in S : req[r].pc = "revoke"

\* Every request ends, whatever locks the others take.
RequestsEnd == \A r \in Request : Busy(r) ~> ~Busy(r)

\* A detected reuse revokes every token its family has by then, the rotated
\* and the live ones, although the request itself is answered with an error;
\* unless it meets another bulk UPDATE in a deadlock.
ReuseEndsFamily ==
    \A r \in Request, t \in Token :
        (/\ req[r].op = "reuse" /\ req[r].pc = "select"
         /\ t \in issued /\ family[t] = family[req[r].tok])
            ~> (t \in revoked \/ \E S \in SUBSET Request : r \in S /\ Deadlock(S))

-----------------------------------------------------------------------------
(* Sessions as a SessionLedger: the ledger's variables are the columns above. *)

Strictly == INSTANCE SessionLedger WITH Strict <- TRUE
Loosely  == INSTANCE SessionLedger WITH Strict <- FALSE

\* service.py: with one request at a time, every request is one step of the
\* strict ledger.
SerialLedger == Strictly!Spec

\* However requests overlap, each is one step of the loose ledger.
OverlapLedger == Loosely!Spec
=============================================================================
