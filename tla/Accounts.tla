------------------------------ MODULE Accounts ------------------------------
(***************************************************************************)
(* Who may administer whom: the accounts of app/modules/identity, their    *)
(* addresses and roles, and the three doors to them: the API with its      *)
(* bearer tokens, the /ops panel with its cookie, and the programs run on  *)
(* the server (bootstrap.py at every start, scripts/manage_admin.py).      *)
(*                                                                         *)
(* A request checks its caller (Arrive), loads and checks what it works on *)
(* (Look), and writes the columns it changed (Commit); others commit in    *)
(* between.  A form of the panel keeps the row it was opened on until it   *)
(* is saved.  A sign-in is one step here, its credentials are in SignIn;   *)
(* the sessions of an account are closed by the commit itself, the         *)
(* statement-level races of the bulk UPDATE are in Sessions.               *)
(***************************************************************************)
EXTENDS Naturals, FiniteSets

CONSTANTS
    Account,     \* rows users may ever get (a bound)
    NoAccount,
    Name,        \* e-mail addresses as lower() compares them
    Spelling,    \* ways to write one
    LowerCase,   \* the spelling .lower().strip() leaves
    NoAddress,   \* the address deleted+<id>@closet.invalid of a deleted row
    BootName,    \* settings.BOOTSTRAP_ADMIN_EMAIL
    Request,
    MaxServed    \* bound: requests accepted in a behaviour; 0 for no bound

\* The column email, and what all but the panel write to it.
Address == Name \X Spelling
Plain == Name \X {LowerCase}
BootAddress == <<BootName, LowerCase>>

ASSUME NonesAreFresh == NoAccount \notin Account /\ NoAddress \notin Address
ASSUME BootIsPlain == BootName \in Name /\ LowerCase \in Spelling
ASSUME MaxServedIsNat == MaxServed \in Nat

VARIABLES
    users,       \* committed rows of users
    access,      \* unexpired access tokens: account and role claim
    sessions,    \* live refresh sessions: account and its role at sign-in
    cookies,     \* accounts a panel cookie is out for
    req,
    served,      \* accepted requests, counted only under a bound
    pending,     \* history: made administrator at a start, password not yet changed
    unswept,     \* history: role written without a sweep, or sign-in across one
    crossed,     \* history: deletion overlapped by a write of what it closes
    unwatched,   \* history: an administrator acted that was none any more
    respelt      \* history: given by the panel what another has in another spelling

doors == <<access, sessions, cookies>>
histories == <<pending, unswept, crossed, unwatched, respelt>>
vars == <<users, doors, req, served, histories>>

-----------------------------------------------------------------------------
\* func.lower(User.email): a comparison of addresses, however they are spelled.
SameAddress(m, n) == m \in Address /\ n \in Address /\ m[1] = n[1]

\* A courier account is to this module what a customer is.
Roles == {"customer", "sourcer", "admin"}

Rows == [life   : {"absent", "live", "deleted", "gone"},   \* deleted_at; no row any more
         mail   : Address \cup {NoAddress},
         role   : Roles,
         active : BOOLEAN,
         must   : BOOLEAN]                         \* must_change_password

Columns == {"life", "mail", "role", "active", "must"}

Absent == [life |-> "absent", mail |-> NoAddress, role |-> "customer",
           active |-> FALSE, must |-> FALSE]

Gone == [Absent EXCEPT !.life = "gone"]

\* deleted_at is set or not, the row is there.
Exists(u) == users[u].life \in {"live", "deleted"}

Live(u) == users[u].life = "live"

\* An administrator who can sign in.
Usable(u) == Live(u) /\ users[u].role = "admin" /\ users[u].active

Administrators == {u \in Account : Usable(u)}

Issues   == {"login", "refresh"}
OnPages  == {"panel", "erase"}
Removes  == {"role", "inactive", "delete", "approve"} \cup OnPages
Manages  == {"admin", "create", "add", "active"} \cup Removes
AllOps   == Issues \cup Manages \cup
            {"register", "mail", "password", "reset", "ops", "bootstrap", "clicreate",
             "clipromote", "cliset"}

Free == [pc |-> "idle", op |-> "login", actor |-> NoAccount, user |-> NoAccount,
         role |-> "customer", old |-> Absent, new |-> Absent, late |-> FALSE]

Busy(r) == req[r].pc # "idle"

Slots == [pc : {"idle", "look", "commit"}, op : AllOps,
          actor : Account \cup {NoAccount},  \* whose rights the request uses
          user : Account \cup {NoAccount},   \* the row it writes
          role : Roles,                      \* refresh: the session's
          old : Rows, new : Rows,            \* the row as loaded, and as computed
          late : BOOLEAN]                    \* history: overlapped a sweep

\* A working database: some accounts with plain addresses of their own, some
\* of them signed in; on a first launch none at all.
Init ==
    /\ users \in [Account -> {Absent} \cup [life : {"live"}, mail : Plain, role : Roles,
                                            active : {TRUE}, must : {FALSE}]]
    /\ \A u, v \in Account : u # v => ~SameAddress(users[u].mail, users[v].mail)
    /\ \E A \in SUBSET {u \in Account : Live(u)} :
          sessions = {<<u, users[u].role>> : u \in A}
    /\ access = sessions /\ cookies = {}
    /\ req = [r \in Request |-> Free] /\ served = 0
    /\ pending = {} /\ unswept = {} /\ crossed = {} /\ unwatched = FALSE
    /\ respelt = {}

-----------------------------------------------------------------------------
(* Who is asking. *)

Accept ==
    IF MaxServed = 0 THEN UNCHANGED served
    ELSE served < MaxServed /\ served' = served + 1

\* get_current_user: the claim must be the role of today.
SignedIn(a) == Live(a) /\ users[a].active /\ <<a, users[a].role>> \in access

\* Mutant: the flag is not looked at.
ReadyAnyway(a) == SignedIn(a)

\* get_ready_user
Ready(a) == SignedIn(a) /\ ~users[a].must

\* require_permission(USER_MANAGE): only the admin role has it.
MayManage(a) == Ready(a) /\ users[a].role = "admin"

\* is_authenticated of the panel, on every page.
OnPanel(a) == a \in cookies /\ Usable(a) /\ ~users[a].must

\* A request is accepted and holds its caller's row as loaded.
Open(r, pc, op, a, u, role, old, new) ==
    /\ ~Busy(r) /\ Accept
    /\ req' = [req EXCEPT ![r] =
                 [pc |-> pc, op |-> op, actor |-> a, user |-> u, role |-> role,
                  old |-> old, new |-> new, late |-> FALSE]]
    /\ UNCHANGED <<users, doors, histories>>

Ask(r, op, a, old) == Open(r, "look", op, a, NoAccount, "customer", old, old)

Manage(r, a)     == MayManage(a) /\ Ask(r, "admin", a, Absent)
AskProfile(r, a) == Ready(a) /\ Ask(r, "mail", a, users[a])

\* ensure_bootstrap_admin: count the administrators that are not deleted.
StartUp(r) ==
    /\ \A u \in Account : Live(u) => users[u].role # "admin"
    /\ Open(r, "look", "bootstrap", NoAccount, NoAccount, "customer", Absent, Absent)

\* Requests that load and compute in one step.
Do(r, op, a, u, new) == Open(r, "commit", op, a, u, "customer", users[u], new)

\* Mutant: the column is compared as it is.
TakenAsSpelled(m) == \E u \in Account : Exists(u) /\ users[u].mail = m

\* email_exists: deleted rows count.
Taken(m) == \E u \in Account : Exists(u) /\ SameAddress(users[u].mail, m)

\* get_by_email: they do not; and it raises when it finds two.
HoldsMail(u, m) == Live(u) /\ SameAddress(users[u].mail, m)

Finds(m) == {u \in Account : HoldsMail(u, m)}

\* A row nobody has.
Fresh(u) == users[u].life = "absent" /\ \A s \in Request : req[s].user # u

NewUser(m, role, must) ==
    [life |-> "live", mail |-> m, role |-> role, active |-> TRUE, must |-> must]

Register(r, u, m) ==
    Fresh(u) /\ ~Taken(m) /\ Do(r, "register", NoAccount, u, NewUser(m, "customer", FALSE))

\* login and complete_mfa, as far as they look at the account; complete_mfa finds
\* it by its id.
Login(r, u) ==
    /\ Live(u) /\ users[u].active /\ users[u].mail # NoAddress
    /\ Open(r, "commit", "login", NoAccount, u, users[u].role, users[u], users[u])

\* refresh of a session opened under role.
Refresh(r, u, role) ==
    /\ <<u, role>> \in sessions /\ Live(u) /\ users[u].active
    /\ Open(r, "commit", "refresh", NoAccount, u, role, users[u], users[u])

\* OpsAuthProvider.login puts what is typed in lower case, not the column.
OpsLogin(r, u) ==
    /\ Usable(u) /\ ~users[u].must /\ users[u].mail \in Plain
    /\ Do(r, "ops", NoAccount, u, users[u])

\* change_password takes a PendingUser.
ChangePassword(r, u) ==
    SignedIn(u) /\ Do(r, "password", u, u, [users[u] EXCEPT !.must = FALSE])

\* reset_password of an account a link is out for.
ResetPassword(r, u) ==
    Live(u) /\ Do(r, "reset", NoAccount, u, [users[u] EXCEPT !.must = FALSE])

\* cmd_create: with --force, or without administrators.
CliCreate(r, u, m) ==
    /\ Fresh(u) /\ Finds(m) = {}
    /\ Do(r, "clicreate", NoAccount, u, NewUser(m, "admin", FALSE))

CliPromote(r, u) ==
    /\ Finds(users[u].mail) = {u} /\ users[u].role # "admin"
    /\ Do(r, "clipromote", NoAccount, u, [users[u] EXCEPT !.role = "admin"])

\* cmd_set_password leaves the flag alone.
CliSetPassword(r, u) ==
    Finds(users[u].mail) = {u} /\ Do(r, "cliset", NoAccount, u, users[u])

\* The panel: the edit page of a row, filled with what it holds now.
OpenForm(r, a, u) ==
    OnPanel(a) /\ Exists(u) /\ Open(r, "look", "panel", a, u, "customer", users[u], users[u])

\* Its creation form has no check of its own and takes the address as typed.
PanelCreate(r, a, u, m) ==
    /\ OnPanel(a) /\ Fresh(u)
    /\ \E role \in Roles, active, must \in BOOLEAN :
          Do(r, "add", a, u, [NewUser(m, role, must) EXCEPT !.active = active])

\* Its delete button removes the row itself.
Erase(r, a, u) == OnPanel(a) /\ Exists(u) /\ Do(r, "erase", a, u, Gone)

Arrive(r) ==
    \/ StartUp(r)
    \/ \E a \in Account : \/ Manage(r, a) \/ AskProfile(r, a)
                          \/ \E u \in Account : OpenForm(r, a, u) \/ Erase(r, a, u)
                          \/ \E u \in Account, m \in Address : PanelCreate(r, a, u, m)
    \/ \E u \in Account : \/ Login(r, u) \/ OpsLogin(r, u)
                          \/ ChangePassword(r, u) \/ ResetPassword(r, u)
                          \/ CliPromote(r, u) \/ CliSetPassword(r, u)
    \/ \E u \in Account, role \in Roles : Refresh(r, u, role)
    \/ \E u \in Account, m \in Plain : Register(r, u, m) \/ CliCreate(r, u, m)

-----------------------------------------------------------------------------
(* What it works on.  A request that is refused or has nothing to write    *)
(* ends without a commit: Abort.                                           *)

Compute(r, op, u, old, new) ==
    /\ req' = [req EXCEPT ![r] = [@ EXCEPT !.pc = "commit", !.op = op, !.user = u,
                                           !.old = old, !.new = new]]
    /\ UNCHANGED <<users, doors, served, histories>>

Looking(r, op) == req[r].pc = "look" /\ req[r].op = op

\* Mutant: an administrator may do it to itself.
ActsOnAnyone(r, op, u, new) ==
    Looking(r, "admin") /\ Live(u) /\ Compute(r, op, u, users[u], new)

\* Mutant: get_user finds deleted accounts.
ActsOnDeleted(r, op, u, new) ==
    /\ Looking(r, "admin") /\ u # req[r].actor /\ Exists(u)
    /\ Compute(r, op, u, users[u], new)

\* An administrator's request on another account; on the own one none of these
\* operations writes anything.
Acts(r, op, u, new) ==
    /\ Looking(r, "admin") /\ u # req[r].actor /\ Live(u)
    /\ Compute(r, op, u, users[u], new)

CreateUser(r, u, m, role) ==
    /\ Looking(r, "admin") /\ Fresh(u) /\ ~Taken(m)
    /\ Compute(r, "create", u, Absent, NewUser(m, role, FALSE))

ChangeRole(r, u, role) ==
    users[u].role # role /\ Acts(r, "role", u, [users[u] EXCEPT !.role = role])

SetActive(r, u, on) ==
    Acts(r, IF on THEN "active" ELSE "inactive", u, [users[u] EXCEPT !.active = on])

DeleteUser(r, u) ==
    Acts(r, "delete", u,
         [users[u] EXCEPT !.life = "deleted", !.active = FALSE, !.mail = NoAddress])

\* grant_sourcer_role, for the administrator who approves a membership.
GrantSourcer(r, u) ==
    /\ users[u].role = "customer"
    /\ Acts(r, "approve", u, [users[u] EXCEPT !.role = "sourcer"])

\* update_profile with another address than the account had.
ChangeMail(r, m) ==
    /\ Looking(r, "mail") /\ ~SameAddress(req[r].old.mail, m) /\ ~Taken(m)
    /\ Compute(r, "mail", req[r].actor, req[r].old, [req[r].old EXCEPT !.mail = m])

\* What an edit page that shows row w is sent with: all of it as shown, or one
\* field edited, an address as typed.
Sent(w) ==
    {[w EXCEPT !.role = x] : x \in Roles}
        \cup {[w EXCEPT !.active = b] : b \in BOOLEAN}
        \cup {[w EXCEPT !.must = b] : b \in BOOLEAN}
        \cup {[w EXCEPT !.mail = m] : m \in Address}
        \cup {[w EXCEPT !.life = x] : x \in {"live", "deleted"}}

\* It is saved: every field is set on the row loaded now.
SaveForm(r) ==
    LET u == req[r].user IN
    /\ Looking(r, "panel") /\ OnPanel(req[r].actor) /\ Exists(u)
    /\ \E new \in Sent(req[r].old) : Compute(r, "panel", u, users[u], new)

\* The configured address is an account's: promote it.
BootstrapPromote(r, u) ==
    /\ Looking(r, "bootstrap") /\ Finds(BootAddress) = {u}
    /\ Compute(r, "bootstrap", u, users[u],
               [users[u] EXCEPT !.role = "admin", !.must = TRUE])

BootstrapCreate(r, u) ==
    /\ Looking(r, "bootstrap") /\ Fresh(u) /\ Finds(BootAddress) = {}
    /\ Compute(r, "bootstrap", u, Absent, NewUser(BootAddress, "admin", TRUE))

Look(r) ==
    \/ SaveForm(r)
    \/ \E u \in Account : \/ DeleteUser(r, u) \/ GrantSourcer(r, u)
                          \/ BootstrapPromote(r, u) \/ BootstrapCreate(r, u)
                          \/ \E role \in Roles : ChangeRole(r, u, role)
                          \/ \E on \in BOOLEAN : SetActive(r, u, on)
                          \/ \E m \in Plain, role \in Roles : CreateUser(r, u, m, role)
    \/ \E m \in Plain : ChangeMail(r, m)

-----------------------------------------------------------------------------
(* What it leaves. *)

Writes(q) == {c \in Columns : q.old[c] # q.new[c]}

\* The columns written, over the row of today; a DELETE leaves none.
Merge(q) ==
    IF q.op = "erase" THEN Gone
    ELSE [c \in Columns |-> IF c \in Writes(q) THEN q.new[c] ELSE users[q.user][c]]

\* ix_users_email is unique over the column as spelled, over deleted rows too.
Collides(q) ==
    /\ "mail" \in Writes(q) /\ q.new.mail # NoAddress
    /\ \E v \in Account \ {q.user} : Exists(v) /\ users[v].mail = q.new.mail

\* Mutant: a change of role closes nothing.
SweepsButRole(q) ==
    q.op \in {"inactive", "delete", "approve", "password", "reset", "clipromote", "cliset",
              "erase"}

\* The operations that call revoke_all_for_user; a row that goes takes its
\* sessions along.
Sweeps(q) ==
    q.op \in {"role", "inactive", "delete", "approve", "password", "reset", "clipromote",
              "cliset", "erase"}

\* Mutant: the subject of the tokens is the caller.
OpensForActor(q) == IF q.op \in Issues THEN {<<q.actor, q.role>>} ELSE {}

\* _issue_tokens: the session it opens or renews.
Opens(q) == IF q.op \in Issues THEN {<<q.user, q.role>>} ELSE {}

\* Which accounts have to change their password; one that did so while the
\* bootstrap was about to flag it again is through.
StillPending(q) ==
    CASE q.op = "bootstrap" /\ (q.old.must => users[q.user].must) -> pending \cup {q.user}
      [] q.op \in {"password", "reset", "cliset", "erase"}
         \/ (q.op = "panel" /\ q.old.must /\ ~q.new.must) -> pending \ {q.user}
      [] OTHER -> pending

\* A deletion and a write of the address or the activity that both loaded the
\* account alive; or the panel, on what a deletion closes or on a deleted row.
Crosses(q) ==
    \/ q.op \in {"mail", "active"} /\ q.old.life = "live" /\ ~Live(q.user)
    \/ q.op = "delete" /\ ~q.old.active /\ users[q.user].active
    \/ q.op = "panel" /\ ({"life", "mail"} \cap Writes(q) # {} \/ ~Live(q.user))

\* The panel writes an address, or brings a row back to life, with an address
\* another row has or a request that has checked its own is about to write.
Respells(q) ==
    LET Other(m) == SameAddress(m, Merge(q).mail) IN
    /\ q.op \in {"panel", "add"} /\ {"life", "mail"} \cap Writes(q) # {}
    /\ \/ \E v \in Account \ {q.user} : Live(v) /\ Other(users[v].mail)
       \/ \E s \in Request : /\ req[s].pc = "commit" /\ req[s].user # q.user
                             /\ "mail" \in Writes(req[s]) /\ Other(req[s].new.mail)

Remember(q) ==
    /\ pending' = StillPending(q)
    /\ unswept' = IF \/ q.op \in {"bootstrap", "panel"} /\ q.old.role # q.new.role
                     \/ q.op \in Issues /\ q.late
                  THEN unswept \cup {q.user} ELSE unswept
    /\ crossed' = IF Crosses(q) THEN crossed \cup {q.user} ELSE crossed
    /\ unwatched' = (\/ unwatched
                     \/ q.op \in Removes /\ ~Usable(q.actor)
                     \/ q.op \in OnPages /\ q.user = q.actor)
    /\ respelt' = IF Respells(q) THEN respelt \cup {q.user} ELSE respelt

Commit(r) ==
    LET q == req[r] IN
    /\ q.pc = "commit" /\ ~Collides(q) /\ users[q.user].life # "gone"
    /\ users' = [users EXCEPT ![q.user] = Merge(q)]
    /\ sessions' = (IF Sweeps(q) THEN {s \in sessions : s[1] # q.user} ELSE sessions)
                       \cup Opens(q)
    /\ access' = access \cup (IF q.op \in Issues THEN {<<q.user, q.old.role>>} ELSE {})
    /\ cookies' = cookies \cup (IF q.op = "ops" THEN {q.user} ELSE {})
    /\ Remember(q)
    /\ req' = [s \in Request |->
                 IF s = r THEN Free
                 ELSE [req[s] EXCEPT !.late = @ \/ (Sweeps(q) /\ req[s].user = q.user)]]
    /\ UNCHANGED served

\* Refused by a check, by the unique index or for want of the row, cancelled, failed, or crashed.
Abort(r) ==
    /\ Busy(r)
    /\ req' = [req EXCEPT ![r] = Free]
    /\ UNCHANGED <<users, doors, served, histories>>

ExpireAccess(t) ==
    /\ t \in access /\ access' = access \ {t}
    /\ UNCHANGED <<users, sessions, cookies, req, served, histories>>

Next ==
    \/ \E r \in Request : Arrive(r) \/ Look(r) \/ Commit(r) \/ Abort(r)
    \/ \E u \in Account, role \in Roles : ExpireAccess(<<u, role>>)

Spec == Init /\ [][Next]_vars

-----------------------------------------------------------------------------
(* Properties. *)

\* Types; nothing is out for an account that does not exist.
TypeOK ==
    /\ users \in [Account -> Rows]
    /\ access \subseteq Account \X Roles /\ sessions \subseteq Account \X Roles
    /\ cookies \subseteq Account
    /\ \A u \in Account : users[u].life = "absent" =>
          u \notin cookies /\ \A x \in Roles : <<u, x>> \notin access \cup sessions
    /\ req \in [Request -> Slots] /\ served \in Nat
    /\ pending \subseteq Account /\ unswept \subseteq Account /\ crossed \subseteq Account
    /\ unwatched \in BOOLEAN /\ respelt \subseteq Account

\* get_by_email and the bootstrap expect at most one live account per address,
\* however spelled: register, creations and a change of address check that with
\* lower(email) and write later, the unique index sees the spelling.  Two accounts
\* of one address come about only where the panel gave it to one of them while
\* the other had it or was about to get it.
OneAccountPerAddress ==
    \A u, v \in Account :
        Live(u) /\ HoldsMail(v, users[u].mail) /\ u # v => {u, v} \cap respelt # {}

\* The cannot_demote_self family of checks: whoever removes an administrator
\* stays one.  The last one goes only by its own hand on the panel, or by a
\* request whose caller had itself been removed since it was let in.
AnAdminRemains ==
    [][Administrators # {} => Administrators' # {} \/ unwatched']_vars

\* README_IDENTITY.md: "Changing a role revokes all of that user's sessions".
SessionsCarryRole == \A s \in sessions : users[s[1]].role = s[2]

\* A session of an earlier role is left only where the role was written by the
\* bootstrap or the panel, or where a sign-in overlapped the change.
SessionsCarryRoleUnlessUnswept ==
    \A s \in sessions : s[1] \in unswept \/ users[s[1]].role = s[2]

\* GETTING_STARTED.md: an account the bootstrap made administrator can do
\* "nothing else" than change its password; no stale write lifts the flag.
PendingNeverManages ==
    [][\A r \in Request :
          ~Busy(r) /\ Busy(r)' /\ req'[r].op \in Manages
              => req'[r].actor \notin pending]_vars

\* README_IDENTITY.md: a deletion deactivates, and "the e-mail is released for
\* reuse"; a deleted account stays that way, unless a write of the one or the
\* other overlapped the deletion or the panel wrote over it.
DeletedStaysClosed ==
    \A u \in Account \ crossed :
        users[u].life = "deleted" => users[u].mail = NoAddress /\ ~users[u].active
=============================================================================
