# Formal models of the ClosET backend

TLA+ specifications of the ClosET backend, model-checked with TLC and proved
about with TLAPS. Everything is translated from the Python source; `PROJECT.json`
maps each definition to the lines it stands for. Paths below are relative to the
repository, and `identity/` is `app/modules/identity/`.

## 1. The system

One uvicorn process runs a FastAPI application on an event loop. Each request
owns one SQLAlchemy `AsyncSession` and therefore one READ COMMITTED transaction
of PostgreSQL (`app/core/database.py`); every `await` lets other requests run.
The session has `autoflush=False`, keeps the objects it loaded, writes at flush
only the columns whose values changed, and is rolled back when the handler
raises. The programs in `scripts/` and the bootstrap at start work on the same
tables in transactions of their own.

Of the planned modules only `identity` has code. The inventory:

| Component | State | Operations | What makes it correct |
|---|---|---|---|
| Refresh sessions (`identity/service.py`, `repository.py`) | `refresh_tokens`: account, family, parent, `rotated_at`, `revoked_at`, `expires_at` | login, refresh, reuse detection, logout (one family, all), the revocations of password change, reset, role change, deactivation, deletion; purge | a token is exchanged once; reuse ends its family; a closing operation ends every session; stamps are final; no request stays stuck on a lock |
| Credentials (`identity/service.py`, `core/security.py`) | one `users` row: hash, counter, lock, TOTP secret and date, `must_change_password`; `password_reset_tokens`; MFA challenges (in signed tokens) | login, second step, change and reset of the password, enrolment, recovery programs | the limit on guesses; the password is the last one chosen; the factor asked for was verified; links work once |
| Accounts and administration (`identity/service.py`, `dependencies.py`, `router.py`, `constants.py`) | `users` rows: address, role, active, deleted | register, create, change of role, address and state, delete, approval of a sourcer; the guards of every route | one live account per address, however it is spelled; an administrator remains; sessions follow the role; a pending administrator does nothing else |
| Bootstrap (`identity/bootstrap.py`, `app/main.py`) | none of its own | create or promote the first administrator at start | idempotent; the account has to change its password |
| Administration program (`scripts/manage_admin.py`) | none of its own | create, promote, set-password, reset-mfa, list | as the service, without the guards |
| Panel (`app/ops`) | a signed cookie with the account; pages open in browsers | sign-in, per-page check, creation, edit forms, deletion of rows | only an administrator in good standing; an out-of-date page does not undo what others did |
| Devices (`repository.py` 144-179, `router.py` 209-235) | `device_tokens` | register, remove; the panel's edits and deletions | one row per phone; the consent in it is its owner's |
| Audit log | `audit_logs` | append, list | - |
| Prototype of the marketplace (`main.py`, copied in `requirements/main.py`) | nine tables with twelve references: users, selections, suppliers, items, order items, pickups, notifications, favourites, deliveries; open pages of its panel | a POST route per table, lists; the panel's forms and deletions | no reference dangles; saving a page changes what the administrator changed |
| Earlier draft of the same (`app/services.py`, `app/shemas.py`, `app/api.py`, `api.py`) | - | cannot be imported | - |
| catalogue, orders, payments, delivery, sourcing, privileges, showcasing, returns, notifications, dashboard, geo, integrations, workers | - | empty files | - |

The components meet in the `users` row, which all of them read and several
write; in `revoke_all_for_user`, which seven operations of the other components
call on the sessions; and in the role claim, which access tokens carry and
`get_current_user` compares with the row.

The hard behaviours all come from *load, compute, commit*: a request decides on
rows that others change before it commits. `PROJECT.json` lists them at their
lines under `hazards`. Failures are requests that end without a commit
(cancellation, error, crash of the process), since nothing else is persistent.

## 2. Modules

| Module | Models | State and actions in the code |
|---|---|---|
| `Sessions` | the two tables of the session code, one SQL statement per action | A slot of `req` is a request; `pc` is its next statement; `Follow` is the order of statements in the service methods. `SelectRows` is the snapshot of a bulk UPDATE and `RevokeRow` its step to one of the rows, which waits for whoever holds that row and takes its lock; the order is arbitrary. `InsertToken` is `_issue_tokens`; `FlushUser` is the UPDATE of the `users` row, at the flush in `add_audit` or, when a sign-in changed the row, at the one before the INSERT (`clear`). Writes stay in the slot until `Commit`; `WaitsFor` are the row locks and `Victim` PostgreSQL failing one request of a deadlock. |
| `SessionLedger` | abstract: token families, every operation one step | `Strict` for operations that do not overlap, otherwise a rotation may replace a dead token and an ending may miss some |
| `SignIn` | the credentials of one account | `Compute` is "load the row and work on the object", `writes` the columns that changed, `Commit` the merge over the row of that moment. One action per method of the service and per program. |
| `GuessLimiter` | abstract: n misses in a row bar the account | `misses` and `barred` are `failed_login_count` and an unexpired `locked_until` |
| `Accounts` | who may administer whom, over the API, the panel and the programs | `Arrive` is the dependency chain (`SignedIn`, `Ready`, `MayManage`, `OnPanel`) or the service's first checks, `Look` the checks on the row worked on, `Commit` the column-wise write with the unique index, the revocation and the tokens issued. An address is a name and a spelling: `SameAddress` is the comparison of `lower(email)` in every lookup, the index compares the column as spelled, the service and the programs write lower case (`Plain`), the panel what was typed |
| `Devices` | the phones and whose they are | `Update` and `Insert` are the two branches of `upsert_device_token` after its SELECT, `Delete` is `delete_device_token`, `Edit`/`Erase` the panel's device view; `Commit...` writes the columns that differ from those loaded, or inserts under the unique column, or deletes by id; `DeleteAccount` is the cascade from `users` |
| `Marketplace` | the prototype's tables and its panel | `References` is the foreign keys and relationships of the nine models; `Create` any of the POST routes; a `Page` is what an edit page shows of a row: its references and the rows that refer to it; `Save` writes a page back as Starlette-Admin and the unit of work do, both sides of every relationship; `Delete` loads and empties the references to the row. `Consistent` is what the constraints allow |
| `MCSessions`, `MCSignIn`, `MCAccounts`, `MCRows` | instances for TLC, symmetry; `MCRows` puts `Devices` and `Marketplace` side by side, a behaviour being of one or the other | |
| `SessionsProofs`, `SignInProofs`, `AccountsProofs`, `DevicesProofs`, `MarketplaceProofs` | theorems of the module each is named after | |
| `LedgerProofs`, `RowsProofs` | theorems of `SessionLedger`, and those of `Marketplace` in the composition `MCRows` | |

`Sessions` and `SignIn` end with their refinement mappings: the ledger's variables
are columns of `Sessions`; the limiter's are `failed_login_count` and an unexpired lock.

Variables declared *history* record the past for the properties (which sessions
raced, which password was last chosen) and decide nothing.

The modules share no variables. They are three views of the same row at the grain
each question needs: statement by statement and with locks in `Sessions`; by
column in `SignIn`, with one account that stays active; by account in
`Accounts`, where opening and closing sessions is part of the commit. The user
view of the panel appears in both `Accounts` (address, role, state, flag,
deletion) and `SignIn` (lock, count, enrolment date, flag). `Devices` knows of
accounts that their row may go.

## 3. Runs

| Run | Bounds | Shows |
|---|---|---|
| `sess_serial` | 2 accounts, 3 tokens, 1 request at a time, all operations, 1 closing operation per account | every operation is one step of the strict ledger (`SerialLedger`); one live token per family, closing ends everything, nobody else's sessions are revoked, and a token the purge had stamped raises an alarm that ends no live session |
| `sess_overlap` | 1 account, 3 tokens, 2 overlapping requests, login, refresh, reuse, password change, deletion | lineage and stamps hold; only bulk UPDATEs that meet each other's rows in opposite orders deadlock; forks and survivors exist only through the overlaps named in `contested` and `raced`; each commit is a step of the loose ledger |
| `sess_live` | 1 account, 2 tokens, 2 requests, strong fairness | every request ends; a detected reuse ends the family, unless the request is caught in a deadlock |
| `sess_fork` | expected violation | two refreshes of one token both succeed |
| `sess_survivor` | expected violation | a session survives a password change |
| `signin_serial` | 1 request at a time, 3 secrets, 2 links, limit 3, all operations but the panel's form, which may set count and lock to anything | the counter and lock implement the limiter; the enabled factor was verified; an administrator keeps the factor |
| `signin_overlap` | 2 overlapping requests, 3 in all, limit 2; the panel's form changes the enrolment only (what it does to lock and count is left to the theorems) | what holds under overlap, and the overlaps (`lost`, `torn`, `undone`, `doubled`, `shared`) after which the rest does not |
| `signin_lockout` | expected violation | concurrent failures are counted once |
| `signin_recovery` | expected violation | `set-password` leaves no flag to change the password |
| `accounts_overlap` | 2 accounts, 2 addresses in 2 spellings each, 2 overlapping requests, 3 in all | two live accounts have one address only where the panel gave it to one of them; a deleted account stays inactive and without address; an administrator remains; a pending administrator manages nobody; sessions follow the role; with the exceptions named in `respelt`, `unswept`, `crossed`, `unwatched` |
| `accounts_bootstrap` | expected violation | an account that is signed in when the bootstrap promotes it keeps its sessions |
| `rows` | phones: 1 phone, 2 accounts, 2 overlapping requests, 4 in all; prototype: 1 or 2 rows a table, 1 open page, 6 rows added or pages opened | phones keep one row, with the consent of its owner but for the overlaps in `mixed`. Keys of the prototype are unique and no reference dangles, saving a page that is up to date changes what was changed on it and nothing else, an order loses no line to a page that does not name it (a page that does takes it back, wherever it has moved since) |

**Why the bounds are enough.** Every race in this code is between two
transactions on one row, so two slots let each of them happen. Three tokens give
a family with a fork or a chain of two rotations. Three accepted requests let
two that overlap be prepared or followed by another; `SignIn`
starts from every row a running system may hold (any count, a pending or enabled
factor, a link out), `Accounts` from any roles and addresses with any of the
accounts signed in, so that little preparation is needed. In `rows`, four
requests let a phone be registered, change hands across an overlap, and be
removed; six steps make a user, an item, an order, a line of it, an open page,
and one more row while the page is open, which is the shortest way to each
hazard of the forms. One phone is enough: rows of different phones share only
the sequence of ids. Symmetry is used on values that no definition
distinguishes and never in the run with liveness. `CHECK_DEADLOCK` is off where
the bound on requests or tokens lets an instance come to rest. The proofs
remove the bounds for the safety properties.

**What the expected violations say.** Each is a sentence of the repository the
code does not keep; `PROJECT.json` quotes it under `findings`. In short:
`refresh` and `revoke_all_for_user` need a row lock or a conditional UPDATE to
be what the README says; the failure counter needs an increment in SQL; the
recovery program does not set the flag two documents say it sets; the
bootstrap's promotion revokes nothing. The `Unless...` property beside each one
says that there is no other way to the same outcome.

**Fairness.** Only `sess_live` assumes any: strong fairness of a request's next
statement. The event loop resumes every coroutine whose statement was answered,
and PostgreSQL queues the waiters for a row lock in order of arrival, so one
that finds the lock free again and again gets it. Weak fairness would not say
that. Nothing is assumed of clients, of time, or of aborts.

## 4. Proofs

All for any number of accounts, tokens, addresses and overlapping requests.

**`SessionsProofs`.** `TypeInv` strengthens the types by what a request read
earlier: its token is still committed, its snapshot is a set of committed rows of
its account or family, the token it inserts belongs to no one else. On it rest
`StampsNeverRecede`, `LineageHolds`, `ForksAreRaces` (invariant: two requests
that hold one token are both known to the history as soon as one commits),
`OneLiveToken` and `SurvivorsAreRaces` (a session of an earlier generation is
revoked, in the snapshot of a request that will revoke it, or marked).
`OneLiveToken` cannot use induction along a family's chain; it uses that a
family has a single token that no committed rotation has replaced
(`OneUnrotated`), which is preserved step by step. From it follows
`PurgedTokensAreHarmless`: a purged token that no rotation replaced is the one
unreplaced token of its family, so the alarm it raises finds nothing alive.
`RevocationsAreOwn` rests on `TargetsOK` (what each snapshot may hold) and on a
family having one owner. `NoOtherDeadlock` rests on `LockOrder`: a sign-in that
holds the account's row at its INSERT presents no token and waits for nobody there;
any other holder of that row has only its COMMIT left. So nobody who waits for the
account's row is waited for in a circle, and a refresh that waits at its INSERT holds
nothing yet: what is left of any circle is requests in the middle of a bulk UPDATE.
`ImplementsLedger` is the refinement of the loose `SessionLedger`:
every commit is one of its steps, everything else a stutter. `SerialRotation`
and `SerialClosing` assume one request at a time, the documents' own view, and
prove what they promise in it: the exceptions of the two invariants above are
then empty (`NoRace`).
`SerialRequestsImplementLedger` is the refinement of the strict ledger under the
same assumption. Its invariant is `UpToDate`: the one request there is still
sees the table it read, so its token is unrotated and unrevoked when it rotates
it, and its snapshot is every token its closing operation names (`Targets`,
`ClosingOrder`: a bulk UPDATE runs before anything else is written).

**`LedgerProofs`.** What the abstract ledger amounts to: `LedgerFamilies` (a token,
its parent and its family's first token are one account's, strict or not),
`LedgerOneLive`, and `LedgerEndings`: an ended family stays ended. The induction
needs that only a live token is replaced and that its successor joins its family.
`EndedFamiliesStayEnded`, in `SessionsProofs`, carries the last over to the session
code by the refinement.

**`SignInProofs`.** `Computed` says for each operation which columns it may have
changed and to what, relative to the row it loaded; `SlotInv` that every
prepared request is so computed. A step that changes a column is then one of few
operations, and each property follows from what those do: e.g. the second
factor is verified because only `confirm`, `enrol` and the panel write `enabled`,
and a secret is replaced under an enabled factor only if a setup crossed a
confirmation. The stored count stays below the limit although the writers'
counts are stale, because each of them is below it. `SerialEnrolment`
and `SerialAdmins` assume one request at a time (the first also
that nobody uses the panel's form): the row a request loaded is then the row it
commits over (`Alone`). `SerialCredentials` collects what the other invariants say
in that case, where their exceptions are empty. `SerialGuessing` is the
refinement of `GuessLimiter`, for every limit: no failure is counted on a row that
is no longer the one loaded (`Counted`), so each step of the counter is the
limiter's miss, clearing or bar. It excludes the panel's form, which sets both
columns to anything.

**`AccountsProofs`.** The same pattern with many rows: `Creates`/`Changes` bound
what an operation writes; `SlotOK` adds what stays true of the row while others
commit, above all that a row about to be created is nobody else's, and that a
sign-in not crossed by a revocation still has the role of its account. `IInv` is
inductive. `AddressesHold` adds `AddressInv` to it: of the address a request has
checked and not yet written, any other live holder was given it by the panel meanwhile
or has it in the very spelling about to be written, and then the unique index refuses
the write (`Checked`). The service and the programs all write lower case, so two of
them that pass the check together meet at the index. `AdminsHold` follows from "who removes is another, and usable, at
that moment"; `PendingHold` from the invariant that a pending account is
flagged; both are action properties. The last section takes the exceptions of these
properties away, assuming that a request is accepted only when no other is under
way (`OneAtATime`): then what a request holds is the row of today (`UpToDate`),
and `SerialAdmins`, `SerialSessions` and `SerialDeletion` name the operations that
are left: the panel on the own row, the panel and the bootstrap, the panel. Those
exceptions come from what the operations do, not from an overlap.

**`DevicesProofs`.** A request's slot keeps the id it loaded, which no later row
gets again (ids are drawn once), and a phone's row never becomes another phone's;
so what a request writes lands on the row of the phone it meant, and a slot no
commit has crossed (`late`) still shows the row of today. `PhonesHaveOneRow` and
`ConsentIsKept` follow. `SerialConsent` says the latter of one request at a time
(`OneAtATime`), where no slot is late, and leaves only the panel's edit as an exception.

**`MarketplaceProofs`.** `IInv` says that the rows are those of their tables, with
unique keys and references that resolve, and that an open page shows a row of
its table. A save is the hard step, since it writes both sides of
every relationship: `KeptShape` and the lemmas before it say what is left of each table
after the references of the page (`OneSide`), the lists of the page (`ManySide`) and the
reduction to consistent rows. `RowsStayConsistent` follows from it. `FreshSavesAreExact`: on a page that shows the rows of today only the
entries edited differ, so no other row is written. `LinesStay`: a deletion that
would empty a line's order is refused, and a page takes a line away only if it
showed it. `RowsProofs` restates the three of `BothSpec`, the specification that
`rows` checks: a step of the phones changes nothing of the shop.

The only assumptions are the named `ASSUME`s on constants (the null values are
not values, the bounds are numbers, the bootstrap address is one in lower case, the limit is
positive), which TLC evaluates in every run, and one request at a time in the theorems that say
so: `Serial` (a single slot) or `[]OneAtATime` (slots are never busy together).

**Checked, not proved.** Liveness only (`RequestsEnd`, `ReuseEndsFamily`), which is
out of the prover's reach; their safety halves are theorems (`NoOtherDeadlock`, and
`EndingsMissNothingSeen`: a token an ending operation matches when its UPDATE begins
is in its snapshot, then ahead of its UPDATE or among the rows it holds, then revoked). Every invariant and
action property of a passing run, and each refinement, is the statement of a theorem.

## 5. Abstractions

- Hashes, tokens and codes are values; `verify_*` is equality. A weak hash stands
  for one made under an earlier cost.
- Expiry is an action that may happen at any time.
- PostgreSQL finds a deadlock after `deadlock_timeout`; `Victim` fails any request in it.
  The order in which a bulk UPDATE meets its rows depends on the plan and on where
  updates have moved them, and is any order here. Requests that write the `users` row
  and no session (a wrong password, a challenge) are in `SignIn` only: they hold one
  lock and then wait for nothing.
- In `SignIn` and `Accounts` the UPDATE and its COMMIT are one action: an update
  that waits for a lock has not been seen by anyone.
- Of the ways to spell an address there are two: lower case, and any other. What the
  panel writes keeps its spelling; where a live account has it in mixed case the
  panel's sign-in, which puts what is typed in lower case and compares the column
  itself, does not find that account.
- The panel's sign-in asks for the password alone, also when the second factor is
  enabled, and writes no column of `users`. It is `OpsLogin` of `Accounts`; `SignIn`
  has only the sign-in of the API, and no property says that every session was opened
  with a code.
- In `Accounts` a sign-in is one check and one commit, sessions of an account and
  role are not told apart, and a revocation is exact; `Sessions` says when it is
  not. A courier is a customer: no guard here tells them apart. A start may
  overlap the requests of a server that is draining, and the programs.
- The panel's edit page, in `Accounts`: it keeps the row it was opened on and is
  sent as shown or with one field edited, an address as typed. In `SignIn`:
  any values for the four fields at once, since nothing there depends on which of
  them the page had shown; `Edited` limits them for TLC only. The role, a fifth,
  stays what it was in `SignIn`.
- `Devices`: `platform` goes with the opt-in, `last_seen_at` decides nothing. A
  deleted account's tokens are refused, so only accounts that are there register.
- `Marketplace`: a save and a deletion are one step (they run in one transaction,
  and the pages stay open between them, which is where the time goes); an edit
  changes one reference or one entry of a list before it is saved; saves with several
  edits, and the creation form with its lists filled in, are not modelled. Columns that
  are no references, and the unique address and telephone of a user, are left
  out. The tables are those `create_all` makes; `db_inits/01_tables.sql` declares
  `order_item` with both columns in its key, under which an item may be in two
  orders.
- Requests refused without a write are left out; so is the audit log, whose rows
  nothing reads to decide.

**Not modelled.** The components marked `not_modelled` in `PROJECT.json`, with
reasons; the size of the connection pool; migrations. Of the panel, deleting rows
of the session and reset-link views: `docs/OPS_PANEL.md` calls both read-only, the
views refuse creation and editing but inherit `can_delete`. A session row deleted
there takes the stamp with it that detects a reuse of its token.

## 6. State of the plan

Done: `Sessions`, `SignIn`, `Accounts`, `Devices`, `Marketplace`, with the ledgers and
the limiter they implement, and the proofs of section 4.

Open, in this order:

1. Deletion of session rows on the panel in `Sessions` (the proofs use that rows
   stay), with `parent_id` set to NULL behind them.
2. `Marketplace` with the transactions of a save split into load and flush.
3. `SignIn` composed with `Sessions`, for challenges that outlive a password.
