------------------------------- MODULE Devices -------------------------------
(***************************************************************************)
(* The phones of app/modules/identity: device_tokens, one row for each     *)
(* installation of the mobile application, with the account it belongs to  *)
(* and whether that account agreed to marketing messages.                  *)
(*                                                                         *)
(* A phone changes hands, and the application registers it again at every  *)
(* sign-in: upsert_device_token loads the row of the phone and writes the  *)
(* columns that differ, delete_device_token loads it and deletes it by     *)
(* id, and the view of the ops panel does both.  Between the load and the  *)
(* commit of a request, others commit.                                     *)
(***************************************************************************)
EXTENDS Naturals

CONSTANTS
    Account,
    Device,      \* push tokens, one per installation
    Id,          \* values of the serial primary key, numbers (a bound)
    Request,
    MaxServed    \* bound: requests accepted in a behaviour; 0 for no bound

VARIABLES
    row,         \* committed rows, by id
    drawn,       \* ids the sequence has given out
    gone,        \* accounts whose users row was deleted
    req,
    served,      \* accepted requests, counted only under a bound
    agreed,      \* history: <<a, d>> where a, registering d last, agreed to marketing
    mixed        \* history: rows not last written by one registration on its own

table == <<row, drawn, gone>>
vars  == <<table, req, served, agreed, mixed>>

-----------------------------------------------------------------------------
\* platform is treated as opt_in is; last_seen_at decides nothing.
Rows == [user : Account, token : Device, opt_in : BOOLEAN]

Slots == [op : {"update", "insert", "delete", "panel", "erase"},
          id : Id, old : Rows, new : Rows,   \* the row as loaded, and as computed
          late : BOOLEAN]                    \* history: another commit on the row since
             \cup [op : {"idle"}]

Idle == [op |-> "idle"]

present == DOMAIN row

Holds(d) == {i \in present : row[i].token = d}

Init ==
    /\ row = [i \in {} |-> Idle] /\ drawn = {} /\ gone = {}
    /\ req = [r \in Request |-> Idle] /\ served = 0
    /\ agreed = {} /\ mixed = {}

-----------------------------------------------------------------------------
Accept ==
    IF MaxServed = 0 THEN UNCHANGED served
    ELSE served < MaxServed /\ served' = served + 1

Begin(r, op, i, old, new) ==
    /\ req[r].op = "idle" /\ Accept
    /\ req' = [req EXCEPT ![r] = [op |-> op, id |-> i, old |-> old, new |-> new,
                                  late |-> FALSE]]
    /\ UNCHANGED <<row, gone, agreed, mixed>>

\* A request on row i, which it has loaded.
OnRow(r, op, i, new) == i \in present /\ Begin(r, op, i, row[i], new) /\ UNCHANGED drawn

\* upsert_device_token: the phone is known, to whomever it belongs.
Update(r, a, d, yes) ==
    \E i \in Holds(d) : OnRow(r, "update", i, [user |-> a, token |-> d, opt_in |-> yes])

\* It is not: INSERT under the next id.
Insert(r, a, d, yes) ==
    LET new == [user |-> a, token |-> d, opt_in |-> yes] IN
    /\ Holds(d) = {}
    /\ \E i \in Id \ drawn : /\ \A j \in Id \ drawn : i <= j
                           /\ Begin(r, "insert", i, new, new)
                           /\ drawn' = drawn \cup {i}

\* delete_device_token: the caller's row of the phone; without one, nothing.
Delete(r, a, d) ==
    \E i \in {j \in Holds(d) : row[j].user = a} : OnRow(r, "delete", i, row[i])

\* The panel edits the owner and the opt-in, or deletes.  Creation through the
\* panel always fails: the form lacks the token, which is NOT NULL.
Edit(r, i)  == \E a \in Account, yes \in BOOLEAN :
                  OnRow(r, "panel", i, [user |-> a, token |-> row[i].token, opt_in |-> yes])
Erase(r, i) == OnRow(r, "erase", i, row[i])

Arrive(r) ==
    \/ \E a \in Account \ gone, d \in Device :
          Delete(r, a, d) \/ \E yes \in BOOLEAN : Update(r, a, d, yes) \/ Insert(r, a, d, yes)
    \/ \E i \in present : Edit(r, i) \/ Erase(r, i)

-----------------------------------------------------------------------------
\* Mutant: marketing_opt_in is only set when the row is inserted.
MergeOwner(q) == [row[q.id] EXCEPT !.user = IF q.new.user # q.old.user THEN q.new.user ELSE @]

\* UPDATE sets the columns that differ from those loaded, over the row of today.
Merge(q) ==
    [row[q.id] EXCEPT
        !.user   = IF q.new.user # q.old.user THEN q.new.user ELSE @,
        !.opt_in = IF q.new.opt_in # q.old.opt_in THEN q.new.opt_in ELSE @]

\* The other requests on the row have loaded a stale one.
Release(r, i) ==
    req' = [s \in Request |-> IF s = r THEN Idle
                              ELSE IF req[s].op # "idle" /\ req[s].id = i
                                   THEN [req[s] EXCEPT !.late = TRUE] ELSE req[s]]

\* Who agreed to what, as of the registration q.
Agree(q) ==
    IF q.new.opt_in THEN agreed \cup {<<q.new.user, q.new.token>>}
    ELSE agreed \ {<<q.new.user, q.new.token>>}

\* An UPDATE that finds no row raises StaleDataError; the user_id it leaves is
\* a foreign key of users.
CommitUpdate(r) ==
    LET q == req[r] IN
    /\ q.op \in {"update", "panel"}
    /\ q.id \in present /\ Merge(q).user \notin gone
    /\ row' = [row EXCEPT ![q.id] = Merge(q)]
    /\ agreed' = IF q.op = "update" THEN Agree(q) ELSE agreed
    /\ mixed' = IF q.op = "panel" \/ q.late THEN mixed \cup {q.id} ELSE mixed \ {q.id}
    /\ Release(r, q.id)
    /\ UNCHANGED <<drawn, gone, served>>

\* Mutant: the column is indexed, not unique.
KnownNever(d) == FALSE

\* device_tokens.token is unique.
Known(d) == Holds(d) # {}

CommitInsert(r) ==
    LET q == req[r] IN
    /\ q.op = "insert"
    /\ ~Known(q.new.token) /\ q.new.user \notin gone
    /\ row' = [i \in present \cup {q.id} |-> IF i = q.id THEN q.new ELSE row[i]]
    /\ agreed' = Agree(q)
    /\ Release(r, q.id)
    /\ UNCHANGED <<drawn, gone, served, mixed>>

\* DELETE ... WHERE id = ..., whoever the row belongs to by now.
CommitDelete(r) ==
    LET q == req[r] IN
    /\ q.op \in {"delete", "erase"}
    /\ row' = [i \in present \ {q.id} |-> row[i]]
    /\ Release(r, q.id)
    /\ UNCHANGED <<drawn, gone, served, agreed, mixed>>

\* Refused by a constraint or StaleDataError, cancelled, failed, or crashed.
Abort(r) ==
    /\ req[r].op # "idle"
    /\ req' = [req EXCEPT ![r] = Idle]
    /\ UNCHANGED <<table, served, agreed, mixed>>

\* Mutant: no ON DELETE CASCADE.
LeaveRows(a) == {}

\* user_id REFERENCES users ON DELETE CASCADE.
RowsOf(a) == {i \in present : row[i].user = a}

\* The panel deletes the users row.
DeleteAccount(a) ==
    /\ a \notin gone
    /\ gone' = gone \cup {a}
    /\ row' = [i \in present \ RowsOf(a) |-> row[i]]
    /\ UNCHANGED <<drawn, req, served, agreed, mixed>>

Next ==
    \/ \E r \in Request : \/ Arrive(r) \/ CommitUpdate(r) \/ CommitInsert(r)
                          \/ CommitDelete(r) \/ Abort(r)
    \/ \E a \in Account : DeleteAccount(a)

Spec == Init /\ [][Next]_vars

-----------------------------------------------------------------------------
(* Properties. *)

\* Types; a row's account exists, whatever was in flight when it was deleted.
TypeOK ==
    /\ present \subseteq drawn /\ drawn \subseteq Id /\ gone \subseteq Account
    /\ row \in [present -> Rows] /\ \A i \in present : row[i].user \notin gone
    /\ req \in [Request -> Slots] /\ served \in Nat
    /\ agreed \subseteq Account \X Device /\ mixed \subseteq Id

\* scalar_one_or_none expects one row per phone: the upsert looks first and
\* inserts later, on several connections at once.
OneRowPerDevice ==
    \A i, j \in present : row[i].token = row[j].token => i = j

\* Marketing goes to accounts that agreed on this phone: a phone that changed
\* hands does not keep the answer of its previous owner, unless registrations
\* of it overlapped, or the panel wrote the row.
ConsentIsTheOwners ==
    \A i \in present \ mixed : row[i].opt_in => <<row[i].user, row[i].token>> \in agreed
=============================================================================
