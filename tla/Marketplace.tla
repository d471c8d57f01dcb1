----------------------------- MODULE Marketplace -----------------------------
(***************************************************************************)
(* The first prototype of the shop, main.py: nine tables, a route to add a *)
(* row to each, and a Starlette-Admin panel with a form on every table.    *)
(*                                                                         *)
(* What can go wrong is in the references.  A form shows the references of *)
(* a row and, the models naming both sides of every relationship, the rows *)
(* that refer to it; saving it writes both back as they were shown.  Forms *)
(* stay open while the API and other forms write.  A save or a deletion is *)
(* one transaction, and one step here.  Columns that refer to nothing are  *)
(* left out.                                                               *)
(***************************************************************************)
EXTENDS Naturals

CONSTANTS
    User, Supplier, Item, Selection,
    Pickup, Notification, Delivery,  \* keys of the tables (bounds)
    Null,                            \* a reference that is NULL, or no open page
    Form,                            \* pages of the panel that may be open
    MaxServed                        \* bound: rows added, pages opened; 0 for no bound

VARIABLES
    db,          \* committed rows of all tables
    form,        \* open pages: a row, and what the page shows of it
    served       \* accepted requests, counted only under a bound

vars == <<db, form, served>>

-----------------------------------------------------------------------------
(* The tables and their references. *)

\* need: nullable=False, or part of the primary key.
Reference(from, column, to, need) ==
    [from |-> from, column |-> column, to |-> to, need |-> need]

\* ForeignKey and relationship of the models.  An item is supplied by a user.
References ==
    { Reference("selections",    "client_id",      "users",      FALSE),
      Reference("items",         "supplier_id",    "users",      FALSE),
      Reference("order_items",   "item_id",        "items",      TRUE),
      Reference("order_items",   "selection_id",   "selections", TRUE),
      Reference("pickups",       "supplier_id",    "suppliers",  TRUE),
      Reference("pickups",       "pickup_agent",   "users",      FALSE),
      Reference("pickups",       "item_id",        "items",      TRUE),
      Reference("notifications", "user_id",        "users",      TRUE),
      Reference("favorites",     "client_id",      "users",      TRUE),
      Reference("favorites",     "item_id",        "items",      TRUE),
      Reference("deliveries",    "selection_id",   "selections", TRUE),
      Reference("deliveries",    "delivery_agent", "users",      FALSE) }

\* Keys a new row may get; two tables have a primary key made of references.
Keys ==
    [users |-> User, selections |-> Selection, suppliers |-> Supplier, items |-> Item,
     pickups |-> Pickup, notifications |-> Notification, deliveries |-> Delivery,
     order_items |-> {Null}, favorites |-> {Null}]

Tables == DOMAIN Keys

From(t) == {ref \in References : ref.from = t}
To(t)   == {ref \in References : ref.to = t}

\* The primary key of a row.
KeyOf(t, k, refs) ==
    IF t = "order_items"    THEN <<refs["item_id"]>>
    ELSE IF t = "favorites" THEN <<refs["client_id"], refs["item_id"]>>
    ELSE k

Row(t, k, refs) == [table |-> t, key |-> KeyOf(t, k, refs), refs |-> refs]

\* What a column that refers to table t may hold.
Targets(t) == Keys[t] \cup {Null}

\* References and rows as the columns' types allow them.
Columns(t) == {ref.column : ref \in From(t)}

Refs(t) ==
    {r \in [Columns(t) -> UNION {Targets(ref.to) : ref \in From(t)}] :
        \A ref \in From(t) : r[ref.column] \in Targets(ref.to)}

Rows(t) == {Row(t, k, refs) : k \in Keys[t], refs \in Refs(t)}

Has(t, key) == \E x \in db : x.table = t /\ x.key = key

\* Mutant: the column is declared without its foreign key.
ResolvesIfNeeded(rows, ref, v) == v # Null \/ ~ref.need

\* FOREIGN KEY and NOT NULL, of the value v of one reference.
Resolves(rows, ref, v) ==
    IF v = Null THEN ~ref.need ELSE \E x \in rows : x.table = ref.to /\ x.key = v

Init == db = {} /\ form = [f \in Form |-> Null] /\ served = 0

-----------------------------------------------------------------------------
(* POST /users, /selections, /suppliers, /items, /order-items, /pickups,     *)
(* /notifications, /favorites, /deliveries.                                  *)

Accept ==
    IF MaxServed = 0 THEN UNCHANGED served
    ELSE served < MaxServed /\ served' = served + 1

\* A row the constraints refuse is an error to the caller, and changes nothing.
Create(x) ==
    /\ Accept
    /\ ~Has(x.table, x.key)
    /\ \A ref \in From(x.table) : Resolves(db, ref, x.refs[ref.column])
    /\ db' = db \cup {x}
    /\ UNCHANGED form

-----------------------------------------------------------------------------
(* The panel. *)

\* The keys of the rows that refer to x by ref.
Children(x, ref) == {y.key : y \in {z \in db : z.table = ref.from /\ z.refs[ref.column] = x.key}}

\* What the page of x shows: its references, and the rows that refer to it.
Page(x) == [row |-> x, many |-> [ref \in To(x.table) |-> Children(x, ref)]]

OpenForm(f, x) ==
    /\ Accept /\ form[f] = Null
    /\ form' = [form EXCEPT ![f] = Page(x)]
    /\ UNCHANGED db

CloseForm(f) ==
    /\ form[f] # Null /\ form' = [form EXCEPT ![f] = Null]
    /\ UNCHANGED <<db, served>>

\* Pages as an administrator may send page p: as it is, with another value of
\* one reference, or with one row put on or taken off one list.
Edited(p) ==
    {p} \cup (UNION {{[p EXCEPT !.row.refs[ref.column] = v] : v \in Targets(ref.to)} :
                        ref \in From(p.row.table)})
        \cup (UNION {{[p EXCEPT !.many[ref] = @ \cup {y.key}] :
                         y \in {z \in db : z.table = ref.from}}
                         \cup {[p EXCEPT !.many[ref] = @ \ {k}] : k \in p.many[ref]} :
                        ref \in To(p.row.table)})

\* A reference of the row itself: a key that is gone is found as None.
OneSide(p, ref) ==
    IF Has(ref.to, p.row.refs[ref.column]) THEN p.row.refs[ref.column] ELSE Null

\* Mutant: lists are hidden from the form, and arrive empty.
ManySideHidden(p, ref, y) ==
    IF y.refs[ref.column] = p.row.key THEN Null ELSE y.refs[ref.column]

\* A reference of another row y to this one: the rows listed get it, the rows
\* that have it and are not listed lose it.
ManySide(p, ref, y) ==
    IF y.key \in p.many[ref]              THEN p.row.key
    ELSE IF y.refs[ref.column] = p.row.key THEN Null
    ELSE y.refs[ref.column]

\* Row y after page p is saved.
After(p, y) ==
    Row(y.table, y.key,
        [c \in DOMAIN y.refs |->
            LET ref == CHOOSE z \in From(y.table) : z.column = c IN
            IF y.table = p.row.table /\ y.key = p.row.key THEN OneSide(p, ref)
            ELSE IF ref.to = p.row.table                  THEN ManySide(p, ref, y)
            ELSE y.refs[c]])

\* The constraints, checked on the rows the transaction leaves.
Consistent(rows) ==
    \A y \in rows : \A ref \in From(y.table) : Resolves(rows, ref, y.refs[ref.column])

Save(f, q) ==
    LET after == [y \in db |-> After(q, y)] IN
    /\ Has(q.row.table, q.row.key)
    /\ db' = {after[y] : y \in db}
    /\ \A y, z \in db : after[y].table = after[z].table /\ after[y].key = after[z].key => y = z
    /\ Consistent(db')
    /\ form' = [form EXCEPT ![f] = Null]
    /\ UNCHANGED served

\* Mutant: cascade="all, delete-orphan" on the relationships.
RemainCascade(x) ==
    {y \in db \ {x} : \A ref \in To(x.table) :
        y.table = ref.from => y.refs[ref.column] # x.key}

\* No relationship cascades: the rows that refer to x are loaded, and their
\* reference to it set to NULL.
Remain(x) ==
    {[y EXCEPT !.refs = [c \in DOMAIN y.refs |->
        IF \E ref \in To(x.table) : ref.from = y.table /\ ref.column = c /\ y.refs[c] = x.key
        THEN Null ELSE y.refs[c]]] : y \in db \ {x}}

Delete(x) ==
    /\ db' = Remain(x)
    /\ Consistent(db')
    /\ UNCHANGED <<form, served>>

Next ==
    \/ \E t \in Tables : \E x \in Rows(t) : Create(x)
    \/ \E f \in Form : \/ \E x \in db : OpenForm(f, x)
                       \/ CloseForm(f)
                       \/ form[f] # Null /\ \E q \in Edited(form[f]) : Save(f, q)
    \/ \E x \in db : Delete(x)

Spec == Init /\ [][Next]_vars

-----------------------------------------------------------------------------
(* Properties. *)

\* Types; a key names one row, and no reference is left dangling.
TypeOK ==
    /\ \A x \in db : x.table \in Tables /\ x \in Rows(x.table)
    /\ \A x, y \in db : x.table = y.table /\ x.key = y.key => x = y
    /\ \A x \in db : \A ref \in From(x.table) :
          x.refs[ref.column] # Null => Has(ref.to, x.refs[ref.column])
    /\ \A f \in Form : form[f] # Null => form[f].row \in Rows(form[f].row.table)
    /\ served \in Nat

Fresh(p) == \E x \in db : p = Page(x)

\* Saving a page that still shows the rows of today changes its own row and
\* the rows put on or taken off its lists, and no other: the six lists of a
\* user and the references behind them are written together.
ExactSaves ==
    \A f \in Form : form[f] # Null /\ Fresh(form[f]) =>
        \A q \in Edited(form[f]) : Save(f, q) =>
            \A y \in db \ db' :
               \/ y = form[f].row /\ q.row # form[f].row
               \/ \E ref \in To(q.row.table) :
                     y.table = ref.from
                         /\ (y.key \in q.many[ref]) # (y.key \in form[f].many[ref])

FreshSaveIsExact == [][ExactSaves]_vars

\* A line leaves its order when it is deleted, when its own page is saved, or
\* when a page is saved that names it: a page opened before the line was added
\* cannot drop it, nor can a deletion of the order or of the item.
NamedLines ==
    \A y \in db \ db' : y.table = "order_items" =>
        \/ Delete(y)
        \/ \E f \in Form : /\ form[f] # Null
                          /\ \E q \in Edited(form[f]) :
                                /\ Save(f, q)
                                /\ \/ q.row.table = y.table /\ q.row.key = y.key
                                   \/ \E ref \in To(q.row.table) :
                                         ref.from = y.table /\ y.key \in q.many[ref]

LinesStayInTheirOrder == [][NamedLines]_vars
=============================================================================
