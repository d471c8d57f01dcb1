-------------------------- MODULE MarketplaceProofs --------------------------
(***************************************************************************)
(* Proofs about Marketplace, for any keys of the tables, any number of     *)
(* open pages and any number of requests.                                  *)
(*                                                                         *)
(* The invariant is the database's own: every row is one its table's       *)
(* columns allow, keys are unique, and every reference is resolved.        *)
(***************************************************************************)
EXTENDS Marketplace, TLAPS

UniqueKeys == \A x, y \in db : x.table = y.table /\ x.key = y.key => x = y

RowsOK == /\ \A x \in db : x.table \in Tables /\ x \in Rows(x.table)
          /\ UniqueKeys
          /\ Consistent(db)

FormsOK == /\ DOMAIN form = Form
           /\ \A f \in Form : form[f] # Null => form[f].row \in Rows(form[f].row.table)

IInv == RowsOK /\ FormsOK /\ served \in Nat

-----------------------------------------------------------------------------
(* The tables. *)

\* The two tables whose key is made of references.
Joins == {"order_items", "favorites"}

\* What a reference says.
LEMMA ReferenceFields ==
    \A from, column, to, need :
        LET ref == Reference(from, column, to, need) IN
        ref.from = from /\ ref.column = column /\ ref.to = to /\ ref.need = need
  BY DEF Reference

\* Which tables refer, and to which.
LEMMA ReferenceTables ==
    ASSUME NEW ref \in References
    PROVE  /\ ref.from \in {"selections", "items", "order_items", "pickups",
                            "notifications", "favorites", "deliveries"}
           /\ ref.to \in {"users", "suppliers", "items", "selections"}
<1>1. \E from \in {"selections", "items", "order_items", "pickups",
                   "notifications", "favorites", "deliveries"},
         to \in {"users", "suppliers", "items", "selections"} :
         \E column, need : ref = Reference(from, column, to, need)
  BY Zenon DEF References
<1> QED
  BY <1>1, ReferenceFields

\* A column of a table is one reference.
LEMMA OneReferencePerColumn ==
    ASSUME NEW t, NEW a \in From(t), NEW b \in From(t), a.column = b.column
    PROVE  a = b
<1> DEFINE One(s) == \A x, y \in From(s) : x.column = y.column => x = y
<1>1. t \in {"selections", "items", "order_items", "pickups",
            "notifications", "favorites", "deliveries"}
  BY ReferenceTables DEF From
<1>2. One("selections")
  <2> DEFINE F == Reference("selections", "client_id", "users", FALSE)
  <2>1. From("selections") = {F}
    BY DEF From, References, Reference
  <2> HIDE DEF F
  <2> QED
    BY <2>1
<1>3. One("items")
  <2> DEFINE F == Reference("items", "supplier_id", "users", FALSE)
  <2>1. From("items") = {F}
    BY DEF From, References, Reference
  <2> HIDE DEF F
  <2> QED
    BY <2>1
<1>4. One("order_items")
  <2> DEFINE F == Reference("order_items", "item_id", "items", TRUE)
             G == Reference("order_items", "selection_id", "selections", TRUE)
  <2>1. From("order_items") = {F, G}
    BY DEF From, References, Reference
  <2>2. F.column = "item_id" /\ G.column = "selection_id"
    BY DEF Reference
  <2> HIDE DEF F, G
  <2> QED
    BY <2>1, <2>2
<1>5. One("pickups")
  <2> DEFINE F == Reference("pickups", "supplier_id", "suppliers", TRUE)
             G == Reference("pickups", "pickup_agent", "users", FALSE)
             H == Reference("pickups", "item_id", "items", TRUE)
  <2>1. From("pickups") = {F, G, H}
    BY DEF From, References, Reference
  <2>2. F.column = "supplier_id" /\ G.column = "pickup_agent" /\ H.column = "item_id"
    BY DEF Reference
  <2> HIDE DEF F, G, H
  <2> QED
    BY <2>1, <2>2
<1>6. One("notifications")
  <2> DEFINE F == Reference("notifications", "user_id", "users", TRUE)
  <2>1. From("notifications") = {F}
    BY DEF From, References, Reference
  <2> HIDE DEF F
  <2> QED
    BY <2>1
<1>7. One("favorites")
  <2> DEFINE F == Reference("favorites", "client_id", "users", TRUE)
             G == Reference("favorites", "item_id", "items", TRUE)
  <2>1. From("favorites") = {F, G}
    BY DEF From, References, Reference
  <2>2. F.column = "client_id" /\ G.column = "item_id"
    BY DEF Reference
  <2> HIDE DEF F, G
  <2> QED
    BY <2>1, <2>2
<1>8. One("deliveries")
  <2> DEFINE F == Reference("deliveries", "selection_id", "selections", TRUE)
             G == Reference("deliveries", "delivery_agent", "users", FALSE)
  <2>1. From("deliveries") = {F, G}
    BY DEF From, References, Reference
  <2>2. F.column = "selection_id" /\ G.column = "delivery_agent"
    BY DEF Reference
  <2> HIDE DEF F, G
  <2> QED
    BY <2>1, <2>2
<1> HIDE DEF One
<1>9. One(t)
  BY <1>1, <1>2, <1>3, <1>4, <1>5, <1>6, <1>7, <1>8
<1> QED
  BY <1>9 DEF One

\* What the two have, and what their keys are made of cannot be NULL.
LEMMA JoinColumns ==
    /\ \A ref \in From("order_items") \cup From("favorites") : ref.need
    /\ Columns("order_items") = {"item_id", "selection_id"}
    /\ Columns("favorites") = {"client_id", "item_id"}
<1> DEFINE F == Reference("order_items", "item_id", "items", TRUE)
           G == Reference("order_items", "selection_id", "selections", TRUE)
           H == Reference("favorites", "client_id", "users", TRUE)
           J == Reference("favorites", "item_id", "items", TRUE)
<1>1. From("order_items") = {F, G} /\ F.column = "item_id" /\ G.column = "selection_id"
  BY DEF From, References, Reference
<1>2. From("favorites") = {H, J} /\ H.column = "client_id" /\ J.column = "item_id"
  BY DEF From, References, Reference
<1>3. F.need /\ G.need /\ H.need /\ J.need
  BY DEF Reference
<1> HIDE DEF F, G, H, J
<1> QED
  BY <1>1, <1>2, <1>3 DEF Columns

\* A reference is to a table with keys of its own.
LEMMA TargetTables ==
    ASSUME NEW t, NEW ref \in From(t)
    PROVE  ref.to \in Tables \ Joins /\ ref.from = t /\ t \in Tables
<1>1. ref \in References /\ ref.from = t
  BY DEF From
<1>2. Tables = {"users", "selections", "suppliers", "items", "pickups",
                "notifications", "deliveries", "order_items", "favorites"}
  BY DEF Tables, Keys
<1> QED
  BY <1>1, <1>2, ReferenceTables DEF Joins

\* A row's parts.
LEMMA RowParts ==
    ASSUME NEW t, NEW k, NEW refs
    PROVE  /\ Row(t, k, refs).table = t /\ Row(t, k, refs).refs = refs
           /\ Row(t, k, refs).key = KeyOf(t, k, refs)
           /\ Row(t, KeyOf(t, k, refs), refs) = Row(t, k, refs)
           /\ t \notin Joins => KeyOf(t, k, refs) = k
  BY DEF Row, KeyOf, Joins

\* What a row of table t is, and what makes one.
LEMMA RowShape ==
    ASSUME NEW t, NEW x \in Rows(t)
    PROVE  /\ x.table = t /\ x.refs \in Refs(t)
           /\ t \notin Joins => x.key \in Keys[t]
           /\ x.key = KeyOf(t, x.key, x.refs) /\ x = Row(t, x.key, x.refs)
<1>1. PICK k \in Keys[t], refs \in Refs(t) : x = Row(t, k, refs)
  BY DEF Rows
<1> QED
  BY <1>1, RowParts

\* Any key of the table, or none for a table without, will do.
LEMMA RowIsMade ==
    ASSUME NEW t \in Tables, NEW k, NEW refs \in Refs(t), t \notin Joins => k \in Keys[t]
    PROVE  Row(t, k, refs) \in Rows(t)
<1>1. CASE t \notin Joins
  BY <1>1 DEF Rows
<1>2. CASE t \in Joins
  <2>1. Null \in Keys[t]
    BY <1>2 DEF Keys, Joins
  <2>2. Row(t, k, refs) = Row(t, Null, refs)
    BY <1>2 DEF Row, KeyOf, Joins
  <2> QED
    BY <2>1, <2>2 DEF Rows
<1> QED
  BY <1>1, <1>2

\* References of a row, column by column.
LEMMA RefsAreMade ==
    ASSUME NEW t, NEW g, g = [c \in Columns(t) |-> g[c]],
           \A ref \in From(t) : g[ref.column] \in Targets(ref.to)
    PROVE  g \in Refs(t)
<1>1. \A c \in Columns(t) : g[c] \in UNION {Targets(ref.to) : ref \in From(t)}
  BY DEF Columns
<1> QED
  BY <1>1 DEF Refs

\* The references of a row are a function on its table's columns.
LEMMA RefsShape ==
    ASSUME NEW t, NEW g \in Refs(t)
    PROVE  /\ g = [c \in Columns(t) |-> g[c]] /\ DOMAIN g = Columns(t)
           /\ \A ref \in From(t) : g[ref.column] \in Targets(ref.to)
  BY DEF Refs

\* The key of a stored row may be referred to.
LEMMA KeyIsTarget ==
    ASSUME RowsOK, NEW t, NEW ref \in From(t), NEW k, Has(ref.to, k)
    PROVE  k \in Targets(ref.to)
<1>1. PICK x \in db : x.table = ref.to /\ x.key = k
  BY DEF Has
<1>2. x \in Rows(ref.to) /\ ref.to \notin Joins
  BY <1>1, TargetTables DEF RowsOK
<1> QED
  BY <1>1, <1>2, RowShape DEF Targets

\* A row whose key is made of references keeps its key with them.
LEMMA SameKey ==
    ASSUME NEW t, NEW k, NEW g, NEW h,
           t \in Joins => \A c \in Columns(t) : g[c] = h[c]
    PROVE  KeyOf(t, k, g) = KeyOf(t, k, h)
  BY JoinColumns DEF KeyOf, Joins

-----------------------------------------------------------------------------
(* The operations. *)

Own(p, y) == y.table = p.row.table /\ y.key = p.row.key

\* What a reference of y is after page p is saved.
NewRef(p, y, ref) ==
    IF Own(p, y) THEN OneSide(p, ref)
    ELSE IF ref.to = p.row.table THEN ManySide(p, ref, y) ELSE y.refs[ref.column]

\* A row is its table, its key and its references.
LEMMA SameRow ==
    ASSUME NEW t, NEW y \in Rows(t), NEW g, g = [c \in Columns(t) |-> g[c]],
           \A ref \in From(t) : g[ref.column] = y.refs[ref.column]
    PROVE  g = y.refs /\ Row(t, y.key, g) = y
<1>1. y.refs = [c \in Columns(t) |-> y.refs[c]] /\ y = Row(t, y.key, y.refs)
  BY RowShape, RefsShape
<1>2. \A c \in Columns(t) : g[c] = y.refs[c]
  BY DEF Columns
<1>3. g = y.refs
  BY <1>1, <1>2
<1> QED
  BY <1>1, <1>3

\* A row after a page is saved, reference by reference.
LEMMA AfterShape ==
    ASSUME RowsOK, NEW p, NEW y \in db
    PROVE  LET g == After(p, y).refs IN
           /\ After(p, y).table = y.table /\ After(p, y) = Row(y.table, y.key, g)
           /\ g = [c \in Columns(y.table) |-> g[c]]
           /\ \A ref \in From(y.table) : g[ref.column] = NewRef(p, y, ref)
<1> DEFINE TheRef(c) == CHOOSE z \in From(y.table) : z.column = c
           G == [c \in DOMAIN y.refs |->
                   LET ref == TheRef(c) IN
                   IF y.table = p.row.table /\ y.key = p.row.key THEN OneSide(p, ref)
                   ELSE IF ref.to = p.row.table                  THEN ManySide(p, ref, y)
                   ELSE y.refs[c]]
<1>1. After(p, y) = Row(y.table, y.key, G)
  BY DEF After
<1>2. DOMAIN y.refs = Columns(y.table)
  BY RowShape, RefsShape DEF RowsOK
<1>3. ASSUME NEW ref \in From(y.table)
      PROVE  G[ref.column] = NewRef(p, y, ref)
  <2>1. TheRef(ref.column) = ref
    BY OneReferencePerColumn
  <2>2. ref.column \in DOMAIN y.refs
    BY <1>2 DEF Columns
  <2> HIDE DEF TheRef
  <2> QED
    BY <2>1, <2>2 DEF NewRef, Own
<1>4. G = [c \in Columns(y.table) |-> G[c]]
  BY <1>2
<1> HIDE DEF G
<1> QED
  BY <1>1, <1>3, <1>4, RowParts

\* Every step leaves rows that their tables allow.
LEMMA CreateStep ==
    ASSUME RowsOK, NEW t \in Tables, NEW x \in Rows(t), Create(x)
    PROVE  RowsOK'
<1>1. db' = db \cup {x} /\ ~Has(x.table, x.key) /\ x.table = t
  BY RowShape DEF Create
<1>2. \A ref \in From(x.table) : Resolves(db, ref, x.refs[ref.column])
  BY DEF Create
<1>3. \A ref, v : Resolves(db, ref, v) => Resolves(db', ref, v)
  BY <1>1 DEF Resolves
<1>4. Consistent(db')
  BY <1>1, <1>2, <1>3 DEF Consistent, RowsOK
<1>5. UniqueKeys'
  BY <1>1 DEF RowsOK, UniqueKeys, Has
<1> QED
  BY <1>1, <1>4, <1>5 DEF RowsOK

LEMMA SaveStep ==
    ASSUME RowsOK, NEW f, NEW q, Save(f, q)
    PROVE  RowsOK'
<1> DEFINE after == [y \in db |-> After(q, y)]
<1>1. /\ db' = {after[y] : y \in db} /\ Consistent(db') /\ Has(q.row.table, q.row.key)
      /\ \A y, z \in db : after[y].table = after[z].table /\ after[y].key = after[z].key
                             => y = z
  BY DEF Save
<1>2. \A y \in db : after[y] = After(q, y)
  OBVIOUS
<1> HIDE DEF after
<1>3. UniqueKeys'
  BY <1>1 DEF UniqueKeys
<1>4. ASSUME NEW y \in db
      PROVE  After(q, y) \in Rows(y.table) /\ After(q, y).table = y.table
  <2> DEFINE g == After(q, y).refs
  <2>1. y.table \in Tables /\ y \in Rows(y.table) /\ y.refs \in Refs(y.table)
        /\ (y.table \notin Joins => y.key \in Keys[y.table])
    BY RowShape DEF RowsOK
  <2>2. \A ref \in From(y.table) : Null \in Targets(ref.to)
    BY DEF Targets
  <2>3. \A ref \in From(y.table) : NewRef(q, y, ref) \in Targets(ref.to)
    BY <1>1, <2>1, <2>2, KeyIsTarget, RefsShape DEF NewRef, OneSide, ManySide
  <2>4. /\ After(q, y).table = y.table /\ After(q, y) = Row(y.table, y.key, g)
        /\ g = [c \in Columns(y.table) |-> g[c]]
        /\ \A ref \in From(y.table) : g[ref.column] = NewRef(q, y, ref)
    BY AfterShape
  <2> HIDE DEF g
  <2>5. g \in Refs(y.table)
    BY <2>3, <2>4, RefsAreMade
  <2>6. Row(y.table, y.key, g) \in Rows(y.table)
    BY <2>1, <2>5, RowIsMade
  <2> QED
    BY <2>4, <2>6
<1> QED
  BY <1>1, <1>2, <1>3, <1>4 DEF RowsOK

\* Row y once x is deleted.
Emptied(x, y) ==
    [c \in DOMAIN y.refs |->
        IF \E ref \in To(x.table) : ref.from = y.table /\ ref.column = c /\ y.refs[c] = x.key
        THEN Null ELSE y.refs[c]]
Kept(x, y) == [y EXCEPT !.refs = Emptied(x, y)]

\* It is a row of its table with the same key, and only references that may be
\* NULL were emptied.
LEMMA KeptShape ==
    ASSUME RowsOK, NEW x \in db, Delete(x), NEW y \in db \ {x}
    PROVE  /\ Kept(x, y) \in db' /\ Kept(x, y) \in Rows(y.table)
           /\ Kept(x, y).table = y.table /\ Kept(x, y).key = y.key
           /\ Kept(x, y) = Row(y.table, y.key, Emptied(x, y))
           /\ Emptied(x, y) = [c \in Columns(y.table) |-> Emptied(x, y)[c]]
           /\ \A ref \in From(y.table) :
                 \/ Emptied(x, y)[ref.column] = y.refs[ref.column]
                 \/ Emptied(x, y)[ref.column] = Null /\ ~ref.need
<1> DEFINE g == Emptied(x, y)
           z == [table |-> y.table, key |-> y.key, refs |-> g]
<1>1. y.table \in Tables /\ y \in Rows(y.table) /\ y.refs \in Refs(y.table)
      /\ DOMAIN y.refs = Columns(y.table)
  BY RowShape, RefsShape DEF RowsOK
<1>2. Kept(x, y) \in db' /\ Consistent(db')
  BY DEF Delete, Remain, Kept, Emptied
<1>3. g = [c \in Columns(y.table) |-> g[c]]
      /\ \A c \in Columns(y.table) : g[c] = Null \/ g[c] = y.refs[c]
  BY <1>1 DEF Emptied
<1> HIDE DEF g
<1>4. Kept(x, y) = z
  <2>1. y = [table |-> y.table, key |-> y.key, refs |-> y.refs]
    BY <1>1, RowShape DEF Row
  <2> QED
    BY <2>1 DEF Kept, g
<1>5. ASSUME NEW ref \in From(y.table)
      PROVE  g[ref.column] = y.refs[ref.column] \/ (g[ref.column] = Null /\ ~ref.need)
  <2>1. Resolves(db', ref, g[ref.column])
    <3>1. z \in db' /\ z.table = y.table /\ z.refs = g
      BY <1>2, <1>4
    <3> HIDE DEF z
    <3> QED
      BY <1>2, <3>1 DEF Consistent
  <2>2. ref.column \in Columns(y.table)
    BY DEF Columns
  <2> QED
    BY <1>3, <2>1, <2>2 DEF Resolves
<1>6. \A ref \in From(y.table) : g[ref.column] \in Targets(ref.to)
  BY <1>1, <1>5, RefsShape DEF Targets
<1>7. g \in Refs(y.table)
  BY <1>3, <1>6, RefsAreMade
<1>8. KeyOf(y.table, y.key, g) = y.key
  <2>1. y.table \in Joins => \A c \in Columns(y.table) : g[c] = y.refs[c]
    BY <1>5, JoinColumns DEF Joins, Columns
  <2>2. KeyOf(y.table, y.key, g) = KeyOf(y.table, y.key, y.refs)
    BY <2>1, SameKey
  <2> QED
    BY <1>1, <2>2, RowShape
<1>9. z = Row(y.table, y.key, g)
  BY <1>8 DEF Row
<1>10. Row(y.table, y.key, g) \in Rows(y.table)
  BY <1>1, <1>7, RowIsMade, RowShape
<1> QED
  BY <1>2, <1>3, <1>4, <1>5, <1>9, <1>10 DEF g

LEMMA DeleteStep ==
    ASSUME RowsOK, NEW x \in db, Delete(x)
    PROVE  RowsOK'
<1>1. Consistent(db')
  BY DEF Delete
<1>2. db' = {Kept(x, y) : y \in db \ {x}}
  BY DEF Delete, Remain, Kept, Emptied
<1>3. \A y \in db \ {x} : /\ y.table \in Tables /\ Kept(x, y) \in Rows(y.table)
                          /\ Kept(x, y).table = y.table /\ Kept(x, y).key = y.key
  BY KeptShape DEF RowsOK
<1>4. UniqueKeys'
  BY <1>2, <1>3 DEF RowsOK, UniqueKeys
<1> QED
  BY <1>1, <1>2, <1>3, <1>4 DEF RowsOK

\* A page shows a row that was stored when it was opened.
LEMMA FormsStep ==
    ASSUME RowsOK, FormsOK, [Next]_vars
    PROVE  FormsOK'
<1>1. ASSUME NEW f \in Form, NEW x \in db, OpenForm(f, x)
      PROVE  FormsOK'
  <2>1. Page(x).row = x /\ x \in Rows(x.table)
    BY DEF Page, RowsOK
  <2> QED
    BY <1>1, <2>1 DEF OpenForm, FormsOK
<1>2. ASSUME NEW f \in Form, form' = [form EXCEPT ![f] = Null]
      PROVE  FormsOK'
  BY <1>2 DEF FormsOK
<1>3. ASSUME form' = form
      PROVE  FormsOK'
  BY <1>3 DEF FormsOK
<1> QED
  BY <1>1, <1>2, <1>3 DEF Next, Create, CloseForm, Save, Delete, vars

\* The invariant is inductive.
LEMMA NextStep ==
    ASSUME IInv, [Next]_vars
    PROVE  IInv'
<1> USE DEF IInv
<1>1. ASSUME db' = db
      PROVE  RowsOK'
  BY <1>1 DEF RowsOK, UniqueKeys, Consistent, Resolves
<1>2. RowsOK'
  BY <1>1, CreateStep, SaveStep, DeleteStep DEF Next, OpenForm, CloseForm, vars
<1>3. served' \in Nat
  BY DEF Next, Create, OpenForm, CloseForm, Save, Delete, vars, Accept
<1> QED
  BY <1>2, <1>3, FormsStep

LEMMA InitInv == Init => IInv
  BY DEF Init, IInv, RowsOK, FormsOK, UniqueKeys, Consistent

\* It says nothing of what is outside the tables and the pages.
LEMMA ElsewhereStep ==
    ASSUME IInv, UNCHANGED <<db, form>>, served' \in Nat
    PROVE  IInv'
  BY DEF IInv, RowsOK, FormsOK, UniqueKeys, Consistent, Resolves

LEMMA Invariance == Spec => []IInv
  BY InitInv, NextStep, PTL DEF Spec

-----------------------------------------------------------------------------
(* What follows from it. *)

LEMMA InvTypes ==
    ASSUME IInv
    PROVE  TypeOK
<1>1. \A x \in db : \A ref \in From(x.table) :
          x.refs[ref.column] # Null => Has(ref.to, x.refs[ref.column])
  BY DEF IInv, RowsOK, Consistent, Resolves, Has
<1> QED
  BY <1>1 DEF IInv, RowsOK, FormsOK, UniqueKeys, TypeOK

\* A page sent back is of the same row, with the same lists.
LEMMA EditedPage ==
    ASSUME NEW t, NEW x \in Rows(t), NEW p, p.row = x, p = [row |-> p.row, many |-> p.many],
           NEW q \in Edited(p)
    PROVE  q.row.table = x.table /\ q.row.key = x.key
<1>1. x = [table |-> x.table, key |-> x.key, refs |-> x.refs]
  BY RowShape DEF Row
<1>2. CASE q = p
  BY <1>2
<1> DEFINE OfRow(ref) == {[p EXCEPT !.row.refs[ref.column] = v] : v \in Targets(ref.to)}
           OnList(ref) == {[p EXCEPT !.many[ref] = @ \cup {y.key}] :
                              y \in {z \in db : z.table = ref.from}}
                            \cup {[p EXCEPT !.many[ref] = @ \ {k}] : k \in p.many[ref]}
<1>3. ASSUME NEW ref, NEW e \in OfRow(ref)
      PROVE  e.row.table = x.table /\ e.row.key = x.key
  <2>1. PICK v : e = [p EXCEPT !.row.refs[ref.column] = v]
    OBVIOUS
  <2> DEFINE r == [x EXCEPT !.refs[ref.column] = v]
  <2>2. r.table = x.table /\ r.key = x.key
    BY <1>1
  <2>3. e = [p EXCEPT !.row = r]
    BY <2>1
  <2> HIDE DEF r, OfRow
  <2> QED
    BY <2>2, <2>3
<1>4. ASSUME NEW ref, NEW e \in OnList(ref)
      PROVE  e.row = x
  <2>1. PICK S : e = [p EXCEPT !.many[ref] = S]
    OBVIOUS
  <2> QED
    BY <2>1
<1>5. q \in {p} \cup (UNION {OfRow(ref) : ref \in From(p.row.table)})
              \cup (UNION {OnList(ref) : ref \in To(p.row.table)})
  BY DEF Edited
<1> HIDE DEF OfRow, OnList
<1>6. CASE q \in UNION {OfRow(ref) : ref \in From(p.row.table)}
  BY <1>3, <1>6
<1>7. CASE q \in UNION {OnList(ref) : ref \in To(p.row.table)}
  BY <1>4, <1>7
<1> QED
  BY <1>2, <1>5, <1>6, <1>7

\* A row that a save would write as it is stays.
LEMMA SameIsKept ==
    ASSUME RowsOK, NEW f, NEW q, Save(f, q), NEW y \in db,
           \A ref \in From(y.table) : NewRef(q, y, ref) = y.refs[ref.column]
    PROVE  y \in db'
<1> DEFINE g == After(q, y).refs
<1>1. /\ After(q, y) = Row(y.table, y.key, g) /\ g = [c \in Columns(y.table) |-> g[c]]
      /\ \A ref \in From(y.table) : g[ref.column] = y.refs[ref.column]
  BY AfterShape
<1>2. y \in Rows(y.table)
  BY DEF RowsOK
<1> HIDE DEF g
<1>3. After(q, y) = y
  BY <1>1, <1>2, SameRow
<1> QED
  BY <1>3 DEF Save

LEMMA InvFreshSave ==
    ASSUME IInv
    PROVE  ExactSaves
<1> SUFFICES ASSUME NEW f \in Form, form[f] # Null, Fresh(form[f]),
                    NEW q \in Edited(form[f]), Save(f, q), NEW y \in db \ db',
                    y = form[f].row => q.row = form[f].row,
                    \A ref \in To(q.row.table) :
                       y.table = ref.from =>
                          (y.key \in q.many[ref]) = (y.key \in form[f].many[ref])
             PROVE  FALSE
  BY DEF ExactSaves
<1> USE DEF IInv
<1>1. PICK x \in db : form[f] = Page(x)
  BY DEF Fresh
<1>2. form[f].row = x /\ form[f] = [row |-> form[f].row, many |-> form[f].many]
      /\ \A ref \in To(x.table) : form[f].many[ref] = Children(x, ref)
  BY <1>1 DEF Page
<1>3. q.row.table = x.table /\ q.row.key = x.key
  BY <1>2, EditedPage DEF RowsOK
<1>4. CASE Own(q, y)
  <2>1. y = x /\ q.row = x
    BY <1>2, <1>3, <1>4 DEF Own, RowsOK, UniqueKeys
  <2>2. ASSUME NEW ref \in From(y.table)
        PROVE  OneSide(q, ref) = y.refs[ref.column]
    <3>1. y.refs[ref.column] # Null => Has(ref.to, y.refs[ref.column])
      BY DEF RowsOK, Consistent, Resolves, Has
    <3> QED
      BY <2>1, <3>1 DEF OneSide
  <2> QED
    BY <1>4, <2>2, SameIsKept DEF NewRef
<1>5. CASE ~Own(q, y)
  <2>1. ASSUME NEW ref \in From(y.table), ref.to = q.row.table
        PROVE  ManySide(q, ref, y) = y.refs[ref.column]
    <3>1. ref \in To(x.table) /\ ref \in To(q.row.table) /\ ref.from = y.table
      BY <1>3, <2>1 DEF From, To
    <3>2. (y.key \in q.many[ref]) = (y.key \in Children(x, ref))
      BY <1>2, <3>1
    <3>3. y.key \in Children(x, ref) <=> y.refs[ref.column] = x.key
      BY <3>1 DEF Children, RowsOK, UniqueKeys
    <3> QED
      BY <1>3, <3>2, <3>3 DEF ManySide
  <2> QED
    BY <1>5, <2>1, SameIsKept DEF NewRef
<1> QED
  BY <1>4, <1>5

\* A save that does not name a line leaves it: its references are needed.
LEMMA SavedLine ==
    ASSUME RowsOK, NEW f, NEW q, Save(f, q), NEW y \in db \ db', y.table = "order_items"
    PROVE  \/ Own(q, y)
           \/ \E ref \in To(q.row.table) : ref.from = y.table /\ y.key \in q.many[ref]
<1> SUFFICES ASSUME ~Own(q, y),
                    \A ref \in To(q.row.table) : ref.from = y.table => y.key \notin q.many[ref]
             PROVE  FALSE
  OBVIOUS
<1>1. After(q, y) \in db' /\ Consistent(db')
  BY DEF Save
<1>2. ASSUME NEW ref \in From(y.table)
      PROVE  NewRef(q, y, ref) = y.refs[ref.column]
  <2>1. NewRef(q, y, ref) # Null
    <3>1. After(q, y).table = y.table /\ After(q, y).refs[ref.column] = NewRef(q, y, ref)
      BY AfterShape
    <3>2. Resolves(db', ref, NewRef(q, y, ref))
      BY <1>1, <3>1 DEF Consistent
    <3>3. ref.need
      BY JoinColumns
    <3> QED
      BY <3>2, <3>3 DEF Resolves
  <2>2. ref.to = q.row.table => ref \in To(q.row.table) /\ ref.from = y.table
    BY DEF From, To
  <2> QED
    BY <2>1, <2>2 DEF NewRef, ManySide
<1> QED
  BY <1>2, SameIsKept

\* Nor does the deletion of another row.
LEMMA DeletedLine ==
    ASSUME RowsOK, NEW x \in db, Delete(x), NEW y \in db \ db', y.table = "order_items"
    PROVE  x = y
<1> SUFFICES ASSUME x # y PROVE FALSE
  OBVIOUS
<1>1. \A ref \in From(y.table) : Emptied(x, y)[ref.column] = y.refs[ref.column]
  BY KeptShape, JoinColumns
<1>2. Kept(x, y) = y
  BY <1>1, KeptShape, SameRow DEF RowsOK
<1> QED
  BY <1>2, KeptShape

LEMMA InvLines ==
    ASSUME IInv, [Next]_vars
    PROVE  NamedLines
<1> SUFFICES ASSUME NEW y \in db \ db', y.table = "order_items"
             PROVE  \/ Delete(y)
                    \/ \E f \in Form : /\ form[f] # Null
                                      /\ \E q \in Edited(form[f]) :
                                            /\ Save(f, q)
                                            /\ \/ q.row.table = y.table /\ q.row.key = y.key
                                               \/ \E ref \in To(q.row.table) :
                                                     ref.from = y.table /\ y.key \in q.many[ref]
  BY DEF NamedLines
<1>1. ASSUME NEW x \in db, Delete(x)
      PROVE  Delete(y)
  BY <1>1, DeletedLine DEF IInv
<1>2. ASSUME NEW f \in Form, form[f] # Null, NEW q \in Edited(form[f]), Save(f, q)
      PROVE  \/ q.row.table = y.table /\ q.row.key = y.key
             \/ \E ref \in To(q.row.table) : ref.from = y.table /\ y.key \in q.many[ref]
  BY <1>2, SavedLine DEF IInv, Own
<1>3. ~ \E t \in Tables : \E x \in Rows(t) : Create(x)
  BY DEF Create
<1>4. ~ \E f \in Form : CloseForm(f) \/ \E x \in db : OpenForm(f, x)
  BY DEF CloseForm, OpenForm
<1> QED
  BY <1>1, <1>2, <1>3, <1>4 DEF Next, vars

-----------------------------------------------------------------------------
(* The theorems. *)

\* main.py: every row is one its model declares, whatever the routes and the
\* panel wrote: a primary key names one row, and no reference dangles.
THEOREM RowsStayConsistent == Spec => []TypeOK
  BY Invariance, InvTypes, PTL

\* Saving a page that still shows the rows of today changes the row it shows
\* and the rows put on or taken off its lists, and no other.
THEOREM FreshSavesAreExact == Spec => FreshSaveIsExact
  BY Invariance, InvFreshSave, PTL DEF Spec, FreshSaveIsExact

\* A line leaves its order by its own deletion, its own page, or a page that
\* names it; a page older than the line, or the deletion of the order or the
\* item, is refused or leaves it.
THEOREM LinesStay == Spec => LinesStayInTheirOrder
  BY Invariance, InvLines, PTL DEF Spec, LinesStayInTheirOrder
=============================================================================
