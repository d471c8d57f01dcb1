---------------------------- MODULE DevicesProofs ----------------------------
(***************************************************************************)
(* Proofs about Devices, for any number of accounts, phones and requests   *)
(* that overlap, with or without the bound on requests.                    *)
(*                                                                         *)
(* What the invariants need of the requests in flight: the id an insertion *)
(* drew is its own, and a row loaded by a request that is not late is the  *)
(* row still there.                                                        *)
(***************************************************************************)
EXTENDS Devices, TLAPS

\* An id drawn by an insertion names no row, and belongs to no other request.
DrawnIsOwn(r) ==
    req[r].op = "insert" =>
        /\ req[r].id \in drawn \ present
        /\ \A s \in Request \ {r} : req[s].op # "idle" => req[s].id # req[r].id

\* A request that loaded a row knows its token, and without a commit since,
\* the whole row.
LoadedIsToday(r) ==
    req[r].op \notin {"idle", "insert"} =>
        /\ req[r].id \in drawn
        /\ req[r].op = "delete" => req[r].new = req[r].old
        /\ req[r].id \in present =>
              /\ req[r].new.token = row[req[r].id].token
              /\ ~req[r].late => req[r].old = row[req[r].id]

IInv ==
    /\ TypeOK /\ OneRowPerDevice /\ ConsentIsTheOwners
    /\ \A r \in Request : DrawnIsOwn(r) /\ LoadedIsToday(r)

-----------------------------------------------------------------------------
\* Records of the right fields are slots.
LEMMA SlotType ==
    /\ Idle \in Slots
    /\ \A i \in Id, old, new \in Rows, late \in BOOLEAN,
          op \in {"update", "insert", "delete", "panel", "erase"} :
             [op |-> op, id |-> i, old |-> old, new |-> new, late |-> late] \in Slots
  BY DEF Idle, Slots

\* The tables start empty and nothing is in flight.
LEMMA InitInv == Init => IInv
<1> SUFFICES ASSUME Init PROVE IInv
  OBVIOUS
<1>1. present = {} /\ row \in [{} -> Rows]
  BY DEF Init, present
<1>2. \A r \in Request : req[r] = Idle
  BY DEF Init
<1>3. TypeOK
  BY <1>1, <1>2, SlotType DEF Init, TypeOK
<1> QED
  BY <1>1, <1>2, <1>3 DEF IInv, OneRowPerDevice, ConsentIsTheOwners, DrawnIsOwn, LoadedIsToday, Idle

\* The request r now holds, and the id it drew.
Holding(r, op, i, old, new) ==
    /\ UNCHANGED <<row, gone, agreed, mixed>>
    /\ req[r].op = "idle" /\ served' \in Nat
    /\ req' = [req EXCEPT ![r] = [op |-> op, id |-> i, old |-> old, new |-> new,
                                  late |-> FALSE]]
    /\ old \in Rows /\ new \in Rows
    /\ \/ op = "insert" /\ i \in Id \ drawn /\ drawn' = drawn \cup {i}
       \/ /\ op \in {"update", "delete", "panel", "erase"}
          /\ i \in present /\ drawn' = drawn
          /\ old = row[i] /\ new.token = row[i].token
          /\ op = "delete" => new = old

\* A request that arrives loads a row or draws an id.
LEMMA ArriveHolds ==
    ASSUME IInv, NEW r \in Request, Arrive(r)
    PROVE  \E op, i, old, new : Holding(r, op, i, old, new)
<1> USE DEF IInv, TypeOK
<1>1. ASSUME NEW op \in {"update", "delete", "panel", "erase"}, NEW i \in present, NEW new \in Rows,
             OnRow(r, op, i, new), new.token = row[i].token, op = "delete" => new = row[i]
      PROVE  Holding(r, op, i, row[i], new)
  BY <1>1 DEF OnRow, Begin, Accept, Holding
<1>2. \A i \in present : row[i] \in Rows
  OBVIOUS
<1>3. \A a \in Account, d \in Device, yes \in BOOLEAN :
         [user |-> a, token |-> d, opt_in |-> yes] \in Rows
  BY DEF Rows
<1>4. ASSUME NEW a \in Account, NEW d \in Device, Delete(r, a, d)
      PROVE  \E op, i, old, new : Holding(r, op, i, old, new)
  <2>1. PICK i \in present : OnRow(r, "delete", i, row[i])
    BY <1>4 DEF Delete, Holds
  <2> QED
    BY <1>1, <1>2, <2>1
<1>5. ASSUME NEW a \in Account, NEW d \in Device, NEW yes \in BOOLEAN, Update(r, a, d, yes)
      PROVE  \E op, i, old, new : Holding(r, op, i, old, new)
  <2>1. PICK i \in Holds(d) : OnRow(r, "update", i, [user |-> a, token |-> d, opt_in |-> yes])
    BY <1>5 DEF Update
  <2> QED
    BY <1>1, <1>3, <2>1 DEF Holds
<1>6. ASSUME NEW a \in Account, NEW d \in Device, NEW yes \in BOOLEAN, Insert(r, a, d, yes)
      PROVE  \E op, i, old, new : Holding(r, op, i, old, new)
  <2> DEFINE new == [user |-> a, token |-> d, opt_in |-> yes]
  <2>1. PICK i \in Id \ drawn : Begin(r, "insert", i, new, new) /\ drawn' = drawn \cup {i}
    BY <1>6 DEF Insert
  <2>2. new \in Rows
    BY <1>3
  <2> HIDE DEF new
  <2>3. Holding(r, "insert", i, new, new)
    BY <2>1, <2>2 DEF Begin, Accept, Holding
  <2> QED
    BY <2>3
<1>7. ASSUME NEW i \in present, Edit(r, i)
      PROVE  \E op, j, old, new : Holding(r, op, j, old, new)
  <2>1. PICK a \in Account, yes \in BOOLEAN :
           OnRow(r, "panel", i, [user |-> a, token |-> row[i].token, opt_in |-> yes])
    BY <1>7 DEF Edit
  <2>2. row[i].token \in Device
    BY <1>2 DEF Rows
  <2> QED
    BY <1>1, <1>3, <2>1, <2>2
<1>8. ASSUME NEW i \in present, Erase(r, i)
      PROVE  \E op, j, old, new : Holding(r, op, j, old, new)
  BY <1>1, <1>2, <1>8 DEF Erase
<1> QED
  BY <1>4, <1>5, <1>6, <1>7, <1>8 DEF Arrive

\* What a request loads or draws when it arrives fits the tables.
LEMMA ArriveKeeps ==
    ASSUME IInv, NEW r \in Request, Arrive(r)
    PROVE  IInv'
<1>1. PICK op, i, old, new : Holding(r, op, i, old, new)
  BY ArriveHolds
<1> USE <1>1 DEF IInv, TypeOK, Holding
<1>2. /\ present' = present /\ present \subseteq Id
      /\ i \in drawn' /\ drawn' \subseteq Id
      /\ req'[r] = [op |-> op, id |-> i, old |-> old, new |-> new, late |-> FALSE]
      /\ \A s \in Request : s # r => req'[s] = req[s]
  BY DEF present
<1>3. TypeOK'
  <2>1. req'[r] \in Slots
    BY <1>2, SlotType
  <2> QED
    BY <1>2, <2>1
<1>4. OneRowPerDevice' /\ ConsentIsTheOwners'
  BY <1>2 DEF OneRowPerDevice, ConsentIsTheOwners
<1>5. ASSUME NEW s \in Request PROVE DrawnIsOwn(s)' /\ LoadedIsToday(s)'
  <2>1. \A t \in Request : req[t].op # "idle" => req[t].id \in drawn
    BY DEF DrawnIsOwn, LoadedIsToday
  <2>2. DrawnIsOwn(s) /\ LoadedIsToday(s)
    OBVIOUS
  <2>3. DrawnIsOwn(s)'
    BY <1>2, <2>1, <2>2 DEF DrawnIsOwn
  <2>4. LoadedIsToday(s)'
    BY <1>2, <2>2 DEF LoadedIsToday
  <2> QED
    BY <2>3, <2>4
<1> QED
  BY <1>3, <1>4, <1>5

-----------------------------------------------------------------------------
\* The slots after a commit on row i: the request is over, and the others on
\* the row are late.
LEMMA ReleaseFacts ==
    ASSUME TypeOK, NEW r \in Request, NEW i, Release(r, i)
    PROVE  /\ req' \in [Request -> Slots]
           /\ req'[r] = Idle
           /\ \A s \in Request : s # r =>
                /\ req'[s].op = req[s].op
                /\ req[s].op # "idle" =>
                     /\ req'[s].id = req[s].id /\ req'[s].old = req[s].old
                     /\ req'[s].new = req[s].new
                     /\ req'[s].late = (req[s].late \/ req[s].id = i)
<1> USE DEF TypeOK
<1>1. \A s \in Request : s # r /\ req[s].op # "idle" =>
         req[s] \in [op : {"update", "insert", "delete", "panel", "erase"}, id : Id,
                     old : Rows, new : Rows, late : BOOLEAN]
  BY DEF Slots
<1>2. ASSUME NEW s \in Request PROVE req'[s] \in Slots
  <2>1. CASE s # r /\ req[s].op # "idle" /\ req[s].id = i
    <3>1. req'[s] = [req[s] EXCEPT !.late = TRUE]
      BY <2>1 DEF Release
    <3> QED
      BY <1>1, <2>1, <3>1 DEF Slots
  <2>2. CASE ~(s # r /\ req[s].op # "idle" /\ req[s].id = i)
    BY <2>2, SlotType DEF Release
  <2> QED
    BY <2>1, <2>2
<1> QED
  BY <1>1, <1>2 DEF Release

\* A commit on row i keeps the invariants about requests, if the token of the
\* row stays, and a row that appears was drawn by the request that commits.
LEMMA OthersKeep ==
    ASSUME IInv, NEW r \in Request, NEW i, Release(r, i), drawn' = drawn,
           \A j \in present \cap present' : row'[j].token = row[j].token,
           \A j \in (present \cap present') \ {i} : row'[j] = row[j],
           \/ present' \subseteq present
           \/ present' = present \cup {i} /\ req[r].op = "insert" /\ req[r].id = i
    PROVE  \A s \in Request : DrawnIsOwn(s)' /\ LoadedIsToday(s)'
<1> SUFFICES ASSUME NEW s \in Request PROVE DrawnIsOwn(s)' /\ LoadedIsToday(s)'
  OBVIOUS
<1>1. TypeOK /\ DrawnIsOwn(s) /\ LoadedIsToday(s) /\ DrawnIsOwn(r)
  BY DEF IInv
<1>2. CASE s = r
  BY <1>1, <1>2, ReleaseFacts DEF DrawnIsOwn, LoadedIsToday, Idle
<1>3. CASE s # r
  <2>1. /\ req'[s].op = req[s].op
        /\ req[s].op # "idle" =>
             /\ req'[s].id = req[s].id /\ req'[s].old = req[s].old /\ req'[s].new = req[s].new
             /\ req'[s].late = (req[s].late \/ req[s].id = i)
    BY <1>1, <1>3, ReleaseFacts
  <2>2. \A t \in Request : req'[t].op # "idle" =>
           req[t].op # "idle" /\ req'[t].id = req[t].id
    BY <1>1, ReleaseFacts DEF Idle
  <2>3. req[s].op # "idle" /\ req[s].id \in present' => req[s].id \in present
    BY <1>1, <1>3 DEF DrawnIsOwn
  <2>4. DrawnIsOwn(s)'
    BY <1>1, <2>1, <2>2, <2>3 DEF DrawnIsOwn
  <2>5. LoadedIsToday(s)'
    BY <1>1, <2>1, <2>3 DEF LoadedIsToday
  <2> QED
    BY <2>4, <2>5
<1> QED
  BY <1>2, <1>3

\* An update keeps the token, and alone on its row it writes what it computed.
LEMMA UpdateKeeps ==
    ASSUME IInv, NEW r \in Request, CommitUpdate(r)
    PROVE  IInv'
<1> DEFINE q == req[r]
<1> DEFINE i == q.id
<1> USE DEF IInv
<1>1. /\ q \in [op : {"update", "panel"}, id : Id, old : Rows, new : Rows, late : BOOLEAN]
      /\ i \in present /\ row[i] \in Rows /\ i \in Id
      /\ row' = [row EXCEPT ![i] = Merge(q)] /\ Merge(q).user \notin gone
      /\ Release(r, i) /\ drawn' = drawn /\ gone' = gone /\ served' = served
  BY DEF CommitUpdate, TypeOK, Slots
<1>2. /\ Merge(q) \in Rows /\ Merge(q).token = row[i].token
      /\ q.old = row[i] => Merge(q).user = q.new.user /\ Merge(q).opt_in = q.new.opt_in
  BY <1>1 DEF Merge, Rows
<1>3. /\ present' = present
      /\ row'[i] = Merge(q) /\ \A j \in present : j # i => row'[j] = row[j]
      /\ row' \in [present -> Rows]
  BY <1>1, <1>2 DEF present, TypeOK
<1>4. q.new.token = row[i].token /\ (~q.late => q.old = row[i])
  BY <1>1 DEF LoadedIsToday
<1>5. /\ agreed' \subseteq Account \X Device
      /\ \A a \in Account, d \in Device : d # q.new.token /\ <<a, d>> \in agreed => <<a, d>> \in agreed'
      /\ q.op = "panel" => agreed' = agreed
      /\ q.op = "update" /\ q.new.opt_in => <<q.new.user, q.new.token>> \in agreed'
      /\ mixed' \subseteq Id /\ \A j \in present \ mixed' : j # i => j \notin mixed
      /\ q.op = "panel" \/ q.late => i \in mixed'
  BY <1>1 DEF CommitUpdate, Agree, TypeOK, Rows
<1> HIDE DEF q, i
<1>6. TypeOK'
  <2>1. req' \in [Request -> Slots]
    BY <1>1, ReleaseFacts
  <2> QED
    BY <1>1, <1>2, <1>3, <1>5, <2>1 DEF TypeOK
<1>7. OneRowPerDevice'
  BY <1>2, <1>3 DEF OneRowPerDevice
<1>8. ConsentIsTheOwners'
  <2> SUFFICES ASSUME NEW j \in present, j \notin mixed', row'[j].opt_in
               PROVE  <<row'[j].user, row'[j].token>> \in agreed'
    BY <1>3 DEF ConsentIsTheOwners
  <2>1. CASE j = i
    BY <1>1, <1>2, <1>3, <1>4, <1>5, <2>1
  <2>2. CASE j # i
    <3>1. row[j] \in Rows /\ <<row[j].user, row[j].token>> \in agreed
      BY <1>3, <1>5, <2>2 DEF ConsentIsTheOwners, TypeOK
    <3>2. row[j].token # q.new.token
      BY <1>1, <1>4, <2>2 DEF OneRowPerDevice
    <3> QED
      BY <1>3, <1>5, <2>2, <3>1, <3>2 DEF Rows
  <2> QED
    BY <2>1, <2>2
<1> QED
  BY <1>1, <1>2, <1>3, <1>6, <1>7, <1>8, OthersKeep

\* An insertion finds the id and the phone free.
LEMMA InsertKeeps ==
    ASSUME IInv, NEW r \in Request, CommitInsert(r)
    PROVE  IInv'
<1> DEFINE q == req[r]
<1> DEFINE i == q.id
<1> USE DEF IInv
<1>1. /\ q \in [op : {"insert"}, id : Id, old : Rows, new : Rows, late : BOOLEAN]
      /\ i \in drawn \ present /\ i \in Id
      /\ \A j \in present : row[j].token # q.new.token
      /\ q.new.user \notin gone
      /\ row' = [j \in present \cup {i} |-> IF j = i THEN q.new ELSE row[j]]
      /\ Release(r, i) /\ drawn' = drawn /\ gone' = gone /\ served' = served /\ mixed' = mixed
  BY DEF CommitInsert, Known, Holds, TypeOK, Slots, DrawnIsOwn
<1>2. /\ present' = present \cup {i}
      /\ row'[i] = q.new /\ \A j \in present : row'[j] = row[j]
      /\ row' \in [present' -> Rows]
  BY <1>1 DEF present, TypeOK
<1>3. /\ agreed' \subseteq Account \X Device
      /\ \A a \in Account, d \in Device : d # q.new.token /\ <<a, d>> \in agreed => <<a, d>> \in agreed'
      /\ q.new.opt_in => <<q.new.user, q.new.token>> \in agreed'
  BY <1>1 DEF CommitInsert, Agree, TypeOK, Rows
<1>4. q.op = "insert"
  BY <1>1
<1> HIDE DEF q, i
<1>5. TypeOK'
  <2>1. req' \in [Request -> Slots]
    BY <1>1, ReleaseFacts
  <2> QED
    BY <1>1, <1>2, <1>3, <2>1 DEF TypeOK
<1>6. OneRowPerDevice'
  BY <1>1, <1>2 DEF OneRowPerDevice
<1>7. ConsentIsTheOwners'
  <2> SUFFICES ASSUME NEW j \in present', j \notin mixed, row'[j].opt_in
               PROVE  <<row'[j].user, row'[j].token>> \in agreed'
    BY <1>1 DEF ConsentIsTheOwners
  <2>1. CASE j = i
    BY <1>2, <1>3, <2>1
  <2>2. CASE j # i
    <3>1. j \in present /\ row[j] \in Rows /\ <<row[j].user, row[j].token>> \in agreed
      BY <1>2, <2>2 DEF ConsentIsTheOwners, TypeOK
    <3> QED
      BY <1>1, <1>2, <1>3, <3>1 DEF Rows
  <2> QED
    BY <2>1, <2>2
<1>8. \A s \in Request : DrawnIsOwn(s)' /\ LoadedIsToday(s)'
  BY <1>1, <1>2, <1>4, OthersKeep DEF q, i
<1> QED
  BY <1>5, <1>6, <1>7, <1>8

\* Rows that go take nothing along.
LEMMA DeleteKeeps ==
    ASSUME IInv, NEW r \in Request, CommitDelete(r)
    PROVE  IInv'
<1> DEFINE i == req[r].id
<1> USE DEF IInv
<1>1. /\ row' = [j \in present \ {i} |-> row[j]]
      /\ Release(r, i) /\ drawn' = drawn /\ gone' = gone /\ served' = served
      /\ mixed' = mixed /\ agreed' = agreed
  BY DEF CommitDelete
<1> HIDE DEF i
<1>2. /\ present' = present \ {i} /\ \A j \in present' : row'[j] = row[j]
      /\ row' \in [present' -> Rows]
  BY <1>1 DEF present, TypeOK
<1>3. TypeOK'
  BY <1>1, <1>2, ReleaseFacts DEF TypeOK
<1>4. OneRowPerDevice' /\ ConsentIsTheOwners'
  BY <1>1, <1>2 DEF OneRowPerDevice, ConsentIsTheOwners
<1> QED
  BY <1>1, <1>2, <1>3, <1>4, OthersKeep

\* So do the rows of an account that goes, and all of them go.
LEMMA CascadeKeeps ==
    ASSUME IInv, NEW a \in Account, DeleteAccount(a)
    PROVE  IInv'
<1> USE DEF IInv
<1>1. /\ present' = present \ RowsOf(a) /\ \A j \in present' : row'[j] = row[j]
      /\ row' \in [present' -> Rows] /\ gone' = gone \cup {a}
      /\ UNCHANGED <<drawn, req, served, agreed, mixed>>
  BY DEF DeleteAccount, present, TypeOK
<1>2. TypeOK'
  BY <1>1 DEF TypeOK, RowsOf
<1>3. OneRowPerDevice' /\ ConsentIsTheOwners'
  BY <1>1 DEF OneRowPerDevice, ConsentIsTheOwners
<1>4. \A s \in Request : DrawnIsOwn(s)' /\ LoadedIsToday(s)'
  BY <1>1 DEF DrawnIsOwn, LoadedIsToday
<1> QED
  BY <1>2, <1>3, <1>4

\* A request that ends without a commit leaves the others as they are.
LEMMA AbortKeeps ==
    ASSUME IInv, NEW r \in Request, Abort(r)
    PROVE  IInv'
<1> USE DEF IInv
<1>1. /\ UNCHANGED <<row, drawn, gone, served, agreed, mixed>> /\ present' = present
      /\ req' = [req EXCEPT ![r] = Idle]
  BY DEF Abort, table, present
<1>2. TypeOK'
  BY <1>1, SlotType DEF TypeOK
<1>3. OneRowPerDevice' /\ ConsentIsTheOwners'
  BY <1>1 DEF OneRowPerDevice, ConsentIsTheOwners
<1>4. \A s \in Request : req'[s] = IF s = r THEN Idle ELSE req[s]
  BY <1>1 DEF TypeOK
<1>5. \A s \in Request : DrawnIsOwn(s)' /\ LoadedIsToday(s)'
  BY <1>1, <1>4 DEF DrawnIsOwn, LoadedIsToday, Idle
<1> QED
  BY <1>2, <1>3, <1>5

\* The invariant is inductive.
THEOREM Invariance == Spec => []IInv
<1>1. Init => IInv
  BY InitInv
<1>2. IInv /\ [Next]_vars => IInv'
  <2> SUFFICES ASSUME IInv, [Next]_vars PROVE IInv'
    OBVIOUS
  <2>1. CASE Next
    BY <2>1, ArriveKeeps, UpdateKeeps, InsertKeeps, DeleteKeeps, CascadeKeeps, AbortKeeps DEF Next
  <2>2. CASE UNCHANGED vars
    BY <2>2 DEF vars, table, IInv, TypeOK, present, OneRowPerDevice, ConsentIsTheOwners,
                DrawnIsOwn, LoadedIsToday
  <2> QED
    BY <2>1, <2>2
<1> QED
  BY <1>1, <1>2, PTL DEF Spec

-----------------------------------------------------------------------------
\* Types hold, and no phone is registered to an account that is gone.
THEOREM TypeCorrect == Spec => []TypeOK
  BY Invariance, PTL DEF IInv

\* However registrations overlap, a phone has one row.
THEOREM PhonesHaveOneRow == Spec => []OneRowPerDevice
  BY Invariance, PTL DEF IInv

\* Unless its registrations overlapped or the panel wrote it, a row with the
\* opt-in belongs to an account that gave it on this phone.
THEOREM ConsentIsKept == Spec => []ConsentIsTheOwners
  BY Invariance, PTL DEF IInv

-----------------------------------------------------------------------------
(* One request at a time. *)

OneAtATime == \A r, s \in Request : req[r].op # "idle" /\ req[s].op # "idle" => r = s

Punctual == \A r \in Request : req[r].op # "idle" => ~req[r].late

\* Every row with the opt-in belongs to an account that gave it on this phone.
Consented ==
    \A i \in present : row[i].opt_in => <<row[i].user, row[i].token>> \in agreed

\* Nobody commits on a row that another request has loaded.
LEMMA PunctualStep ==
    ASSUME IInv, OneAtATime, Punctual, [Next]_vars
    PROVE  Punctual'
<1> USE DEF IInv
<1>1. ASSUME NEW r \in Request, Arrive(r) PROVE Punctual'
  <2>1. PICK op, i, old, new : Holding(r, op, i, old, new)
    BY <1>1, ArriveHolds
  <2> QED
    BY <2>1 DEF Holding, Punctual, TypeOK
<1>2. ASSUME NEW r \in Request, NEW i, Release(r, i), req[r].op # "idle" PROVE Punctual'
  <2>1. \A s \in Request : s # r => req'[s].op = "idle"
    BY <1>2, ReleaseFacts DEF OneAtATime
  <2> QED
    BY <1>2, <2>1, ReleaseFacts DEF Punctual, Idle
<1>3. ASSUME NEW r \in Request, CommitUpdate(r) \/ CommitInsert(r) \/ CommitDelete(r)
      PROVE  Punctual'
  BY <1>2, <1>3 DEF CommitUpdate, CommitInsert, CommitDelete
<1>4. ASSUME NEW r \in Request, Abort(r) PROVE Punctual'
  BY <1>4 DEF Abort, Punctual, Idle, TypeOK
<1> QED
  BY <1>1, <1>3, <1>4 DEF Next, DeleteAccount, vars, Punctual

LEMMA AloneInvariance == Spec /\ []OneAtATime => [](IInv /\ Punctual)
<1>1. Init => Punctual
  BY DEF Init, Punctual, Idle
<1> QED
  BY <1>1, Invariance, PunctualStep, PTL DEF Spec

\* A registration then writes what it was asked to, whoever had the phone.
LEMMA AloneUpdate ==
    ASSUME IInv, Punctual, NEW r \in Request, CommitUpdate(r)
    PROVE  /\ req[r].id \in present /\ present' = present
           /\ req[r].new \in Rows /\ req[r].new.token = row[req[r].id].token
           /\ row'[req[r].id] = req[r].new
           /\ \A j \in present : j # req[r].id => row'[j] = row[j]
<1> DEFINE q == req[r]
<1>1. /\ q.new \in Rows /\ q.id \in present /\ row[q.id] \in Rows
      /\ row' = [row EXCEPT ![q.id] = Merge(q)]
  BY DEF CommitUpdate, IInv, TypeOK, Slots
<1>2. q.old = row[q.id] /\ q.new.token = row[q.id].token
  BY DEF CommitUpdate, IInv, LoadedIsToday, Punctual
<1>3. Merge(q) = q.new
  BY <1>1, <1>2 DEF Merge, Rows
<1> QED
  BY <1>1, <1>2, <1>3 DEF present

LEMMA AloneConsent ==
    ASSUME IInv, Punctual, Consented, [Next]_vars,
           ~\E r \in Request : CommitUpdate(r) /\ req[r].op = "panel"
    PROVE  Consented'
<1>0. \A j \in present : row[j] \in Rows
  BY DEF IInv, TypeOK
<1>1. ASSUME NEW r \in Request, Arrive(r) PROVE Consented'
  BY <1>1, ArriveHolds DEF Holding, Consented, present
<1>2. ASSUME NEW r \in Request, CommitUpdate(r) PROVE Consented'
  <2>1. agreed' = Agree(req[r])
    BY <1>2 DEF CommitUpdate
  <2>2. \A j \in present : j # req[r].id => row[j].token # req[r].new.token
    BY <1>2, AloneUpdate DEF IInv, OneRowPerDevice
  <2> QED
    BY <1>0, <1>2, <2>1, <2>2, AloneUpdate DEF Agree, Consented, Rows
<1>3. ASSUME NEW r \in Request, CommitInsert(r) PROVE Consented'
  <2>1. /\ agreed' = Agree(req[r]) /\ req[r].op = "insert"
        /\ row' = [j \in present \cup {req[r].id} |->
                      IF j = req[r].id THEN req[r].new ELSE row[j]]
        /\ \A j \in present : row[j].token # req[r].new.token
    BY <1>3 DEF CommitInsert, Known, Holds
  <2>2. req[r].new \in Rows
    BY <2>1 DEF IInv, TypeOK, Slots
  <2> QED
    BY <1>0, <2>1, <2>2 DEF Agree, Consented, present, Rows
<1>4. ASSUME NEW r \in Request, CommitDelete(r) PROVE Consented'
  BY <1>4 DEF CommitDelete, Consented, present
<1>5. ASSUME NEW a \in Account, DeleteAccount(a) PROVE Consented'
  BY <1>5 DEF DeleteAccount, Consented, present
<1>6. ASSUME NEW r \in Request, Abort(r) PROVE Consented'
  BY <1>6 DEF Abort, table, Consented, present
<1> QED
  BY <1>1, <1>2, <1>3, <1>4, <1>5, <1>6 DEF Next, vars, table, Consented, present

\* repository.py 145-166, one request at a time: a phone that changes hands goes over
\* with the answer of its new owner; only an edit on the panel leaves a row with an
\* opt-in its owner did not give.
THEOREM SerialConsent ==
    Spec /\ []OneAtATime =>
        [][/\ \A r \in Request :
                 CommitUpdate(r) /\ req[r].op = "update" => row'[req[r].id] = req[r].new
           /\ Consented => \/ Consented'
                           \/ \E r \in Request : CommitUpdate(r) /\ req[r].op = "panel"]_vars
<1>1. IInv /\ Punctual /\ [Next]_vars =>
        [/\ \A r \in Request :
               CommitUpdate(r) /\ req[r].op = "update" => row'[req[r].id] = req[r].new
         /\ Consented => \/ Consented'
                         \/ \E r \in Request : CommitUpdate(r) /\ req[r].op = "panel"]_vars
  BY AloneUpdate, AloneConsent
<1> QED
  BY <1>1, AloneInvariance, PTL DEF Spec
=============================================================================
