--------------------------- MODULE AccountsProofs ---------------------------
(***************************************************************************)
(* Proofs about Accounts, for any number of accounts, addresses and        *)
(* overlapping requests, with or without the bound on requests.            *)
(*                                                                         *)
(* Computed says which columns an operation may change and to what; SlotOK *)
(* adds what stays true of the row it is about to write while others       *)
(* commit; Checked, what a request that has looked for its address still   *)
(* knows of the other rows when it writes it.                              *)
(***************************************************************************)
EXTENDS Accounts, TLAPS

NewRows == [life : {"live"}, mail : Address, role : Roles, active : BOOLEAN, must : BOOLEAN]

\* A new row.
Creates(op, old, new) ==
    /\ old = Absent /\ new \in NewRows
    /\ op \in {"register", "create", "add", "clicreate", "bootstrap"}
    /\ op # "add" => new.mail \in Plain
    /\ op = "bootstrap" => new.must

\* Changes of a row that exists, column by column.
Changes(op, old, new) ==
    /\ old.life # "absent"
    /\ \/ new.life = old.life
       \/ op = "panel" /\ new.life # "absent"
       \/ op = "delete"
    /\ new.mail = old.mail \/ (op = "mail" /\ new.mail \in Plain) \/ op \in {"delete", "panel"}
    /\ op = "delete" => /\ old.life = "live" /\ new.life = "deleted"
                        /\ new.mail = NoAddress /\ ~new.active
    /\ op \in {"mail", "active"} => old.life = "live"
    /\ \/ new.role = old.role
       \/ op \in {"role", "approve", "panel"}
       \/ op \in {"clipromote", "bootstrap"} /\ new.role = "admin"
    /\ \/ new.active = old.active
       \/ op \in {"inactive", "delete"} /\ ~new.active
       \/ op = "panel"
       \/ op = "active" /\ new.active
    /\ \/ new.must = old.must
       \/ op \in {"password", "reset"} /\ ~new.must
       \/ op = "panel"
       \/ op = "bootstrap"
    /\ op = "bootstrap" => new.must
    /\ op \notin {"register", "create", "add", "clicreate", "erase"}

\* No row any more.
Erases(op, old, new) == op = "erase" /\ old.life # "absent" /\ new = Gone

Computed(q) ==
    /\ q.user \in Account /\ q.op # "admin"
    /\ \/ Creates(q.op, q.old, q.new) \/ Changes(q.op, q.old, q.new)
       \/ Erases(q.op, q.old, q.new)
    /\ q.op \in Removes => q.actor \in Account
    /\ q.op \in Removes \ OnPages => q.actor # q.user

Looks(q) ==
    /\ q.op \in {"admin", "mail", "panel", "bootstrap"}
    /\ q.op # "bootstrap" => q.actor \in Account
    /\ q.op = "mail" => q.old.life = "live" /\ users[q.actor].life # "absent"
    /\ q.op = "panel" => q.old.life # "absent" /\ q.user \in Account

SlotOK(r) ==
    /\ req[r].pc = "look" => Looks(req[r])
    /\ req[r].pc = "commit" =>
          /\ Computed(req[r])
          /\ IF req[r].old.life = "absent"
             THEN /\ users[req[r].user].life = "absent"
                  /\ \A s \in Request \ {r} : req[s].user # req[r].user
             ELSE users[req[r].user].life # "absent"
          /\ req[r].op = "delete" /\ req[r].old.mail = NoAddress => req[r].user \in crossed
          /\ req[r].op \in Issues /\ ~req[r].late /\ req[r].user \notin unswept
                => req[r].role = users[req[r].user].role

RowsOK ==
    /\ \A u \in Account : users[u].life = "absent" => users[u] = Absent
    /\ \A u \in Account : Live(u) /\ users[u].mail = NoAddress => u \in crossed

\* An account that has to change its password is flagged.
PendingIsFlagged == \A u \in pending : users[u].must

IInv ==
    /\ TypeOK /\ RowsOK /\ DeletedStaysClosed
    /\ PendingIsFlagged /\ SessionsCarryRoleUnlessUnswept
    /\ \A r \in Request : SlotOK(r)

-----------------------------------------------------------------------------
\* What all but the panel write is an address in lower case.
LEMMA PlainAddress ==
    /\ BootAddress \in Plain
    /\ \A m \in Plain : m \in Address /\ m # NoAddress
    /\ \A m, n \in Plain : SameAddress(m, n) => m = n
    /\ \A m : ~SameAddress(m, NoAddress)
    /\ \A m \in Address : SameAddress(m, m)
  BY NonesAreFresh, BootIsPlain DEF Plain, Address, BootAddress, SameAddress

\* The rows and slots the records below start from have their types.
LEMMA AbsentRow == Absent \in Rows
  BY DEF Absent, Rows, Roles

\* What a row that is gone is told by.
LEMMA GoneRow ==
    /\ Gone \in Rows /\ Gone.life = "gone" /\ Gone.mail = NoAddress /\ ~Gone.active
    /\ Gone.role = "customer"
  BY DEF Gone, Absent, Rows, Roles

\* A free slot has its type.
LEMMA FreeSlot == Free \in Slots
  BY AbsentRow DEF Free, Slots, AllOps, Issues, Roles

\* The invariant holds in a working database and in an empty one.
LEMMA InitInv == Init => IInv
<1> SUFFICES ASSUME Init PROVE IInv
  OBVIOUS
<1> USE DEF Init
<1>1. users \in [Account -> Rows]
  <2> SUFFICES ASSUME NEW u \in Account PROVE users[u] \in Rows
    OBVIOUS
  <2>1. users[u] \in {Absent} \cup [life : {"live"}, mail : Plain, role : Roles,
                                    active : {TRUE}, must : {FALSE}]
    OBVIOUS
  <2> QED
    BY <2>1, AbsentRow, PlainAddress DEF Rows
<1>2. \A u \in Account : \/ users[u] = Absent
                         \/ /\ users[u].life = "live" /\ users[u].mail \in Address
                            /\ ~users[u].must
  BY PlainAddress
<1>3. PICK A \in SUBSET {u \in Account : Live(u)} :
         sessions = {<<u, users[u].role>> : u \in A}
  OBVIOUS
<1>4. \A s \in sessions : s[1] \in Account /\ Live(s[1]) /\ s[2] = users[s[1]].role
                          /\ s \in Account \X Roles
  BY <1>1, <1>3 DEF Rows
<1>5. TypeOK
  <2>1. \A u \in Account : users[u].life = "absent" =>
           u \notin cookies /\ \A x \in Roles : <<u, x>> \notin access \cup sessions
    BY <1>4 DEF Live
  <2>2. sessions \subseteq Account \X Roles
    BY <1>4
  <2> QED
    BY <1>1, <2>1, <2>2, FreeSlot DEF TypeOK
<1>6. RowsOK
  BY <1>2, NonesAreFresh DEF RowsOK, Live, Absent
<1>8. DeletedStaysClosed
  BY <1>2 DEF DeletedStaysClosed, Absent
<1>9. SessionsCarryRoleUnlessUnswept
  BY <1>4 DEF SessionsCarryRoleUnlessUnswept
<1>10. \A r \in Request : SlotOK(r)
  BY DEF SlotOK, Free
<1> QED
  BY <1>5, <1>6, <1>8, <1>9, <1>10 DEF IInv, PendingIsFlagged

-----------------------------------------------------------------------------
(* Requests that arrive and look. *)

\* A step that changes one slot only.
LEMMA SlotStep ==
    ASSUME IInv, NEW r \in Request, NEW q \in Slots, req' = [req EXCEPT ![r] = q],
           UNCHANGED <<users, doors, histories>>, served' \in Nat,
           q.pc = "look" => Looks(q),
           q.user \in Account =>
               users[q.user].life # "absent" \/ \A s \in Request \ {r} : req[s].user # q.user,
           q.pc = "commit" =>
               /\ Computed(q)
               /\ (q.old.life = "absent") <=> (users[q.user].life = "absent")
               /\ q.op = "delete" /\ q.old.mail = NoAddress => q.user \in crossed
               /\ q.op \in Issues /\ q.user \notin unswept => q.role = users[q.user].role
    PROVE  IInv'
<1> USE DEF IInv, doors, histories
<1>1. req' \in [Request -> Slots] /\ req'[r] = q
      /\ \A s \in Request : s # r => req'[s] = req[s]
  BY DEF TypeOK
<1>2. TypeOK'
  BY <1>1 DEF TypeOK
<1>3. RowsOK' /\ DeletedStaysClosed' /\ PendingIsFlagged'
      /\ SessionsCarryRoleUnlessUnswept'
  BY DEF RowsOK, DeletedStaysClosed, PendingIsFlagged,
         SessionsCarryRoleUnlessUnswept, Live
<1>4. SlotOK(r)'
  <2>1. Looks(q)' <=> Looks(q)
    BY DEF Looks
  <2>2. q.pc = "commit" => q.user \in Account
    BY DEF Computed
  <2> QED
    BY <1>1, <2>1, <2>2 DEF SlotOK
<1>5. ASSUME NEW s \in Request, s # r
      PROVE  SlotOK(s)'
  <2>1. req'[s] = req[s] /\ SlotOK(s)
    BY <1>1, <1>5
  <2>2. Looks(req[s])' <=> Looks(req[s])
    BY <2>1 DEF Looks
  <2>3. req[s].pc = "commit" /\ req[s].old.life = "absent" => q.user # req[s].user
    BY <1>5, <2>1 DEF SlotOK, Computed
  <2> QED
    BY <1>1, <1>5, <2>1, <2>2, <2>3 DEF SlotOK
<1> QED
  BY <1>2, <1>3, <1>4, <1>5

\* The count of accepted requests stays a number.
LEMMA AcceptType == ASSUME IInv, Accept PROVE served' \in Nat
  BY DEF IInv, TypeOK, Accept

\* A request that asks and then looks.
LEMMA OpenLook ==
    ASSUME IInv, NEW r \in Request, NEW op \in {"admin", "mail", "panel", "bootstrap"},
           NEW a \in Account \cup {NoAccount}, NEW u \in Account \cup {NoAccount}, NEW old \in Rows,
           Open(r, "look", op, a, u, "customer", old, old),
           u \in Account => users[u].life # "absent",
           op # "bootstrap" => a \in Account,
           op = "mail" => old.life = "live" /\ users[a].life # "absent",
           op = "panel" => old.life # "absent" /\ u \in Account
    PROVE  IInv'
<1> DEFINE q == [pc |-> "look", op |-> op, actor |-> a, user |-> u,
                 role |-> "customer", old |-> old, new |-> old, late |-> FALSE]
<1>1. req' = [req EXCEPT ![r] = q] /\ UNCHANGED <<users, doors, histories>> /\ Accept
  BY DEF Open
<1>2. q \in Slots
  BY DEF Slots, AllOps, Manages, Removes, OnPages, Roles
<1>3. q.pc = "look" /\ q.op = op /\ q.actor = a /\ q.user = u /\ q.old = old
  OBVIOUS
<1> HIDE DEF q
<1>4. Looks(q)
  BY <1>3 DEF Looks
<1> QED
  BY <1>1, <1>2, <1>3, <1>4, AcceptType, SlotStep, NonesAreFresh

\* A request that is ready to commit as it arrives.
LEMMA OpenCommit ==
    ASSUME IInv, NEW r \in Request, NEW op \in AllOps, NEW a \in Account \cup {NoAccount},
           NEW u \in Account, NEW role \in Roles, NEW new \in Rows,
           Open(r, "commit", op, a, u, role, users[u], new),
           op \notin Removes \ {"erase"}, op = "erase" => a \in Account, op # "admin",
           users[u].life # "absent" \/ \A s \in Request \ {r} : req[s].user # u,
           op \in Issues => u \in unswept \/ role = users[u].role,
           \/ Creates(op, users[u], new) \/ Changes(op, users[u], new)
           \/ Erases(op, users[u], new)
    PROVE  IInv'
<1> DEFINE q == [pc |-> "commit", op |-> op, actor |-> a, user |-> u, role |-> role,
                 old |-> users[u], new |-> new, late |-> FALSE]
<1>1. req' = [req EXCEPT ![r] = q] /\ UNCHANGED <<users, doors, histories>> /\ Accept
  BY DEF Open
<1>2. users[u] \in Rows
  BY DEF IInv, TypeOK
<1>3. q \in Slots
  BY <1>2 DEF Slots
<1>4. /\ q.pc = "commit" /\ q.op = op /\ q.actor = a /\ q.user = u /\ q.role = role
      /\ q.old = users[u] /\ q.new = new
  OBVIOUS
<1>5. \/ Creates(q.op, q.old, q.new) \/ Changes(q.op, q.old, q.new)
      \/ Erases(q.op, q.old, q.new)
  BY <1>4
<1> HIDE DEF q
<1>6. Computed(q)
  BY <1>4, <1>5 DEF Computed, OnPages
<1>7. ~(q.op = "delete")
  BY <1>4 DEF Removes, OnPages
<1> QED
  BY <1>1, <1>3, <1>4, <1>6, <1>7, AcceptType, SlotStep

\* The rows that register, creations and the bootstrap insert.
LEMMA NewUserRow ==
    ASSUME NEW m \in Address, NEW role \in Roles, NEW must \in BOOLEAN
    PROVE  /\ NewUser(m, role, must) \in NewRows /\ NewUser(m, role, must) \in Rows
           /\ NewUser(m, role, must).must = must /\ NewUser(m, role, must).mail = m
  BY DEF NewUser, NewRows, Rows

\* Every kind of arriving request keeps the invariant.
LEMMA ArriveStep ==
    ASSUME IInv, NEW r \in Request, Arrive(r)
    PROVE  IInv'
<1>1. users \in [Account -> Rows] /\ "customer" \in Roles
  BY DEF IInv, TypeOK, Roles
<1>2. \A u \in Account : Live(u) => users[u].life # "absent"
  BY DEF Live
<1>3. CASE StartUp(r)
  BY <1>3, AbsentRow, OpenLook, NonesAreFresh DEF StartUp
<1>4. ASSUME NEW a \in Account, Manage(r, a)
      PROVE  IInv'
  BY <1>4, AbsentRow, OpenLook, NonesAreFresh DEF Manage, Ask
<1>15. ASSUME NEW a \in Account, NEW u \in Account, OpenForm(r, a, u)
       PROVE  IInv'
  BY <1>1, <1>15, OpenLook DEF OpenForm, Exists
<1>16. ASSUME NEW a \in Account, NEW u \in Account, Erase(r, a, u)
       PROVE  IInv'
  <2>1. /\ Open(r, "commit", "erase", a, u, "customer", users[u], Gone)
        /\ users[u].life # "absent"
    BY <1>16 DEF Erase, Do, Exists
  <2> QED
    BY <1>1, <2>1, GoneRow, OpenCommit
       DEF Erases, Issues, Removes, OnPages, AllOps, Manages
<1>17. ASSUME NEW a \in Account, NEW u \in Account, NEW m \in Address, PanelCreate(r, a, u, m)
       PROVE  IInv'
  <2>1. PICK role \in Roles, active \in BOOLEAN, must \in BOOLEAN :
           Do(r, "add", a, u, [NewUser(m, role, must) EXCEPT !.active = active])
    BY <1>17 DEF PanelCreate
  <2> DEFINE v == [NewUser(m, role, must) EXCEPT !.active = active]
  <2>2. v \in NewRows /\ v \in Rows
    BY DEF NewUser, NewRows, Rows
  <2>3. Open(r, "commit", "add", a, u, "customer", users[u], v)
        /\ \A s \in Request \ {r} : req[s].user # u
    BY <1>17, <2>1 DEF PanelCreate, Fresh, Do
  <2>4. users[u] = Absent
    BY <1>17 DEF PanelCreate, Fresh, IInv, RowsOK
  <2> HIDE DEF v
  <2> QED
    BY <1>1, <2>2, <2>3, <2>4, OpenCommit
       DEF Creates, Issues, Removes, OnPages, AllOps, Manages
<1>5. ASSUME NEW a \in Account, AskProfile(r, a)
      PROVE  IInv'
  BY <1>1, <1>2, <1>5, OpenLook, NonesAreFresh DEF AskProfile, Ask, Ready, SignedIn, Live
<1>6. ASSUME NEW u \in Account, Login(r, u)
      PROVE  IInv'
  <2>1. /\ Open(r, "commit", "login", NoAccount, u, users[u].role, users[u], users[u])
        /\ users[u].life # "absent" /\ users[u] \in Rows /\ users[u].role \in Roles
    BY <1>1, <1>2, <1>6 DEF Login, Rows
  <2>2. Changes("login", users[u], users[u])
    BY <2>1 DEF Changes
  <2>3. PICK role \in Roles : role = users[u].role
    BY <2>1
  <2>4. Open(r, "commit", "login", NoAccount, u, role, users[u], users[u])
    BY <2>1, <2>3
  <2> QED
    BY <2>1, <2>2, <2>3, <2>4, OpenCommit DEF Issues, Removes, OnPages, AllOps
<1>7. ASSUME NEW u \in Account, NEW role \in Roles, Refresh(r, u, role)
      PROVE  IInv'
  <2>1. /\ Open(r, "commit", "refresh", NoAccount, u, role, users[u], users[u])
        /\ users[u].life # "absent" /\ users[u] \in Rows
    BY <1>1, <1>2, <1>7 DEF Refresh
  <2>2. u \in unswept \/ role = users[u].role
    <3>1. <<u, role>> \in sessions
      BY <1>7 DEF Refresh
    <3>2. <<u, role>>[1] = u /\ <<u, role>>[2] = role
      OBVIOUS
    <3> QED
      BY <3>1, <3>2 DEF IInv, SessionsCarryRoleUnlessUnswept
  <2> QED
    BY <2>1, <2>2, OpenCommit DEF Changes, Issues, Removes, OnPages, AllOps
<1>8. ASSUME NEW u \in Account, NEW op \in {"ops", "cliset"}, Do(r, op, NoAccount, u, users[u]),
             Live(u)
      PROVE  IInv'
  <2>1. /\ Open(r, "commit", op, NoAccount, u, "customer", users[u], users[u])
        /\ users[u].life # "absent" /\ users[u] \in Rows
    BY <1>1, <1>2, <1>8 DEF Do
  <2>2. CASE op = "ops"
    BY <1>1, <2>1, <2>2, OpenCommit DEF Changes, Issues, Removes, OnPages, AllOps
  <2>3. CASE op = "cliset"
    BY <1>1, <2>1, <2>3, OpenCommit DEF Changes, Issues, Removes, OnPages, AllOps
  <2> QED
    BY <2>2, <2>3
<1>9. ASSUME NEW u \in Account, OpsLogin(r, u) \/ CliSetPassword(r, u)
      PROVE  IInv'
  BY <1>8, <1>9 DEF OpsLogin, CliSetPassword, Usable, Finds, HoldsMail
<1>10. ASSUME NEW u \in Account, NEW op \in {"password", "reset"},
              NEW a \in Account \cup {NoAccount},
              Do(r, op, a, u, [users[u] EXCEPT !.must = FALSE]), Live(u)
       PROVE  IInv'
  <2> DEFINE v == [users[u] EXCEPT !.must = FALSE]
  <2>1. /\ v \in Rows /\ v.life = users[u].life /\ v.mail = users[u].mail
        /\ v.role = users[u].role /\ v.active = users[u].active /\ v.must = FALSE
    BY <1>1 DEF Rows
  <2>2. Open(r, "commit", op, a, u, "customer", users[u], v) /\ users[u].life # "absent"
    BY <1>2, <1>10 DEF Do
  <2> HIDE DEF v
  <2>3. CASE op = "password"
    BY <1>1, <2>1, <2>2, <2>3, OpenCommit DEF Changes, Issues, Removes, OnPages, AllOps
  <2>4. CASE op = "reset"
    BY <1>1, <2>1, <2>2, <2>4, OpenCommit DEF Changes, Issues, Removes, OnPages, AllOps
  <2> QED
    BY <2>3, <2>4
<1>11. ASSUME NEW u \in Account, ChangePassword(r, u) \/ ResetPassword(r, u)
       PROVE  IInv'
  BY <1>10, <1>11 DEF ChangePassword, ResetPassword, SignedIn
<1>12. ASSUME NEW u \in Account, CliPromote(r, u)
       PROVE  IInv'
  <2> DEFINE v == [users[u] EXCEPT !.role = "admin"]
  <2>1. /\ v \in Rows /\ v.life = users[u].life /\ v.mail = users[u].mail
        /\ v.role = "admin" /\ v.active = users[u].active /\ v.must = users[u].must
    BY <1>1 DEF Rows, Roles
  <2>2. Open(r, "commit", "clipromote", NoAccount, u, "customer", users[u], v)
        /\ users[u].life # "absent"
    BY <1>2, <1>12 DEF CliPromote, Do, Finds, HoldsMail
  <2> HIDE DEF v
  <2> QED
    BY <1>1, <2>1, <2>2, OpenCommit DEF Changes, Issues, Removes, OnPages, AllOps
<1>13. ASSUME NEW u \in Account, NEW m \in Plain, NEW role \in Roles,
              NEW op \in {"register", "clicreate"}, Fresh(u),
              Do(r, op, NoAccount, u, NewUser(m, role, FALSE))
       PROVE  IInv'
  <2> DEFINE v == NewUser(m, role, FALSE)
  <2>1. v \in NewRows /\ v \in Rows /\ v.mail \in Plain
    BY NewUserRow, PlainAddress
  <2>2. Open(r, "commit", op, NoAccount, u, "customer", users[u], v)
        /\ \A s \in Request \ {r} : req[s].user # u
    BY <1>13 DEF Fresh, Do
  <2>3. users[u] = Absent
    BY <1>13 DEF Fresh, IInv, RowsOK
  <2>4. Absent.life = "absent"
    BY DEF Absent
  <2> HIDE DEF v
  <2>5. CASE op = "register"
    BY <1>1, <2>1, <2>2, <2>3, <2>4, <2>5, OpenCommit DEF Creates, Issues, Removes, OnPages, AllOps
  <2>6. CASE op = "clicreate"
    BY <1>1, <2>1, <2>2, <2>3, <2>4, <2>6, OpenCommit DEF Creates, Issues, Removes, OnPages, AllOps
  <2> QED
    BY <2>5, <2>6
<1>14. ASSUME NEW u \in Account, NEW m \in Plain, Register(r, u, m) \/ CliCreate(r, u, m)
       PROVE  IInv'
  <2>1. "admin" \in Roles
    BY DEF Roles
  <2>2. CASE Register(r, u, m)
    BY <1>1, <1>13, <2>2 DEF Register
  <2>3. CASE CliCreate(r, u, m)
    BY <1>13, <2>1, <2>3 DEF CliCreate
  <2> QED
    BY <1>14, <2>2, <2>3
<1> QED
  BY <1>3, <1>4, <1>5, <1>6, <1>7, <1>9, <1>11, <1>12, <1>14, <1>15, <1>16, <1>17 DEF Arrive

\* A request that has computed what it writes.
LEMMA ComputeStep ==
    ASSUME IInv, NEW r \in Request, NEW op \in AllOps, NEW u \in Account,
           NEW old \in Rows, NEW new \in Rows,
           req[r].pc = "look", Compute(r, op, u, old, new),
           op # "admin", op \notin Issues,
           op \in Removes => req[r].actor \in Account,
           op \in Removes \ OnPages => req[r].actor # u,
           users[u].life # "absent" \/ \A s \in Request \ {r} : req[s].user # u,
           (old.life = "absent") <=> (users[u].life = "absent"),
           op = "delete" /\ old.mail = NoAddress => u \in crossed,
           Creates(op, old, new) \/ Changes(op, old, new)
    PROVE  IInv'
<1> DEFINE q == [req[r] EXCEPT !.pc = "commit", !.op = op, !.user = u,
                               !.old = old, !.new = new]
<1>1. req' = [req EXCEPT ![r] = q] /\ UNCHANGED <<users, doors, histories>>
      /\ UNCHANGED served /\ req[r] \in Slots /\ served \in Nat
  BY DEF Compute, IInv, TypeOK
<1>2. /\ q \in Slots /\ q.pc = "commit" /\ q.op = op /\ q.actor = req[r].actor
      /\ q.user = u /\ q.old = old /\ q.new = new
  BY <1>1 DEF Slots
<1> HIDE DEF q
<1>3. Computed(q)
  BY <1>2 DEF Computed
<1> QED
  BY <1>1, <1>2, <1>3, SlotStep

\* Every check-and-compute step keeps the invariant.
LEMMA LookStep ==
    ASSUME IInv, NEW r \in Request, Look(r)
    PROVE  IInv'
<1>1. users \in [Account -> Rows] /\ req[r] \in Slots /\ req[r].old \in Rows
  BY DEF IInv, TypeOK, Slots
<1>2. req[r].pc = "look" => Looks(req[r])
  BY DEF IInv, SlotOK
<1>3. \A u \in Account : /\ Live(u) => users[u].life = "live"
                         /\ users[u].life = "absent" => users[u] = Absent
                         /\ Live(u) /\ users[u].mail = NoAddress => u \in crossed
  BY DEF IInv, RowsOK, Live
<1>4. ASSUME NEW u \in Account, NEW op \in {"role", "active", "inactive", "delete", "approve"},
             NEW new \in Rows, Acts(r, op, u, new), Changes(op, users[u], new)
      PROVE  IInv'
  <2>1. /\ req[r].pc = "look" /\ req[r].op = "admin" /\ u # req[r].actor
        /\ users[u].life = "live" /\ users[u] \in Rows
        /\ Compute(r, op, u, users[u], new)
    BY <1>1, <1>3, <1>4 DEF Acts, Looking
  <2>2. req[r].actor \in Account
    BY <1>2, <2>1 DEF Looks
  <2>3. op \in AllOps /\ op # "admin" /\ op \notin Issues
    BY DEF OnPages, AllOps, Manages, Removes, Issues
  <2>4. users[u].mail = NoAddress => u \in crossed
    BY <1>3, <2>1 DEF Live
  <2> QED
    BY <1>4, <2>1, <2>2, <2>3, <2>4, ComputeStep
<1>5. ASSUME NEW u \in Account, DeleteUser(r, u)
      PROVE  IInv'
  <2> DEFINE v == [users[u] EXCEPT !.life = "deleted", !.active = FALSE, !.mail = NoAddress]
  <2>1. Acts(r, "delete", u, v) /\ users[u].life = "live"
    BY <1>3, <1>5 DEF DeleteUser, Acts
  <2>2. /\ v \in Rows /\ v.life = "deleted" /\ v.mail = NoAddress /\ ~v.active
        /\ v.role = users[u].role /\ v.must = users[u].must
    BY <1>1 DEF Rows
  <2> HIDE DEF v
  <2>3. Changes("delete", users[u], v)
    BY <2>1, <2>2 DEF Changes
  <2> QED
    BY <1>4, <2>1, <2>2, <2>3
<1>6. ASSUME NEW u \in Account, NEW x \in Roles, NEW op \in {"role", "approve"},
             Acts(r, op, u, [users[u] EXCEPT !.role = x])
      PROVE  IInv'
  <2> DEFINE v == [users[u] EXCEPT !.role = x]
  <2>1. /\ v \in Rows /\ v.life = users[u].life /\ v.mail = users[u].mail
        /\ v.active = users[u].active /\ v.must = users[u].must
    BY <1>1 DEF Rows
  <2>2. users[u].life # "absent" /\ Acts(r, op, u, v)
    BY <1>3, <1>6 DEF Acts
  <2> HIDE DEF v
  <2>3. Changes(op, users[u], v)
    BY <2>1, <2>2 DEF Changes
  <2> QED
    BY <1>4, <2>1, <2>2, <2>3
<1>7. ASSUME NEW u \in Account, NEW x \in Roles, ChangeRole(r, u, x)
      PROVE  IInv'
  BY <1>6, <1>7 DEF ChangeRole
<1>14. ASSUME NEW u \in Account, GrantSourcer(r, u)
       PROVE  IInv'
  <2>1. "sourcer" \in Roles
    BY DEF Roles
  <2> QED
    BY <1>6, <1>14, <2>1 DEF GrantSourcer
<1>8. ASSUME NEW u \in Account, NEW on \in BOOLEAN, SetActive(r, u, on)
      PROVE  IInv'
  <2> DEFINE v == [users[u] EXCEPT !.active = on]
  <2>1. /\ v \in Rows /\ v.life = users[u].life /\ v.mail = users[u].mail
        /\ v.role = users[u].role /\ v.active = on /\ v.must = users[u].must
    BY <1>1 DEF Rows
  <2>2. users[u].life = "live" /\ Acts(r, IF on THEN "active" ELSE "inactive", u, v)
    BY <1>3, <1>8 DEF SetActive, Acts
  <2> HIDE DEF v
  <2>3. CASE on
    <3>1. Changes("active", users[u], v)
      BY <2>1, <2>2, <2>3 DEF Changes
    <3> QED
      BY <1>4, <2>1, <2>2, <2>3, <3>1
  <2>4. CASE ~on
    <3>1. Changes("inactive", users[u], v)
      BY <2>1, <2>2, <2>4 DEF Changes
    <3> QED
      BY <1>4, <2>1, <2>2, <2>4, <3>1
  <2> QED
    BY <2>3, <2>4
<1>9. ASSUME NEW u \in Account, NEW m \in Plain, NEW x \in Roles, CreateUser(r, u, m, x)
      PROVE  IInv'
  <2> DEFINE v == NewUser(m, x, FALSE)
  <2>1. /\ req[r].pc = "look" /\ users[u].life = "absent"
        /\ \A s \in Request : req[s].user # u
        /\ Compute(r, "create", u, Absent, v)
    BY <1>9 DEF CreateUser, Looking, Fresh
  <2>2. v \in NewRows /\ v \in Rows /\ v.mail \in Plain
    BY NewUserRow, PlainAddress
  <2> HIDE DEF v
  <2>3. Creates("create", Absent, v)
    BY <2>2 DEF Creates
  <2>4. Absent.life = "absent" /\ Absent \in Rows
    BY AbsentRow DEF Absent
  <2>5. "create" \in AllOps /\ "create" \notin Issues /\ "create" \notin Removes
    BY DEF AllOps, Manages, Issues, Removes, OnPages
  <2> QED
    BY <2>1, <2>2, <2>3, <2>4, <2>5, ComputeStep
<1>10. ASSUME NEW m \in Plain, ChangeMail(r, m)
       PROVE  IInv'
  <2> DEFINE old == req[r].old
  <2> DEFINE v == [old EXCEPT !.mail = m]
  <2> DEFINE a == req[r].actor
  <2>1. /\ req[r].pc = "look" /\ req[r].op = "mail" /\ Compute(r, "mail", a, old, v)
    BY <1>10 DEF ChangeMail, Looking
  <2>2. a \in Account /\ old.life = "live" /\ users[a].life # "absent" /\ old \in Rows
    BY <1>1, <1>2, <2>1 DEF Looks
  <2>3. /\ v \in Rows /\ v.life = old.life /\ v.mail = m
        /\ v.role = old.role /\ v.active = old.active /\ v.must = old.must
    BY <2>2, PlainAddress DEF Rows
  <2> HIDE DEF v, old, a
  <2>4. Changes("mail", old, v)
    BY <2>2, <2>3 DEF Changes
  <2>5. "mail" \in AllOps /\ "mail" \notin Issues /\ "mail" \notin Removes
    BY DEF AllOps, Issues, Removes, OnPages
  <2> QED
    BY <2>1, <2>2, <2>3, <2>4, <2>5, ComputeStep
<1>11. ASSUME SaveForm(r)
       PROVE  IInv'
  <2> DEFINE u == req[r].user
  <2> DEFINE seen == req[r].old
  <2>1. /\ req[r].pc = "look" /\ req[r].op = "panel" /\ users[u].life # "absent"
        /\ req[r].actor \in Account /\ seen.life # "absent" /\ seen \in Rows
        /\ \E v \in Sent(seen) : Compute(r, "panel", u, users[u], v)
    BY <1>1, <1>2, <1>11 DEF SaveForm, Looking, Exists, Looks
  <2>2. PICK v \in Sent(seen) : Compute(r, "panel", u, users[u], v)
    BY <2>1
  <2>3. u \in Account
    BY <1>2, <2>1 DEF Looks
  <2>4. v \in Rows /\ v.life # "absent"
    BY <2>1, <2>2 DEF Sent, Rows
  <2>5. users[u] \in Rows
    BY <1>1, <2>3
  <2> HIDE DEF u, seen
  <2>6. Changes("panel", users[u], v)
    BY <2>1, <2>4 DEF Changes
  <2>7. "panel" \in AllOps /\ "panel" \notin Issues /\ "panel" \in OnPages
    BY DEF AllOps, Manages, Removes, OnPages, Issues
  <2> QED
    BY <2>1, <2>2, <2>3, <2>4, <2>5, <2>6, <2>7, ComputeStep
<1>12. ASSUME NEW u \in Account, BootstrapPromote(r, u)
       PROVE  IInv'
  <2> DEFINE v == [users[u] EXCEPT !.role = "admin", !.must = TRUE]
  <2>1. /\ req[r].pc = "look" /\ users[u].life # "absent" /\ users[u] \in Rows
        /\ Compute(r, "bootstrap", u, users[u], v)
    BY <1>1, <1>12 DEF BootstrapPromote, Looking, Finds, HoldsMail, Live
  <2>2. /\ v \in Rows /\ v.life = users[u].life /\ v.mail = users[u].mail
        /\ v.role = "admin" /\ v.active = users[u].active /\ v.must = TRUE
    BY <2>1 DEF Rows, Roles
  <2> HIDE DEF v
  <2>3. Changes("bootstrap", users[u], v)
    BY <2>1, <2>2 DEF Changes
  <2>4. "bootstrap" \in AllOps /\ "bootstrap" \notin Issues /\ "bootstrap" \notin Removes
    BY DEF AllOps, Issues, Removes, OnPages
  <2> QED
    BY <2>1, <2>2, <2>3, <2>4, ComputeStep
<1>13. ASSUME NEW u \in Account, BootstrapCreate(r, u)
       PROVE  IInv'
  <2> DEFINE v == NewUser(BootAddress, "admin", TRUE)
  <2>1. /\ req[r].pc = "look" /\ users[u].life = "absent"
        /\ \A s \in Request : req[s].user # u
        /\ Compute(r, "bootstrap", u, Absent, v)
    BY <1>13 DEF BootstrapCreate, Looking, Fresh
  <2>2. v \in NewRows /\ v \in Rows /\ v.must = TRUE /\ v.mail \in Plain
    <3>1. "admin" \in Roles
      BY DEF Roles
    <3> QED
      BY <3>1, NewUserRow, PlainAddress
  <2> HIDE DEF v
  <2>3. Creates("bootstrap", Absent, v)
    BY <2>2 DEF Creates
  <2>4. Absent.life = "absent" /\ Absent \in Rows
    BY AbsentRow DEF Absent
  <2>5. "bootstrap" \in AllOps /\ "bootstrap" \notin Issues /\ "bootstrap" \notin Removes
    BY DEF AllOps, Issues, Removes, OnPages
  <2> QED
    BY <2>1, <2>2, <2>3, <2>4, <2>5, ComputeStep
<1> QED
  BY <1>5, <1>7, <1>8, <1>9, <1>10, <1>11, <1>12, <1>13, <1>14 DEF Look

-----------------------------------------------------------------------------
(* Commit. *)

\* The row a commit leaves, column by column.
LEMMA MergeRow ==
    ASSUME IInv, NEW q \in Slots, q.user \in Account, q.op # "erase"
    PROVE  LET w == Merge(q)
               o == users[q.user]
           IN /\ w \in Rows
              /\ w.life   = IF q.old.life   # q.new.life   THEN q.new.life   ELSE o.life
              /\ w.mail   = IF q.old.mail   # q.new.mail   THEN q.new.mail   ELSE o.mail
              /\ w.role   = IF q.old.role   # q.new.role   THEN q.new.role   ELSE o.role
              /\ w.active = IF q.old.active # q.new.active THEN q.new.active ELSE o.active
              /\ w.must   = IF q.old.must   # q.new.must   THEN q.new.must   ELSE o.must
<1>1. users[q.user] \in Rows /\ q.old \in Rows /\ q.new \in Rows
  BY DEF IInv, TypeOK, Slots
<1>2. \A c \in Columns : c \in Writes(q) <=> q.old[c] # q.new[c]
  BY DEF Writes
<1>3. /\ "life" \in Columns /\ "mail" \in Columns /\ "role" \in Columns
      /\ "active" \in Columns /\ "must" \in Columns
  BY DEF Columns
<1> DEFINE w == Merge(q)
<1>4. /\ w["life"]   = IF q.old.life   # q.new.life   THEN q.new.life   ELSE users[q.user].life
      /\ w["mail"]   = IF q.old.mail   # q.new.mail   THEN q.new.mail   ELSE users[q.user].mail
      /\ w["role"]   = IF q.old.role   # q.new.role   THEN q.new.role   ELSE users[q.user].role
      /\ w["active"] = IF q.old.active # q.new.active THEN q.new.active ELSE users[q.user].active
      /\ w["must"]   = IF q.old.must   # q.new.must   THEN q.new.must   ELSE users[q.user].must
  BY <1>2, <1>3 DEF Merge
<1>5. w = [c \in Columns |-> w[c]]
  BY DEF Merge
<1> HIDE DEF w
<1>6. w = [life |-> w["life"], mail |-> w["mail"], role |-> w["role"],
           active |-> w["active"], must |-> w["must"]]
  BY <1>5 DEF Columns
<1>7. /\ w.life \in {"absent", "live", "deleted", "gone"} /\ w.mail \in Address \cup {NoAddress}
      /\ w.role \in Roles /\ w.active \in BOOLEAN /\ w.must \in BOOLEAN
  BY <1>1, <1>4 DEF Rows
<1>8. w \in Rows
  BY <1>6, <1>7 DEF Rows
<1> QED
  BY <1>4, <1>8 DEF w

\* What a commit finds and leaves, for the cases below.
LEMMA CommitFacts ==
    ASSUME IInv, NEW r \in Request, Commit(r)
    PROVE  LET q == req[r]
               u == q.user
               w == users'[u]
           IN /\ q \in Slots /\ u \in Account /\ Computed(q)
              /\ q.old \in Rows /\ q.new \in Rows /\ users[u] \in Rows
              /\ w = Merge(q) /\ w \in Rows /\ w.life # "absent"
              /\ users' = [users EXCEPT ![u] = w]
              /\ \A v \in Account : v # u => users'[v] = users[v]
              /\ Creates(q.op, q.old, q.new) => users[u] = Absent /\ w = q.new
              /\ Changes(q.op, q.old, q.new) => users[u].life # "absent"
              /\ q.op = "erase" <=> Erases(q.op, q.old, q.new)
              /\ q.op = "erase" => w = Gone
              /\ q.op = "delete" /\ q.old.mail = NoAddress => u \in crossed
<1> DEFINE q == req[r]
<1> DEFINE u == q.user
<1> DEFINE w == Merge(q)
<1>1. q \in Slots /\ q.pc = "commit" /\ users' = [users EXCEPT ![u] = w]
  BY DEF IInv, TypeOK, Commit
<1>2. SlotOK(r)
  BY DEF IInv
<1>3. /\ u \in Account /\ Computed(q)
      /\ q.old.life = "absent" => users[u].life = "absent"
      /\ q.old.life # "absent" => users[u].life # "absent"
      /\ q.op = "delete" /\ q.old.mail = NoAddress => u \in crossed
  BY <1>1, <1>2 DEF SlotOK, Computed
<1>4. q.old \in Rows /\ q.new \in Rows /\ users \in [Account -> Rows]
  BY <1>1 DEF IInv, TypeOK, Slots
<1>5. q.op # "erase" =>
      /\ w \in Rows
      /\ w.life   = IF q.old.life   # q.new.life   THEN q.new.life   ELSE users[u].life
      /\ w.mail   = IF q.old.mail   # q.new.mail   THEN q.new.mail   ELSE users[u].mail
      /\ w.role   = IF q.old.role   # q.new.role   THEN q.new.role   ELSE users[u].role
      /\ w.active = IF q.old.active # q.new.active THEN q.new.active ELSE users[u].active
      /\ w.must   = IF q.old.must   # q.new.must   THEN q.new.must   ELSE users[u].must
  BY <1>1, <1>3, MergeRow
<1>11. q.op = "erase" => w = Gone
  BY DEF Merge
<1>6. users'[u] = w /\ \A v \in Account : v # u => users'[v] = users[v]
  BY <1>1, <1>3, <1>4
<1>7. Creates(q.op, q.old, q.new) => users[u] = Absent /\ w = q.new /\ w.life = "live"
  <2> SUFFICES ASSUME Creates(q.op, q.old, q.new)
               PROVE  users[u] = Absent /\ w = q.new /\ w.life = "live"
    OBVIOUS
  <2>1. q.old = Absent /\ q.new \in NewRows /\ q.new.life = "live" /\ q.op # "erase"
    BY DEF Creates, NewRows
  <2> HIDE DEF w, u, q
  <2>2. users[u] = Absent
    <3>1. q.old.life = "absent"
      BY <2>1 DEF Absent
    <3> QED
      BY <1>3, <3>1 DEF IInv, RowsOK
  <2>3. /\ w.life = q.new.life /\ w.mail = q.new.mail /\ w.role = q.new.role
        /\ w.active = q.new.active /\ w.must = q.new.must
    BY <1>5, <2>1, <2>2
  <2>4. w = q.new
    BY <1>4, <1>5, <2>1, <2>3 DEF Rows
  <2> QED
    BY <2>1, <2>2, <2>4
<1>8. Changes(q.op, q.old, q.new) => users[u].life # "absent" /\ w.life # "absent"
  BY <1>3, <1>5 DEF Changes
<1>9. \/ Creates(q.op, q.old, q.new) \/ Changes(q.op, q.old, q.new)
      \/ Erases(q.op, q.old, q.new)
  BY <1>3 DEF Computed
<1>12. q.op = "erase" <=> Erases(q.op, q.old, q.new)
  BY <1>9 DEF Creates, Changes, Erases
<1>10. w \in Rows /\ w.life # "absent"
  BY <1>5, <1>7, <1>8, <1>9, <1>11, <1>12, GoneRow
<1> HIDE DEF w, u, q
<1> QED
  BY <1>1, <1>3, <1>4, <1>6, <1>7, <1>8, <1>10, <1>11, <1>12 DEF w, u, q

\* A commit leaves rows, tokens, sessions and slots of their types.
LEMMA CommitTypes ==
    ASSUME IInv, NEW r \in Request, Commit(r)
    PROVE  TypeOK'
<1> DEFINE q == req[r]
<1> DEFINE u == q.user
<1> DEFINE w == users'[u]
<1>1. /\ q \in Slots /\ u \in Account /\ Computed(q) /\ w \in Rows /\ w.life # "absent"
      /\ q.old \in Rows
      /\ users' = [users EXCEPT ![u] = w]
      /\ \A v \in Account : v # u => users'[v] = users[v]
  BY CommitFacts
<1>2. TypeOK
  BY DEF IInv
<1>3. /\ sessions' = (IF Sweeps(q) THEN {s \in sessions : s[1] # u} ELSE sessions) \cup Opens(q)
      /\ access' = access \cup (IF q.op \in Issues THEN {<<u, q.old.role>>} ELSE {})
      /\ cookies' = cookies \cup (IF q.op = "ops" THEN {u} ELSE {})
      /\ Remember(q) /\ served' = served
      /\ req' = [s \in Request |->
                   IF s = r THEN Free
                   ELSE [req[s] EXCEPT !.late = @ \/ (Sweeps(q) /\ req[s].user = u)]]
  BY DEF Commit
<1>4. Opens(q) \subseteq {<<u, q.role>>} /\ q.role \in Roles /\ q.old.role \in Roles
  BY <1>1 DEF Opens, Slots, Rows
<1> HIDE DEF w, u, q
<1>5. users' \in [Account -> Rows]
  BY <1>1, <1>2 DEF TypeOK
<1>6. access' \subseteq Account \X Roles /\ sessions' \subseteq Account \X Roles
      /\ cookies' \subseteq Account
  BY <1>1, <1>2, <1>3, <1>4 DEF TypeOK
<1>7. ASSUME NEW v \in Account, users'[v].life = "absent"
      PROVE  v \notin cookies' /\ \A x \in Roles : <<v, x>> \notin access' \cup sessions'
  <2>1. v # u
    BY <1>1, <1>7 DEF w
  <2>2. users[v].life = "absent"
    BY <1>1, <1>7, <2>1
  <2>3. v \notin cookies /\ \A x \in Roles : <<v, x>> \notin access \cup sessions
    BY <1>2, <2>2 DEF TypeOK
  <2>4. \A x, y \in Roles : <<v, x>> # <<u, y>>
    BY <2>1
  <2>5. v \notin cookies'
    BY <1>3, <2>1, <2>3
  <2>6. ASSUME NEW x \in Roles
        PROVE  <<v, x>> \notin access' /\ <<v, x>> \notin sessions'
    BY <1>3, <1>4, <2>3, <2>4
  <2> QED
    BY <2>5, <2>6
<1>8. req' \in [Request -> Slots]
  <2>1. ASSUME NEW s \in Request
        PROVE  req'[s] \in Slots
    <3>1. req[s] \in Slots
      BY <1>2 DEF TypeOK
    <3>2. CASE s = r
      BY <1>3, <3>2, FreeSlot
    <3>3. CASE s # r
      <4> DEFINE b == req[s].late \/ (Sweeps(q) /\ req[s].user = u)
      <4>1. b \in BOOLEAN
        BY <3>1 DEF Slots
      <4>2. req'[s] = [req[s] EXCEPT !.late = b]
        BY <1>3, <3>3
      <4> HIDE DEF b
      <4> QED
        BY <3>1, <4>1, <4>2 DEF Slots
    <3> QED
      BY <3>2, <3>3
  <2> QED
    BY <1>3, <2>1
<1>9. pending' \subseteq Account /\ unswept' \subseteq Account /\ crossed' \subseteq Account
  BY <1>1, <1>2, <1>3 DEF Remember, StillPending, TypeOK, u
<1>10. unwatched' \in BOOLEAN /\ respelt' \subseteq Account
  BY <1>1, <1>2, <1>3 DEF Remember, TypeOK, u
<1> QED
  BY <1>2, <1>3, <1>5, <1>6, <1>7, <1>8, <1>9, <1>10 DEF TypeOK

\* A deletion closes the account and releases its address.
LEMMA CommitMails ==
    ASSUME IInv, NEW r \in Request, Commit(r)
    PROVE  RowsOK' /\ DeletedStaysClosed'
<1> DEFINE q == req[r]
<1> DEFINE u == q.user
<1> DEFINE w == users'[u]
<1>1. /\ q \in Slots /\ u \in Account /\ Computed(q) /\ w \in Rows /\ w.life # "absent"
      /\ \A v \in Account : v # u => users'[v] = users[v]
      /\ Creates(q.op, q.old, q.new) => users[u] = Absent /\ w = q.new
      /\ Changes(q.op, q.old, q.new) => users[u].life # "absent"
      /\ q.op = "erase" <=> Erases(q.op, q.old, q.new)
      /\ q.op = "erase" => w = Gone
      /\ q.op = "delete" /\ q.old.mail = NoAddress => u \in crossed
      /\ q.old \in Rows /\ q.new \in Rows /\ users[u] \in Rows
  BY CommitFacts
<1>2. q.op # "erase" =>
      /\ w.life = IF q.old.life # q.new.life THEN q.new.life ELSE users[u].life
      /\ w.mail = IF q.old.mail # q.new.mail THEN q.new.mail ELSE users[u].mail
      /\ w.active = IF q.old.active # q.new.active THEN q.new.active ELSE users[u].active
  BY CommitFacts, MergeRow
<1>3. crossed' = IF Crosses(q) THEN crossed \cup {u} ELSE crossed
  BY DEF Commit, Remember
<1>4. /\ RowsOK /\ DeletedStaysClosed
      /\ \A v \in Account : users[v] \in Rows
  BY DEF IInv, TypeOK
<1>5. \/ Creates(q.op, q.old, q.new) \/ Changes(q.op, q.old, q.new)
      \/ q.op = "erase"
  BY <1>1 DEF Computed
<1>6. "mail" \in Writes(q) <=> q.old.mail # q.new.mail
  BY DEF Writes, Columns
<1>7. "life" \in Writes(q) <=> q.old.life # q.new.life
  BY DEF Writes, Columns
<1>8. /\ q.op \in {"mail", "active"} /\ q.old.life = "live" /\ ~Live(u) => Crosses(q)
      /\ q.op = "delete" /\ ~q.old.active /\ users[u].active => Crosses(q)
      /\ q.op = "panel" /\ (q.old.mail # q.new.mail \/ q.old.life # q.new.life \/ ~Live(u))
            => Crosses(q)
  BY <1>6, <1>7 DEF Crosses
<1> HIDE DEF w, u, q
<1>12. crossed \subseteq crossed'
  BY <1>3
<1>13. w.life = "deleted" => u \in crossed' \/ (w.mail = NoAddress /\ ~w.active)
  <2> SUFFICES ASSUME w.life = "deleted", u \notin crossed'
               PROVE  w.mail = NoAddress /\ ~w.active
    OBVIOUS
  <2>1. ~Creates(q.op, q.old, q.new) /\ q.op # "erase"
    BY <1>1, GoneRow DEF Creates, NewRows
  <2>2. Changes(q.op, q.old, q.new) /\ ~Crosses(q)
    BY <1>1, <1>3, <1>5, <2>1
  <2>3. CASE q.op = "delete"
    <3>1. q.old.mail # NoAddress /\ q.new.mail = NoAddress /\ ~q.new.active
      BY <1>1, <1>12, <2>2, <2>3 DEF Changes
    <3>2. ~w.active
      BY <1>1, <1>2, <1>8, <2>2, <2>3, <3>1 DEF Rows
    <3> QED
      BY <1>2, <2>3, <3>1, <3>2
  <2>4. CASE q.op # "delete"
    <3>1. w.life = users[u].life
      BY <1>2, <1>8, <2>1, <2>2, <2>4 DEF Changes
    <3>2. q.op \notin {"mail", "active", "panel"}
      BY <1>8, <2>2, <3>1 DEF Live, Changes
    <3>3. w.mail = users[u].mail
      BY <1>2, <2>1, <2>2, <2>4, <3>2 DEF Changes
    <3>4. users[u].mail = NoAddress /\ ~users[u].active
      BY <1>1, <1>4, <1>12, <3>1 DEF DeletedStaysClosed
    <3>5. ~w.active
      <4>1. q.new.active = q.old.active \/ ~q.new.active
        BY <2>2, <2>4, <3>2 DEF Changes
      <4> QED
        BY <1>1, <1>2, <2>1, <3>4, <4>1 DEF Rows
    <3> QED
      BY <3>3, <3>4, <3>5
  <2> QED
    BY <2>3, <2>4
<1>14. w.life = "live" /\ w.mail = NoAddress => u \in crossed'
  <2> SUFFICES ASSUME w.life = "live", w.mail = NoAddress, u \notin crossed'
               PROVE  FALSE
    OBVIOUS
  <2>1. ~Creates(q.op, q.old, q.new) /\ q.op # "erase"
    BY <1>1, GoneRow, NonesAreFresh DEF Creates, NewRows
  <2>2. Changes(q.op, q.old, q.new) /\ ~Crosses(q)
    BY <1>1, <1>3, <1>5, <2>1
  <2>3. CASE q.op = "delete"
    BY <1>2, <2>2, <2>3 DEF Changes
  <2>4. CASE q.op # "delete"
    <3>1. w.life = users[u].life
      BY <1>2, <1>8, <2>1, <2>2, <2>4 DEF Changes
    <3>2. w.mail = users[u].mail
      BY <1>2, <1>8, <2>1, <2>2, <2>4, PlainAddress DEF Changes
    <3> QED
      BY <1>1, <1>4, <1>12, <3>1, <3>2 DEF RowsOK, Live
  <2> QED
    BY <2>3, <2>4
<1>15. DeletedStaysClosed'
  BY <1>1, <1>4, <1>12, <1>13 DEF DeletedStaysClosed, w
<1>16. RowsOK'
  BY <1>1, <1>4, <1>12, <1>14 DEF RowsOK, Live, w
<1> QED
  BY <1>15, <1>16

\* A role is written with a sweep, or remembered as unswept.
LEMMA RoleKept ==
    ASSUME IInv, NEW r \in Request, Commit(r), ~Sweeps(req[r]), req[r].user \notin unswept',
           users[req[r].user].life # "absent"
    PROVE  users'[req[r].user].role = users[req[r].user].role
<1> DEFINE q == req[r]
<1> DEFINE u == q.user
<1> DEFINE w == users'[u]
<1>1. /\ q \in Slots /\ u \in Account /\ Computed(q) /\ w = Merge(q)
      /\ Creates(q.op, q.old, q.new) => users[u] = Absent
  BY CommitFacts
<1>2. q.op # "erase" => w.role = IF q.old.role # q.new.role THEN q.new.role ELSE users[u].role
  BY <1>1, MergeRow
<1>3. ~(q.op \in {"bootstrap", "panel"} /\ q.old.role # q.new.role)
  BY DEF Commit, Remember
<1>4. ~Sweeps(q) /\ users[u].life # "absent"
  OBVIOUS
<1> HIDE DEF w, u, q
<1>7. q.op # "erase"
  BY <1>4 DEF Sweeps
<1>5. Changes(q.op, q.old, q.new)
  BY <1>1, <1>4, <1>7 DEF Computed, Erases, Absent
<1>6. q.old.role = q.new.role
  BY <1>3, <1>4, <1>5 DEF Changes, Sweeps
<1> QED
  BY <1>2, <1>6, <1>7 DEF w, u, q

\* The flag stays with whoever has to change the password.
LEMMA CommitFlags ==
    ASSUME IInv, NEW r \in Request, Commit(r)
    PROVE  PendingIsFlagged'
<1> DEFINE q == req[r]
<1> DEFINE u == q.user
<1> DEFINE w == users'[u]
<1>1. /\ q \in Slots /\ u \in Account /\ Computed(q) /\ w = Merge(q)
      /\ q.old \in Rows /\ q.new \in Rows /\ users[u] \in Rows
      /\ \A v \in Account : v # u => users'[v] = users[v]
      /\ Creates(q.op, q.old, q.new) => users[u] = Absent /\ w = q.new
      /\ q.op = "erase" <=> Erases(q.op, q.old, q.new)
  BY CommitFacts
<1>2. q.op # "erase" => w.must = IF q.old.must # q.new.must THEN q.new.must ELSE users[u].must
  BY <1>1, MergeRow
<1>3. pending' = StillPending(q)
  BY DEF Commit, Remember
<1>4. PendingIsFlagged /\ pending \subseteq Account
  BY DEF IInv, TypeOK
<1>5. /\ q.old.must \in BOOLEAN /\ q.new.must \in BOOLEAN /\ users[u].must \in BOOLEAN
  BY <1>1 DEF Rows
<1>6. Creates(q.op, q.old, q.new) \/ Changes(q.op, q.old, q.new) \/ q.op = "erase"
  BY <1>1 DEF Computed
<1> HIDE DEF w, u, q
<1>7. pending' \subseteq pending \cup {u}
  BY <1>3 DEF StillPending, u
<1>8. u \in pending' => w.must
  <2> SUFFICES ASSUME u \in pending' PROVE w.must
    OBVIOUS
  <2>1. CASE q.op = "bootstrap"
    <3>1. q.new.must
      BY <1>6, <2>1 DEF Creates, Changes
    <3>2. CASE q.old.must => users[u].must
      BY <1>2, <1>5, <2>1, <3>1, <3>2
    <3>3. CASE ~(q.old.must => users[u].must)
      <4>1. pending' = pending
        BY <1>3, <2>1, <3>3 DEF StillPending, u
      <4> QED
        BY <1>4, <3>3, <4>1 DEF PendingIsFlagged
    <3> QED
      BY <3>2, <3>3
  <2>2. CASE \/ q.op \in {"password", "reset", "cliset", "erase"}
             \/ q.op = "panel" /\ q.old.must /\ ~q.new.must
    <3>1. pending' = pending \ {u}
      BY <1>3, <2>2 DEF StillPending, u
    <3> QED
      BY <3>1
  <2>3. CASE /\ q.op \notin {"bootstrap", "password", "reset", "cliset", "erase"}
             /\ ~(q.op = "panel" /\ q.old.must /\ ~q.new.must)
    <3>1. pending' = pending
      BY <1>3, <2>3 DEF StillPending, u
    <3>2. users[u].must
      BY <1>1, <1>4, <3>1 DEF PendingIsFlagged
    <3>3. ~Creates(q.op, q.old, q.new)
      BY <1>1, <3>2 DEF Absent
    <3>4. q.old.must = q.new.must \/ q.new.must
      BY <1>5, <1>6, <2>3, <3>3 DEF Changes
    <3> QED
      BY <1>2, <2>3, <3>2, <3>4
  <2> QED
    BY <2>1, <2>2, <2>3
<1> QED
  BY <1>1, <1>4, <1>7, <1>8 DEF PendingIsFlagged, w

\* A session of an earlier role is one of an unswept account.
LEMMA CommitSessions ==
    ASSUME IInv, NEW r \in Request, Commit(r)
    PROVE  SessionsCarryRoleUnlessUnswept'
<1> DEFINE q == req[r]
<1> DEFINE u == q.user
<1>1. /\ q \in Slots /\ u \in Account /\ Computed(q)
      /\ \A v \in Account : v # u => users'[v] = users[v]
      /\ Changes(q.op, q.old, q.new) => users[u].life # "absent"
  BY CommitFacts
<1>2. sessions' = (IF Sweeps(q) THEN {s \in sessions : s[1] # u} ELSE sessions) \cup Opens(q)
  BY DEF Commit
<1>3. unswept \subseteq unswept' /\ (q.op \in Issues /\ q.late => u \in unswept')
  BY DEF Commit, Remember
<1>4. /\ SessionsCarryRoleUnlessUnswept /\ sessions \subseteq Account \X Roles
      /\ \A v \in Account : users[v].life = "absent" => \A x \in Roles : <<v, x>> \notin sessions
  BY DEF IInv, TypeOK
<1>5. ~Sweeps(q) /\ u \notin unswept' /\ users[u].life # "absent"
         => users'[u].role = users[u].role
  BY RoleKept
<1>6. q.op \in Issues /\ ~q.late /\ u \notin unswept => q.role = users[u].role
  BY DEF IInv, SlotOK, Commit
<1> HIDE DEF u, q
<1> SUFFICES ASSUME NEW s \in sessions', s[1] \notin unswept'
             PROVE  users'[s[1]].role = s[2]
  BY DEF SessionsCarryRoleUnlessUnswept
<1>7. CASE s \in Opens(q)
  <2>1. q.op \in Issues /\ s[1] = u /\ s[2] = q.role
    BY <1>7 DEF Opens, u
  <2>2. ~Sweeps(q)
    BY <2>1 DEF Issues, Sweeps
  <2>3. Changes(q.op, q.old, q.new)
    BY <1>1, <2>1 DEF Computed, Creates, Erases, Issues
  <2> QED
    BY <1>1, <1>3, <1>5, <1>6, <2>1, <2>2, <2>3
<1>8. CASE s \in sessions /\ s[1] # u
  BY <1>1, <1>3, <1>4, <1>8 DEF SessionsCarryRoleUnlessUnswept
<1>9. CASE s \in sessions /\ s[1] = u /\ ~Sweeps(q)
  <2>1. s = <<s[1], s[2]>> /\ s[2] \in Roles
    BY <1>4, <1>9
  <2>2. users[u].life # "absent"
    BY <1>1, <1>4, <1>9, <2>1
  <2> QED
    BY <1>3, <1>4, <1>5, <1>9, <2>2 DEF SessionsCarryRoleUnlessUnswept
<1> QED
  BY <1>2, <1>7, <1>8, <1>9

\* What the others have computed stays good.
LEMMA CommitSlots ==
    ASSUME IInv, NEW r \in Request, Commit(r), NEW s \in Request
    PROVE  SlotOK(s)'
<1> DEFINE q == req[r]
<1> DEFINE u == q.user
<1> DEFINE p == req[s]
<1> DEFINE n == req'[s]
<1>1. /\ u \in Account /\ users'[u].life # "absent"
      /\ \A v \in Account : v # u => users'[v] = users[v]
      /\ Creates(q.op, q.old, q.new) => users[u] = Absent
      /\ Changes(q.op, q.old, q.new) => users[u].life # "absent"
  BY CommitFacts
<1>2. crossed \subseteq crossed' /\ unswept \subseteq unswept'
  BY DEF Commit, Remember
<1>3. ~Sweeps(q) /\ u \notin unswept' /\ users[u].life # "absent"
         => users'[u].role = users[u].role
  BY RoleKept
<1>4. SlotOK(s) /\ req[s] \in Slots
  BY DEF IInv, TypeOK
<1>5. req' = [x \in Request |->
                IF x = r THEN Free
                ELSE [req[x] EXCEPT !.late = @ \/ (Sweeps(q) /\ req[x].user = u)]]
  BY DEF Commit
<1>6. CASE s = r
  <2>1. n.pc = "idle"
    BY <1>5, <1>6 DEF Free
  <2> QED
    BY <2>1 DEF SlotOK
<1>7. CASE s # r
  <2>1. n = [p EXCEPT !.late = @ \/ (Sweeps(q) /\ p.user = u)]
    BY <1>5, <1>7
  <2>2. /\ n.pc = p.pc /\ n.op = p.op /\ n.actor = p.actor /\ n.user = p.user
        /\ n.role = p.role /\ n.old = p.old /\ n.new = p.new
        /\ ~n.late => ~p.late /\ ~(Sweeps(q) /\ p.user = u)
    BY <1>4, <2>1 DEF Slots
  <2>3. \A x \in Request \ {s} : req'[x].user = req[x].user \/ req'[x].user = NoAccount
    <3>1. ASSUME NEW x \in Request \ {s}
          PROVE  req'[x].user = req[x].user \/ req'[x].user = NoAccount
      <4>1. req[x] \in Slots
        BY DEF IInv, TypeOK
      <4>2. CASE x = r
        BY <1>5, <4>2 DEF Free
      <4>3. CASE x # r
        BY <1>5, <4>1, <4>3 DEF Slots
      <4> QED
        BY <4>2, <4>3
    <3> QED
      BY <3>1
  <2>4. \A v \in Account : users[v].life # "absent" => users'[v].life # "absent"
    BY <1>1
  <2>5. /\ p.pc = "look" => Looks(p)
        /\ p.pc = "commit" =>
              /\ Computed(p)
              /\ IF p.old.life = "absent"
                 THEN /\ users[p.user].life = "absent"
                      /\ \A x \in Request \ {s} : req[x].user # p.user
                 ELSE users[p.user].life # "absent"
              /\ p.op = "delete" /\ p.old.mail = NoAddress => p.user \in crossed
              /\ p.op \in Issues /\ ~p.late /\ p.user \notin unswept
                    => p.role = users[p.user].role
    BY <1>4 DEF SlotOK
  <2> HIDE DEF p, n, q, u
  <2>6. ASSUME n.pc = "look"
        PROVE  /\ n.op \in {"admin", "mail", "panel", "bootstrap"}
               /\ n.op # "bootstrap" => n.actor \in Account
               /\ n.op = "mail" => n.old.life = "live" /\ users'[n.actor].life # "absent"
               /\ n.op = "panel" => n.old.life # "absent" /\ n.user \in Account
    BY <2>2, <2>4, <2>5, <2>6 DEF Looks
  <2>7. ASSUME n.pc = "commit"
        PROVE  /\ Computed(n)
               /\ IF n.old.life = "absent"
                  THEN /\ users'[n.user].life = "absent"
                       /\ \A x \in Request \ {s} : req'[x].user # n.user
                  ELSE users'[n.user].life # "absent"
               /\ n.op = "delete" /\ n.old.mail = NoAddress => n.user \in crossed'
               /\ n.op \in Issues /\ ~n.late /\ n.user \notin unswept'
                     => n.role = users'[n.user].role
    <3>1. p.pc = "commit" /\ Computed(p) /\ p.user \in Account
      BY <2>2, <2>5, <2>7 DEF Computed
    <3>2. Computed(n)
      BY <2>2, <3>1 DEF Computed
    <3>3. ASSUME p.old.life = "absent"
          PROVE  /\ users'[p.user].life = "absent"
                 /\ \A x \in Request \ {s} : req'[x].user # p.user
      <4>1. users[p.user].life = "absent" /\ \A x \in Request \ {s} : req[x].user # p.user
        BY <2>5, <3>1, <3>3
      <4>2. p.user # u
        BY <1>7, <4>1 DEF u, q
      <4> QED
        BY <1>1, <2>3, <3>1, <4>1, <4>2, NonesAreFresh
    <3>4. p.old.life # "absent" => users'[p.user].life # "absent"
      BY <2>4, <2>5, <3>1
    <3>5. ASSUME p.op \in Issues, ~n.late, p.user \notin unswept'
          PROVE  p.role = users'[p.user].role
      <4>1. p.role = users[p.user].role /\ ~(Sweeps(q) /\ p.user = u)
        BY <1>2, <2>2, <2>5, <3>1, <3>5
      <4>2. users[p.user].life # "absent"
        BY <2>5, <3>1, <3>5 DEF Computed, Creates, Changes, Erases, Issues
      <4>3. CASE p.user # u
        BY <1>1, <3>1, <4>1, <4>3
      <4>4. CASE p.user = u
        BY <1>3, <3>5, <4>1, <4>2, <4>4
      <4> QED
        BY <4>3, <4>4
    <3> QED
      BY <1>2, <2>2, <2>5, <3>1, <3>2, <3>3, <3>4, <3>5
  <2> QED
    BY <2>6, <2>7 DEF SlotOK, Looks, Computed, n
<1> QED
  BY <1>6, <1>7

\* Every commit keeps the invariant.
LEMMA CommitStep ==
    ASSUME IInv, NEW r \in Request, Commit(r)
    PROVE  IInv'
  BY CommitTypes, CommitMails, CommitFlags, CommitSessions, CommitSlots DEF IInv

-----------------------------------------------------------------------------
(* The invariant and what follows from it. *)

\* Every step keeps the invariant.
LEMMA NextInv == IInv /\ [Next]_vars => IInv'
<1> SUFFICES ASSUME IInv, [Next]_vars PROVE IInv'
  OBVIOUS
<1>1. ASSUME NEW r \in Request, Abort(r)
      PROVE  IInv'
  <2>1. req' = [req EXCEPT ![r] = Free] /\ UNCHANGED <<users, doors, histories>>
        /\ served' \in Nat
    BY <1>1 DEF Abort, IInv, TypeOK
  <2>2. Free.pc = "idle" /\ Free.user = NoAccount
    BY DEF Free
  <2> QED
    BY <2>1, <2>2, FreeSlot, NonesAreFresh, SlotStep
<1>2. ASSUME UNCHANGED <<users, req, served, sessions, cookies, histories>>,
             access' \subseteq access
      PROVE  IInv'
  <2>1. \A r \in Request : SlotOK(r) <=> SlotOK(r)'
    <3>1. \A q : Looks(q) <=> Looks(q)'
      BY <1>2 DEF Looks
    <3> QED
      BY <1>2, <3>1 DEF SlotOK, histories
  <2>2. TypeOK'
    BY <1>2 DEF IInv, TypeOK, histories
  <2> QED
    BY <1>2, <2>1, <2>2 DEF IInv, RowsOK, DeletedStaysClosed, PendingIsFlagged,
       SessionsCarryRoleUnlessUnswept, Live, histories
<1>3. ASSUME NEW u \in Account, NEW role \in Roles, ExpireAccess(<<u, role>>)
      PROVE  IInv'
  BY <1>2, <1>3 DEF ExpireAccess
<1>4. CASE UNCHANGED vars
  BY <1>2, <1>4 DEF vars, doors
<1>5. ASSUME NEW r \in Request, Arrive(r) \/ Look(r) \/ Commit(r)
      PROVE  IInv'
  BY <1>5, ArriveStep, LookStep, CommitStep
<1> QED
  BY <1>1, <1>3, <1>4, <1>5 DEF Next

\* The inductive invariant holds throughout.
THEOREM Invariance == Spec => []IInv
<1>1. Init => IInv
  BY InitInv
<1>2. IInv /\ [Next]_vars => IInv'
  BY NextInv
<1> QED
  BY <1>1, <1>2, PTL DEF Spec

\* Types; no token, session or cookie is out for an account that is not there.
THEOREM TypesHold == Spec => []TypeOK
<1>1. IInv => TypeOK
  BY DEF IInv
<1> QED
  BY <1>1, Invariance, PTL

\* A deleted account holds no address, the named crossings aside.
THEOREM ReleasesHold == Spec => []DeletedStaysClosed
<1>1. IInv => DeletedStaysClosed
  BY DEF IInv
<1> QED
  BY <1>1, Invariance, PTL

\* A live session has the role of its account, the named exceptions aside.
THEOREM SessionsHold == Spec => []SessionsCarryRoleUnlessUnswept
<1>1. IInv => SessionsCarryRoleUnlessUnswept
  BY DEF IInv
<1> QED
  BY <1>1, Invariance, PTL

-----------------------------------------------------------------------------
(* One account per address.                                                *)

\* What a request has checked of the address it is about to write: who else has
\* it now was given it by the panel, or has it in the spelling the index refuses.
Checked(r) ==
    req[r].pc = "commit" /\ req[r].op \notin {"panel", "add"} /\ req[r].old.mail # req[r].new.mail
        => \A v \in Account \ {req[r].user} :
              HoldsMail(v, req[r].new.mail)
                  => v \in respelt \/ users[v].mail = req[r].new.mail

AddressInv ==
    /\ IInv /\ OneAccountPerAddress
    /\ \A r \in Request : Checked(r)

\* The columns compared are written when they differ.
LEMMA WritesMail ==
    \A q : /\ "mail" \in Writes(q) <=> q.old.mail # q.new.mail
           /\ "life" \in Writes(q) <=> q.old.life # q.new.life
  BY DEF Writes, Columns

\* It does not matter which of two addresses is compared with the other.
LEMMA SameBothWays == \A m, n : SameAddress(m, n) <=> SameAddress(n, m)
  BY DEF SameAddress

\* A slot that is taken up, moved on or given back.
LEMMA CheckedSlot ==
    ASSUME AddressInv, IInv', NEW r \in Request, NEW q, req' = [req EXCEPT ![r] = q],
           UNCHANGED <<users, respelt>>,
           \/ q.pc # "commit" \/ q.op \in {"panel", "add"} \/ q.old.mail = q.new.mail
           \/ \A v \in Account : ~HoldsMail(v, q.new.mail)
    PROVE  AddressInv'
<1>1. req \in [Request -> Slots]
  BY DEF AddressInv, IInv, TypeOK
<1>2. req'[r] = q /\ \A s \in Request \ {r} : req'[s] = req[s]
  BY <1>1
<1>3. OneAccountPerAddress'
  BY DEF AddressInv, OneAccountPerAddress, HoldsMail, Live
<1>4. ASSUME NEW s \in Request
      PROVE  Checked(s)'
  <2>1. \A v, m : HoldsMail(v, m)' <=> HoldsMail(v, m)
    BY DEF HoldsMail, Live
  <2>2. CASE s = r
    BY <1>2, <2>1, <2>2 DEF Checked
  <2>3. CASE s # r
    <3>1. req'[s] = req[s] /\ Checked(s)
      BY <1>2, <2>3 DEF AddressInv
    <3> QED
      BY <2>1, <3>1 DEF Checked
  <2> QED
    BY <2>2, <2>3
<1> QED
  BY <1>3, <1>4 DEF AddressInv

\* Whoever comes with an address has looked for it.
LEMMA ArriveChecks ==
    ASSUME AddressInv, IInv', NEW r \in Request, Arrive(r)
    PROVE  AddressInv'
<1>1. ASSUME NEW pc, NEW op, NEW a, NEW u, NEW role, NEW old, NEW new,
             Open(r, pc, op, a, u, role, old, new),
             \/ pc = "look" \/ op = "add" \/ old.mail = new.mail
             \/ \A v \in Account : ~HoldsMail(v, new.mail)
      PROVE  AddressInv'
  <2> DEFINE q == [pc |-> pc, op |-> op, actor |-> a, user |-> u, role |-> role,
                   old |-> old, new |-> new, late |-> FALSE]
  <2>1. req' = [req EXCEPT ![r] = q] /\ UNCHANGED <<users, respelt>>
    BY <1>1 DEF Open, histories
  <2>2. q.pc = pc /\ q.op = op /\ q.old = old /\ q.new = new
    OBVIOUS
  <2> HIDE DEF q
  <2> QED
    BY <1>1, <2>1, <2>2, CheckedSlot
<1>2. users \in [Account -> Rows]
  BY DEF AddressInv, IInv, TypeOK
<1>3. ASSUME NEW op, NEW a, NEW u \in Account, NEW new, Do(r, op, a, u, new),
             op = "add" \/ users[u].mail = new.mail \/ \A v \in Account : ~HoldsMail(v, new.mail)
      PROVE  AddressInv'
  BY <1>1, <1>3 DEF Do
<1>4. CASE StartUp(r)
  BY <1>1, <1>4 DEF StartUp
<1>5. ASSUME NEW a \in Account, Manage(r, a) \/ AskProfile(r, a)
      PROVE  AddressInv'
  BY <1>1, <1>5 DEF Manage, AskProfile, Ask
<1>6. ASSUME NEW a \in Account, NEW u \in Account, OpenForm(r, a, u) \/ Erase(r, a, u)
      PROVE  AddressInv'
  <2>1. \A v \in Account : ~HoldsMail(v, Gone.mail)
    BY GoneRow, PlainAddress DEF HoldsMail
  <2> QED
    BY <1>1, <1>3, <1>6, <2>1 DEF OpenForm, Erase
<1>7. ASSUME NEW a \in Account, NEW u \in Account, NEW m \in Address, PanelCreate(r, a, u, m)
      PROVE  AddressInv'
  BY <1>3, <1>7 DEF PanelCreate
<1>8. ASSUME NEW u \in Account, NEW role \in Roles, Login(r, u) \/ Refresh(r, u, role)
      PROVE  AddressInv'
  BY <1>1, <1>8 DEF Login, Refresh
<1>9. ASSUME NEW u \in Account, \/ OpsLogin(r, u) \/ CliSetPassword(r, u) \/ CliPromote(r, u)
                                \/ ChangePassword(r, u) \/ ResetPassword(r, u)
      PROVE  AddressInv'
  <2>1. /\ [users[u] EXCEPT !.must = FALSE].mail = users[u].mail
        /\ [users[u] EXCEPT !.role = "admin"].mail = users[u].mail
    BY <1>2 DEF Rows
  <2> QED
    BY <1>3, <1>9, <2>1
       DEF OpsLogin, CliSetPassword, CliPromote, ChangePassword, ResetPassword
<1>10. ASSUME NEW u \in Account, NEW m \in Plain, Register(r, u, m) \/ CliCreate(r, u, m)
       PROVE  AddressInv'
  <2>1. \A v \in Account : ~HoldsMail(v, m)
    BY <1>10 DEF Register, CliCreate, Taken, Finds, HoldsMail, Live, Exists
  <2>2. \A x \in Roles : NewUser(m, x, FALSE).mail = m
    BY DEF NewUser
  <2>3. "customer" \in Roles /\ "admin" \in Roles
    BY DEF Roles
  <2> QED
    BY <1>3, <1>10, <2>1, <2>2, <2>3 DEF Register, CliCreate
<1> QED
  BY <1>4, <1>5, <1>6, <1>7, <1>8, <1>9, <1>10 DEF Arrive, Roles

\* So has whoever looks for it later.
LEMMA LookChecks ==
    ASSUME AddressInv, IInv', NEW r \in Request, Look(r)
    PROVE  AddressInv'
<1>1. users \in [Account -> Rows] /\ req \in [Request -> Slots] /\ Absent \in Rows
      /\ req[r].old \in Rows
  BY AbsentRow DEF AddressInv, IInv, TypeOK, Slots
<1>2. ASSUME NEW op, NEW u, NEW old, NEW new, Compute(r, op, u, old, new),
             \/ op = "panel" \/ old.mail = new.mail
             \/ \A v \in Account : ~HoldsMail(v, new.mail)
      PROVE  AddressInv'
  <2> DEFINE q == [req[r] EXCEPT !.pc = "commit", !.op = op, !.user = u,
                                 !.old = old, !.new = new]
  <2>1. req' = [req EXCEPT ![r] = q] /\ UNCHANGED <<users, respelt>>
    BY <1>2 DEF Compute, histories
  <2>2. q.op = op /\ q.old = old /\ q.new = new
    BY <1>1 DEF Slots
  <2> HIDE DEF q
  <2> QED
    BY <1>2, <2>1, <2>2, CheckedSlot
<1>3. CASE SaveForm(r)
  BY <1>2, <1>3 DEF SaveForm
<1>4. ASSUME NEW u \in Account, NEW role \in Roles, NEW on \in BOOLEAN,
             \/ ChangeRole(r, u, role) \/ SetActive(r, u, on) \/ GrantSourcer(r, u)
             \/ BootstrapPromote(r, u)
      PROVE  AddressInv'
  <2>1. /\ [users[u] EXCEPT !.role = role].mail = users[u].mail
        /\ [users[u] EXCEPT !.active = on].mail = users[u].mail
        /\ [users[u] EXCEPT !.role = "sourcer"].mail = users[u].mail
        /\ [users[u] EXCEPT !.role = "admin", !.must = TRUE].mail = users[u].mail
    BY <1>1 DEF Rows
  <2> QED
    BY <1>2, <1>4, <2>1 DEF ChangeRole, SetActive, GrantSourcer, BootstrapPromote, Acts
<1>5. ASSUME NEW u \in Account, DeleteUser(r, u)
      PROVE  AddressInv'
  <2> DEFINE new == [users[u] EXCEPT !.life = "deleted", !.active = FALSE, !.mail = NoAddress]
  <2>1. new.mail = NoAddress /\ Compute(r, "delete", u, users[u], new)
    BY <1>1, <1>5 DEF Rows, DeleteUser, Acts
  <2> HIDE DEF new
  <2>2. \A v \in Account : ~HoldsMail(v, new.mail)
    BY <2>1, PlainAddress DEF HoldsMail
  <2> QED
    BY <1>2, <2>1, <2>2
<1>6. ASSUME NEW u \in Account, NEW m \in Plain, NEW role \in Roles,
             CreateUser(r, u, m, role) \/ BootstrapCreate(r, u)
      PROVE  AddressInv'
  <2>1. \A n \in Plain, x \in Roles, b \in BOOLEAN : NewUser(n, x, b).mail = n
    BY DEF NewUser
  <2>2. CASE CreateUser(r, u, m, role)
    <3>1. \A v \in Account : ~HoldsMail(v, m)
      BY <2>2 DEF CreateUser, Taken, HoldsMail, Live, Exists
    <3> QED
      BY <1>2, <2>1, <2>2, <3>1 DEF CreateUser
  <2>3. CASE BootstrapCreate(r, u)
    <3>1. \A v \in Account : ~HoldsMail(v, BootAddress)
      BY <2>3 DEF BootstrapCreate, Finds
    <3>2. NewUser(BootAddress, "admin", TRUE).mail = BootAddress
      BY DEF NewUser
    <3> QED
      BY <1>2, <2>3, <3>1, <3>2 DEF BootstrapCreate
  <2> QED
    BY <1>6, <2>2, <2>3
<1>7. ASSUME NEW m \in Plain, ChangeMail(r, m)
      PROVE  AddressInv'
  <2> DEFINE new == [req[r].old EXCEPT !.mail = m]
  <2>1. new.mail = m /\ Compute(r, "mail", req[r].actor, req[r].old, new)
    BY <1>1, <1>7 DEF Rows, ChangeMail
  <2> HIDE DEF new
  <2>2. \A v \in Account : ~HoldsMail(v, new.mail)
    BY <1>7, <2>1 DEF ChangeMail, Taken, HoldsMail, Live, Exists
  <2> QED
    BY <1>2, <2>1, <2>2
<1>8. "sourcer" \in Roles /\ BootAddress \in Plain
  BY PlainAddress DEF Roles
<1> QED
  BY <1>3, <1>4, <1>5, <1>6, <1>7, <1>8 DEF Look

\* Only addresses in lower case are written without the panel.
LEMMA PlainWrites ==
    ASSUME NEW q, Computed(q), q.op \notin {"panel", "add"}, q.old.mail # q.new.mail
    PROVE  q.new.mail \in Plain \/ q.new.mail = NoAddress
  BY GoneRow DEF Computed, Creates, Changes, Erases

\* What a commit makes of the address of a row that is alive then.
LEMMA CommitAddress ==
    ASSUME IInv, NEW r \in Request, Commit(r), users'[req[r].user].life = "live"
    PROVE  LET q == req[r]
               u == q.user
               w == users'[u]
           IN \/ Live(u) /\ w.mail = users[u].mail
              \/ /\ q.op \in {"panel", "add"}
                 /\ q.old.mail # q.new.mail \/ q.old.life # q.new.life
              \/ /\ q.op \notin {"panel", "add"} /\ q.old.mail # q.new.mail
                 /\ w.mail = q.new.mail
<1> DEFINE q == req[r]
<1> DEFINE u == q.user
<1> DEFINE w == users'[u]
<1>1. /\ q \in Slots /\ u \in Account /\ Computed(q)
      /\ q.op = "erase" => w = Gone
      /\ Changes(q.op, q.old, q.new) => users[u].life # "absent"
  BY CommitFacts
<1>2. q.op # "erase" =>
      /\ w.life = IF q.old.life # q.new.life THEN q.new.life ELSE users[u].life
      /\ w.mail = IF q.old.mail # q.new.mail THEN q.new.mail ELSE users[u].mail
  BY CommitFacts, MergeRow
<1>3. w.life = "live"
  OBVIOUS
<1> HIDE DEF w, u, q
<1>4. q.op # "erase"
  BY <1>1, <1>3, GoneRow
<1>5. CASE q.old.mail # q.new.mail
  BY <1>2, <1>4, <1>5 DEF w, u, q
<1>6. CASE q.old.mail = q.new.mail /\ Creates(q.op, q.old, q.new)
  <2>1. q.old.mail = NoAddress /\ q.new.mail \in Address
    BY <1>6 DEF Creates, NewRows, Absent
  <2> QED
    BY <1>6, <2>1, NonesAreFresh
<1>7. CASE q.old.mail = q.new.mail /\ Changes(q.op, q.old, q.new)
  <2>1. q.old.life = q.new.life \/ q.op = "panel"
    BY <1>2, <1>3, <1>4, <1>7 DEF Changes
  <2> QED
    BY <1>2, <1>3, <1>4, <1>7, <2>1 DEF Live, w, u, q
<1> QED
  BY <1>1, <1>4, <1>5, <1>6, <1>7 DEF Computed, Erases, w, u, q

\* A commit leaves one account per address, and the others' checks standing.
LEMMA CommitChecks ==
    ASSUME AddressInv, IInv', NEW r \in Request, Commit(r)
    PROVE  AddressInv'
<1> DEFINE q == req[r]
<1> DEFINE u == q.user
<1> DEFINE w == users'[u]
<1>1. /\ q \in Slots /\ u \in Account /\ Computed(q) /\ w = Merge(q)
      /\ \A v \in Account : v # u => users'[v] = users[v]
  BY CommitFacts DEF AddressInv
<1>2. w.life = "live" =>
         \/ Live(u) /\ w.mail = users[u].mail
         \/ /\ q.op \in {"panel", "add"}
            /\ q.old.mail # q.new.mail \/ q.old.life # q.new.life
         \/ /\ q.op \notin {"panel", "add"} /\ q.old.mail # q.new.mail
            /\ w.mail = q.new.mail
  BY CommitAddress DEF AddressInv
<1>3. /\ ~Collides(q) /\ respelt' = IF Respells(q) THEN respelt \cup {u} ELSE respelt
      /\ req' = [x \in Request |->
                   IF x = r THEN Free
                   ELSE [req[x] EXCEPT !.late = @ \/ (Sweeps(q) /\ req[x].user = u)]]
  BY DEF Commit, Remember
<1>4. /\ OneAccountPerAddress
      /\ q.op \notin {"panel", "add"} /\ q.old.mail # q.new.mail
            => \A v \in Account \ {u} :
                  HoldsMail(v, q.new.mail) => v \in respelt \/ users[v].mail = q.new.mail
  BY DEF AddressInv, Checked, Commit
<1>5. Respells(q) <=>
         /\ q.op \in {"panel", "add"} /\ {"life", "mail"} \cap Writes(q) # {}
         /\ \/ \E v \in Account \ {u} : Live(v) /\ SameAddress(users[v].mail, w.mail)
            \/ \E s \in Request : /\ req[s].pc = "commit" /\ req[s].user # u
                                  /\ "mail" \in Writes(req[s])
                                  /\ SameAddress(req[s].new.mail, w.mail)
  BY <1>1 DEF Respells
<1>6. q.pc = "commit" /\ req \in [Request -> Slots]
  BY DEF Commit, AddressInv, IInv, TypeOK
<1>7. q.old.mail # q.new.mail \/ q.old.life # q.new.life
         => {"life", "mail"} \cap Writes(q) # {}
  BY WritesMail
<1>8. "mail" \in Writes(q) <=> q.old.mail # q.new.mail
  BY WritesMail
<1>9. \A s \in Request : SlotOK(s)
  BY DEF AddressInv, IInv
<1> HIDE DEF w, u, q
<1>10. respelt \subseteq respelt'
  BY <1>3
<1>11. ASSUME NEW v \in Account, v # u, w.life = "live", Live(v),
              SameAddress(users[v].mail, w.mail)
       PROVE  u \in respelt' \/ v \in respelt'
  <2>1. CASE Live(u) /\ w.mail = users[u].mail
    <3>1. HoldsMail(v, users[u].mail)
      BY <1>11, <2>1 DEF HoldsMail
    <3> QED
      BY <1>1, <1>4, <1>10, <1>11, <2>1, <3>1 DEF OneAccountPerAddress
  <2>2. CASE q.op \in {"panel", "add"} /\ (q.old.mail # q.new.mail \/ q.old.life # q.new.life)
    BY <1>3, <1>5, <1>7, <1>11, <2>2
  <2>3. CASE q.op \notin {"panel", "add"} /\ q.old.mail # q.new.mail /\ w.mail = q.new.mail
    <3>1. v \in respelt \/ users[v].mail = q.new.mail
      BY <1>4, <1>11, <2>3, SameBothWays DEF HoldsMail
    <3>2. q.new.mail # NoAddress
      BY <1>11, <2>3, PlainAddress
    <3>3. users[v].mail # q.new.mail
      BY <1>3, <1>8, <1>11, <2>3, <3>2 DEF Collides, Live, Exists, u
    <3> QED
      BY <1>10, <3>1, <3>3
  <2> QED
    BY <1>2, <1>11, <2>1, <2>2, <2>3
<1>12. OneAccountPerAddress'
  <2> SUFFICES ASSUME NEW x \in Account, NEW v \in Account, Live(x)',
                      HoldsMail(v, users[x].mail)', x # v
               PROVE  x \in respelt' \/ v \in respelt'
    BY DEF OneAccountPerAddress
  <2>1. Live(v)' /\ SameAddress(users'[v].mail, users'[x].mail)
        /\ SameAddress(users'[x].mail, users'[v].mail)
    BY SameBothWays DEF HoldsMail
  <2>2. CASE x = u
    BY <1>1, <1>11, <2>1, <2>2 DEF Live, w
  <2>3. CASE v = u
    BY <1>1, <1>11, <2>1, <2>3 DEF Live, w
  <2>4. CASE x # u /\ v # u
    BY <1>1, <1>4, <1>10, <2>1, <2>4 DEF OneAccountPerAddress, HoldsMail, Live
  <2> QED
    BY <2>2, <2>3, <2>4
<1>13. ASSUME NEW s \in Request
       PROVE  Checked(s)'
  <2> DEFINE p == req[s]
  <2> DEFINE n == req'[s]
  <2>1. CASE s = r
    <3>1. n.pc = "idle"
      BY <1>3, <2>1 DEF Free
    <3> QED
      BY <3>1 DEF Checked
  <2>2. CASE s # r
    <3>1. p \in Slots /\ n = [p EXCEPT !.late = @ \/ (Sweeps(q) /\ p.user = u)]
      BY <1>3, <1>6, <2>2
    <3>2. /\ n.pc = p.pc /\ n.op = p.op /\ n.user = p.user
          /\ n.old = p.old /\ n.new = p.new
      BY <3>1 DEF Slots
    <3>3. Checked(s) /\ (p.pc = "commit" => Computed(p))
          /\ ("mail" \in Writes(p) <=> p.old.mail # p.new.mail)
      BY <1>9, WritesMail DEF AddressInv, SlotOK
    <3> SUFFICES ASSUME n.pc = "commit", n.op \notin {"panel", "add"}, n.old.mail # n.new.mail,
                        NEW v \in Account, v # n.user,
                        users'[v].life = "live", SameAddress(users'[v].mail, n.new.mail)
                 PROVE  v \in respelt' \/ users'[v].mail = n.new.mail
      BY DEF Checked, HoldsMail, Live
    <3>4. /\ p.pc = "commit" /\ p.op \notin {"panel", "add"} /\ p.old.mail # p.new.mail
          /\ v # p.user /\ users'[v].life = "live"
          /\ SameAddress(users'[v].mail, p.new.mail) /\ SameAddress(p.new.mail, users'[v].mail)
          /\ n.new = p.new
      BY <3>2, SameBothWays
    <3> HIDE DEF n
    <3>5. p.new.mail \in Plain
      BY <3>3, <3>4, PlainWrites, PlainAddress
    <3>6. CASE users'[v].mail = users[v].mail /\ Live(v)
      <4>1. HoldsMail(v, p.new.mail)
        BY <3>4, <3>6 DEF HoldsMail
      <4> QED
        BY <1>10, <3>3, <3>4, <3>6, <4>1 DEF Checked
    <3>7. CASE v = u /\ q.op \in {"panel", "add"}
               /\ (q.old.mail # q.new.mail \/ q.old.life # q.new.life)
      <4>1. Respells(q)
        BY <1>5, <1>7, <3>3, <3>4, <3>7 DEF w
      <4> QED
        BY <1>3, <3>7, <4>1
    <3>8. CASE v = u /\ q.op \notin {"panel", "add"} /\ q.old.mail # q.new.mail
               /\ w.mail = q.new.mail
      <4>1. q.new.mail \in Plain
        BY <1>1, <3>4, <3>8, PlainWrites, PlainAddress DEF w
      <4> QED
        BY <3>4, <3>5, <3>8, <4>1, PlainAddress DEF w
    <3>9. CASE v # u
      BY <1>1, <3>4, <3>6, <3>9 DEF Live
    <3> QED
      BY <1>2, <3>4, <3>6, <3>7, <3>8, <3>9 DEF w
  <2> QED
    BY <2>1, <2>2
<1> QED
  BY <1>12, <1>13 DEF AddressInv

\* Two live accounts of one address, however it is spelled, come about only where
\* the panel gave it to one of them while the other had it or was about to get
\* it: registrations, creations and changes of address may overlap.
THEOREM AddressesHold == Spec => []OneAccountPerAddress
<1>1. Init => AddressInv
  <2> SUFFICES ASSUME Init PROVE AddressInv
    OBVIOUS
  <2>1. IInv
    BY InitInv
  <2>2. OneAccountPerAddress
    BY SameBothWays DEF Init, OneAccountPerAddress, HoldsMail
  <2>3. \A r \in Request : Checked(r)
    BY DEF Init, Checked, Free
  <2> QED
    BY <2>1, <2>2, <2>3 DEF AddressInv
<1>2. AddressInv /\ [Next]_vars => AddressInv'
  <2> SUFFICES ASSUME AddressInv, [Next]_vars PROVE AddressInv'
    OBVIOUS
  <2>1. IInv'
    BY NextInv DEF AddressInv
  <2>2. ASSUME UNCHANGED <<users, req, respelt>>
        PROVE  AddressInv'
    <3>1. OneAccountPerAddress'
      BY <2>2 DEF AddressInv, OneAccountPerAddress, HoldsMail, Live
    <3>2. \A r \in Request : Checked(r)'
      BY <2>2 DEF AddressInv, Checked, HoldsMail, Live
    <3> QED
      BY <2>1, <3>1, <3>2 DEF AddressInv
  <2>3. ASSUME NEW r \in Request, Abort(r)
        PROVE  AddressInv'
    <3>1. req' = [req EXCEPT ![r] = Free] /\ UNCHANGED <<users, respelt>>
          /\ Free.pc # "commit"
      BY <2>3 DEF Abort, histories, Free
    <3> QED
      BY <2>1, <3>1, CheckedSlot
  <2>4. ASSUME NEW u \in Account, NEW role \in Roles, ExpireAccess(<<u, role>>)
        PROVE  AddressInv'
    BY <2>2, <2>4 DEF ExpireAccess, histories
  <2>5. CASE UNCHANGED vars
    BY <2>2, <2>5 DEF vars, histories
  <2> QED
    BY <2>1, <2>3, <2>4, <2>5, ArriveChecks, LookChecks, CommitChecks DEF Next
<1>3. AddressInv => OneAccountPerAddress
  BY DEF AddressInv
<1> QED
  BY <1>1, <1>2, <1>3, PTL DEF Spec

-----------------------------------------------------------------------------
(* What no step does. *)

\* A request on other accounts is let in only for an account without the flag.
LEMMA ManagersAreReady ==
    ASSUME NEW r \in Request, IInv, Next, ~Busy(r), req'[r].pc # "idle",
           req'[r].op \in Manages
    PROVE  ~users[req'[r].actor].must
<1>1. req \in [Request -> Slots]
  BY DEF IInv, TypeOK
<1>2. ASSUME NEW s \in Request, NEW pc, NEW op, NEW a, NEW u, NEW role, NEW old, NEW new,
             Open(s, pc, op, a, u, role, old, new)
      PROVE  /\ s = r /\ req'[r].pc = pc /\ req'[r].op = op /\ req'[r].actor = a
  <2> DEFINE q == [pc |-> pc, op |-> op, actor |-> a, user |-> u, role |-> role,
                   old |-> old, new |-> new, late |-> FALSE]
  <2>1. req' = [req EXCEPT ![s] = q]
    BY <1>2 DEF Open
  <2>2. s # r => req'[r] = req[r]
    BY <1>1, <2>1
  <2>3. s = r
    BY <1>1, <2>2 DEF Slots, Busy
  <2>4. req'[r] = q
    BY <1>1, <2>1, <2>3
  <2> QED
    BY <2>3, <2>4
<1>3. ASSUME NEW s \in Request, Arrive(s)
      PROVE  ~users[req'[r].actor].must
  <2>1. ASSUME NEW op, NEW a, NEW u, NEW new, Do(s, op, a, u, new)
        PROVE  req'[r].op = op /\ req'[r].actor = a
    BY <1>2, <2>1 DEF Do
  <2>2. CASE StartUp(s)
    BY <1>2, <2>2 DEF StartUp, Manages, Removes, OnPages
  <2>3. ASSUME NEW a \in Account, Manage(s, a) \/ AskProfile(s, a)
        PROVE  ~users[req'[r].actor].must
    BY <1>2, <2>3 DEF Manage, AskProfile, Ask, MayManage, Ready
  <2>4. ASSUME NEW u \in Account, Login(s, u)
        PROVE  FALSE
    BY <1>2, <2>4 DEF Login, Manages, Removes, OnPages
  <2>5. ASSUME NEW u \in Account, NEW role \in Roles, Refresh(s, u, role)
        PROVE  FALSE
    BY <1>2, <2>5 DEF Refresh, Manages, Removes, OnPages
  <2>6. ASSUME NEW u \in Account, \/ OpsLogin(s, u) \/ ChangePassword(s, u)
                                 \/ ResetPassword(s, u) \/ CliPromote(s, u)
                                 \/ CliSetPassword(s, u)
        PROVE  FALSE
    <3>1. \E op \in {"ops", "password", "reset", "clipromote", "cliset"} : req'[r].op = op
      BY <2>1, <2>6 DEF OpsLogin, ChangePassword, ResetPassword, CliPromote, CliSetPassword
    <3> QED
      BY <3>1 DEF Manages, Removes, OnPages
  <2>7. ASSUME NEW u \in Account, NEW m \in Plain, Register(s, u, m) \/ CliCreate(s, u, m)
        PROVE  FALSE
    <3>1. \E op \in {"register", "clicreate"} : req'[r].op = op
      BY <2>1, <2>7 DEF Register, CliCreate
    <3> QED
      BY <3>1 DEF Manages, Removes, OnPages
  <2>8. ASSUME NEW a \in Account, NEW u \in Account, OpenForm(s, a, u) \/ Erase(s, a, u)
        PROVE  ~users[req'[r].actor].must
    BY <1>2, <2>1, <2>8 DEF OpenForm, Erase, OnPanel
  <2>9. ASSUME NEW a \in Account, NEW u \in Account, NEW m \in Address, PanelCreate(s, a, u, m)
        PROVE  ~users[req'[r].actor].must
    BY <2>1, <2>9 DEF PanelCreate, OnPanel
  <2> QED
    BY <1>3, <2>2, <2>3, <2>4, <2>5, <2>6, <2>7, <2>8, <2>9 DEF Arrive
<1>4. req[r].pc = "idle" /\ req[r] \in Slots
  BY <1>1 DEF Busy, Slots
<1>5. ASSUME NEW s \in Request, NEW op, NEW u, NEW old, NEW new, Compute(s, op, u, old, new),
             req[s].pc = "look"
      PROVE  FALSE
  <2>1. \A x \in Request : x # s => req'[x] = req[x]
    BY <1>1, <1>5 DEF Compute
  <2> QED
    BY <1>4, <1>5, <2>1
<1>6. ASSUME NEW s \in Request, Look(s)
      PROVE  FALSE
  BY <1>5, <1>6 DEF Look, Looking, DeleteUser, GrantSourcer, SaveForm, BootstrapPromote,
                    BootstrapCreate, ChangeRole, SetActive, CreateUser, ChangeMail, Acts
<1>7. ASSUME NEW s \in Request, Commit(s)
      PROVE  FALSE
  <2>1. req'[r] = Free \/ \E b : req'[r] = [req[r] EXCEPT !.late = b]
    BY <1>7 DEF Commit
  <2>2. CASE req'[r] = Free
    BY <2>2 DEF Free
  <2>3. ASSUME NEW b, req'[r] = [req[r] EXCEPT !.late = b]
        PROVE  req'[r].pc = "idle"
    BY <1>4, <2>3 DEF Slots
  <2> QED
    BY <2>1, <2>2, <2>3 DEF Free
<1>8. ASSUME NEW s \in Request, Abort(s)
      PROVE  FALSE
  BY <1>1, <1>4, <1>8 DEF Abort, Free
<1>9. ASSUME NEW u \in Account, NEW role \in Roles, ExpireAccess(<<u, role>>)
      PROVE  FALSE
  BY <1>4, <1>9 DEF ExpireAccess
<1> QED
  BY <1>3, <1>6, <1>7, <1>8, <1>9 DEF Next

\* Nobody who has to change the bootstrap's password gets to other accounts.
THEOREM PendingHold == Spec => PendingNeverManages
<1>1. IInv /\ [Next]_vars =>
         [\A r \in Request :
            ~Busy(r) /\ Busy(r)' /\ req'[r].op \in Manages
                => req'[r].actor \notin pending]_vars
  BY ManagersAreReady DEF IInv, PendingIsFlagged, Busy
<1> QED
  BY <1>1, Invariance, PTL DEF Spec, PendingNeverManages

\* The last usable administrator is not removed by one who is let through,
\* unless by its own hand on the panel.
LEMMA CommitKeepsAdmins ==
    ASSUME IInv, NEW r \in Request, Commit(r), Administrators # {},
           req[r].op \in Removes =>
               Usable(req[r].actor) /\ ~(req[r].op \in OnPages /\ req[r].user = req[r].actor)
    PROVE  Administrators' # {}
<1> DEFINE q == req[r]
<1> DEFINE u == q.user
<1> DEFINE w == users'[u]
<1>1. /\ q \in Slots /\ u \in Account /\ Computed(q)
      /\ \A v \in Account : v # u => users'[v] = users[v]
      /\ Creates(q.op, q.old, q.new) => users[u] = Absent
      /\ q.op = "erase" <=> Erases(q.op, q.old, q.new)
  BY CommitFacts
<1>2. q.op # "erase" =>
      /\ w.life = IF q.old.life # q.new.life THEN q.new.life ELSE users[u].life
      /\ w.role = IF q.old.role # q.new.role THEN q.new.role ELSE users[u].role
      /\ w.active = IF q.old.active # q.new.active THEN q.new.active ELSE users[u].active
  BY <1>1, CommitFacts, MergeRow
<1>3. q.op \in Removes => Usable(q.actor) /\ ~(q.op \in OnPages /\ u = q.actor)
  OBVIOUS
<1> HIDE DEF w, u, q
<1>4. PICK a \in Account : Usable(a)
  BY DEF Administrators
<1>5. \A v \in Account : v # u /\ Usable(v) => v \in Administrators'
  BY <1>1 DEF Administrators, Usable, Live
<1>6. CASE q.op \in Removes
  <2>1. q.actor \in Account /\ q.actor # u
    BY <1>1, <1>3, <1>6 DEF Computed, u
  <2> QED
    BY <1>3, <1>5, <1>6, <2>1
<1>7. CASE q.op \notin Removes
  <2>1. q.op # "erase"
    BY <1>7 DEF Removes, OnPages
  <2>2. CASE a # u
    BY <1>4, <1>5, <2>2
  <2>3. CASE a = u
    <3>1. Changes(q.op, q.old, q.new)
      BY <1>1, <1>4, <2>1, <2>3 DEF Computed, Usable, Live, Absent
    <3>2. w.life = "live" /\ w.role = "admin" /\ w.active
      BY <1>2, <1>4, <1>7, <2>1, <2>3, <3>1 DEF Changes, Removes, OnPages, Usable, Live
    <3> QED
      BY <1>1, <3>2 DEF Administrators, Usable, Live, w
  <2> QED
    BY <2>2, <2>3
<1> QED
  BY <1>6, <1>7

\* Rows and sessions change in commits, and nowhere else.
LEMMA OnlyCommitsWrite ==
    ASSUME [Next]_vars, users' # users \/ sessions' # sessions
    PROVE  \E r \in Request : Commit(r)
<1>1. ASSUME NEW r \in Request, Arrive(r)
      PROVE  UNCHANGED <<users, sessions>>
  BY <1>1 DEF Arrive, StartUp, Manage, OpenForm, Erase, PanelCreate, AskProfile, Ask, Login,
              OpsLogin, ChangePassword, ResetPassword, CliPromote, CliSetPassword, Refresh,
              Register, CliCreate, Do, Open, doors
<1>2. ASSUME NEW r \in Request, Look(r)
      PROVE  UNCHANGED <<users, sessions>>
  BY <1>2 DEF Look, DeleteUser, GrantSourcer, SaveForm, BootstrapPromote, BootstrapCreate,
              ChangeRole, SetActive, CreateUser, ChangeMail, Acts, Compute, doors
<1> QED
  BY <1>1, <1>2 DEF Next, Abort, ExpireAccess, doors, vars

\* What the rows say of administrators is theirs alone.
LEMMA SameAdmins ==
    ASSUME users' = users
    PROVE  Administrators' = Administrators
  BY DEF Administrators, Usable, Live

\* There is a usable administrator as long as nobody without the right, and
\* nobody on its own row of the panel, has removed one.
THEOREM AdminsHold == Spec => AnAdminRemains
<1>1. IInv /\ [Next]_vars =>
         [Administrators # {} => Administrators' # {} \/ unwatched']_vars
  <2> SUFFICES ASSUME IInv, [Next]_vars, Administrators # {}, ~unwatched'
               PROVE  Administrators' # {}
    OBVIOUS
  <2>1. CASE users' = users
    BY <2>1, SameAdmins
  <2>2. ASSUME NEW r \in Request, Commit(r)
        PROVE  Administrators' # {}
    BY <2>2, CommitKeepsAdmins DEF Commit, Remember
  <2> QED
    BY <2>1, <2>2, OnlyCommitsWrite
<1> QED
  BY <1>1, Invariance, PTL DEF Spec, AnAdminRemains

-----------------------------------------------------------------------------
(* One request at a time: what the histories excuse is then only what the  *)
(* panel and the bootstrap do, and an administrator on its own row.        *)

\* The forms of the panel are requests from when they are opened.
OneAtATime == \A r, s \in Request : Busy(r) /\ Busy(s) => r = s

\* What a request has read and checked is still so.
StillSo(q) ==
    /\ q.pc = "look" => /\ q.op = "mail" => q.old = users[q.actor]
                        /\ q.op = "admin" => Usable(q.actor)
    /\ q.pc = "commit" =>
          /\ q.old = users[q.user]
          /\ q.op = "login" => q.role = q.old.role
          /\ q.op = "refresh" => <<q.user, q.role>> \in sessions
          /\ q.op \in Removes => Usable(q.actor)

UpToDate == \A r \in Request : StillSo(req[r])

\* It is when a request arrives.
LEMMA ArriveIsUpToDate ==
    ASSUME IInv, NEW r \in Request, Arrive(r)
    PROVE  StillSo(req'[r])
<1>1. req \in [Request -> Slots]
  BY DEF IInv, TypeOK
<1>2. ASSUME NEW pc, NEW op, NEW a, NEW u, NEW role, NEW old, NEW new,
             Open(r, pc, op, a, u, role, old, new)
      PROVE  /\ req'[r].pc = pc /\ req'[r].op = op /\ req'[r].actor = a
             /\ req'[r].user = u /\ req'[r].role = role /\ req'[r].old = old
  BY <1>1, <1>2 DEF Open
<1>3. ASSUME NEW op, NEW a, NEW u, NEW new, Do(r, op, a, u, new),
             op \notin Issues, op \in Removes => Usable(a)
      PROVE  StillSo(req'[r])
  <2>1. /\ req'[r].pc = "commit" /\ req'[r].op = op /\ req'[r].actor = a
        /\ req'[r].user = u /\ req'[r].old = users[u]
    BY <1>2, <1>3 DEF Do
  <2> QED
    BY <1>3, <2>1 DEF StillSo, Issues
<1>4. ASSUME NEW op, NEW a, NEW u, NEW old, Open(r, "look", op, a, u, "customer", old, old),
             op = "mail" => old = users[a], op = "admin" => Usable(a)
      PROVE  StillSo(req'[r])
  <2>1. /\ req'[r].pc = "look" /\ req'[r].op = op /\ req'[r].actor = a /\ req'[r].old = old
    BY <1>2, <1>4
  <2> QED
    BY <1>4, <2>1 DEF StillSo
<1>5. CASE StartUp(r)
  BY <1>4, <1>5 DEF StartUp
<1>6. ASSUME NEW a \in Account, Manage(r, a) \/ AskProfile(r, a)
      PROVE  StillSo(req'[r])
  BY <1>4, <1>6 DEF Manage, AskProfile, Ask, MayManage, Ready, SignedIn, Usable
<1>7. ASSUME NEW u \in Account, Login(r, u)
      PROVE  StillSo(req'[r])
  <2>1. /\ req'[r].pc = "commit" /\ req'[r].op = "login" /\ req'[r].user = u
        /\ req'[r].role = users[u].role /\ req'[r].old = users[u]
    BY <1>2, <1>7 DEF Login
  <2> QED
    BY <2>1 DEF StillSo, Removes, OnPages
<1>8. ASSUME NEW u \in Account, NEW role \in Roles, Refresh(r, u, role)
      PROVE  StillSo(req'[r])
  <2>1. /\ req'[r].pc = "commit" /\ req'[r].op = "refresh" /\ req'[r].user = u
        /\ req'[r].role = role /\ req'[r].old = users[u] /\ <<u, role>> \in sessions
    BY <1>2, <1>8 DEF Refresh
  <2> QED
    BY <2>1 DEF StillSo, Removes, OnPages
<1>9. ASSUME NEW u \in Account, \/ OpsLogin(r, u) \/ ChangePassword(r, u)
                                \/ ResetPassword(r, u) \/ CliPromote(r, u)
                                \/ CliSetPassword(r, u)
      PROVE  StillSo(req'[r])
  <2>1. \E op \in {"ops", "password", "reset", "clipromote", "cliset"} :
           \E a, new : Do(r, op, a, u, new)
    BY <1>9 DEF OpsLogin, ChangePassword, ResetPassword, CliPromote, CliSetPassword
  <2> QED
    BY <1>3, <2>1 DEF Issues, Removes, OnPages
<1>10. ASSUME NEW u \in Account, NEW m,
              \/ Register(r, u, m) \/ CliCreate(r, u, m)
              \/ \E a \in Account : PanelCreate(r, a, u, m)
       PROVE  StillSo(req'[r])
  <2>1. \E op \in {"register", "clicreate", "add"} : \E a, new : Do(r, op, a, u, new)
    BY <1>10 DEF Register, CliCreate, PanelCreate
  <2> QED
    BY <1>3, <2>1 DEF Issues, Removes, OnPages
<1>11. ASSUME NEW a \in Account, NEW u \in Account, OpenForm(r, a, u)
       PROVE  StillSo(req'[r])
  BY <1>4, <1>11 DEF OpenForm
<1>12. ASSUME NEW a \in Account, NEW u \in Account, Erase(r, a, u)
       PROVE  StillSo(req'[r])
  <2>1. Do(r, "erase", a, u, Gone) /\ Usable(a)
    BY <1>12 DEF Erase, OnPanel
  <2> QED
    BY <1>3, <2>1 DEF Issues
<1> QED
  BY <1>5, <1>6, <1>7, <1>8, <1>9, <1>10, <1>11, <1>12 DEF Arrive

\* And when it has computed what it writes.
LEMMA LookIsUpToDate ==
    ASSUME IInv, UpToDate, NEW r \in Request, Look(r)
    PROVE  StillSo(req'[r])
<1>1. req \in [Request -> Slots] /\ req[r] \in Slots /\ StillSo(req[r])
  BY DEF IInv, TypeOK, UpToDate
<1>2. ASSUME NEW op, NEW u, NEW new, Compute(r, op, u, users[u], new), op \notin Issues,
             op \in Removes => Usable(req[r].actor)
      PROVE  StillSo(req'[r])
  <2>1. req' = [req EXCEPT ![r] = [@ EXCEPT !.pc = "commit", !.op = op, !.user = u,
                                            !.old = users[u], !.new = new]]
        /\ users' = users
    BY <1>2 DEF Compute
  <2>2. /\ req'[r].pc = "commit" /\ req'[r].op = op /\ req'[r].actor = req[r].actor
        /\ req'[r].user = u /\ req'[r].old = users[u]
    BY <1>1, <2>1 DEF Slots
  <2> QED
    BY <1>2, <2>2 DEF StillSo, Issues
<1>3. ASSUME NEW op \in {"role", "active", "inactive", "delete", "approve"}, NEW u, NEW new,
             Acts(r, op, u, new)
      PROVE  StillSo(req'[r])
  <2>1. req[r].pc = "look" /\ req[r].op = "admin" /\ Compute(r, op, u, users[u], new)
    BY <1>3 DEF Acts, Looking
  <2>2. Usable(req[r].actor)
    BY <1>1, <2>1 DEF StillSo
  <2> QED
    BY <1>2, <2>1, <2>2 DEF Issues
<1>4. ASSUME NEW u \in Account,
             \/ DeleteUser(r, u) \/ GrantSourcer(r, u)
             \/ \E role \in Roles : ChangeRole(r, u, role)
             \/ \E on \in BOOLEAN : SetActive(r, u, on)
      PROVE  StillSo(req'[r])
  BY <1>3, <1>4 DEF DeleteUser, GrantSourcer, ChangeRole, SetActive
<1>5. ASSUME NEW u \in Account, NEW m, NEW role \in Roles, CreateUser(r, u, m, role)
      PROVE  StillSo(req'[r])
  <2>1. users[u] = Absent /\ Compute(r, "create", u, Absent, NewUser(m, role, FALSE))
    BY <1>5 DEF CreateUser, Fresh, IInv, RowsOK
  <2>2. \E new : Compute(r, "create", u, users[u], new)
    BY <2>1
  <2> QED
    BY <1>2, <2>2 DEF Issues, Removes, OnPages
<1>6. ASSUME NEW u \in Account, BootstrapPromote(r, u) \/ BootstrapCreate(r, u)
      PROVE  StillSo(req'[r])
  <2>1. \E new : Compute(r, "bootstrap", u, users[u], new)
    BY <1>6 DEF BootstrapPromote, BootstrapCreate, Fresh, IInv, RowsOK
  <2> QED
    BY <1>2, <2>1 DEF Issues, Removes, OnPages
<1>7. ASSUME NEW m, ChangeMail(r, m)
      PROVE  StillSo(req'[r])
  <2>1. /\ req[r].old = users[req[r].actor]
        /\ \E new : Compute(r, "mail", req[r].actor, req[r].old, new)
    BY <1>1, <1>7 DEF ChangeMail, Looking, StillSo
  <2> QED
    BY <1>2, <2>1 DEF Issues, Removes, OnPages
<1>8. ASSUME SaveForm(r)
      PROVE  StillSo(req'[r])
  <2>1. Usable(req[r].actor)
        /\ \E u, new : Compute(r, "panel", u, users[u], new)
    BY <1>8 DEF SaveForm, OnPanel
  <2>2. "panel" \notin Issues
    BY DEF Issues
  <2> QED
    BY <1>2, <2>1, <2>2
<1> QED
  BY <1>4, <1>5, <1>6, <1>7, <1>8 DEF Look

\* It stays so while no other request is there to change it.
LEMMA UpToDateStep ==
    ASSUME IInv, UpToDate, OneAtATime, [Next]_vars
    PROVE  UpToDate'
<1>1. req \in [Request -> Slots]
  BY DEF IInv, TypeOK
<1>2. \A q : UNCHANGED <<users, sessions>> /\ StillSo(q) => StillSo(q)'
  BY DEF StillSo, Usable, Live
<1>3. ASSUME NEW r \in Request, Arrive(r) \/ Look(r) \/ Abort(r),
             UNCHANGED <<users, sessions>>, \A s \in Request \ {r} : req'[s] = req[s],
             StillSo(req'[r])
      PROVE  UpToDate'
  <2>1. \A s \in Request : StillSo(req'[s])
    BY <1>3 DEF UpToDate
  <2> QED
    BY <1>3, <2>1 DEF UpToDate, StillSo, Usable, Live
<1>4. ASSUME NEW r \in Request, Arrive(r)
      PROVE  UpToDate'
  <2>1. UNCHANGED <<users, sessions>> /\ \E q : req' = [req EXCEPT ![r] = q]
    BY <1>4 DEF Arrive, StartUp, Manage, OpenForm, Erase, PanelCreate, AskProfile, Ask, Login,
                OpsLogin, ChangePassword, ResetPassword, CliPromote, CliSetPassword, Refresh,
                Register, CliCreate, Do, Open, doors
  <2> QED
    BY <1>1, <1>3, <1>4, <2>1, ArriveIsUpToDate
<1>5. ASSUME NEW r \in Request, Look(r)
      PROVE  UpToDate'
  <2>1. UNCHANGED <<users, sessions>> /\ \E q : req' = [req EXCEPT ![r] = q]
    BY <1>5 DEF Look, DeleteUser, GrantSourcer, SaveForm, BootstrapPromote, BootstrapCreate,
                ChangeRole, SetActive, CreateUser, ChangeMail, Acts, Compute, doors
  <2> QED
    BY <1>1, <1>3, <1>5, <2>1, LookIsUpToDate
<1>6. ASSUME NEW r \in Request, Abort(r)
      PROVE  UpToDate'
  <2>1. UNCHANGED <<users, sessions>> /\ req' = [req EXCEPT ![r] = Free]
    BY <1>6 DEF Abort, doors
  <2>2. StillSo(Free)
    BY DEF StillSo, Free
  <2> QED
    BY <1>1, <1>3, <1>6, <2>1, <2>2
<1>7. ASSUME NEW r \in Request, Commit(r), NEW s \in Request
      PROVE  StillSo(req[s])'
  <2>1. req[r].pc = "commit" /\ req[s] \in Slots
    BY <1>1, <1>7 DEF Commit
  <2>2. s # r => req[s].pc = "idle"
    BY <1>7, <2>1 DEF OneAtATime, Busy
  <2>3. s = r => req'[s] = Free
    BY <1>7 DEF Commit
  <2>4. s # r => \E b : req'[s] = [req[s] EXCEPT !.late = b]
    BY <1>7 DEF Commit
  <2>5. CASE s = r
    BY <2>3, <2>5 DEF StillSo, Free
  <2>6. CASE s # r
    <3>1. PICK b : req'[s] = [req[s] EXCEPT !.late = b]
      BY <2>4, <2>6
    <3>2. req'[s].pc = "idle"
      BY <2>1, <2>2, <2>6, <3>1 DEF Slots
    <3> QED
      BY <3>2 DEF StillSo
  <2> QED
    BY <2>5, <2>6
<1>8. ASSUME UNCHANGED <<users, sessions, req>>
      PROVE  UpToDate'
  BY <1>8 DEF UpToDate, StillSo, Usable, Live
<1> QED
  BY <1>4, <1>5, <1>6, <1>7, <1>8 DEF Next, ExpireAccess, doors, vars, UpToDate

\* Both invariants, as long as requests come one at a time.
LEMMA AloneInvariance == Spec /\ []OneAtATime => [](IInv /\ UpToDate)
<1>1. Init => UpToDate
  BY DEF Init, UpToDate, StillSo, Free
<1> QED
  BY <1>1, Invariance, UpToDateStep, PTL DEF Spec
\* Then a commit writes the row as it was computed.
LEMMA AloneWrites ==
    ASSUME IInv, UpToDate, NEW r \in Request, Commit(r)
    PROVE  LET q == req[r] IN
           /\ q.user \in Account /\ Computed(q) /\ q.old = users[q.user]
           /\ users' = [users EXCEPT ![q.user] = q.new]
           /\ users'[q.user] = q.new
           /\ \A v \in Account : v # q.user => users'[v] = users[v]
<1> DEFINE q == req[r]
           u == q.user
           w == users'[u]
<1>1. /\ q \in Slots /\ u \in Account /\ Computed(q) /\ q.old \in Rows /\ q.new \in Rows
      /\ w \in Rows /\ users' = [users EXCEPT ![u] = w]
      /\ \A v \in Account : v # u => users'[v] = users[v]
      /\ q.op = "erase" <=> Erases(q.op, q.old, q.new)
      /\ q.op = "erase" => w = Gone
      /\ w = Merge(q)
  BY CommitFacts
<1>2. q.old = users[u]
  BY DEF UpToDate, StillSo, Commit
<1>3. CASE q.op = "erase"
  BY <1>1, <1>2, <1>3 DEF Erases
<1>4. CASE q.op # "erase"
  <2>1. /\ w.life   = IF q.old.life   # q.new.life   THEN q.new.life   ELSE users[u].life
        /\ w.mail   = IF q.old.mail   # q.new.mail   THEN q.new.mail   ELSE users[u].mail
        /\ w.role   = IF q.old.role   # q.new.role   THEN q.new.role   ELSE users[u].role
        /\ w.active = IF q.old.active # q.new.active THEN q.new.active ELSE users[u].active
        /\ w.must   = IF q.old.must   # q.new.must   THEN q.new.must   ELSE users[u].must
    BY <1>1, <1>4, MergeRow
  <2> HIDE DEF q, u, w
  <2>2. /\ w.life = q.new.life /\ w.mail = q.new.mail /\ w.role = q.new.role
        /\ w.active = q.new.active /\ w.must = q.new.must
    BY <1>2, <2>1
  <2>3. w = q.new
    <3>1. w \in Rows /\ q.new \in Rows
      BY <1>1
    <3> QED
      BY <2>2, <3>1 DEF Rows
  <2> QED
    BY <1>1, <1>2, <2>3 DEF q, u, w
<1> QED
  BY <1>3, <1>4

\* A deleted account is closed and its address free, whatever overlapped it.
DeletedIsClosed ==
    \A u \in Account :
        users[u].life = "deleted" => users[u].mail = NoAddress /\ ~users[u].active

LEMMA AloneAdmins ==
    ASSUME IInv, UpToDate, [Next]_vars, Administrators # {}
    PROVE  \/ Administrators' # {}
           \/ \E r \in Request : /\ Commit(r) /\ req[r].op \in OnPages
                                 /\ req[r].user = req[r].actor
<1>1. CASE users' = users
  BY <1>1, SameAdmins
<1>2. ASSUME NEW r \in Request, Commit(r), ~(req[r].op \in OnPages /\ req[r].user = req[r].actor)
      PROVE  Administrators' # {}
  <2>1. req[r].op \in Removes => Usable(req[r].actor)
    BY <1>2 DEF UpToDate, StillSo, Commit
  <2> QED
    BY <1>2, <2>1, CommitKeepsAdmins
<1> QED
  BY <1>1, <1>2, OnlyCommitsWrite

LEMMA AloneSessions ==
    ASSUME IInv, UpToDate, [Next]_vars, SessionsCarryRole
    PROVE  \/ SessionsCarryRole'
           \/ \E r \in Request : Commit(r) /\ req[r].op \in {"bootstrap", "panel"}
<1>1. CASE UNCHANGED <<users, sessions>>
  BY <1>1 DEF SessionsCarryRole
<1>2. ASSUME NEW r \in Request, Commit(r), req[r].op \notin {"bootstrap", "panel"}
      PROVE  SessionsCarryRole'
  <2> DEFINE q == req[r]
             u == q.user
  <2>1. /\ u \in Account /\ Computed(q) /\ q.old = users[u] /\ users'[u] = q.new
        /\ \A v \in Account : v # u => users'[v] = users[v]
    BY <1>2, AloneWrites
  <2>2. /\ q.op = "login" => q.role = users[u].role
        /\ q.op = "refresh" => <<u, q.role>> \in sessions
    BY <1>2, <2>1 DEF UpToDate, StillSo, Commit
  <2>3. sessions' = (IF Sweeps(q) THEN {s \in sessions : s[1] # u} ELSE sessions) \cup Opens(q)
    BY <1>2 DEF Commit
  <2>4. /\ sessions \subseteq Account \X Roles
        /\ \A v \in Account : users[v].life = "absent" => \A x \in Roles : <<v, x>> \notin sessions
    BY DEF IInv, TypeOK
  <2>5. q.op \notin {"bootstrap", "panel"}
    BY <1>2
  <2> HIDE DEF q, u
  <2>6. ~Sweeps(q) /\ users[u].life # "absent" => users'[u].role = users[u].role
    BY <2>1, <2>5 DEF Computed, Creates, Changes, Erases, Sweeps, Absent
  <2> SUFFICES ASSUME NEW s \in sessions'
               PROVE  users'[s[1]].role = s[2]
    BY DEF SessionsCarryRole
  <2>7. CASE s \in Opens(q)
    <3>1. q.op \in Issues /\ s[1] = u /\ s[2] = q.role
      BY <2>7 DEF Opens, u
    <3>2. q.role = users[u].role
      BY <2>2, <3>1 DEF Issues, SessionsCarryRole
    <3>3. ~Sweeps(q) /\ users[u].life # "absent"
      BY <2>1, <3>1 DEF Issues, Sweeps, Computed, Creates, Changes, Erases
    <3> QED
      BY <2>6, <3>1, <3>2, <3>3
  <2>8. CASE s \in sessions /\ s[1] # u
    BY <2>1, <2>4, <2>8 DEF SessionsCarryRole
  <2>9. CASE s \in sessions /\ s[1] = u /\ ~Sweeps(q)
    <3>1. users[u].life # "absent"
      BY <2>1, <2>4, <2>9
    <3> QED
      BY <2>6, <2>9, <3>1 DEF SessionsCarryRole
  <2> QED
    BY <2>3, <2>7, <2>8, <2>9
<1> QED
  BY <1>1, <1>2, OnlyCommitsWrite

LEMMA AloneDeletions ==
    ASSUME IInv, UpToDate, [Next]_vars, DeletedIsClosed
    PROVE  \/ DeletedIsClosed'
           \/ \E r \in Request : Commit(r) /\ req[r].op = "panel"
<1>1. CASE users' = users
  BY <1>1 DEF DeletedIsClosed
<1>2. ASSUME NEW r \in Request, Commit(r), req[r].op # "panel"
      PROVE  DeletedIsClosed'
  <2> DEFINE q == req[r]
             u == q.user
  <2>1. /\ u \in Account /\ Computed(q) /\ q.old = users[u] /\ users'[u] = q.new
        /\ \A v \in Account : v # u => users'[v] = users[v]
    BY <1>2, AloneWrites
  <2>2. q.op # "panel"
    BY <1>2
  <2> HIDE DEF q, u
  <2>3. q.new.life = "deleted" => q.new.mail = NoAddress /\ ~q.new.active
    BY <2>1, <2>2, GoneRow DEF Computed, Creates, Changes, Erases, NewRows, DeletedIsClosed
  <2> QED
    BY <2>1, <2>3 DEF DeletedIsClosed
<1> QED
  BY <1>1, <1>2, OnlyCommitsWrite

\* One request at a time, the last usable administrator goes only by its own
\* hand, on its own row of the panel.
THEOREM SerialAdmins ==
    Spec /\ []OneAtATime =>
        [][Administrators # {} =>
              \/ Administrators' # {}
              \/ \E r \in Request : /\ Commit(r) /\ req[r].op \in OnPages
                                    /\ req[r].user = req[r].actor]_vars
  BY AloneInvariance, AloneAdmins, PTL DEF Spec

\* One request at a time, sessions keep to the role of their account: only the
\* bootstrap and the panel write a role and leave sessions of the earlier one.
THEOREM SerialSessions ==
    Spec /\ []OneAtATime =>
        [][SessionsCarryRole =>
              \/ SessionsCarryRole'
              \/ \E r \in Request : Commit(r) /\ req[r].op \in {"bootstrap", "panel"}]_vars
  BY AloneInvariance, AloneSessions, PTL DEF Spec

\* One request at a time, a deleted account is closed and its address free:
\* only the panel writes over one.
THEOREM SerialDeletion ==
    Spec /\ []OneAtATime =>
        [][DeletedIsClosed =>
              \/ DeletedIsClosed'
              \/ \E r \in Request : Commit(r) /\ req[r].op = "panel"]_vars
  BY AloneInvariance, AloneDeletions, PTL DEF Spec
=============================================================================
