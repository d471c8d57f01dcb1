----------------------------- MODULE RowsProofs -----------------------------
(***************************************************************************)
(* What the shop keeps when it is run beside the phones, as MCRows does:   *)
(* the theorems of MarketplaceProofs, of BothSpec.                         *)
(*                                                                         *)
(* M is the shop as MCRows has it and MP the same with its proofs; the     *)
(* phones change nothing of it but the counter of requests.                *)
(***************************************************************************)
EXTENDS MCRows, TLAPS

MP == INSTANCE MarketplaceProofs WITH MaxServed <- MaxRows

-----------------------------------------------------------------------------
(* M and MP are one shop. *)

LEMMA SameInit == M!Init <=> MP!Init
  BY DEF M!Init, MP!Init

LEMMA SameNext == M!Next <=> MP!Next
  BY DEF M!Next, MP!Next, M!Create, MP!Create, M!Save, MP!Save, M!Delete, MP!Delete,
         M!OpenForm, MP!OpenForm, M!CloseForm, MP!CloseForm, M!Accept, MP!Accept,
         M!Edited, MP!Edited, M!After, MP!After, M!Remain, MP!Remain,
         M!OneSide, MP!OneSide, M!ManySide, MP!ManySide, M!Page, MP!Page,
         M!Children, MP!Children, M!Resolves, MP!Resolves, M!Consistent, MP!Consistent,
         M!Has, MP!Has, M!Tables, MP!Tables, M!Keys, MP!Keys, M!From, MP!From, M!To, MP!To,
         M!Rows, MP!Rows, M!Row, MP!Row, M!KeyOf, MP!KeyOf, M!Refs, MP!Refs,
         M!Columns, MP!Columns, M!Targets, MP!Targets,
         M!References, MP!References, M!Reference, MP!Reference

LEMMA SameTypes == M!TypeOK <=> MP!TypeOK
  BY DEF M!TypeOK, MP!TypeOK, M!Tables, MP!Tables, M!Keys, MP!Keys, M!From, MP!From,
         M!Has, MP!Has, M!Rows, MP!Rows, M!Row, MP!Row, M!KeyOf, MP!KeyOf, M!Refs, MP!Refs,
         M!Columns, MP!Columns, M!Targets, MP!Targets,
         M!References, MP!References, M!Reference, MP!Reference

LEMMA SameSaves == M!ExactSaves <=> MP!ExactSaves
  BY DEF M!ExactSaves, MP!ExactSaves, M!Fresh, MP!Fresh, M!Save, MP!Save,
         M!Edited, MP!Edited, M!After, MP!After, M!OneSide, MP!OneSide,
         M!ManySide, MP!ManySide, M!Page, MP!Page, M!Children, MP!Children,
         M!Resolves, MP!Resolves, M!Consistent, MP!Consistent, M!Has, MP!Has,
         M!Keys, MP!Keys, M!From, MP!From, M!To, MP!To, M!Row, MP!Row, M!KeyOf, MP!KeyOf,
         M!Targets, MP!Targets, M!References, MP!References, M!Reference, MP!Reference

LEMMA SameLines == M!NamedLines <=> MP!NamedLines
  BY DEF M!NamedLines, MP!NamedLines, M!Save, MP!Save, M!Delete, MP!Delete,
         M!Edited, MP!Edited, M!After, MP!After, M!Remain, MP!Remain,
         M!OneSide, MP!OneSide, M!ManySide, MP!ManySide,
         M!Resolves, MP!Resolves, M!Consistent, MP!Consistent, M!Has, MP!Has,
         M!Keys, MP!Keys, M!From, MP!From, M!To, MP!To, M!Row, MP!Row, M!KeyOf, MP!KeyOf,
         M!Targets, MP!Targets, M!References, MP!References, M!Reference, MP!Reference

-----------------------------------------------------------------------------
(* The shop's invariant, of the two together. *)

\* A request about phones leaves the shop alone.
LEMMA PhonesElsewhere ==
    ASSUME served \in Nat, Next \/ UNCHANGED served
    PROVE  served' \in Nat
<1>1. ASSUME NEW r, Arrive(r)
      PROVE  Accept
  <2>1. \A i, op, new, old : OnRow(r, op, i, new) \/ Begin(r, op, i, old, new) => Accept
    BY DEF OnRow, Begin
  <2> QED
    BY <1>1, <2>1 DEF Arrive, Update, Insert, Delete, Edit, Erase
<1>2. Accept => served' \in Nat
  BY DEF Accept
<1>3. ASSUME NEW r, CommitUpdate(r) \/ CommitInsert(r) \/ CommitDelete(r) \/ Abort(r)
      PROVE  UNCHANGED served
  BY <1>3 DEF CommitUpdate, CommitInsert, CommitDelete, Abort
<1> QED
  BY <1>1, <1>2, <1>3 DEF Next, DeleteAccount

\* A step of the two is one of the shop, or leaves its tables and pages.
LEMMA BothStep ==
    ASSUME MP!IInv, [BothNext]_<<which, vars, shop>>
    PROVE  /\ MP!IInv'
           /\ [MP!Next]_(MP!vars) \/ UNCHANGED <<db, form>>
<1>1. CASE M!Next
  BY <1>1, SameNext, MP!NextStep
<1>2. CASE ~M!Next
  <2>1. UNCHANGED <<db, form>> /\ (Next \/ UNCHANGED served)
    BY <1>2 DEF BothNext, shop, vars
  <2>2. served \in Nat
    BY DEF MP!IInv
  <2>3. served' \in Nat
    BY <2>1, <2>2, PhonesElsewhere
  <2> QED
    BY <2>1, <2>3, MP!ElsewhereStep
<1> QED
  BY <1>1, <1>2

LEMMA ShopInvariance == BothSpec => []MP!IInv
<1>1. BothInit => MP!IInv
  BY SameInit, MP!InitInv DEF BothInit
<1> QED
  BY <1>1, BothStep, PTL DEF BothSpec

-----------------------------------------------------------------------------
(* The theorems. *)

\* main.py: a primary key names one row and no reference dangles, whatever the
\* routes and the panel write.
THEOREM ShopTypeCorrect == BothSpec => []ShopTypeOK
<1>1. MP!IInv => ShopTypeOK
  BY MP!InvTypes, SameTypes DEF ShopTypeOK
<1> QED
  BY <1>1, ShopInvariance, PTL

\* Saving a page that shows the rows of today changes its row and those put on
\* or taken off its lists, and no other.
THEOREM ShopSavesAreExact == BothSpec => FreshSaveIsExact
<1>1. MP!IInv /\ [BothNext]_<<which, vars, shop>> => [M!ExactSaves]_(M!vars)
  <2> SUFFICES ASSUME MP!IInv PROVE M!ExactSaves
    OBVIOUS
  <2> QED
    BY MP!InvFreshSave, SameSaves
<1> QED
  BY <1>1, ShopInvariance, PTL DEF BothSpec, FreshSaveIsExact, M!FreshSaveIsExact

\* A line leaves its order by its own deletion, or by a page that names it.
THEOREM ShopLinesStay == BothSpec => LinesStayInTheirOrder
<1>1. MP!IInv /\ [BothNext]_<<which, vars, shop>> => [M!NamedLines]_(M!vars)
  <2> SUFFICES ASSUME MP!IInv, [BothNext]_<<which, vars, shop>> PROVE M!NamedLines
    OBVIOUS
  <2>1. CASE [MP!Next]_(MP!vars)
    BY <2>1, MP!InvLines, SameLines
  <2>2. CASE UNCHANGED <<db, form>>
    BY <2>2 DEF M!NamedLines
  <2> QED
    BY <2>1, <2>2, BothStep
<1> QED
  BY <1>1, ShopInvariance, PTL DEF BothSpec, LinesStayInTheirOrder, M!LinesStayInTheirOrder
=============================================================================
