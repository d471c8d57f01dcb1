------------------------------- MODULE MCRows -------------------------------
(* The two components that only keep rows, checked side by side: a         *)
(* behaviour is one of Devices or one of Marketplace, which share nothing  *)
(* but a counter.                                                          *)
EXTENDS Devices, TLC

CONSTANTS User, Supplier, Item, Selection, Pickup, Notification, Delivery, Null, Form,
          MaxRows  \* bound: requests for the shop; MaxServed is that for phones
VARIABLES which, db, form

M == INSTANCE Marketplace WITH MaxServed <- MaxRows

shop == <<db, form>>

BothInit == Init /\ M!Init /\ which \in {"phones", "shop"}
BothNext == \/ which = "phones" /\ Next /\ UNCHANGED <<which, shop>>
            \/ which = "shop"   /\ M!Next /\ UNCHANGED <<which, table, req, agreed, mixed>>
BothSpec == BothInit /\ [][BothNext]_<<which, vars, shop>>

\* Those of Marketplace.
ShopTypeOK            == M!TypeOK
FreshSaveIsExact      == M!FreshSaveIsExact
LinesStayInTheirOrder == M!LinesStayInTheirOrder

Interchangeable ==
    UNION {Permutations(S) : S \in {Request, User, Item, Selection}}
=============================================================================
