SPECIFICATION BothSpec
CONSTANTS
    Account = {a1, a2}
    Device = {d1}
    Id = {1, 2, 3}
    Request = {r1, r2}
    User = {u1, u2}
    Supplier = {s1}
    Item = {i1, i2}
    Selection = {o1, o2}
    Pickup = {p1}
    Notification = {n1}
    Delivery = {l1}
    Null = Null
    Form = {f1}
    MaxRows = 6
    MaxServed = 4
SYMMETRY Interchangeable
INVARIANTS TypeOK OneRowPerDevice ConsentIsTheOwners ShopTypeOK
PROPERTIES FreshSaveIsExact LinesStayInTheirOrder
CHECK_DEADLOCK FALSE
