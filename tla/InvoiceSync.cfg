SPECIFICATION Spec
CONSTANTS
    s1 = s1
    s2 = s2
    c1 = c1
    c2 = c2
    c3 = c3
    f1 = f1
    f2 = f2
    d1 = d1
    d2 = d2
    Null = Null
    Unreadable = Unreadable
    Zero = Zero
    NoFamily = NoFamily
    Sessions = {s1}
    Charges = {c1, c2, c3}
    Amounts <- Mixed
    Families = {f1, f2}
    Dates = {d1}
    FamilyOf <- Neighbours
    DateOf <- OneDate
    ForeignFields = {Unreadable, Zero}
    MaxForeign = 1
    MaxRuns = 2
    MaxEdits = 1
    MaxFaults = 1
CHECK_DEADLOCK FALSE
INVARIANTS  TypeOK
PROPERTY KeepsLiveInvoices
