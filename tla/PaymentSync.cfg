SPECIFICATION Spec
CONSTANTS
    s1 = s1
    s2 = s2
    p1 = p1
    p2 = p2
    c1 = c1
    c2 = c2
    f1 = f1
    Null = Null
    Unreadable = Unreadable
    Zero = Zero
    NoFamily = NoFamily
    NoPayment = NoPayment
    NoInvoice = NoInvoice
    Sessions = {s1, s2}
    Payments = {p1, p2}
    Charges = {c1, c2}
    AppliesTo <- Shares
    Families = {f1}
    FamilyOf <- OneFamily
    Amounts = {1}
    ForeignFields = {Unreadable, p1}
    Slots = 10
    MaxForeign = 2
    MaxInvoices = 2
    MaxRuns = 2
    MaxEdits = 1
    MaxFaults = 1
SYMMETRY Interchangeable
CHECK_DEADLOCK FALSE
INVARIANTS TypeOK  AllOrNothing
