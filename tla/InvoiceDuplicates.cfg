SPECIFICATION Spec
CONSTANTS
    s1 = s1
    s2 = s2
    c1 = c1
    c2 = c2
    c3 = c3
    f1 = f1
    f2 = f2
    d1 = d1
    d2 = d2
    Null = Null
    Unreadable = Unreadable
    Zero = Zero
    NoFamily = NoFamily
    Sessions = {s1}
    Charges = {c1, c2}
    Amounts <- Positive
    Families = {f1, f2}
    Dates = {d1}
    FamilyOf <- TwoFamilies
    DateOf <- OneDate
    ForeignFields = {Null}
    MaxForeign = 0
    MaxRuns = 2
    MaxEdits = 0
    MaxFaults = 0
CHECK_DEADLOCK FALSE
INVARIANT OneLinePerCharge
