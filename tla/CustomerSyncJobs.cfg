SPECIFICATION Spec
CONSTANTS
    s1 = s1
    s2 = s2
    a = a
    b = b
    c = c
    None = None
    adm = adm
    Sessions = {s1}
    Admins = {}
    Families = {a, b}
    Names <- AllNames
    NameOf <- OwnNames
    ForeignNames <- NoNames
    JobNames <- JobA
    MaxForeign = 1
    MaxFaults = 0
INVARIANT LinksCreatedCustomer
