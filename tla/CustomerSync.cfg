SPECIFICATION Spec
CONSTANTS
    s1 = s1
    s2 = s2
    a = a
    b = b
    c = c
    None = None
    adm = adm
    Sessions = {s1, s2}
    Admins = {}
    Families = {a, b, c}
    Names <- AllNames
    NameOf <- SharedName
    ForeignNames <- AllNames
    JobNames <- NoNames
    MaxForeign = 1
    MaxFaults = 1
SYMMETRY Interchangeable
INVARIANTS TypeOK SyncInv LinksCreatedCustomer ReturnMeansLinked
PROPERTY ImplementsFamilyLinks
