SPECIFICATION FairSpec
CONSTANTS
    s1 = s1
    s2 = s2
    a = a
    b = b
    c = c
    None = None
    adm = adm
    Sessions = {s1, s2}
    Admins = {adm}
    Families = {a, b}
    Names <- AllNames
    NameOf <- OwnNames
    ForeignNames <- NoNames
    JobNames <- NoNames
    MaxForeign = 0
    MaxFaults = 0
PROPERTIES EveryFamilyLinked 
