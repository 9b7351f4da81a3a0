SPECIFICATION Spec
CONSTANTS
    l1 = l1
    l2 = l2
    y1 = y1
    i1 = i1
    None = None
    Levels = {l1, l2}
    Years = {y1}
    Ideas = {i1}
    Ids = {1, 2, 3}
    SubjectsOf <- Subjects
    ObjectivesOf <- Objectives
    ContentsOf <- Contents
    IdeaOf <- Idea
    MaxRequests = 6
    MaxFaults = 1
CHECK_DEADLOCK FALSE
INVARIANTS TypeOK NewestShown PatientFormFits
