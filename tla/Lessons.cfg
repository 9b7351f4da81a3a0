SPECIFICATION Spec
CONSTANTS
    r1 = r1
    r2 = r2
    l1 = l1
    s1 = s1
    s2 = s2
    c1 = c1
    t1 = t1
    rated = rated
    na = na
    NoLesson = NoLesson
    NoStudent = NoStudent
    Nobody = Nobody
    Requests = {r1, r2}
    Lessons = {l1}
    Students = {s1, s2}
    Contents = {c1}
    Teachers = {t1}
    Ratings = {rated, na}
    Blank = {na}
    EmptyRating = na
    Unless = {}
    MaxRuns = 2
    MaxFaults = 1
SYMMETRY Interchangeable
CHECK_DEADLOCK FALSE
INVARIANTS TypeOK OneRecordPerStudent UndisturbedIsAtomic
PROPERTIES MarksLostKnowingly RatingsLostKnowingly
