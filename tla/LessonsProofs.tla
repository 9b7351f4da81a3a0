--------------------------- MODULE LessonsProofs ---------------------------
(* Proofs about Lessons. *)
EXTENDS Lessons, TLAPS

\* What a request's local variables are at each place of its handler.
Local(r) ==
    /\ pc[r] = "insert" => job[r].op = "new"
    /\ pc[r] \in {"enrol", "drop", "mark", "lookUp", "insertRow", "updateRows"} =>
          job[r].todo \subseteq Students
    /\ pc[r] = "mark" => job[r].todo \subseteq job[r].want
    /\ pc[r] = "enrol" /\ job[r].op # "new" => \A s \in job[r].drop : s \notin job[r].want
    /\ pc[r] = "drop" => \A s \in job[r].todo : s \notin job[r].want
    /\ pc[r] = "equip" => job[r].todo \subseteq Contents
    /\ pc[r] \in {"page", "mark", "lookUp", "insertRow", "updateRows"} => job[r].op = "save"
    /\ pc[r] \in {"insertRow", "updateRows"} => job[r].cur \in Students
    /\ pc[r] \in {"ckAttendance", "ckProgress", "delProgress"} => job[r].op = "delete"
    /\ pc[r] \in {"delContent", "delAttend"} => job[r].op \in {"delete", "archive"}
    /\ pc[r] = "share" => job[r].todo \subseteq Teachers
    /\ (pc[r] = "unshare" /\ job[r].op = "share") => job[r].todo \subseteq Teachers
    /\ Active(r) /\ pc[r] # "insert" => job[r].lesson \in Lessons
    /\ pc[r] = "page" => job[r].lesson \in Lessons

Locals == \A r \in Requests : Local(r)

LEMMA LesKnown ==
    ASSUME Locals, NEW r \in Requests, Active(r), pc[r] # "insert"
    PROVE  Les(r) \in Lessons
  BY DEF Locals, Local, Les

LEMMA AskedTyped ==
    ASSUME NEW op \in Ops, NEW l \in Lessons \cup {NoLesson}, NEW want \in SUBSET Students
    PROVE  Asked(op, l, want) \in Job
  BY LessonsAssumption DEF Asked, Job

LEMMA WithTodo ==
    ASSUME NEW j \in Job, NEW X \in SUBSET (Students \cup Contents \cup Teachers)
    PROVE  [j EXCEPT !.todo = X] \in Job
  BY DEF Job

LEMMA TodoTyped ==
    ASSUME TypeOK, NEW r \in Requests,
           NEW X \in SUBSET (Students \cup Contents \cup Teachers), Todo(r, X)
    PROVE  job' \in [Requests -> Job]
  BY WithTodo DEF TypeOK, Todo

LEMMA TypeInit == Init => TypeOK
<1> SUFFICES ASSUME Init
             PROVE  TypeOK
  OBVIOUS
<1>1. Asked("none", NoLesson, {}) \in Job
  BY AskedTyped DEF Ops
<1>2. job \in [Requests -> Job]
  BY <1>1 DEF Init
<1>3. /\ attend \in [Lessons -> [Students -> SUBSET BOOLEAN]]
      /\ progress \in [Lessons -> [Students -> Seq(Ratings)]]
  <2>1. ASSUME NEW l \in Lessons, NEW s \in Students
        PROVE  attend[l][s] \in SUBSET BOOLEAN
    <3>1. attend \in [Lessons -> [Students -> {{}, {FALSE}, {TRUE}}]]
      BY DEF Init
    <3>2. attend[l] \in [Students -> {{}, {FALSE}, {TRUE}}]
      BY <3>1
    <3>3. attend[l][s] \in {{}, {FALSE}, {TRUE}}
      BY <3>2
    <3> QED
      BY <3>3
  <2>2. ASSUME NEW l \in Lessons, NEW s \in Students
        PROVE  progress[l][s] \in Seq(Ratings)
    <3>1. progress \in [Lessons -> [Students -> {<<>>} \cup {<<x>> : x \in Ratings}]]
      BY DEF Init
    <3>2. progress[l] \in [Students -> {<<>>} \cup {<<x>> : x \in Ratings}]
      BY <3>1
    <3>3. progress[l][s] \in {<<>>} \cup {<<x>> : x \in Ratings}
      BY <3>2
    <3>4. CASE progress[l][s] = <<>>
      BY <3>4
    <3>5. ASSUME NEW x \in Ratings, progress[l][s] = <<x>>
          PROVE  progress[l][s] \in Seq(Ratings)
      BY <3>5
    <3> QED
      BY <3>3, <3>4, <3>5
  <2>3. attend \in [Lessons -> [Students -> SUBSET BOOLEAN]]
    BY <2>1 DEF Init
  <2>4. progress \in [Lessons -> [Students -> Seq(Ratings)]]
    BY <2>2 DEF Init
  <2> QED
    BY <2>3, <2>4
<1> QED
  BY <1>2, <1>3, LessonsAssumption DEF Init, TypeOK, Resting

LEMMA TypeStep == TypeOK /\ Locals /\ [Next]_vars => TypeOK'
<1> SUFFICES ASSUME TypeOK, Locals, [Next]_vars
             PROVE  TypeOK'
  OBVIOUS
<1> USE DEF TypeOK, Goto, tables, counts, history
<1>1. CASE UNCHANGED vars
  BY <1>1 DEF vars
<1>2. ASSUME NEW r \in Requests, NEW asked \in Job, NEW at, Begin(r, asked, at),
             at \in {"insert", "compare", "ckAttendance", "delContent", "unshare", "mark"},
             raced' \subseteq Lessons
      PROVE  TypeOK'
  BY <1>2, LessonsAssumption DEF Begin
<1>3. ASSUME NEW r \in Requests, Arrive(r)
      PROVE  TypeOK'
  <2>1. ASSUME NEW j \in Job
        PROVE  /\ \A uses \in SUBSET Contents : [j EXCEPT !.uses = uses] \in Job
               /\ \A hosts \in SUBSET Teachers :
                     [j EXCEPT !.hosts = hosts, !.todo = hosts] \in Job
    BY DEF Job
  <2>2. CASE BeginNew(r)
    BY <1>2, <2>1, <2>2, AskedTyped DEF BeginNew, Ops
  <2>3. CASE BeginUpdate(r)
    BY <1>2, <2>1, <2>3, AskedTyped DEF BeginUpdate, Ops
  <2>4. CASE BeginDelete(r)
    BY <1>2, <2>1, <2>4, AskedTyped DEF BeginDelete, Ops
  <2>5. CASE BeginArchive(r)
    BY <1>2, <2>1, <2>5, AskedTyped DEF BeginArchive, Ops
  <2>6. CASE BeginShare(r)
    BY <1>2, <2>1, <2>6, AskedTyped DEF BeginShare, Ops
  <2>7. CASE OpenRecords(r)
    BY <2>7, AskedTyped, LessonsAssumption DEF OpenRecords, Ops, Enrolled, Resting
  <2>8. CASE BeginSave(r)
    <3>1. job[r] \in Job
      OBVIOUS
    <3>2. \A marked \in SUBSET job[r].want, rating \in [job[r].want -> Ratings] :
             [job[r] EXCEPT !.marked = marked,
                            !.rating = [s \in Students |->
                               IF s \in job[r].want THEN rating[s] ELSE EmptyRating],
                            !.todo = job[r].want] \in Job
      <4> SUFFICES ASSUME NEW marked \in SUBSET job[r].want,
                          NEW rating \in [job[r].want -> Ratings]
                   PROVE  [job[r] EXCEPT !.marked = marked,
                            !.rating = [s \in Students |->
                               IF s \in job[r].want THEN rating[s] ELSE EmptyRating],
                            !.todo = job[r].want] \in Job
        OBVIOUS
      <4> DEFINE all == [s \in Students |->
                            IF s \in job[r].want THEN rating[s] ELSE EmptyRating]
      <4>1. job[r].want \subseteq Students /\ marked \subseteq Students
        BY <3>1 DEF Job
      <4>2. all \in [Students -> Ratings]
        BY LessonsAssumption
      <4> HIDE DEF all
      <4>3. [job[r] EXCEPT !.marked = marked, !.rating = all, !.todo = job[r].want] \in Job
        BY <3>1, <4>1, <4>2 DEF Job
      <4> QED
        BY <4>3 DEF all
    <3>3. raced' \subseteq Lessons
      BY <2>8 DEF BeginSave, Locals, Local
    <3> QED
      BY <1>2, <2>8, <3>2, <3>3 DEF BeginSave
  <2> QED
    BY <1>3, <2>2, <2>3, <2>4, <2>5, <2>6, <2>7, <2>8 DEF Arrive
<1>5. ASSUME NEW r \in Requests,
             \/ InsertStudent(r) \/ InsertStudentsDone(r) \/ DeleteStudent(r)
      PROVE  TypeOK'
  <2>1. job[r] \in Job /\ job[r].drop \subseteq Students /\ job[r].uses \subseteq Contents
        /\ job[r].todo \subseteq Students
    BY <1>5 DEF Job, Locals, Local, InsertStudent, InsertStudentsDone, DeleteStudent
  <2>2. Les(r) \in Lessons
    BY <1>5, LesKnown DEF Active, Resting, InsertStudent, InsertStudentsDone, DeleteStudent
  <2>3. ASSUME NEW s \in job[r].todo, NEW rows \in SUBSET BOOLEAN,
               SetAttend(Les(r), s, rows), Todo(r, job[r].todo \ {s})
        PROVE  /\ attend' \in [Lessons -> [Students -> SUBSET BOOLEAN]]
               /\ job' \in [Requests -> Job]
    BY <2>1, <2>2, <2>3, TodoTyped DEF SetAttend
  <2>4. CASE InsertStudent(r)
    <3>1. PICK s \in job[r].todo :
             SetAttend(Les(r), s, attend[Les(r)][s] \cup {FALSE}) /\ Todo(r, job[r].todo \ {s})
      BY <2>4 DEF InsertStudent
    <3>2. attend[Les(r)][s] \cup {FALSE} \in SUBSET BOOLEAN
      <4>1. s \in Students
        BY <2>1
      <4>2. attend[Les(r)] \in [Students -> SUBSET BOOLEAN]
        BY <2>2
      <4>3. attend[Les(r)][s] \in SUBSET BOOLEAN
        BY <4>1, <4>2
      <4> QED
        BY <4>3
    <3>3. /\ attend' \in [Lessons -> [Students -> SUBSET BOOLEAN]]
          /\ job' \in [Requests -> Job]
      BY <2>3, <3>1, <3>2
    <3> QED
      BY <2>4, <3>3 DEF InsertStudent
  <2>5. CASE InsertStudentsDone(r)
    <3>1. job' \in [Requests -> Job]
      BY <2>1, <2>5, TodoTyped DEF InsertStudentsDone
    <3> QED
      BY <2>5, <3>1 DEF InsertStudentsDone
  <2>6. CASE DeleteStudent(r)
    BY <2>3, <2>6 DEF DeleteStudent
  <2> QED
    BY <1>5, <2>4, <2>5, <2>6
<1>6. ASSUME NEW r \in Requests,
             \/ ReplaceContent(r) \/ InsertContent(r) \/ InsertPresenter(r) \/ MarksDone(r)
      PROVE  TypeOK'
  <2>1. job[r] \in Job /\ job[r].uses \subseteq Contents /\ job[r].want \subseteq Students
        /\ job[r].todo \subseteq Students \cup Contents \cup Teachers
    BY DEF Job
  <2>2. CASE ReplaceContent(r)
    BY TodoTyped, <2>1, <2>2 DEF ReplaceContent
  <2>3. CASE InsertContent(r)
    <3>1. PICK c \in Contents :
             content' = [content EXCEPT ![Les(r)] = @ \cup {c}] /\ Todo(r, job[r].todo \ {c})
      BY <2>3 DEF InsertContent, Locals, Local
    <3>2. job' \in [Requests -> Job]
      BY TodoTyped, <2>1, <3>1
    <3> QED
      BY <2>3, <3>1, <3>2 DEF InsertContent
  <2>4. CASE InsertPresenter(r)
    <3>1. PICK t \in Teachers :
             presenters' = [presenters EXCEPT ![Les(r)] = @ \cup {t}] /\ Todo(r, job[r].todo \ {t})
      <4>1. pc[r] = "share" /\ job[r].todo \subseteq Teachers
        BY <2>4 DEF InsertPresenter, Locals, Local
      <4> QED
        BY <2>4, <4>1 DEF InsertPresenter
    <3>2. job' \in [Requests -> Job]
      BY TodoTyped, <2>1, <3>1
    <3> QED
      BY <2>4, <3>1, <3>2 DEF InsertPresenter
  <2>5. CASE MarksDone(r)
    BY TodoTyped, <2>1, <2>5 DEF MarksDone
  <2> QED
    BY <1>6, <2>2, <2>3, <2>4, <2>5
<1>7. ASSUME NEW r \in Requests,
             \/ DeleteStudentsDone(r) \/ InsertContentDone(r) \/ SaveDone(r) \/ ShareDone(r)
      PROVE  TypeOK'
  BY <1>7 DEF DeleteStudentsDone, InsertContentDone, SaveDone, ShareDone, Resting
<1>8. ASSUME NEW r \in Requests,
             \/ DeleteContent(r) \/ DeleteAttend(r) \/ DeleteProgress(r)
             \/ DeleteLessonRow(r) \/ DeletePresenters(r) \/ CleanProgress(r)
      PROVE  TypeOK'
  <2>1. <<>> \in Seq(Ratings)
    OBVIOUS
  <2>2. CASE DeleteContent(r) \/ DeleteLessonRow(r) \/ DeletePresenters(r)
    BY <2>2 DEF DeleteContent, DeleteLessonRow, DeletePresenters, Resting
  <2>5. CASE DeleteAttend(r)
    <3>1. [s \in Students |-> {}] \in [Students -> SUBSET BOOLEAN]
      OBVIOUS
    <3>2. attend' \in [Lessons -> [Students -> SUBSET BOOLEAN]]
      BY <2>5, <3>1 DEF DeleteAttend
    <3> QED
      BY <2>5, <3>2 DEF DeleteAttend
  <2>3. CASE DeleteProgress(r)
    BY <2>1, <2>3 DEF DeleteProgress
  <2>4. CASE CleanProgress(r)
    <3>1. Les(r) \in Lessons
      BY <2>4, LesKnown DEF Active, Resting, CleanProgress
    <3>2. [s \in Students |-> IF s \in Enrolled(Les(r)) THEN progress[Les(r)][s] ELSE <<>>]
             \in [Students -> Seq(Ratings)]
      BY <2>1, <3>1
    <3>3. progress' \in [Lessons -> [Students -> Seq(Ratings)]]
      BY <2>4, <3>1, <3>2 DEF CleanProgress
    <3> QED
      BY <2>4, <3>3 DEF CleanProgress, Resting
  <2> QED
    BY <1>8, <2>2, <2>3, <2>4, <2>5
<1>9. ASSUME NEW r \in Requests, InsertLesson(r)
      PROVE  TypeOK'
  <2>1. job[r] \in Job
    OBVIOUS
  <2>2. \A l \in Lessons : [job[r] EXCEPT !.lesson = l, !.todo = job[r].want] \in Job
    BY <2>1 DEF Job
  <2> QED
    BY <1>9, <2>2 DEF InsertLesson
<1>10. ASSUME NEW r \in Requests, CompareStudents(r)
       PROVE  TypeOK'
  <2>1. job[r] \in Job
    OBVIOUS
  <2>2. \A S \in SUBSET Students, T \in SUBSET Students :
           [job[r] EXCEPT !.todo = S, !.drop = T] \in Job
    BY <2>1 DEF Job
  <2>3. job[r].want \subseteq Students /\ Enrolled(Les(r)) \subseteq Students
    BY <2>1 DEF Job, Enrolled
  <2> QED
    BY <1>10, <2>2, <2>3 DEF CompareStudents
<1>11. ASSUME NEW r \in Requests, CheckAttendance(r) \/ CheckProgress(r) \/ LookUp(r)
       PROVE  TypeOK'
  <2>1. job[r] \in Job
    OBVIOUS
  <2>2. job[r].refuse \in BOOLEAN /\ \A b \in BOOLEAN : [job[r] EXCEPT !.refuse = b] \in Job
    BY <2>1 DEF Job
  <2>3. job[r].todo \subseteq Students \cup Contents \cup Teachers
    BY <2>1 DEF Job
  <2>4. \A s \in Students, S \in SUBSET (Students \cup Contents \cup Teachers) :
           [job[r] EXCEPT !.cur = s, !.todo = S] \in Job
    BY <2>1 DEF Job
  <2>5. CASE CheckAttendance(r)
    BY <2>2, <2>5 DEF CheckAttendance
  <2>6. CASE CheckProgress(r)
    BY <2>2, <2>6 DEF CheckProgress
  <2>7. CASE LookUp(r)
    <3>1. PICK s \in job[r].todo : job' = [job EXCEPT ![r].cur = s, ![r].todo = @ \ {s}]
      BY <2>7 DEF LookUp
    <3>2. s \in Students
      BY <2>7 DEF LookUp, Locals, Local
    <3>3. [job[r] EXCEPT !.cur = s, !.todo = job[r].todo \ {s}] \in Job
      BY <2>3, <2>4, <3>2
    <3>4. job' \in [Requests -> Job]
      BY <3>1, <3>3
    <3> QED
      BY <2>7, <3>4 DEF LookUp
  <2> QED
    BY <1>11, <2>5, <2>6, <2>7
<1>12. ASSUME NEW r \in Requests, NEW kind \in {"mark", "rating"}, NEW s \in Students, NEW stages,
              Overlooked(r, kind, s, stages) \/ UNCHANGED late
       PROVE  late' \in [Requests -> SUBSET ({"mark", "rating"} \X Students)]
  BY <1>12 DEF Overlooked
<1>13. ASSUME NEW r \in Requests, MarkStudent(r)
       PROVE  TypeOK'
  <2>1. PICK s \in job[r].todo :
           /\ SetAttend(Les(r), s, IF s \in Enrolled(Les(r)) THEN MarkOf(job[r], s) ELSE {})
           /\ Overlooked(r, "mark", s, AfterAttendance) \/ UNCHANGED late
           /\ Todo(r, job[r].todo \ {s})
    BY <1>13 DEF MarkStudent
  <2>2. s \in Students /\ job[r].todo \subseteq Students
    BY <1>13 DEF MarkStudent, Locals, Local
  <2>3. attend' \in [Lessons -> [Students -> SUBSET BOOLEAN]]
    BY <2>1 DEF SetAttend, MarkOf
  <2>4. job' \in [Requests -> Job]
    BY TodoTyped, <2>1, <2>2
  <2>5. late' \in [Requests -> SUBSET ({"mark", "rating"} \X Students)]
    BY <1>12, <2>1, <2>2
  <2> QED
    BY <1>13, <2>3, <2>4, <2>5 DEF MarkStudent
<1>14. ASSUME NEW r \in Requests, InsertRow(r) \/ UpdateRows(r)
       PROVE  TypeOK'
  <2>1. job[r].cur \in Students /\ Les(r) \in Lessons
    BY <1>14 DEF InsertRow, UpdateRows, Locals, Local, Active, Resting, Les
  <2>2. Rating(r) \in Ratings
    BY <2>1 DEF Rating, Job
  <2>3. progress[Les(r)][job[r].cur] \in Seq(Ratings)
    BY <2>1
  <2>4. progress' \in [Lessons -> [Students -> Seq(Ratings)]]
    <3>1. CASE InsertRow(r)
      BY <2>1, <2>2, <2>3, <3>1 DEF InsertRow, SetProgress
    <3>2. CASE UpdateRows(r)
      <4> DEFINE rows == progress[Les(r)][job[r].cur]
      <4>1. [i \in 1..Len(rows) |-> Rating(r)] \in Seq(Ratings)
        BY <2>2, <2>3
      <4> QED
        BY <2>1, <3>2, <4>1 DEF UpdateRows, SetProgress
    <3> QED
      BY <1>14, <3>1, <3>2
  <2>5. late' \in [Requests -> SUBSET ({"mark", "rating"} \X Students)]
    BY <1>12, <1>14, <2>1 DEF InsertRow, UpdateRows, NoteRating
  <2> QED
    BY <1>14, <2>4, <2>5 DEF InsertRow, UpdateRows
<1>15. ASSUME NEW r \in Requests, Fail(r)
       PROVE  TypeOK'
  <2>1. Asked("none", NoLesson, {}) \in Job
    BY LessonsAssumption DEF Asked, Job, Ops
  <2> QED
    BY <1>15, <2>1, LessonsAssumption DEF Fail, Resting
<1> QED
  BY <1>1, <1>3, <1>5, <1>6, <1>7, <1>8, <1>9, <1>10, <1>11, <1>13, <1>14, <1>15
     DEF Next, Statement

LEMMA LocalInit == Init => Locals
  BY DEF Init, Locals, Local, Active, Resting

\* A step of one request leaves the places and the variables of the others alone.
LEMMA OwnStep ==
    ASSUME TypeOK, NEW r \in Requests, Arrive(r) \/ Statement(r) \/ Fail(r)
    PROVE  \A q \in Requests \ {r} : pc'[q] = pc[q] /\ job'[q] = job[q]
<1>1. CASE Arrive(r)
  BY <1>1 DEF Arrive, BeginNew, BeginUpdate, BeginDelete, BeginArchive, BeginShare,
     OpenRecords, BeginSave, Begin, Goto, TypeOK
<1>2. CASE Statement(r)
  BY <1>2 DEF Statement, InsertLesson, CompareStudents, InsertStudent, InsertStudentsDone,
     DeleteStudent, DeleteStudentsDone, ReplaceContent, InsertContent, InsertContentDone,
     CleanProgress, MarkStudent, MarksDone, LookUp, InsertRow, UpdateRows, SaveDone,
     CheckAttendance, CheckProgress, DeleteContent, DeleteAttend, DeleteProgress,
     DeleteLessonRow, DeletePresenters, InsertPresenter, ShareDone, Goto, Todo, TypeOK
<1>3. CASE Fail(r)
  BY <1>3 DEF Fail, Goto, TypeOK
<1> QED
  BY <1>1, <1>2, <1>3

LEMMA TodoFields ==
    ASSUME TypeOK, NEW r \in Requests, NEW X, Todo(r, X)
    PROVE  /\ job'[r].todo = X
           /\ job'[r].op = job[r].op /\ job'[r].lesson = job[r].lesson
           /\ job'[r].want = job[r].want /\ job'[r].drop = job[r].drop
           /\ job'[r].cur = job[r].cur
  BY DEF TypeOK, Job, Todo

LEMMA LocalStep == TypeOK /\ Locals /\ [Next]_vars => Locals'
<1> SUFFICES ASSUME TypeOK, Locals, [Next]_vars
             PROVE  Locals'
  OBVIOUS
<1>1. CASE UNCHANGED vars
  BY <1>1 DEF vars, Locals, Local, Active
<1>2. ASSUME NEW r \in Requests, Arrive(r) \/ Statement(r) \/ Fail(r), Local(r)'
      PROVE  Locals'
  BY <1>2, OwnStep DEF Locals, Local, Active
<1>3. ASSUME NEW r \in Requests, Arrive(r)
      PROVE  Local(r)'
  <2> USE DEF Local, Active, Resting, Goto, Asked
  <2>1. job[r] \in Job /\ made \subseteq Lessons
    BY DEF TypeOK
  <2>2. CASE BeginNew(r)
    BY <2>2 DEF BeginNew, Begin, TypeOK
  <2>3. CASE BeginUpdate(r)
    BY <2>3 DEF BeginUpdate, Begin, TypeOK
  <2>4. CASE BeginDelete(r)
    BY <2>4 DEF BeginDelete, Begin, TypeOK
  <2>5. CASE BeginArchive(r)
    BY <2>5 DEF BeginArchive, Begin, TypeOK
  <2>6. CASE BeginShare(r)
    BY <2>6 DEF BeginShare, Begin, TypeOK
  <2>7. CASE OpenRecords(r)
    BY <2>7 DEF OpenRecords, TypeOK
  <2>8. CASE BeginSave(r)
    <3>1. /\ pc'[r] = "mark" /\ job'[r].op = job[r].op /\ job'[r].want = job[r].want
          /\ job'[r].lesson = job[r].lesson /\ job'[r].todo = job[r].want
      BY <2>1, <2>8 DEF BeginSave, Begin, TypeOK
    <3>2. job[r].want \subseteq Students
      BY <2>1 DEF Job
    <3> QED
      BY <2>8, <3>1, <3>2 DEF BeginSave, Locals
  <2> QED
    BY <1>3, <2>2, <2>3, <2>4, <2>5, <2>6, <2>7, <2>8 DEF Arrive
<1>4. ASSUME NEW r \in Requests, Statement(r)
      PROVE  Local(r)'
  <2>1. /\ job[r] \in Job /\ Local(r)
        /\ job[r].want \subseteq Students /\ job[r].uses \subseteq Contents
        /\ job[r].hosts \subseteq Teachers /\ job[r].drop \subseteq Students
        /\ Enrolled(Les(r)) \subseteq Students
    BY DEF TypeOK, Locals, Job, Enrolled
  <2> USE DEF Goto
  <2>2. CASE InsertLesson(r)
    <3>1. /\ pc[r] = "insert" /\ pc'[r] = "enrol" /\ job'[r].op = job[r].op
          /\ job'[r].lesson \in Lessons /\ job'[r].todo = job[r].want
      BY <2>1, <2>2 DEF InsertLesson, TypeOK, Job
    <3> QED
      BY <2>1, <3>1 DEF Local, Active, Resting
  <2>3. CASE CompareStudents(r)
    <3>1. /\ pc[r] = "compare" /\ pc'[r] = "enrol" /\ job'[r].lesson = job[r].lesson
          /\ job'[r].todo = job[r].want \ Enrolled(Les(r)) /\ job'[r].want = job[r].want
          /\ job'[r].drop = Enrolled(Les(r)) \ job[r].want
      BY <2>1, <2>3 DEF CompareStudents, TypeOK, Job
    <3> QED
      BY <2>1, <3>1 DEF Local, Active, Resting
  <2>4. CASE \/ InsertStudent(r) \/ DeleteStudent(r) \/ InsertContent(r)
             \/ InsertPresenter(r) \/ MarkStudent(r)
    <3>1. /\ pc[r] \in {"enrol", "drop", "equip", "share", "mark"} /\ pc'[r] = pc[r]
          /\ \E x \in job[r].todo : Todo(r, job[r].todo \ {x})
      BY <2>4 DEF InsertStudent, DeleteStudent, InsertContent, InsertPresenter,
         MarkStudent, TypeOK
    <3>2. /\ job'[r].todo \subseteq job[r].todo /\ job'[r].op = job[r].op
          /\ job'[r].lesson = job[r].lesson /\ job'[r].want = job[r].want
          /\ job'[r].drop = job[r].drop
      BY <3>1, TodoFields
    <3> QED
      BY <2>1, <3>1, <3>2 DEF Local, Active, Resting
  <2>5. CASE InsertStudentsDone(r)
    <3>1. /\ pc[r] = "enrol"
          /\ job[r].op = "new" => pc'[r] = "equip" /\ Todo(r, job[r].uses)
          /\ job[r].op # "new" => pc'[r] = "drop" /\ Todo(r, job[r].drop)
      BY <2>5 DEF InsertStudentsDone, TypeOK
    <3>2. /\ job[r].op = "new" => job'[r].todo = job[r].uses
          /\ job[r].op # "new" => job'[r].todo = job[r].drop
          /\ job'[r].lesson = job[r].lesson /\ job'[r].want = job[r].want
      BY <3>1, TodoFields
    <3>3. job[r].lesson \in Lessons
      BY <2>1, <3>1 DEF Local, Active, Resting
    <3>4. CASE job[r].op = "new"
      BY <2>1, <3>1, <3>2, <3>3, <3>4 DEF Local, Active, Resting
    <3>5. CASE job[r].op # "new"
      <4>1. \A s \in job[r].drop : s \notin job[r].want
        BY <2>1, <3>1, <3>5 DEF Local
      <4> QED
        BY <2>1, <3>1, <3>2, <3>3, <3>5, <4>1 DEF Local, Active, Resting
    <3> QED
      BY <3>4, <3>5
  <2>6. CASE DeleteStudentsDone(r) \/ InsertContentDone(r) \/ SaveDone(r) \/ ShareDone(r)
    BY <2>1, <2>6 DEF DeleteStudentsDone, InsertContentDone, SaveDone, ShareDone, TypeOK,
       Local, Active, Resting
  <2>7. CASE ReplaceContent(r) \/ MarksDone(r)
    <3>1. \/ pc[r] = "unequip" /\ pc'[r] = "equip" /\ Todo(r, job[r].uses)
          \/ pc[r] = "mark" /\ pc'[r] = "lookUp" /\ Todo(r, job[r].want)
      BY <2>7 DEF ReplaceContent, MarksDone, TypeOK
    <3>2. /\ job'[r].op = job[r].op /\ job'[r].lesson = job[r].lesson
          /\ pc[r] = "unequip" => job'[r].todo = job[r].uses
          /\ pc[r] = "mark" => job'[r].todo = job[r].want
      BY <3>1, TodoFields
    <3> QED
      BY <2>1, <3>1, <3>2 DEF Local, Active, Resting
  <2>9. CASE LookUp(r)
    <3>1. PICK s \in job[r].todo :
             /\ job' = [job EXCEPT ![r].cur = s, ![r].todo = @ \ {s}]
             /\ pc'[r] \in {"insertRow", "updateRows"}
      BY <2>9 DEF LookUp, TypeOK
    <3>2. /\ job'[r].cur = s /\ job'[r].op = job[r].op /\ job'[r].lesson = job[r].lesson
          /\ job'[r].todo = job[r].todo \ {s}
      BY <2>1, <3>1 DEF TypeOK, Job
    <3> QED
      BY <2>1, <2>9, <3>1, <3>2 DEF Local, Active, Resting, LookUp
  <2>10. CASE InsertRow(r) \/ UpdateRows(r)
    <3>1. /\ pc[r] \in {"insertRow", "updateRows"} /\ pc'[r] = "lookUp" /\ job'[r] = job[r]
      BY <2>10 DEF InsertRow, UpdateRows, TypeOK
    <3> QED
      BY <2>1, <3>1 DEF Local, Active, Resting
  <2>11. CASE CheckAttendance(r) \/ CheckProgress(r)
    <3>1. \/ pc[r] = "ckAttendance" /\ pc'[r] = "ckProgress"
          \/ pc[r] = "ckProgress" /\ pc'[r] \in {"delContent", "unshare"}
      BY <2>11 DEF CheckAttendance, CheckProgress, TypeOK
    <3>2. job'[r].op = job[r].op /\ job'[r].lesson = job[r].lesson
      <4>1. \E b : job' = [job EXCEPT ![r].refuse = b]
        BY <2>11 DEF CheckAttendance, CheckProgress
      <4> QED
        BY <2>1, <4>1 DEF TypeOK, Job
    <3> QED
      BY <2>1, <3>1, <3>2 DEF Local, Active, Resting
  <2>12. CASE \/ DeleteContent(r) \/ DeleteAttend(r) \/ DeleteProgress(r) \/ CleanProgress(r)
              \/ DeleteLessonRow(r) \/ DeletePresenters(r)
    <3>1. job'[r] = job[r]
      BY <2>12 DEF DeleteContent, DeleteAttend, DeleteProgress, DeleteLessonRow,
         DeletePresenters, CleanProgress
    <3>2. \/ pc[r] = "delContent" /\ pc'[r] = "delAttend"
          \/ pc[r] = "delAttend" /\ pc'[r] = IF job[r].op = "delete" THEN "delProgress" ELSE "delLesson"
          \/ pc[r] = "delProgress" /\ pc'[r] = "delLesson"
          \/ pc[r] = "delLesson" /\ pc'[r] = IF job[r].op = "delete" THEN "unshare" ELSE "done"
          \/ pc[r] = "clean" /\ pc'[r] = "done"
          \/ pc[r] = "unshare" /\ pc'[r] = IF job[r].op = "share" THEN "share" ELSE "done"
      BY <2>12 DEF DeleteContent, DeleteAttend, DeleteProgress, DeleteLessonRow,
         DeletePresenters, CleanProgress, TypeOK
    <3> QED
      BY <2>1, <3>1, <3>2 DEF Local, Active, Resting
  <2> QED
    BY <1>4, <2>2, <2>3, <2>4, <2>5, <2>6, <2>7, <2>9, <2>10, <2>11, <2>12 DEF Statement
<1>5. ASSUME NEW r \in Requests, Fail(r)
      PROVE  Local(r)'
  BY <1>5 DEF Fail, Local, Active, Resting, Goto, Asked, TypeOK
<1> QED
  BY <1>1, <1>2, <1>3, <1>4, <1>5 DEF Next

-----------------------------------------------------------------------------
(* What a step does to the tables and to the history. *)

LEMMA ProgressStep ==
    ASSUME TypeOK, Locals, NEW r \in Requests, Arrive(r) \/ Statement(r) \/ Fail(r),
           NEW l \in Lessons, NEW s \in Students
    PROVE  \/ progress'[l][s] = progress[l][s]
           \/ /\ CleanProgress(r) /\ Les(r) = l /\ s \notin Enrolled(l)
              /\ progress'[l][s] = <<>>
           \/ DeleteProgress(r) /\ Les(r) = l /\ progress'[l][s] = <<>>
           \/ /\ InsertRow(r) /\ Les(r) = l /\ job[r].cur = s
              /\ progress'[l][s] = Append(progress[l][s], Rating(r))
           \/ /\ UpdateRows(r) /\ Les(r) = l /\ job[r].cur = s
              /\ progress'[l][s] = [i \in 1..Len(progress[l][s]) |-> Rating(r)]
<1> USE DEF TypeOK
<1>1. CASE UNCHANGED progress
  BY <1>1
<1>2. CASE CleanProgress(r)
  BY <1>2 DEF CleanProgress
<1>3. CASE DeleteProgress(r)
  BY <1>3 DEF DeleteProgress
<1>4. CASE InsertRow(r)
  BY <1>4 DEF InsertRow, SetProgress
<1>5. CASE UpdateRows(r)
  BY <1>5 DEF UpdateRows, SetProgress
<1> QED
  BY <1>1, <1>2, <1>3, <1>4, <1>5
     DEF Arrive, BeginNew, BeginUpdate, BeginDelete, BeginArchive, BeginShare,
     OpenRecords, BeginSave, Begin, Fail, tables,
     Statement, InsertLesson, CompareStudents, InsertStudent, InsertStudentsDone,
     DeleteStudent, DeleteStudentsDone, ReplaceContent, InsertContent, InsertContentDone,
     MarkStudent, MarksDone, LookUp, SaveDone, CheckAttendance, CheckProgress, DeleteContent,
     DeleteAttend, DeleteLessonRow, DeletePresenters, InsertPresenter, ShareDone

LEMMA AttendAt ==
    ASSUME TypeOK, NEW k, NEW t, NEW rows, SetAttend(k, t, rows),
           NEW l \in Lessons, NEW s \in Students
    PROVE  attend'[l][s] = IF l = k /\ s = t THEN rows ELSE attend[l][s]
  BY DEF TypeOK, SetAttend

LEMMA AttendStep ==
    ASSUME TypeOK, Locals, NEW r \in Requests, Arrive(r) \/ Statement(r) \/ Fail(r),
           NEW l \in Lessons, NEW s \in Students
    PROVE  \/ attend'[l][s] = attend[l][s]
           \/ attend'[l][s] = attend[l][s] \cup {FALSE}
           \/ DeleteStudent(r) /\ Les(r) = l /\ s \in job[r].todo /\ attend'[l][s] = {}
           \/ DeleteAttend(r) /\ Les(r) = l /\ attend'[l][s] = {}
           \/ /\ MarkStudent(r) /\ Les(r) = l /\ s \in job[r].todo
              /\ attend'[l][s] = IF attend[l][s] = {} THEN {} ELSE MarkOf(job[r], s)
              /\ s \in job[r].marked => Overlooked(r, "mark", s, AfterAttendance)
<1> USE DEF TypeOK
<1>1. CASE UNCHANGED attend
  BY <1>1
<1>2. CASE InsertStudent(r)
  <2>1. PICK t \in job[r].todo : SetAttend(Les(r), t, attend[Les(r)][t] \cup {FALSE})
    BY <1>2 DEF InsertStudent
  <2>2. attend'[l][s] = IF l = Les(r) /\ s = t THEN attend[Les(r)][t] \cup {FALSE}
                        ELSE attend[l][s]
    BY <2>1, AttendAt
  <2> QED
    BY <2>2
<1>3. CASE DeleteStudent(r)
  <2>1. PICK t \in job[r].todo : SetAttend(Les(r), t, {})
    BY <1>3 DEF DeleteStudent
  <2>2. attend'[l][s] = IF l = Les(r) /\ s = t THEN {} ELSE attend[l][s]
    BY <2>1, AttendAt
  <2> QED
    BY <1>3, <2>2
<1>4. CASE DeleteAttend(r)
  BY <1>4 DEF DeleteAttend
<1>5. CASE MarkStudent(r)
  <2>1. PICK t \in job[r].todo :
           /\ SetAttend(Les(r), t, IF t \in Enrolled(Les(r)) THEN MarkOf(job[r], t) ELSE {})
           /\ t \in job[r].marked => Overlooked(r, "mark", t, AfterAttendance)
    BY <1>5 DEF MarkStudent
  <2>2. attend'[l][s] = IF l = Les(r) /\ s = t
                        THEN IF t \in Enrolled(Les(r)) THEN MarkOf(job[r], t) ELSE {}
                        ELSE attend[l][s]
    BY <2>1, AttendAt
  <2>3. s \in Enrolled(l) <=> attend[l][s] # {}
    BY DEF Enrolled
  <2> QED
    BY <1>5, <2>1, <2>2, <2>3
<1> QED
  BY <1>1, <1>2, <1>3, <1>4, <1>5
     DEF Arrive, BeginNew, BeginUpdate, BeginDelete, BeginArchive, BeginShare,
     OpenRecords, BeginSave, Begin, Fail, tables,
     Statement, InsertLesson, CompareStudents, InsertStudentsDone,
     DeleteStudentsDone, ReplaceContent, InsertContent, InsertContentDone, CleanProgress,
     MarksDone, LookUp, InsertRow, UpdateRows, SaveDone, CheckAttendance, CheckProgress,
     DeleteContent, DeleteProgress, DeleteLessonRow, DeletePresenters, InsertPresenter, ShareDone

\* A statement is of a request under way, which keeps its kind and its lesson.
LEMMA StatementKeeps ==
    ASSUME TypeOK, NEW r \in Requests, Statement(r)
    PROVE  /\ Active(r)
           /\ job'[r].op = job[r].op
           /\ pc[r] # "insert" => job'[r].lesson = job[r].lesson
           /\ raced' = raced
<1> USE DEF history
<1>1. CASE \/ InsertStudent(r) \/ DeleteStudent(r) \/ InsertContent(r)
           \/ InsertPresenter(r) \/ MarkStudent(r) \/ InsertStudentsDone(r)
           \/ ReplaceContent(r) \/ MarksDone(r)
  <2>1. /\ pc[r] \in {"enrol", "drop", "equip", "share", "mark", "unequip"}
        /\ \E X : Todo(r, X)
        /\ raced' = raced
    BY <1>1 DEF InsertStudent, DeleteStudent, InsertContent, InsertPresenter, MarkStudent,
       InsertStudentsDone, ReplaceContent, MarksDone
  <2> QED
    BY <2>1, TodoFields DEF Active, Resting
<1>2. CASE InsertLesson(r)
  BY <1>2 DEF InsertLesson, TypeOK, Job, Active, Resting
<1>5. CASE CompareStudents(r) \/ LookUp(r)
  <2>1. /\ pc[r] \in {"compare", "lookUp"} /\ raced' = raced
        /\ \/ \E S, T : job' = [job EXCEPT ![r].todo = S, ![r].drop = T]
           \/ \E s : job' = [job EXCEPT ![r].cur = s, ![r].todo = @ \ {s}]
    BY <1>5 DEF CompareStudents, LookUp
  <2>2. job'[r].op = job[r].op /\ job'[r].lesson = job[r].lesson
    BY <2>1 DEF TypeOK, Job
  <2> QED
    BY <2>1, <2>2 DEF Active, Resting
<1>3. CASE CheckAttendance(r) \/ CheckProgress(r)
  <2>1. /\ pc[r] \in {"ckAttendance", "ckProgress"} /\ raced' = raced
        /\ \E b : job' = [job EXCEPT ![r].refuse = b]
    BY <1>3 DEF CheckAttendance, CheckProgress
  <2>2. job'[r].op = job[r].op /\ job'[r].lesson = job[r].lesson
    BY <2>1 DEF TypeOK, Job
  <2> QED
    BY <2>1, <2>2 DEF Active, Resting
<1>4. CASE \/ DeleteStudentsDone(r) \/ InsertContentDone(r) \/ SaveDone(r) \/ ShareDone(r)
           \/ InsertRow(r) \/ UpdateRows(r) \/ CleanProgress(r)
           \/ DeleteContent(r) \/ DeleteAttend(r) \/ DeleteProgress(r)
           \/ DeleteLessonRow(r) \/ DeletePresenters(r)
  BY <1>4 DEF DeleteStudentsDone, InsertContentDone, SaveDone, ShareDone, InsertRow,
     UpdateRows, CleanProgress, DeleteContent, DeleteAttend, DeleteProgress,
     DeleteLessonRow, DeletePresenters, Active, Resting
<1> QED
  BY <1>1, <1>2, <1>3, <1>4, <1>5 DEF Statement

-----------------------------------------------------------------------------
(* One record for each student. *)

\* Two saves of one lesson under way have been seen to overlap; and where they have not,
\* the row a save has found missing is missing still.
Races ==
    /\ \A q, r \in Requests :
          (q # r /\ Active(q) /\ Active(r) /\ job[q].op = "save" /\ job[r].op = "save"
              /\ Les(q) = Les(r)) => Les(q) \in raced
    /\ \A r \in Requests :
          (pc[r] = "insertRow" /\ Les(r) \notin raced) => progress[Les(r)][job[r].cur] = <<>>

\* Where a request comes from when it is a save under way after a step of its own.
LEMMA SavesGoOn ==
    ASSUME TypeOK, Locals, NEW r \in Requests, Arrive(r) \/ Statement(r) \/ Fail(r),
           Active(r)', job'[r].op = "save"
    PROVE  /\ Les(r)' = Les(r) /\ job[r].op = "save"
           /\ \/ BeginSave(r) /\ (Saving(Les(r)) # {} => Les(r) \in raced')
              \/ Active(r) /\ raced' = raced
<1>1. CASE Statement(r)
  BY <1>1, StatementKeeps DEF Locals, Local, Les
<1>2. CASE BeginSave(r)
  <2>1. job'[r].op = job[r].op /\ job'[r].lesson = job[r].lesson
    BY <1>2 DEF BeginSave, Begin, TypeOK, Job
  <2>2. Saving(Les(r)) # {} => Les(r) \in raced'
    BY <1>2 DEF BeginSave, Les
  <2>3. Les(r)' = Les(r) /\ job[r].op = "save"
    BY <2>1 DEF Les
  <2> QED
    BY <1>2, <2>2, <2>3
<1>3. CASE OpenRecords(r) \/ Fail(r)
  BY <1>3 DEF OpenRecords, Fail, Goto, Active, Resting, TypeOK
<1>4. CASE BeginNew(r) \/ BeginUpdate(r)
  <2>1. \E op \in {"new", "update"} : \E l, want, uses :
           job' = [job EXCEPT ![r] = [Asked(op, l, want) EXCEPT !.uses = uses]]
    BY <1>4 DEF BeginNew, BeginUpdate, Begin
  <2> QED
    BY <2>1 DEF Asked, TypeOK
<1>5. CASE BeginDelete(r) \/ BeginArchive(r)
  BY <1>5 DEF BeginDelete, BeginArchive, Begin, Asked, TypeOK
<1>6. CASE BeginShare(r)
  BY <1>6 DEF BeginShare, Begin, Asked, TypeOK
<1> QED
  BY <1>1, <1>2, <1>3, <1>4, <1>5, <1>6 DEF Arrive

LEMMA RacedGrows ==
    ASSUME TypeOK, NEW r \in Requests, Arrive(r) \/ Statement(r) \/ Fail(r)
    PROVE  raced \subseteq raced'
  BY StatementKeeps DEF Arrive, BeginNew, BeginUpdate, BeginDelete, BeginArchive, BeginShare,
     OpenRecords, BeginSave, Fail

\* Only the look-up leads to the insertion of a row.
LEMMA ToInsertRow ==
    ASSUME TypeOK, NEW r \in Requests, Arrive(r) \/ Statement(r) \/ Fail(r),
           pc'[r] = "insertRow"
    PROVE  LookUp(r)
  BY DEF Arrive, BeginNew, BeginUpdate, BeginDelete, BeginArchive, BeginShare,
     OpenRecords, BeginSave, Begin, Fail, Goto, TypeOK,
     Statement, InsertLesson, CompareStudents, InsertStudent, InsertStudentsDone,
     DeleteStudent, DeleteStudentsDone, ReplaceContent, InsertContent, InsertContentDone,
     CleanProgress, MarkStudent, MarksDone, InsertRow, UpdateRows, SaveDone,
     CheckAttendance, CheckProgress, DeleteContent, DeleteAttend, DeleteProgress,
     DeleteLessonRow, DeletePresenters, InsertPresenter, ShareDone

LEMMA RacesInit == Init => Races /\ OneRecordPerStudent
<1> SUFFICES ASSUME Init
             PROVE  Races /\ OneRecordPerStudent
  OBVIOUS
<1>1. Races
  BY DEF Init, Races, Active, Resting
<1>2. ASSUME NEW l \in Lessons, NEW s \in Students
      PROVE  Len(progress[l][s]) <= 1
  <2>1. progress \in [Lessons -> [Students -> {<<>>} \cup {<<x>> : x \in Ratings}]]
    BY DEF Init
  <2>2. progress[l] \in [Students -> {<<>>} \cup {<<x>> : x \in Ratings}]
    BY <2>1
  <2>3. progress[l][s] \in {<<>>} \cup {<<x>> : x \in Ratings}
    BY <2>2
  <2>5. CASE progress[l][s] = <<>>
    BY <2>5
  <2>6. ASSUME NEW x \in Ratings, progress[l][s] = <<x>>
        PROVE  Len(progress[l][s]) <= 1
    BY <2>6
  <2> QED
    BY <2>3, <2>5, <2>6
<1> QED
  BY <1>1, <1>2 DEF OneRecordPerStudent

LEMMA RacesStep ==
    TypeOK /\ Locals /\ Races /\ OneRecordPerStudent /\ [Next]_vars =>
       (Races /\ OneRecordPerStudent)'
<1> SUFFICES ASSUME TypeOK, Locals, Races, OneRecordPerStudent, [Next]_vars
             PROVE  (Races /\ OneRecordPerStudent)'
  OBVIOUS
<1>1. CASE UNCHANGED vars
  BY <1>1 DEF vars, tables, history, Races, OneRecordPerStudent, Active, Les
<1>2. ASSUME NEW p \in Requests, Arrive(p) \/ Statement(p) \/ Fail(p)
      PROVE  (Races /\ OneRecordPerStudent)'
  <2>1. /\ \A q \in Requests \ {p} : pc'[q] = pc[q] /\ job'[q] = job[q]
        /\ raced \subseteq raced'
    BY <1>2, OwnStep, RacedGrows
  <2>2. ASSUME NEW q \in Requests \ {p}, Active(q)', Active(p)',
               job'[q].op = "save", job'[p].op = "save", Les(q)' = Les(p)'
        PROVE  Les(q)' \in raced'
    <3>1. Active(q) /\ job[q].op = "save" /\ Les(q)' = Les(q)
      BY <2>1, <2>2 DEF Active, Les
    <3>2. /\ Les(p)' = Les(p) /\ job[p].op = "save"
          /\ \/ Saving(Les(p)) # {} => Les(p) \in raced'
             \/ Active(p) /\ raced' = raced
      BY <1>2, <2>2, SavesGoOn
    <3>3. q \in Saving(Les(p))
      BY <2>2, <3>1, <3>2 DEF Saving, Les
    <3> QED
      BY <2>2, <3>1, <3>2, <3>3 DEF Races
  <2>3. ASSUME NEW q \in Requests, NEW r \in Requests, q # r, Active(q)', Active(r)',
               job'[q].op = "save", job'[r].op = "save", Les(q)' = Les(r)'
        PROVE  Les(q)' \in raced'
    <3>1. CASE q = p
      BY <2>2, <2>3, <3>1
    <3>2. CASE r = p
      BY <2>2, <2>3, <3>2
    <3>3. CASE q # p /\ r # p
      BY <2>1, <2>3, <3>3 DEF Races, Active, Les
    <3> QED
      BY <3>1, <3>2, <3>3
  <2>4. ASSUME NEW q \in Requests, pc'[q] = "insertRow", Les(q)' \notin raced'
        PROVE  progress'[Les(q)'][job'[q].cur] = <<>>
    <3>1. CASE q = p
      <4>1. LookUp(p)
        BY <1>2, <2>4, <3>1, ToInsertRow
      <4>2. PICK s \in job[p].todo :
               /\ job' = [job EXCEPT ![p].cur = s, ![p].todo = @ \ {s}]
               /\ pc' = [pc EXCEPT ![p] = IF progress[Les(p)][s] = <<>>
                                          THEN "insertRow" ELSE "updateRows"]
        BY <4>1 DEF LookUp, Goto
      <4>3. job'[p].cur = s /\ job'[p].lesson = job[p].lesson
        BY <4>2 DEF TypeOK, Job
      <4>4. progress[Les(p)][s] = <<>> /\ progress' = progress
        BY <2>4, <3>1, <4>1, <4>2 DEF TypeOK, LookUp, tables
      <4> QED
        BY <3>1, <4>3, <4>4 DEF Les
    <3>2. CASE q # p
      <4> DEFINE l == Les(q)
                 s == job[q].cur
      <4>1. pc[q] = "insertRow" /\ Les(q)' = l /\ job'[q].cur = s /\ l \notin raced
        BY <2>1, <2>4, <3>2 DEF Les
      <4>2. /\ Active(q) /\ job[q].op = "save" /\ l \in Lessons /\ s \in Students
        BY <4>1 DEF Locals, Local, Active, Resting, Les
      <4>3. progress[l][s] = <<>>
        BY <4>1 DEF Races
      <4>4. ~(InsertRow(p) /\ Les(p) = l)
        BY <3>2, <4>1, <4>2 DEF Races, InsertRow, Locals, Local, Active, Resting
      <4>5. [i \in 1..Len(<<>>) |-> Rating(p)] = <<>>
        OBVIOUS
      <4>6. progress'[l][s] = <<>>
        <5> HIDE DEF l, s
        <5>2. [i \in 1..Len(progress[l][s]) |-> Rating(p)] = <<>>
          BY <4>3, <4>5
        <5>3. CASE progress'[l][s] = progress[l][s]
          BY <4>3, <5>3
        <5>4. CASE progress'[l][s] = [i \in 1..Len(progress[l][s]) |-> Rating(p)]
          BY <5>2, <5>4
        <5> QED
          BY <1>2, <4>2, <4>4, <5>3, <5>4, ProgressStep
      <4> QED
        BY <4>1, <4>6
    <3> QED
      BY <3>1, <3>2
  <2>5. ASSUME NEW l \in Lessons \ raced', NEW s \in Students
        PROVE  Len(progress'[l][s]) <= 1
    <3>1. /\ l \notin raced /\ Len(progress[l][s]) <= 1
          /\ progress[l][s] \in Seq(Ratings)
      BY <2>1, <2>5 DEF OneRecordPerStudent, TypeOK
    <3>2. CASE progress'[l][s] \in {progress[l][s], <<>>}
      BY <3>1, <3>2
    <3>3. CASE /\ InsertRow(p) /\ Les(p) = l /\ job[p].cur = s
               /\ progress'[l][s] = Append(progress[l][s], Rating(p))
      <4>1. progress[l][s] = <<>>
        BY <3>1, <3>3 DEF Races, InsertRow
      <4>2. Rating(p) \in Ratings
        BY <3>3 DEF Rating, TypeOK, Job
      <4> QED
        BY <3>3, <4>1, <4>2
    <3>4. CASE progress'[l][s] = [i \in 1..Len(progress[l][s]) |-> Rating(p)]
      BY <3>1, <3>4
    <3> QED
      BY <1>2, <3>2, <3>3, <3>4, ProgressStep
  <2> QED
    BY <2>3, <2>4, <2>5 DEF Races, OneRecordPerStudent
<1> QED
  BY <1>1, <1>2 DEF Next

-----------------------------------------------------------------------------
(* What a deletion that has looked has not seen was written since. *)

MarkedLate(q) ==
    \A s \in Students : TRUE \in attend[Les(q)][s] => <<"mark", s>> \in late[q]
RatedLate(q) ==
    \A s \in Students : RatedIn(progress[Les(q)][s]) => <<"rating", s>> \in late[q]

Looked(q) ==
    job[q].op = "delete" =>
       /\ pc[q] = "ckProgress" /\ ~job[q].refuse => MarkedLate(q)
       /\ pc[q] \in {"delContent", "delAttend"} => MarkedLate(q)
       /\ pc[q] \in AfterProgress => RatedLate(q)

AllLooked == \A q \in Requests : Looked(q)

LEMMA LookedInit == Init => AllLooked
  BY DEF Init, AllLooked, Looked, AfterProgress

LEMMA RatedRows ==
    ASSUME NEW rows \in Seq(Ratings), NEW x \in Ratings
    PROVE  /\ ~RatedIn(<<>>)
           /\ RatedIn(Append(rows, x)) => RatedIn(rows) \/ x \notin Blank
           /\ RatedIn([i \in 1..Len(rows) |-> x]) => x \notin Blank
           /\ RatedIn(rows) => RatedIn(Append(rows, x))
<1>1. ~RatedIn(<<>>)
  BY DEF RatedIn
<1>2. DOMAIN rows = 1..Len(rows) /\ Len(rows) \in Nat
  OBVIOUS
<1>3. /\ DOMAIN Append(rows, x) = 1..(Len(rows) + 1)
      /\ \A i \in 1..Len(rows) : Append(rows, x)[i] = rows[i]
      /\ Append(rows, x)[Len(rows) + 1] = x
  OBVIOUS
<1>4. RatedIn(Append(rows, x)) => RatedIn(rows) \/ x \notin Blank
  BY <1>2, <1>3 DEF RatedIn
<1>5. RatedIn(rows) => RatedIn(Append(rows, x))
  BY <1>2, <1>3 DEF RatedIn
<1>6. RatedIn([i \in 1..Len(rows) |-> x]) => x \notin Blank
  BY <1>2 DEF RatedIn
<1> QED
  BY <1>1, <1>4, <1>5, <1>6

\* The notes of a deletion stay until it ends.
LEMMA NotesStay ==
    ASSUME TypeOK, NEW p \in Requests, Statement(p), NEW q \in Requests
    PROVE  late[q] \subseteq late'[q]
<1>1. CASE UNCHANGED late
  BY <1>1
<1>2. ASSUME NEW kind, NEW s, NEW stages, Overlooked(p, kind, s, stages)
      PROVE  late[q] \subseteq late'[q]
  BY <1>2 DEF Overlooked, TypeOK
<1>3. CASE MarkStudent(p)
  BY <1>1, <1>2, <1>3 DEF MarkStudent
<1>4. CASE InsertRow(p) \/ UpdateRows(p)
  BY <1>1, <1>2, <1>4 DEF InsertRow, UpdateRows, NoteRating
<1> QED
  BY <1>1, <1>3, <1>4 DEF history, Statement, InsertLesson, CompareStudents, InsertStudent,
     InsertStudentsDone, DeleteStudent, DeleteStudentsDone, ReplaceContent, InsertContent,
     InsertContentDone, CleanProgress, MarksDone, LookUp, SaveDone, CheckAttendance,
     CheckProgress, DeleteContent, DeleteAttend, DeleteProgress, DeleteLessonRow,
     DeletePresenters, InsertPresenter, ShareDone

LEMMA OthersNotes ==
    ASSUME TypeOK, NEW p \in Requests, Arrive(p) \/ Statement(p) \/ Fail(p),
           NEW q \in Requests \ {p}
    PROVE  late[q] \subseteq late'[q]
<1>1. CASE Statement(p)
  BY <1>1, NotesStay
<1>2. CASE Arrive(p) \/ Fail(p)
  BY <1>2 DEF Arrive, BeginNew, BeginUpdate, BeginDelete, BeginArchive, BeginShare,
     OpenRecords, BeginSave, Begin, Fail, TypeOK
<1> QED
  BY <1>1, <1>2

\* A mark that appears is noted by the deletions that have looked for marks.
LEMMA MarksNoted ==
    ASSUME TypeOK, Locals, NEW p \in Requests, Arrive(p) \/ Statement(p) \/ Fail(p),
           NEW q \in Requests, job[q].op = "delete", Les(q) \in Lessons,
           pc[q] \in AfterAttendance, NEW s \in Students,
           TRUE \notin attend[Les(q)][s], TRUE \in attend'[Les(q)][s]
    PROVE  <<"mark", s>> \in late'[q]
<1> DEFINE l == Les(q)
<1>1. /\ MarkStudent(p) /\ Les(p) = l
      /\ attend'[l][s] = IF attend[l][s] = {} THEN {} ELSE MarkOf(job[p], s)
      /\ s \in job[p].marked => Overlooked(p, "mark", s, AfterAttendance)
  <2>1. l \in Lessons /\ TRUE \notin attend[l][s] /\ TRUE \in attend'[l][s]
    OBVIOUS
  <2> HIDE DEF l
  <2>2. attend'[l][s] # attend[l][s] /\ attend'[l][s] # {}
        /\ attend'[l][s] # attend[l][s] \cup {FALSE}
    BY <2>1
  <2> QED
    BY <2>1, <2>2, AttendStep
<1>2. s \in job[p].marked
  BY <1>1 DEF MarkOf
<1> QED
  BY <1>1, <1>2 DEF Overlooked, TypeOK

LEMMA RatingsNoted ==
    ASSUME TypeOK, Locals, NEW p \in Requests, Arrive(p) \/ Statement(p) \/ Fail(p),
           NEW q \in Requests, job[q].op = "delete", Les(q) \in Lessons,
           pc[q] \in AfterProgress, NEW s \in Students,
           ~RatedIn(progress[Les(q)][s]), RatedIn(progress'[Les(q)][s])
    PROVE  <<"rating", s>> \in late'[q]
<1> DEFINE l == Les(q)
<1>1. progress[l][s] \in Seq(Ratings)
  BY DEF TypeOK
<1>2. ASSUME Les(p) = l, job[p].cur = s, InsertRow(p) \/ UpdateRows(p),
             Rating(p) \notin Blank
      PROVE  <<"rating", s>> \in late'[q]
  BY <1>2 DEF InsertRow, UpdateRows, NoteRating, Overlooked, TypeOK
<1>3. ASSUME job[p].cur = s
      PROVE  Rating(p) \in Ratings
  BY <1>3 DEF Rating, TypeOK, Job
<1> HIDE DEF l
<1>4. CASE /\ InsertRow(p) /\ Les(p) = l /\ job[p].cur = s
           /\ progress'[l][s] = Append(progress[l][s], Rating(p))
  BY <1>1, <1>2, <1>3, <1>4, RatedRows DEF l
<1>5. CASE /\ UpdateRows(p) /\ Les(p) = l /\ job[p].cur = s
           /\ progress'[l][s] = [i \in 1..Len(progress[l][s]) |-> Rating(p)]
  <2>1. Rating(p) \in Ratings
    BY <1>3, <1>5
  <2>2. RatedIn([i \in 1..Len(progress[l][s]) |-> Rating(p)])
    BY <1>5 DEF l
  <2>3. Rating(p) \notin Blank
    BY <1>1, <2>1, <2>2, RatedRows
  <2> QED
    BY <1>2, <1>5, <2>3
<1>6. CASE progress'[l][s] = progress[l][s] \/ progress'[l][s] = <<>>
  BY <1>6, RatedRows DEF l, RatedIn
<1> QED
  BY <1>4, <1>5, <1>6, ProgressStep DEF l

LEMMA LookedStep == TypeOK /\ Locals /\ AllLooked /\ [Next]_vars => AllLooked'
<1> SUFFICES ASSUME TypeOK, Locals, AllLooked, [Next]_vars, NEW q \in Requests
             PROVE  Looked(q)'
  BY DEF AllLooked
<1>1. CASE UNCHANGED vars
  BY <1>1 DEF vars, tables, history, AllLooked, Looked, MarkedLate, RatedLate, Les, AfterProgress
<1>2. ASSUME NEW p \in Requests, Arrive(p) \/ Statement(p) \/ Fail(p), p # q
      PROVE  Looked(q)'
  <2>1. pc'[q] = pc[q] /\ job'[q] = job[q] /\ late[q] \subseteq late'[q]
    BY <1>2, OwnStep, OthersNotes
  <2>2. ASSUME job[q].op = "delete", pc[q] \in AfterAttendance, MarkedLate(q)
        PROVE  MarkedLate(q)'
    <3>1. Les(q) \in Lessons /\ Les(q)' = Les(q)
      BY <2>1, <2>2, LesKnown DEF AfterAttendance, Active, Resting, Les
    <3> QED
      BY <1>2, <2>1, <2>2, <3>1, MarksNoted DEF MarkedLate
  <2>3. ASSUME job[q].op = "delete", pc[q] \in AfterProgress, RatedLate(q)
        PROVE  RatedLate(q)'
    <3>1. Les(q) \in Lessons /\ Les(q)' = Les(q)
      BY <2>1, <2>3, LesKnown DEF AfterProgress, Active, Resting, Les
    <3> QED
      BY <1>2, <2>1, <2>3, <3>1, RatingsNoted DEF RatedLate
  <2> QED
    BY <2>1, <2>2, <2>3 DEF AllLooked, Looked, AfterAttendance, AfterProgress
<1>3. CASE Arrive(q) \/ Fail(q)
  <2>1. ~(job'[q].op = "delete" /\ pc'[q] \in AfterAttendance \cup AfterProgress)
    <3>1. CASE BeginNew(q) \/ BeginUpdate(q)
      <4>1. pc'[q] \in {"insert", "compare"}
        BY <3>1 DEF BeginNew, BeginUpdate, Begin, Goto, TypeOK
      <4> QED
        BY <4>1 DEF AfterAttendance, AfterProgress
    <3>2. CASE BeginArchive(q)
      <4>1. job'[q].op = "archive"
        BY <3>2 DEF BeginArchive, Begin, Asked, TypeOK
      <4> QED
        BY <4>1
    <3>3. CASE BeginDelete(q) \/ BeginShare(q) \/ OpenRecords(q) \/ BeginSave(q) \/ Fail(q)
      <4>1. pc'[q] \in {"ckAttendance", "unshare", "page", "mark", "failed"}
        BY <3>3 DEF BeginDelete, BeginShare, OpenRecords, BeginSave, Fail, Begin, Goto, TypeOK
      <4> QED
        BY <4>1 DEF AfterAttendance, AfterProgress
    <3> QED
      BY <1>3, <3>1, <3>2, <3>3 DEF Arrive
  <2> QED
    BY <2>1 DEF Looked, AfterAttendance, AfterProgress
<1>4. CASE Statement(q)
  <2>1. late[q] \subseteq late'[q]
    BY <1>4, NotesStay
  <2>2. CASE CheckAttendance(q)
    <3>1. /\ job' = [job EXCEPT ![q].refuse = \E s \in Students : TRUE \in attend[Les(q)][s]]
          /\ pc'[q] = "ckProgress" /\ attend' = attend
      BY <2>2 DEF CheckAttendance, Goto, TypeOK, tables
    <3>2. /\ Les(q)' = Les(q)
          /\ ~job'[q].refuse => ~\E s \in Students : TRUE \in attend[Les(q)][s]
      BY <3>1 DEF TypeOK, Job, Les
    <3> QED
      BY <3>1, <3>2 DEF Looked, MarkedLate, AfterProgress
  <2>3. CASE CheckProgress(q)
    <3>1. /\ pc[q] = "ckProgress" /\ attend' = attend /\ progress' = progress
          /\ pc'[q] = "delContent" =>
                ~job[q].refuse /\ \A s \in Students : ~RatedIn(progress[Les(q)][s])
          /\ pc'[q] \in {"delContent", "unshare"}
      BY <2>3 DEF CheckProgress, Goto, TypeOK, tables
    <3>2. Les(q)' = Les(q) /\ job'[q].op = job[q].op
      BY <1>4, <3>1, StatementKeeps DEF Les
    <3> QED
      BY <2>1, <3>1, <3>2 DEF AllLooked, Looked, MarkedLate, RatedLate, AfterProgress
  <2>4. CASE DeleteContent(q)
    <3>1. /\ pc[q] = "delContent" /\ pc'[q] = "delAttend" /\ job'[q] = job[q]
          /\ attend' = attend /\ progress' = progress
      BY <2>4 DEF DeleteContent, Goto, TypeOK
    <3> QED
      BY <2>1, <3>1 DEF AllLooked, Looked, MarkedLate, RatedLate, AfterProgress, Les
  <2>5. CASE DeleteAttend(q)
    <3>1. /\ pc[q] = "delAttend" /\ pc'[q] \in {"delProgress", "delLesson"}
          /\ job'[q] = job[q] /\ progress' = progress
      BY <2>5 DEF DeleteAttend, Goto, TypeOK
    <3> QED
      BY <2>1, <3>1 DEF AllLooked, Looked, RatedLate, AfterProgress, Les
  <2>6. CASE \/ InsertLesson(q) \/ CompareStudents(q) \/ InsertStudent(q)
             \/ InsertStudentsDone(q) \/ DeleteStudent(q) \/ DeleteStudentsDone(q)
             \/ ReplaceContent(q) \/ InsertContent(q) \/ InsertContentDone(q) \/ CleanProgress(q)
             \/ MarkStudent(q) \/ MarksDone(q) \/ LookUp(q) \/ InsertRow(q) \/ UpdateRows(q)
             \/ SaveDone(q) \/ DeleteProgress(q) \/ DeleteLessonRow(q) \/ DeletePresenters(q)
             \/ InsertPresenter(q) \/ ShareDone(q)
    <3>1. pc'[q] \notin AfterAttendance \cup AfterProgress
      BY <2>6 DEF AfterAttendance, AfterProgress, Goto, TypeOK, InsertLesson, CompareStudents,
         InsertStudent, InsertStudentsDone, DeleteStudent, DeleteStudentsDone, ReplaceContent,
         InsertContent, InsertContentDone, CleanProgress, MarkStudent, MarksDone, LookUp,
         InsertRow, UpdateRows, SaveDone, DeleteProgress, DeleteLessonRow, DeletePresenters,
         InsertPresenter, ShareDone
    <3> QED
      BY <3>1 DEF Looked, AfterAttendance, AfterProgress
  <2> QED
    BY <1>4, <2>2, <2>3, <2>4, <2>5, <2>6 DEF Statement
<1> QED
  BY <1>1, <1>2, <1>3, <1>4 DEF Next

-----------------------------------------------------------------------------

LEMMA LessonsInvariant ==
    Spec => [](TypeOK /\ Locals /\ Races /\ OneRecordPerStudent /\ AllLooked)
<1>1. Init => TypeOK /\ Locals /\ Races /\ OneRecordPerStudent /\ AllLooked
  BY TypeInit, LocalInit, RacesInit, LookedInit
<1>2. /\ TypeOK /\ Locals /\ Races /\ OneRecordPerStudent /\ AllLooked
      /\ [Next]_vars
      => (TypeOK /\ Locals /\ Races /\ OneRecordPerStudent /\ AllLooked)'
  BY TypeStep, LocalStep, RacesStep, LookedStep
<1> QED
  BY <1>1, <1>2, PTL DEF Spec

\* Every variable keeps its type.
THEOREM LessonsTypeCorrect == Spec => []TypeOK
  BY LessonsInvariant, PTL

\* However many requests run and however often they fail, a student has two records of
\* a presentation only if two saves of it have overlapped.
THEOREM RecordsAreSingle == Spec => []OneRecordPerStudent
  BY LessonsInvariant, PTL

\* A mark of attendance is never deleted by a handler that looked for it and could see it.
THEOREM MarksGoKnowingly == Spec => MarksLostKnowingly
<1>1. TypeOK /\ Locals /\ AllLooked /\ [Next]_vars => LosesMarksKnowingly
  <2> SUFFICES ASSUME TypeOK, Locals, AllLooked, [Next]_vars,
                      NEW l \in Lessons, NEW s \in Students,
                      TRUE \in attend[l][s], TRUE \notin attend'[l][s]
               PROVE  MarkGivenUp(l, s)
    BY DEF LosesMarksKnowingly
  <2>1. PICK r \in Requests : Arrive(r) \/ Statement(r) \/ Fail(r)
    BY DEF Next, vars, tables
  <2>2. Local(r)
    BY DEF Locals
  <2>3. attend'[l][s] # attend[l][s] /\ attend[l][s] # {}
        /\ attend'[l][s] # attend[l][s] \cup {FALSE}
    OBVIOUS
  <2>4. CASE DeleteStudent(r) /\ Les(r) = l /\ s \in job[r].todo
    BY <2>2, <2>4 DEF DeleteStudent, Local, MarkGivenUp
  <2>5. CASE DeleteAttend(r) /\ Les(r) = l
    <3>1. pc[r] = "delAttend" /\ job[r].op \in {"delete", "archive"}
      BY <2>2, <2>5 DEF DeleteAttend, Local
    <3>2. job[r].op = "delete" => <<"mark", s>> \in late[r]
      BY <2>5, <3>1 DEF AllLooked, Looked, MarkedLate
    <3> QED
      BY <2>5, <3>1, <3>2 DEF MarkGivenUp
  <2>6. CASE /\ MarkStudent(r) /\ Les(r) = l /\ s \in job[r].todo
             /\ attend'[l][s] = IF attend[l][s] = {} THEN {} ELSE MarkOf(job[r], s)
    <3>1. pc[r] = "mark" /\ s \in job[r].want
      BY <2>2, <2>6 DEF MarkStudent, Local
    <3>2. s \notin job[r].marked
      BY <2>3, <2>6 DEF MarkOf
    <3> QED
      BY <2>6, <3>1, <3>2 DEF MarkGivenUp
  <2> QED
    BY <2>1, <2>3, <2>4, <2>5, <2>6, AttendStep
<1> QED
  BY <1>1, LessonsInvariant, PTL DEF MarksLostKnowingly, Spec

\* Nor is a rating.
THEOREM RatingsGoKnowingly == Spec => RatingsLostKnowingly
<1>1. TypeOK /\ Locals /\ AllLooked /\ [Next]_vars => LosesRatingsKnowingly
  <2> SUFFICES ASSUME TypeOK, Locals, AllLooked, [Next]_vars,
                      NEW l \in Lessons, NEW s \in Students,
                      RatedIn(progress[l][s]), ~RatedIn(progress'[l][s])
               PROVE  RatingGivenUp(l, s)
    BY DEF LosesRatingsKnowingly
  <2>1. PICK r \in Requests : Arrive(r) \/ Statement(r) \/ Fail(r)
    BY DEF Next, vars, tables
  <2>2. Local(r)
    BY DEF Locals
  <2>3. progress[l][s] \in Seq(Ratings) /\ progress[l][s] # progress'[l][s]
    BY DEF TypeOK
  <2>4. CASE CleanProgress(r) /\ Les(r) = l /\ s \notin Enrolled(l)
    BY <2>4 DEF CleanProgress, RatingGivenUp
  <2>5. CASE DeleteProgress(r) /\ Les(r) = l
    <3>1. pc[r] = "delProgress" /\ job[r].op = "delete"
      BY <2>2, <2>5 DEF DeleteProgress, Local
    <3> QED
      BY <2>5, <3>1 DEF AllLooked, Looked, RatedLate, AfterProgress, RatingGivenUp
  <2>6. CASE /\ InsertRow(r) /\ Les(r) = l /\ job[r].cur = s
             /\ progress'[l][s] = Append(progress[l][s], Rating(r))
    <3>1. Rating(r) \in Ratings
      BY <2>6 DEF Rating, TypeOK, Job
    <3> QED
      BY <2>3, <2>6, <3>1, RatedRows
  <2>7. CASE /\ UpdateRows(r) /\ Les(r) = l /\ job[r].cur = s
             /\ progress'[l][s] = [i \in 1..Len(progress[l][s]) |-> Rating(r)]
    <3>1. pc[r] = "updateRows"
      BY <2>7 DEF UpdateRows
    <3>2. Rating(r) \in Blank
      BY <2>3, <2>7 DEF RatedIn
    <3> QED
      BY <2>7, <3>1, <3>2 DEF RatingGivenUp
  <2> QED
    BY <2>1, <2>3, <2>4, <2>5, <2>6, <2>7, ProgressStep
<1> QED
  BY <1>1, LessonsInvariant, PTL DEF RatingsLostKnowingly, Spec
=============================================================================
