------------------------------- MODULE Lessons -------------------------------
(***************************************************************************)
(* The presentations ("lessons") of the Local database: who is enrolled    *)
(* (lesson_stud_att, with an attendance mark), what they were rated        *)
(* (progress_report), the equipment (lesson_content) and the teachers a    *)
(* presentation is shared with (lessonpresentedby).  They are written by   *)
(* Createlesson, Updatelesson, ProgressControlador.saveRecords, the two    *)
(* deleteLesson handlers and the two compartirLesson handlers.             *)
(*                                                                         *)
(* Each request is a thread of its own on a connection in auto-commit      *)
(* mode: every SQL statement is a step, and nothing holds the steps of a   *)
(* request together.  An SQLException ends a handler where it is, and the  *)
(* page says all the same that it went well.                               *)
(***************************************************************************)
EXTENDS Naturals, Sequences, FiniteSets

CONSTANTS
    Requests,      \* threads
    Lessons, Students, Contents, Teachers,
    Ratings,
    Blank,         \* the ratings with ids 6 and 7: empty and N/A
    EmptyRating,
    NoLesson, NoStudent, Nobody,
    Unless,        \* ops left out of an instance
    MaxRuns,       \* bound: requests ever made
    MaxFaults      \* bound: requests that end in an exception

ASSUME LessonsAssumption ==
    /\ Blank \subseteq Ratings /\ EmptyRating \in Blank
    /\ NoLesson \notin Lessons /\ NoStudent \notin Students /\ Nobody \notin Requests
    /\ MaxRuns \in Nat /\ MaxFaults \in Nat

VARIABLES
    lessons,     \* rows of lessons
    made,        \* ids handed out so far
    attend,      \* lesson_stud_att: the marks in the rows of a lesson and a student
    progress,    \* progress_report: the ratings in the rows of a lesson and a student
    content,     \* lesson_content
    presenters,  \* lessonpresentedby
    pc,          \* where a request is
    job,         \* what it was asked for, and its local variables
    runs, faults,
    raced,       \* history: lessons two saves of which have overlapped
    late,        \* history: marks and ratings saved since a deletion looked for them
    alone,       \* history: the request nothing has disturbed since it began ...
    base         \* ... and its lesson as it found it

tables == <<lessons, made, attend, progress, content, presenters>>
counts == <<runs, faults>>
history == <<raced, late, alone, base>>
vars == <<tables, pc, job, counts, history>>

Ops == {"none", "new", "update", "save", "delete", "archive", "share"}
Resting == {"idle", "page", "done", "failed"}

\* want: the students submitted; marked: those with an attendance;
\* uses, hosts: equipment and teachers submitted; todo: what a loop has left;
\* drop: students to be taken out; cur: the student whose rows were looked up; refuse: the message of deleteLesson.
Job == [op : Ops, lesson : Lessons \cup {NoLesson}, want : SUBSET Students,
        marked : SUBSET Students, rating : [Students -> Ratings],
        uses : SUBSET Contents, hosts : SUBSET Teachers,
        todo : SUBSET (Students \cup Contents \cup Teachers), drop : SUBSET Students,
        cur : Students \cup {NoStudent}, refuse : BOOLEAN]

Asked(op, l, want) ==
    [op |-> op, lesson |-> l, want |-> want, marked |-> {},
     rating |-> [s \in Students |-> EmptyRating], uses |-> {}, hosts |-> {},
     todo |-> {}, drop |-> {}, cur |-> NoStudent, refuse |-> FALSE]

Enrolled(l) == {s \in Students : attend[l][s] # {}}
Active(r) == pc[r] \notin Resting
Saving(l) == {r \in Requests : Active(r) /\ job[r].op = "save" /\ job[r].lesson = l}

\* A lesson as the history keeps it.
View(l) == [attend |-> attend[l], progress |-> progress[l], content |-> content[l]]
NoView == [attend |-> [s \in Students |-> {}], progress |-> [s \in Students |-> <<>>],
           content |-> {}]

\* The database holds lessons entered and rated one request after another.
Init ==
    /\ lessons \in SUBSET Lessons
    /\ made = lessons
    /\ attend \in [Lessons -> [Students -> {{}, {FALSE}, {TRUE}}]]
    /\ progress \in [Lessons -> [Students -> {<<>>} \cup {<<x>> : x \in Ratings}]]
    /\ content \in [Lessons -> SUBSET Contents]
    /\ presenters \in [Lessons -> SUBSET Teachers]
    /\ \A l \in Lessons :
          /\ \A s \in Students : progress[l][s] # <<>> => s \in Enrolled(l)
          /\ l \notin lessons => Enrolled(l) = {} /\ content[l] = {} /\ presenters[l] = {}
    /\ pc = [r \in Requests |-> "idle"]
    /\ job = [r \in Requests |-> Asked("none", NoLesson, {})]
    /\ runs = 0 /\ faults = 0
    /\ raced = {}
    /\ late = [r \in Requests |-> {}]
    /\ alone = Nobody
    /\ base = NoView

-----------------------------------------------------------------------------
(* A request comes in, from a page that may have been loaded long before.  *)

Goto(r, at) == pc' = [pc EXCEPT ![r] = at]

Begin(r, asked, at) ==
    /\ runs < MaxRuns
    /\ asked.op \notin Unless
    /\ runs' = runs + 1
    /\ Goto(r, at)
    /\ job' = [job EXCEPT ![r] = asked]
    /\ late' = [late EXCEPT ![r] = {}]
    /\ IF \E q \in Requests \ {r} : Active(q)
       THEN alone' = Nobody /\ base' = NoView
       ELSE /\ alone' = r
            /\ base' = IF asked.lesson = NoLesson THEN NoView ELSE View(asked.lesson)
    /\ UNCHANGED <<tables, faults>>

BeginNew(r) ==
    /\ ~Active(r)
    /\ \E want \in SUBSET Students \ {{}}, uses \in SUBSET Contents :
          Begin(r, [Asked("new", NoLesson, want) EXCEPT !.uses = uses], "insert")
    /\ UNCHANGED raced

BeginUpdate(r) ==
    /\ ~Active(r)
    /\ \E l \in made, want \in SUBSET Students \ {{}}, uses \in SUBSET Contents :
          Begin(r, [Asked("update", l, want) EXCEPT !.uses = uses], "compare")
    /\ UNCHANGED raced

BeginDelete(r) ==
    /\ ~Active(r)
    /\ \E l \in made : Begin(r, Asked("delete", l, {}), "ckAttendance")
    /\ UNCHANGED raced

BeginArchive(r) ==
    /\ ~Active(r)
    /\ \E l \in made : Begin(r, Asked("archive", l, {}), "delContent")
    /\ UNCHANGED raced

BeginShare(r) ==
    /\ ~Active(r)
    /\ \E l \in made, hosts \in SUBSET Teachers :
          Begin(r, [Asked("share", l, {}) EXCEPT !.hosts = hosts, !.todo = hosts], "unshare")
    /\ UNCHANGED raced

\* loadRecords and getRecords: the page lists the students enrolled now.
OpenRecords(r) ==
    /\ ~Active(r)
    /\ \E l \in lessons :
          /\ Enrolled(l) # {}
          /\ job' = [job EXCEPT ![r] = Asked("save", l, Enrolled(l))]
    /\ Goto(r, "page")
    /\ alone' = IF alone = r THEN Nobody ELSE alone
    /\ base' = IF alone = r THEN NoView ELSE base
    /\ UNCHANGED <<tables, counts, raced, late>>

BeginSave(r) ==
    /\ pc[r] = "page"
    /\ \E marked \in SUBSET job[r].want, rating \in [job[r].want -> Ratings] :
          Begin(r, [job[r] EXCEPT
                       !.marked = marked,
                       !.rating = [s \in Students |->
                           IF s \in job[r].want THEN rating[s] ELSE EmptyRating],
                       !.todo = job[r].want], "mark")
    /\ raced' = IF Saving(job[r].lesson) # {} THEN raced \cup {job[r].lesson} ELSE raced

-----------------------------------------------------------------------------
(* The statements, one step each.  Each acts for a request r on its lesson. *)

Les(r) == job[r].lesson

SetAttend(l, s, rows) == attend' = [attend EXCEPT ![l][s] = rows]
SetProgress(l, s, rows) == progress' = [progress EXCEPT ![l][s] = rows]

Todo(r, items) == job' = [job EXCEPT ![r].todo = items]

\* (Mutant: the id is still free.)
InsertLessonUncounted(r) ==
    /\ pc[r] = "insert"
    /\ \E l \in Lessons \ made :
          /\ lessons' = lessons \cup {l}
          /\ job' = [job EXCEPT ![r].lesson = l, ![r].todo = job[r].want]
          /\ base' = IF alone = r THEN View(l) ELSE base
    /\ Goto(r, "enrol")
    /\ UNCHANGED <<made, attend, progress, content, presenters, counts, raced, late, alone>>

\* Createlesson.newlesson inserts the lesson and reads its id back.
InsertLesson(r) ==
    /\ pc[r] = "insert"
    /\ \E l \in Lessons \ made :
          /\ lessons' = lessons \cup {l}
          /\ made' = made \cup {l}
          /\ job' = [job EXCEPT ![r].lesson = l, ![r].todo = job[r].want]
          /\ base' = IF alone = r THEN View(l) ELSE base
    /\ Goto(r, "enrol")
    /\ UNCHANGED <<attend, progress, content, presenters, counts, raced, late, alone>>

\* updatelesson: the students enrolled now against those of the page.
CompareStudents(r) ==
    /\ pc[r] = "compare"
    /\ job' = [job EXCEPT ![r].todo = job[r].want \ Enrolled(Les(r)),
                          ![r].drop = Enrolled(Les(r)) \ job[r].want]
    /\ Goto(r, "enrol")
    /\ UNCHANGED <<tables, counts, history>>

InsertStudent(r) ==
    /\ pc[r] = "enrol"
    /\ \E s \in job[r].todo :
          /\ SetAttend(Les(r), s, attend[Les(r)][s] \cup {FALSE})
          /\ Todo(r, job[r].todo \ {s})
    /\ UNCHANGED <<lessons, made, progress, content, presenters, pc, counts, history>>

InsertStudentsDone(r) ==
    /\ pc[r] = "enrol" /\ job[r].todo = {}
    /\ IF job[r].op = "new"
       THEN Goto(r, "equip") /\ Todo(r, job[r].uses)
       ELSE Goto(r, "drop") /\ Todo(r, job[r].drop)
    /\ UNCHANGED <<tables, counts, history>>

DeleteStudent(r) ==
    /\ pc[r] = "drop"
    /\ \E s \in job[r].todo :
          /\ SetAttend(Les(r), s, {})
          /\ Todo(r, job[r].todo \ {s})
    /\ UNCHANGED <<lessons, made, progress, content, presenters, pc, counts, history>>

\* (Mutant: without equipment there is nothing left to do.)
DoneWithoutEquipment(r) ==
    /\ pc[r] = "drop" /\ job[r].todo = {}
    /\ Goto(r, IF job[r].uses = {} THEN "done" ELSE "unequip")
    /\ UNCHANGED <<tables, job, counts, history>>

\* The equipment is left alone when none was submitted.
DeleteStudentsDone(r) ==
    /\ pc[r] = "drop" /\ job[r].todo = {}
    /\ Goto(r, IF job[r].uses = {} THEN "clean" ELSE "unequip")
    /\ UNCHANGED <<tables, job, counts, history>>

ReplaceContent(r) ==
    /\ pc[r] = "unequip"
    /\ content' = [content EXCEPT ![Les(r)] = {}]
    /\ Todo(r, job[r].uses)
    /\ Goto(r, "equip")
    /\ UNCHANGED <<lessons, made, attend, progress, presenters, counts, history>>

InsertContent(r) ==
    /\ pc[r] = "equip"
    /\ \E c \in job[r].todo :
          /\ content' = [content EXCEPT ![Les(r)] = @ \cup {c}]
          /\ Todo(r, job[r].todo \ {c})
    /\ UNCHANGED <<lessons, made, attend, progress, presenters, pc, counts, history>>

InsertContentDone(r) ==
    /\ pc[r] = "equip" /\ job[r].todo = {}
    /\ Goto(r, IF job[r].op = "new" THEN "done" ELSE "clean")
    /\ UNCHANGED <<tables, job, counts, history>>

\* cleanProgress: one statement on a connection of its own.
CleanProgress(r) ==
    /\ pc[r] = "clean"
    /\ progress' = [progress EXCEPT ![Les(r)] =
                        [s \in Students |-> IF s \in Enrolled(Les(r)) THEN @[s] ELSE <<>>]]
    /\ Goto(r, "done")
    /\ UNCHANGED <<lessons, made, attend, content, presenters, job, counts, history>>

-----------------------------------------------------------------------------
(* saveRecords. *)

\* What deletions under way no longer look for.
Overlooked(r, kind, s, stages) ==
    late' = [q \in Requests |->
                IF job[q].op = "delete" /\ Les(q) = Les(r) /\ pc[q] \in stages
                THEN late[q] \cup {<<kind, s>>}
                ELSE late[q]]

AfterAttendance == {"ckProgress", "delContent", "delAttend"}
AfterProgress == {"delContent", "delAttend", "delProgress"}

MarkOf(j, s) == IF s \in j.marked THEN {TRUE} ELSE {FALSE}

\* Only the row that is there is updated.
MarkStudent(r) ==
    /\ pc[r] = "mark"
    /\ \E s \in job[r].todo :
          /\ SetAttend(Les(r), s, IF s \in Enrolled(Les(r)) THEN MarkOf(job[r], s) ELSE {})
          /\ IF s \in job[r].marked
             THEN Overlooked(r, "mark", s, AfterAttendance)
             ELSE UNCHANGED late
          /\ Todo(r, job[r].todo \ {s})
    /\ UNCHANGED <<lessons, made, progress, content, presenters, pc, counts, raced, alone, base>>

MarksDone(r) ==
    /\ pc[r] = "mark" /\ job[r].todo = {}
    /\ Todo(r, job[r].want)
    /\ Goto(r, "lookUp")
    /\ UNCHANGED <<tables, counts, history>>

\* (Mutant: no row is looked for.)
NoLookUp(r) ==
    /\ pc[r] = "lookUp"
    /\ \E s \in job[r].todo :
          job' = [job EXCEPT ![r].cur = s, ![r].todo = @ \ {s}]
    /\ Goto(r, "insertRow")
    /\ UNCHANGED <<tables, counts, history>>

LookUp(r) ==
    /\ pc[r] = "lookUp"
    /\ \E s \in job[r].todo :
          /\ job' = [job EXCEPT ![r].cur = s, ![r].todo = @ \ {s}]
          /\ Goto(r, IF progress[Les(r)][s] = <<>> THEN "insertRow" ELSE "updateRows")
    /\ UNCHANGED <<tables, counts, history>>

Rating(r) == job[r].rating[job[r].cur]

NoteRating(r) ==
    IF Rating(r) \notin Blank
    THEN Overlooked(r, "rating", job[r].cur, AfterProgress)
    ELSE UNCHANGED late

InsertRow(r) ==
    /\ pc[r] = "insertRow"
    /\ SetProgress(Les(r), job[r].cur, Append(progress[Les(r)][job[r].cur], Rating(r)))
    /\ NoteRating(r)
    /\ Goto(r, "lookUp")
    /\ UNCHANGED <<lessons, made, attend, content, presenters, job, counts, raced, alone, base>>

\* All rows of the student, or none if they are gone by now.
UpdateRows(r) ==
    /\ pc[r] = "updateRows"
    /\ LET rows == progress[Les(r)][job[r].cur]
       IN  SetProgress(Les(r), job[r].cur, [i \in 1..Len(rows) |-> Rating(r)])
    /\ NoteRating(r)
    /\ Goto(r, "lookUp")
    /\ UNCHANGED <<lessons, made, attend, content, presenters, job, counts, raced, alone, base>>

SaveDone(r) ==
    /\ pc[r] = "lookUp" /\ job[r].todo = {}
    /\ Goto(r, "done")
    /\ UNCHANGED <<tables, job, counts, history>>

-----------------------------------------------------------------------------
(* deleteLesson of the home page, which looks first, and of the archive,   *)
(* which does not; compartirLesson.                                        *)

\* (Mutant: one row decides.)
CheckOneAttendance(r) ==
    /\ pc[r] = "ckAttendance"
    /\ \E s \in Students : job' = [job EXCEPT ![r].refuse = TRUE \in attend[Les(r)][s]]
    /\ Goto(r, "ckProgress")
    /\ UNCHANGED <<tables, counts, history>>

CheckAttendance(r) ==
    /\ pc[r] = "ckAttendance"
    /\ job' = [job EXCEPT ![r].refuse = \E s \in Students : TRUE \in attend[Les(r)][s]]
    /\ Goto(r, "ckProgress")
    /\ UNCHANGED <<tables, counts, history>>

RatedIn(rows) == \E i \in DOMAIN rows : rows[i] \notin Blank

\* (Mutant: the rows of one student decide.)
CheckOneProgress(r) ==
    /\ pc[r] = "ckProgress"
    /\ \E s \in Students :
          LET found == RatedIn(progress[Les(r)][s])
          IN  /\ job' = [job EXCEPT ![r].refuse = @ \/ found]
              /\ Goto(r, IF job[r].refuse \/ found THEN "unshare" ELSE "delContent")
    /\ UNCHANGED <<tables, counts, history>>

CheckProgress(r) ==
    /\ pc[r] = "ckProgress"
    /\ LET found == \E s \in Students : RatedIn(progress[Les(r)][s])
       IN  /\ job' = [job EXCEPT ![r].refuse = @ \/ found]
           /\ Goto(r, IF job[r].refuse \/ found THEN "unshare" ELSE "delContent")
    /\ UNCHANGED <<tables, counts, history>>

DeleteContent(r) ==
    /\ pc[r] = "delContent"
    /\ content' = [content EXCEPT ![Les(r)] = {}]
    /\ Goto(r, "delAttend")
    /\ UNCHANGED <<lessons, made, attend, progress, presenters, job, counts, history>>

DeleteAttend(r) ==
    /\ pc[r] = "delAttend"
    /\ attend' = [attend EXCEPT ![Les(r)] = [s \in Students |-> {}]]
    /\ Goto(r, IF job[r].op = "delete" THEN "delProgress" ELSE "delLesson")
    /\ UNCHANGED <<lessons, made, progress, content, presenters, job, counts, history>>

DeleteProgress(r) ==
    /\ pc[r] = "delProgress"
    /\ progress' = [progress EXCEPT ![Les(r)] = [s \in Students |-> <<>>]]
    /\ Goto(r, "delLesson")
    /\ UNCHANGED <<lessons, made, attend, content, presenters, job, counts, history>>

DeleteLessonRow(r) ==
    /\ pc[r] = "delLesson"
    /\ lessons' = lessons \ {Les(r)}
    /\ Goto(r, IF job[r].op = "delete" THEN "unshare" ELSE "done")
    /\ UNCHANGED <<made, attend, progress, content, presenters, job, counts, history>>

\* deleteLesson does this last, refused or not; compartirLesson first.
DeletePresenters(r) ==
    /\ pc[r] = "unshare"
    /\ presenters' = [presenters EXCEPT ![Les(r)] = {}]
    /\ Goto(r, IF job[r].op = "share" THEN "share" ELSE "done")
    /\ UNCHANGED <<lessons, made, attend, progress, content, job, counts, history>>

InsertPresenter(r) ==
    /\ pc[r] = "share"
    /\ \E t \in job[r].todo :
          /\ presenters' = [presenters EXCEPT ![Les(r)] = @ \cup {t}]
          /\ Todo(r, job[r].todo \ {t})
    /\ UNCHANGED <<lessons, made, attend, progress, content, pc, counts, history>>

ShareDone(r) ==
    /\ pc[r] = "share" /\ job[r].todo = {}
    /\ Goto(r, "done")
    /\ UNCHANGED <<tables, job, counts, history>>

-----------------------------------------------------------------------------
\* An exception, or the end of the server, between two statements.
Fail(r) ==
    /\ Active(r)
    /\ faults < MaxFaults
    /\ faults' = faults + 1
    /\ Goto(r, "failed")
    /\ alone' = IF alone = r THEN Nobody ELSE alone
    /\ base' = IF alone = r THEN NoView ELSE base
    /\ job' = [job EXCEPT ![r] = Asked("none", NoLesson, {})]
    /\ late' = [late EXCEPT ![r] = {}]
    /\ UNCHANGED <<tables, runs, raced>>

Arrive(r) ==
    \/ BeginNew(r) \/ BeginUpdate(r) \/ BeginDelete(r) \/ BeginArchive(r)
    \/ BeginShare(r) \/ OpenRecords(r) \/ BeginSave(r)

Statement(r) ==
    \/ InsertLesson(r) \/ CompareStudents(r) \/ InsertStudent(r) \/ InsertStudentsDone(r)
    \/ DeleteStudent(r) \/ DeleteStudentsDone(r) \/ ReplaceContent(r)
    \/ InsertContent(r) \/ InsertContentDone(r) \/ CleanProgress(r)
    \/ MarkStudent(r) \/ MarksDone(r) \/ LookUp(r) \/ InsertRow(r) \/ UpdateRows(r) \/ SaveDone(r)
    \/ CheckAttendance(r) \/ CheckProgress(r) \/ DeleteContent(r) \/ DeleteAttend(r)
    \/ DeleteProgress(r) \/ DeleteLessonRow(r) \/ DeletePresenters(r)
    \/ InsertPresenter(r) \/ ShareDone(r)

Next == \E r \in Requests : Arrive(r) \/ Statement(r) \/ Fail(r)

Spec == Init /\ [][Next]_vars
-----------------------------------------------------------------------------
(* Properties. *)

TypeOK ==
    /\ lessons \subseteq made /\ made \subseteq Lessons
    /\ attend \in [Lessons -> [Students -> SUBSET BOOLEAN]]
    /\ progress \in [Lessons -> [Students -> Seq(Ratings)]]
    /\ content \in [Lessons -> SUBSET Contents]
    /\ presenters \in [Lessons -> SUBSET Teachers]
    /\ pc \in [Requests -> Resting \cup
          {"insert", "enrol", "equip", "compare", "drop", "unequip", "clean", "mark",
           "lookUp", "insertRow", "updateRows", "ckAttendance", "ckProgress", "delContent",
           "delAttend", "delProgress", "delLesson", "unshare", "share"}]
    /\ job \in [Requests -> Job]
    /\ runs \in 0..MaxRuns /\ faults \in 0..MaxFaults
    /\ raced \subseteq Lessons
    /\ late \in [Requests -> SUBSET ({"mark", "rating"} \X Students)]
    /\ alone \in Requests \cup {Nobody}

\* The report of a presentation shows one record for each student: only two saves
\* that overlap can both find none and insert one each (ProgressControlador.java:353).
\* Once they have not, no later save, update or deletion makes a second.
OneRecordPerStudent ==
    \A l \in Lessons \ raced, s \in Students : Len(progress[l][s]) <= 1

MarkGivenUp(l, s) ==
    \E r \in Requests :
       /\ Les(r) = l
       /\ \/ pc[r] = "mark" /\ s \in job[r].want \ job[r].marked
          \/ pc[r] = "drop" /\ s \notin job[r].want
          \/ /\ pc[r] = "delAttend"
             /\ job[r].op = "archive" \/ <<"mark", s>> \in late[r]

LosesMarksKnowingly ==
    \A l \in Lessons, s \in Students :
       TRUE \in attend[l][s] /\ TRUE \notin attend'[l][s] => MarkGivenUp(l, s)

\* A mark of attendance goes only by the hand of somebody who decided so: a save
\* without it, an update without the student, the archive's deletion - or a
\* deletion on the home page that had looked before the mark was saved.  "Presentation
\* has attendance records,it can not be deleted" (LessonsListControlador.java:451)
\* protects every other.
MarksLostKnowingly == [][LosesMarksKnowingly]_vars

RatingGivenUp(l, s) ==
    \E r \in Requests :
       /\ Les(r) = l
       /\ \/ pc[r] = "updateRows" /\ s = job[r].cur /\ Rating(r) \in Blank
          \/ pc[r] = "clean" /\ s \notin Enrolled(l)
          \/ pc[r] = "delProgress" /\ <<"rating", s>> \in late[r]

LosesRatingsKnowingly ==
    \A l \in Lessons, s \in Students :
       RatedIn(progress[l][s]) /\ ~RatedIn(progress'[l][s]) => RatingGivenUp(l, s)

\* The same of ratings: the archive's deletion spares them, an update takes those
\* of students who are no longer enrolled (LessonsListControlador.java:462,
\* LessonArchiveControlador.java:482, Updatelesson.java:59).
RatingsLostKnowingly == [][LosesRatingsKnowingly]_vars

-----------------------------------------------------------------------------
(* What an undisturbed request makes of the lesson it found, whatever the  *)
(* requests before it left there.                                          *)

Recorded(v) == \E s \in Students : TRUE \in v.attend[s] \/ RatedIn(v.progress[s])

Result(j, v) ==
    CASE j.op = "new" ->
            [v EXCEPT !.attend = [s \in Students |-> IF s \in j.want THEN {FALSE} ELSE {}],
                      !.content = j.uses]
      [] j.op = "update" ->
            [attend |-> [s \in Students |->
                 IF s \notin j.want THEN {}
                 ELSE IF v.attend[s] = {} THEN {FALSE} ELSE v.attend[s]],
             progress |-> [s \in Students |-> IF s \in j.want THEN v.progress[s] ELSE <<>>],
             content |-> IF j.uses = {} THEN v.content ELSE j.uses]
      [] j.op = "save" ->
            [v EXCEPT !.attend = [s \in Students |->
                 IF s \in j.want /\ v.attend[s] # {} THEN MarkOf(j, s) ELSE v.attend[s]],
                      !.progress = [s \in Students |->
                 IF s \notin j.want THEN v.progress[s]
                 ELSE IF v.progress[s] = <<>> THEN <<j.rating[s]>>
                 ELSE [i \in 1..Len(v.progress[s]) |-> j.rating[s]]]]
      [] j.op = "delete" -> IF Recorded(v) THEN v ELSE NoView
      [] j.op = "archive" -> [NoView EXCEPT !.progress = v.progress]
      [] OTHER -> v

\* The loops of statements that Createlesson, Updatelesson, saveRecords and the
\* deletions run add up to one atomic change when nothing disturbs them, though they
\* start from what earlier overlaps and failures left: two records of a student, two
\* marks, records of students not enrolled, a lesson that is gone.
UndisturbedIsAtomic ==
    \A r \in Requests : alone = r /\ pc[r] = "done" =>
        LET after == Result(job[r], base)
        IN  /\ View(Les(r)) = after
            /\ job[r].op = "share" => presenters[Les(r)] = job[r].hosts
            /\ job[r].op = "delete" =>
                  /\ presenters[Les(r)] = {}
                  /\ ~Recorded(base) => Les(r) \notin lessons
=============================================================================
