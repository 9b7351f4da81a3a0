------------------------ MODULE LessonsAtomicProofs ------------------------
(***************************************************************************)
(* The proof that an undisturbed request of Lessons makes one atomic       *)
(* change of its lesson, however many statements it is made of.  Its       *)
(* invariant gives, for every place of a handler, what the request has     *)
(* made of the lesson so far, as a function of what it was asked for       *)
(* (job), of what its loop has left (job.todo) and of the lesson as it     *)
(* found it (base).                                                        *)
(***************************************************************************)
EXTENDS LessonsProofs

Views == [attend : [Students -> SUBSET BOOLEAN], progress : [Students -> Seq(Ratings)],
          content : SUBSET Contents]

\* The students a lesson had, what an update and a save make of a student, and what an
\* update or a new lesson makes of the equipment.
Had(v) == {s \in Students : v.attend[s] # {}}

Updated(j, v, s) ==
    IF s \notin j.want THEN {} ELSE IF s \in Had(v) THEN v.attend[s] ELSE {FALSE}

Remarked(j, v, s) == IF s \in j.want \cap Had(v) THEN MarkOf(j, s) ELSE v.attend[s]

Rerated(j, v, s) ==
    IF v.progress[s] = <<>> THEN <<j.rating[s]>>
    ELSE [i \in 1..Len(v.progress[s]) |-> j.rating[s]]

Equipped(j, v) == IF j.uses = {} THEN v.content ELSE j.uses

\* A request that began at v and is at a place of its handler has made this of it.
AttendIs(at, j, v, s) ==
    CASE at = "enrol" -> IF s \in j.want \ (Had(v) \cup j.todo) THEN {FALSE} ELSE v.attend[s]
      [] at = "drop" -> IF s \in j.todo THEN v.attend[s] ELSE Updated(j, v, s)
      [] at \in {"unequip", "equip", "clean"} -> Updated(j, v, s)
      [] at = "mark" -> IF s \in j.todo THEN v.attend[s] ELSE Remarked(j, v, s)
      [] at \in {"lookUp", "insertRow", "updateRows"} -> Remarked(j, v, s)
      [] at \in {"delProgress", "delLesson"} -> {}
      [] at \in {"unshare", "done"} -> Result(j, v).attend[s]
      [] OTHER -> v.attend[s]

ProgressIs(at, j, v, s) ==
    CASE at = "lookUp" -> IF s \in j.want \ j.todo THEN Rerated(j, v, s) ELSE v.progress[s]
      [] at \in {"insertRow", "updateRows"} ->
            IF s \in j.want \ (j.todo \cup {j.cur}) THEN Rerated(j, v, s) ELSE v.progress[s]
      [] at = "delLesson" -> IF j.op = "delete" THEN <<>> ELSE v.progress[s]
      [] at \in {"unshare", "done"} -> Result(j, v).progress[s]
      [] OTHER -> v.progress[s]

ContentIs(at, j, v) ==
    CASE at = "equip" -> j.uses \ j.todo
      [] at = "clean" -> Equipped(j, v)
      [] at \in {"delAttend", "delProgress", "delLesson"} -> {}
      [] at \in {"unshare", "done"} -> Result(j, v).content
      [] OTHER -> v.content

\* And it is at that place because of this.
Ways(at, j, v) ==
    /\ at = "insert" => j.op = "new"
    /\ at \in {"compare", "drop", "unequip", "clean"} => j.op = "update"
    /\ at \in {"enrol", "equip"} =>
          \/ j.op = "update"
          \/ j.op = "new" /\ Had(v) = {} /\ v.content = {}
    /\ at = "enrol" =>
          /\ j.todo \subseteq j.want \ Had(v)
          /\ j.op = "update" => j.drop = Had(v) \ j.want
    /\ at = "drop" => j.todo \subseteq Had(v) \ j.want
    /\ at = "equip" => j.todo \subseteq j.uses
    /\ at \in {"unequip", "equip"} /\ j.op = "update" => j.uses # {}
    /\ at \in {"mark", "lookUp", "insertRow", "updateRows"} =>
          j.op = "save" /\ j.todo \subseteq j.want
    /\ at \in {"insertRow", "updateRows"} =>
          /\ j.cur \in j.want \ j.todo
          /\ at = "insertRow" <=> v.progress[j.cur] = <<>>
    /\ at \in {"ckAttendance", "ckProgress", "delProgress"} => j.op = "delete"
    /\ at = "ckProgress" => j.refuse = \E s \in Students : TRUE \in v.attend[s]
    /\ at \in {"delContent", "delAttend", "delLesson"} => j.op \in {"delete", "archive"}
    /\ at \in {"delContent", "delAttend", "delProgress", "delLesson"} /\ j.op = "delete" =>
          ~Recorded(v)
    /\ at = "unshare" => j.op = "delete" \/ (j.op = "share" /\ j.todo = j.hosts)
    /\ at = "share" => j.op = "share" /\ j.todo \subseteq j.hosts

\* Its lesson shows it, and so do the teachers of the lesson.
Shows(r) ==
    /\ \A s \in Students :
          /\ attend[Les(r)][s] = AttendIs(pc[r], job[r], base, s)
          /\ progress[Les(r)][s] = ProgressIs(pc[r], job[r], base, s)
    /\ content[Les(r)] = ContentIs(pc[r], job[r], base)

Hosted(r) ==
    /\ pc[r] = "share" => presenters[Les(r)] = job[r].hosts \ job[r].todo
    /\ pc[r] = "done" /\ job[r].op = "share" => presenters[Les(r)] = job[r].hosts
    /\ pc[r] = "done" /\ job[r].op = "delete" => presenters[Les(r)] = {}
    /\ pc[r] \in {"unshare", "done"} /\ job[r].op = "delete" /\ ~Recorded(base) =>
          Les(r) \notin lessons

Quiet(r) ==
    /\ Active(r) \/ pc[r] = "done"
    /\ \A q \in Requests \ {r} : ~Active(q)
    /\ base \in Views
    /\ Les(r) \in Lessons \/ pc[r] = "insert"
    /\ Ways(pc[r], job[r], base)
    /\ pc[r] # "insert" => Shows(r)
    /\ Hosted(r)

\* A request nothing has disturbed is the only one under way.
Undisturbed == \A r \in Requests : alone = r => Quiet(r)

\* The lesson of a request has had an id, and an id to come has no rows.
Known == \A r \in Requests :
            (Active(r) /\ pc[r] # "insert") \/ pc[r] = "page" => Les(r) \in made

Fresh == \A l \in Lessons \ made :
            (\A s \in Students : attend[l][s] = {}) /\ content[l] = {}
-----------------------------------------------------------------------------
(* The operators. *)

LEMMA Results ==
    ASSUME NEW j \in Job, NEW v \in Views
    PROVE  /\ j.op = "new" =>
                 /\ \A s \in Students :
                       Result(j, v).attend[s] = IF s \in j.want THEN {FALSE} ELSE {}
                 /\ Result(j, v).progress = v.progress
                 /\ Result(j, v).content = j.uses
           /\ j.op = "update" =>
                 /\ \A s \in Students :
                       /\ Result(j, v).attend[s] = Updated(j, v, s)
                       /\ Result(j, v).progress[s] =
                             IF s \in j.want THEN v.progress[s] ELSE <<>>
                 /\ Result(j, v).content = Equipped(j, v)
           /\ j.op = "save" =>
                 /\ \A s \in Students :
                       /\ Result(j, v).attend[s] = Remarked(j, v, s)
                       /\ Result(j, v).progress[s] =
                             IF s \in j.want THEN Rerated(j, v, s) ELSE v.progress[s]
                 /\ Result(j, v).content = v.content
           /\ j.op = "delete" => Result(j, v) = IF Recorded(v) THEN v ELSE NoView
           /\ j.op = "archive" => Result(j, v) = [NoView EXCEPT !.progress = v.progress]
           /\ j.op = "share" => Result(j, v) = v
<1> USE DEF Result, Views
<1>1. CASE j.op = "new"
  BY <1>1
<1>2. CASE j.op = "update"
  BY <1>2 DEF Updated, Had, Equipped
<1>3. CASE j.op = "save"
  BY <1>3 DEF Remarked, Had, Rerated
<1>4. CASE j.op \in {"delete", "archive", "share"}
  BY <1>4
<1>5. CASE j.op = "none"
  BY <1>5
<1> QED
  BY <1>1, <1>2, <1>3, <1>4, <1>5 DEF Job, Ops

LEMMA ResultTyped ==
    ASSUME NEW j \in Job, NEW v \in Views
    PROVE  Result(j, v) \in Views
<1>1. /\ j.want \subseteq Students /\ j.uses \subseteq Contents
      /\ \A s \in Students : j.rating[s] \in Ratings
      /\ j.op \in Ops
  BY DEF Job
<1>2. /\ \A s \in Students : v.attend[s] \in SUBSET BOOLEAN /\ v.progress[s] \in Seq(Ratings)
      /\ v.content \subseteq Contents /\ v.progress \in [Students -> Seq(Ratings)]
      /\ NoView \in Views
  BY DEF Views, NoView
<1>3. CASE j.op = "new"
  <2> DEFINE a == [s \in Students |-> IF s \in j.want THEN {FALSE} ELSE {}]
  <2>1. a \in [Students -> SUBSET BOOLEAN]
    OBVIOUS
  <2> HIDE DEF a
  <2>2. [v EXCEPT !.attend = a, !.content = j.uses] \in Views
    BY <1>1, <2>1 DEF Views
  <2> QED
    BY <1>3, <2>2 DEF Result, a
<1>4. CASE j.op = "update"
  <2> DEFINE a == [s \in Students |->
                      IF s \notin j.want THEN {}
                      ELSE IF v.attend[s] = {} THEN {FALSE} ELSE v.attend[s]]
             p == [s \in Students |-> IF s \in j.want THEN v.progress[s] ELSE <<>>]
             c == IF j.uses = {} THEN v.content ELSE j.uses
  <2>1. a \in [Students -> SUBSET BOOLEAN]
    BY <1>2
  <2>2. p \in [Students -> Seq(Ratings)]
    BY <1>2
  <2>3. c \subseteq Contents
    BY <1>1, <1>2
  <2>4. Result(j, v) = [attend |-> a, progress |-> p, content |-> c]
    BY <1>4 DEF Result
  <2> HIDE DEF a, p, c
  <2> QED
    BY <2>1, <2>2, <2>3, <2>4 DEF Views
<1>5. CASE j.op = "save"
  <2> DEFINE a == [s \in Students |->
                      IF s \in j.want /\ v.attend[s] # {} THEN MarkOf(j, s) ELSE v.attend[s]]
             p == [s \in Students |->
                      IF s \notin j.want THEN v.progress[s]
                      ELSE IF v.progress[s] = <<>> THEN <<j.rating[s]>>
                      ELSE [i \in 1..Len(v.progress[s]) |-> j.rating[s]]]
  <2>1. a \in [Students -> SUBSET BOOLEAN]
    BY <1>2 DEF MarkOf
  <2>2. p \in [Students -> Seq(Ratings)]
    <3>1. ASSUME NEW s \in Students
          PROVE  p[s] \in Seq(Ratings)
      <4>1. j.rating[s] \in Ratings /\ v.progress[s] \in Seq(Ratings)
        BY <1>1, <1>2
      <4>2. <<j.rating[s]>> \in Seq(Ratings)
        BY <4>1
      <4>3. [i \in 1..Len(v.progress[s]) |-> j.rating[s]] \in Seq(Ratings)
        BY <4>1
      <4> QED
        BY <4>1, <4>2, <4>3
    <3> QED
      BY <3>1
  <2>3. Result(j, v) = [v EXCEPT !.attend = a, !.progress = p]
    BY <1>5 DEF Result
  <2> HIDE DEF a, p
  <2> QED
    BY <2>1, <2>2, <2>3 DEF Views
<1>6. CASE j.op = "delete"
  BY <1>2, <1>6 DEF Result
<1>7. CASE j.op = "archive"
  <2>1. [NoView EXCEPT !.progress = v.progress] \in Views
    BY <1>2 DEF Views
  <2> QED
    BY <1>7, <2>1 DEF Result
<1>8. CASE j.op \in {"share", "none"}
  BY <1>8 DEF Result
<1> QED
  BY <1>1, <1>3, <1>4, <1>5, <1>6, <1>7, <1>8 DEF Ops

\* Two views are the same when they say the same of every student.
LEMMA SameView ==
    ASSUME NEW u \in Views, NEW v \in Views,
           \A s \in Students : u.attend[s] = v.attend[s] /\ u.progress[s] = v.progress[s],
           u.content = v.content
    PROVE  u = v
<1>1. u.attend = v.attend
  BY DEF Views
<1>2. u.progress = v.progress
  BY DEF Views
<1> QED
  BY <1>1, <1>2 DEF Views

LEMMA ViewsTyped ==
    ASSUME TypeOK
    PROVE  NoView \in Views /\ \A l \in Lessons : View(l) \in Views
  BY DEF TypeOK, Views, NoView, View

LEMMA AlonesStay ==
    ASSUME NEW r \in Requests, TypeOK, Statement(r)
    PROVE  alone' = alone /\ (pc[r] # "insert" => base' = base)
  BY DEF history, Statement, InsertLesson, CompareStudents, InsertStudent,
     InsertStudentsDone, DeleteStudent, DeleteStudentsDone, ReplaceContent, InsertContent,
     InsertContentDone, CleanProgress, MarkStudent, MarksDone, LookUp, InsertRow, UpdateRows,
     SaveDone, CheckAttendance, CheckProgress, DeleteContent, DeleteAttend, DeleteProgress,
     DeleteLessonRow, DeletePresenters, InsertPresenter, ShareDone

-----------------------------------------------------------------------------
(* A request comes in. *)

\* Where a handler starts it has made nothing of the lesson.
Starts(at, j, v) ==
    /\ Ways(at, j, v)
    /\ \A s \in Students : AttendIs(at, j, v, s) = v.attend[s] /\ ProgressIs(at, j, v, s) = v.progress[s]
    /\ ContentIs(at, j, v) = v.content

LEMMA BeginQuiet ==
    ASSUME TypeOK, NEW r \in Requests, NEW j \in Job, NEW at,
           at \in {"insert", "compare", "ckAttendance", "delContent", "unshare", "mark"},
           at = "unshare" => j.op = "share",
           IF at = "insert" THEN j.lesson = NoLesson /\ j.op = "new"
                            ELSE j.lesson \in Lessons /\ \A v \in Views : Starts(at, j, v),
           Begin(r, j, at)
    PROVE  Undisturbed'
<1> SUFFICES ASSUME NEW q \in Requests, alone' = q
             PROVE  Quiet(q)'
  BY DEF Undisturbed
<1>1. /\ q = r /\ pc'[r] = at /\ job'[r] = j
      /\ \A p \in Requests \ {r} : ~Active(p) /\ pc'[p] = pc[p]
      /\ base' = IF j.lesson = NoLesson THEN NoView ELSE View(j.lesson)
      /\ attend' = attend /\ progress' = progress /\ content' = content
  BY LessonsAssumption DEF Begin, Goto, TypeOK, tables
<1>2. base' \in Views
  BY <1>1, ViewsTyped, LessonsAssumption
<1>3. Active(r)' /\ \A p \in Requests \ {r} : ~Active(p)'
  BY <1>1 DEF Active, Resting
<1>4. Les(r)' = j.lesson
  BY <1>1 DEF Les
<1>5. at # "insert" => base' = View(j.lesson) /\ Starts(at, j, base')
  BY <1>1, <1>2, LessonsAssumption
<1>6. Ways(pc[r], job[r], base)'
  <2>1. CASE at = "insert"
    BY <1>1, <2>1 DEF Ways
  <2>2. CASE at # "insert"
    BY <1>1, <1>5, <2>2 DEF Starts
  <2> QED
    BY <2>1, <2>2
<1>7. at # "insert" => Shows(r)'
  BY <1>1, <1>4, <1>5 DEF Starts, Shows, View
<1>8. Hosted(r)'
  BY <1>1 DEF Hosted
<1> QED
  BY <1>1, <1>2, <1>3, <1>4, <1>6, <1>7, <1>8 DEF Quiet

LEMMA ArriveQuiet ==
    ASSUME TypeOK, Locals, Undisturbed, NEW r \in Requests, Arrive(r)
    PROVE  Undisturbed'
<1>1. made \subseteq Lessons /\ NoLesson \notin Lessons
  BY LessonsAssumption DEF TypeOK
<1>2. ASSUME NEW j \in Job
      PROVE  /\ \A uses \in SUBSET Contents : [j EXCEPT !.uses = uses] \in Job
             /\ \A hosts \in SUBSET Teachers :
                   [j EXCEPT !.hosts = hosts, !.todo = hosts] \in Job
  BY DEF Job
<1>3. CASE BeginNew(r)
  <2>1. PICK want \in SUBSET Students, uses \in SUBSET Contents :
           Begin(r, [Asked("new", NoLesson, want) EXCEPT !.uses = uses], "insert")
    BY <1>3 DEF BeginNew
  <2> DEFINE j == [Asked("new", NoLesson, want) EXCEPT !.uses = uses]
  <2>2. j \in Job /\ j.lesson = NoLesson /\ j.op = "new"
    BY <1>2, AskedTyped DEF Ops, Asked
  <2> HIDE DEF j
  <2> QED
    BY <2>1, <2>2, BeginQuiet DEF j
<1>4. CASE BeginUpdate(r)
  <2>1. PICK l \in made, want \in SUBSET Students, uses \in SUBSET Contents :
           Begin(r, [Asked("update", l, want) EXCEPT !.uses = uses], "compare")
    BY <1>4 DEF BeginUpdate
  <2> DEFINE j == [Asked("update", l, want) EXCEPT !.uses = uses]
  <2>2. j \in Job /\ j.lesson = l /\ j.op = "update"
    BY <1>1, <1>2, AskedTyped DEF Ops, Asked
  <2> HIDE DEF j
  <2>3. \A v \in Views : Starts("compare", j, v)
    BY <2>2 DEF Starts, Ways, AttendIs, ProgressIs, ContentIs
  <2>4. Begin(r, j, "compare")
    BY <2>1 DEF j
  <2> QED
    BY <1>1, <2>2, <2>3, <2>4, BeginQuiet
<1>5. CASE BeginDelete(r)
  <2>1. PICK l \in made : Begin(r, Asked("delete", l, {}), "ckAttendance")
    BY <1>5 DEF BeginDelete
  <2> DEFINE j == Asked("delete", l, {})
  <2>2. j \in Job /\ j.lesson = l /\ j.op = "delete"
    BY <1>1, AskedTyped DEF Ops, Asked
  <2> HIDE DEF j
  <2>3. \A v \in Views : Starts("ckAttendance", j, v)
    BY <2>2 DEF Starts, Ways, AttendIs, ProgressIs, ContentIs
  <2>4. Begin(r, j, "ckAttendance")
    BY <2>1 DEF j
  <2> QED
    BY <1>1, <2>2, <2>3, <2>4, BeginQuiet
<1>6. CASE BeginArchive(r)
  <2>1. PICK l \in made : Begin(r, Asked("archive", l, {}), "delContent")
    BY <1>6 DEF BeginArchive
  <2> DEFINE j == Asked("archive", l, {})
  <2>2. j \in Job /\ j.lesson = l /\ j.op = "archive"
    BY <1>1, AskedTyped DEF Ops, Asked
  <2> HIDE DEF j
  <2>3. \A v \in Views : Starts("delContent", j, v)
    BY <2>2 DEF Starts, Ways, AttendIs, ProgressIs, ContentIs
  <2>4. Begin(r, j, "delContent")
    BY <2>1 DEF j
  <2> QED
    BY <1>1, <2>2, <2>3, <2>4, BeginQuiet
<1>7. CASE BeginShare(r)
  <2>1. PICK l \in made, hosts \in SUBSET Teachers :
           Begin(r, [Asked("share", l, {}) EXCEPT !.hosts = hosts, !.todo = hosts], "unshare")
    BY <1>7 DEF BeginShare
  <2> DEFINE j == [Asked("share", l, {}) EXCEPT !.hosts = hosts, !.todo = hosts]
  <2>2. j \in Job /\ j.lesson = l /\ j.op = "share" /\ j.todo = j.hosts
    BY <1>1, <1>2, AskedTyped DEF Ops, Asked
  <2> HIDE DEF j
  <2>3. \A v \in Views : Starts("unshare", j, v)
    BY <2>2, Results DEF Starts, Ways, AttendIs, ProgressIs, ContentIs
  <2>4. Begin(r, j, "unshare")
    BY <2>1 DEF j
  <2> QED
    BY <1>1, <2>2, <2>3, <2>4, BeginQuiet
<1>8. CASE BeginSave(r)
  <2>1. PICK marked \in SUBSET job[r].want, rating \in [job[r].want -> Ratings] :
           Begin(r, [job[r] EXCEPT
                        !.marked = marked,
                        !.rating = [s \in Students |->
                           IF s \in job[r].want THEN rating[s] ELSE EmptyRating],
                        !.todo = job[r].want], "mark")
    BY <1>8 DEF BeginSave
  <2> DEFINE all == [s \in Students |->
                        IF s \in job[r].want THEN rating[s] ELSE EmptyRating]
             j == [job[r] EXCEPT !.marked = marked, !.rating = all, !.todo = job[r].want]
  <2>2. job[r] \in Job /\ job[r].want \subseteq Students /\ marked \subseteq Students
    BY DEF TypeOK, Job
  <2>3. all \in [Students -> Ratings]
    BY LessonsAssumption
  <2>4. Begin(r, j, "mark")
    BY <2>1
  <2> HIDE DEF all
  <2>5. /\ j \in Job /\ j.lesson = job[r].lesson /\ j.op = job[r].op
        /\ j.want = job[r].want /\ j.todo = j.want
    BY <2>2, <2>3 DEF Job
  <2>6. job[r].lesson \in Lessons /\ job[r].op = "save"
    BY <1>8 DEF BeginSave, Locals, Local
  <2> HIDE DEF j
  <2>7. \A v \in Views : Starts("mark", j, v)
    BY <2>5, <2>6 DEF Starts, Ways, AttendIs, ProgressIs, ContentIs, Remarked
  <2> QED
    BY <2>4, <2>5, <2>6, <2>7, BeginQuiet
<1>9. CASE OpenRecords(r)
  <2> SUFFICES ASSUME NEW q \in Requests, alone' = q
               PROVE  Quiet(q)'
    BY DEF Undisturbed
  <2>1. /\ q # r /\ alone = q /\ base' = base
        /\ lessons' = lessons /\ attend' = attend /\ progress' = progress
        /\ content' = content /\ presenters' = presenters
        /\ \A p \in Requests \ {r} : pc'[p] = pc[p] /\ job'[p] = job[p]
        /\ pc'[r] = "page"
    BY <1>9, LessonsAssumption DEF OpenRecords, Goto, TypeOK, tables
  <2>2. \A p \in Requests \ {q} : ~Active(p)'
    BY <2>1 DEF Undisturbed, Quiet, Active, Resting
  <2> QED
    BY <2>1, <2>2 DEF Undisturbed, Quiet, Active, Shows, Hosted, Les
<1> QED
  BY <1>3, <1>4, <1>5, <1>6, <1>7, <1>8, <1>9 DEF Arrive
-----------------------------------------------------------------------------
(* A statement of the request. *)

\* What is to be shown of a step that leads to a place, given the lesson after it.
LEMMA ShownAfter ==
    ASSUME TypeOK, Known, NEW r \in Requests, Undisturbed, Statement(r), pc[r] # "insert",
           NEW to, NEW k, to = pc'[r], k = job'[r],
           alone = r =>
              /\ Active(r)' \/ to = "done"
              /\ Ways(to, k, base)
              /\ \A s \in Students :
                    /\ attend'[Les(r)][s] = AttendIs(to, k, base, s)
                    /\ progress'[Les(r)][s] = ProgressIs(to, k, base, s)
              /\ content'[Les(r)] = ContentIs(to, k, base)
              /\ Hosted(r)'
    PROVE  Undisturbed'
<1> SUFFICES ASSUME NEW q \in Requests, alone' = q
             PROVE  Quiet(q)'
  BY DEF Undisturbed
<1>1. Active(r) /\ k.lesson = job[r].lesson
  BY StatementKeeps
<1>2. alone = q /\ base' = base
  BY AlonesStay
<1>3. q = r
  BY <1>1, <1>2 DEF Undisturbed, Quiet
<1>4. \A p \in Requests \ {r} : ~Active(p) /\ pc'[p] = pc[p]
  BY <1>2, <1>3, OwnStep DEF Undisturbed, Quiet
<1>5. \A p \in Requests \ {r} : ~Active(p)'
  BY <1>4 DEF Active
<1>6. Les(r)' = Les(r) /\ Les(r) \in Lessons /\ base \in Views
  BY <1>1, <1>2, <1>3 DEF Les, Known, TypeOK, Undisturbed, Quiet
<1> QED
  BY <1>2, <1>3, <1>5, <1>6 DEF Quiet, Shows

\* What is known of a request under way that nothing has disturbed.
LEMMA ShownBefore ==
    ASSUME TypeOK, Undisturbed, NEW r \in Requests, alone = r, pc[r] # "insert"
    PROVE  /\ Les(r) \in Lessons /\ base \in Views /\ job[r] \in Job
           /\ Ways(pc[r], job[r], base)
           /\ Shows(r) /\ Hosted(r)
  BY DEF Undisturbed, Quiet, TypeOK

LEMMA InsertLessonQuiet ==
    ASSUME TypeOK, Locals, Undisturbed, Fresh, NEW r \in Requests, InsertLesson(r)
    PROVE  Undisturbed'
<1> SUFFICES ASSUME NEW q \in Requests, alone' = q
             PROVE  Quiet(q)'
  BY DEF Undisturbed
<1>1. PICK l \in Lessons \ made :
         /\ job' = [job EXCEPT ![r].lesson = l, ![r].todo = job[r].want]
         /\ base' = IF alone = r THEN View(l) ELSE base
  BY DEF InsertLesson
<1>2. pc[r] = "insert" /\ pc' = [pc EXCEPT ![r] = "enrol"] /\ alone' = alone
      /\ attend' = attend /\ progress' = progress /\ content' = content
  BY DEF InsertLesson, Goto
<1>3. alone = q /\ q = r
  BY <1>2 DEF Undisturbed, Quiet, Active, Resting
<1>4. \A p \in Requests \ {r} : ~Active(p)'
  BY <1>2, <1>3 DEF Undisturbed, Quiet, Active, TypeOK
<1>5. /\ job[r] \in Job /\ job'[r].lesson = l /\ job'[r].todo = job[r].want
      /\ job'[r].want = job[r].want /\ job'[r].op = job[r].op /\ job[r].op = "new"
  BY <1>1, <1>2 DEF TypeOK, Job, Locals, Local
<1>6. pc'[r] = "enrol" /\ Les(r)' = l /\ base' = View(l) /\ Active(r)'
  BY <1>1, <1>2, <1>3, <1>5 DEF TypeOK, Les, Active, Resting
<1>7. View(l) \in Views
  BY ViewsTyped
<1>8. \A s \in Students : View(l).attend[s] = {}
  BY DEF Fresh, View
<1>9. Had(View(l)) = {} /\ View(l).content = {}
  BY <1>8 DEF Had, Fresh, View
<1>10. Ways("enrol", job'[r], View(l))
  BY <1>5, <1>9 DEF Ways
<1>11. Shows(r)'
  <2>1. \A s \in Students :
           /\ attend'[l][s] = AttendIs("enrol", job'[r], View(l), s)
           /\ progress'[l][s] = ProgressIs("enrol", job'[r], View(l), s)
    BY <1>2, <1>5 DEF AttendIs, ProgressIs, View
  <2>2. content'[l] = ContentIs("enrol", job'[r], View(l))
    BY <1>2 DEF ContentIs, View
  <2> QED
    BY <1>6, <2>1, <2>2 DEF Shows
<1>12. Hosted(r)'
  BY <1>6 DEF Hosted
<1> QED
  BY <1>3, <1>4, <1>6, <1>7, <1>10, <1>11, <1>12 DEF Quiet

LEMMA EnrolQuiet ==
    ASSUME TypeOK, Locals, Undisturbed, Known, NEW r \in Requests,
           CompareStudents(r) \/ InsertStudent(r) \/ InsertStudentsDone(r)
    PROVE  Undisturbed'
<1> PICK j : j = job[r]
  OBVIOUS
<1> PICK k : k = job'[r]
  OBVIOUS
<1> PICK v : v = base
  OBVIOUS
<1> PICK l : l = Les(r)
  OBVIOUS
<1>1. Statement(r) /\ pc[r] # "insert"
  BY DEF Statement, CompareStudents, InsertStudent, InsertStudentsDone
<1>2. ASSUME alone = r
      PROVE  /\ l \in Lessons /\ v \in Views /\ j \in Job
             /\ Ways(pc[r], j, v)
             /\ \A s \in Students : /\ attend[l][s] = AttendIs(pc[r], j, v, s)
                                    /\ progress[l][s] = ProgressIs(pc[r], j, v, s)
             /\ content[l] = ContentIs(pc[r], j, v)
  BY <1>1, <1>2, ShownBefore DEF Shows
<1>3. CASE CompareStudents(r)
  <2>1. /\ pc[r] = "compare" /\ pc'[r] = "enrol"
        /\ attend' = attend /\ progress' = progress /\ content' = content
    BY <1>3 DEF CompareStudents, Goto, TypeOK, tables
  <2>2. /\ k.op = j.op /\ k.want = j.want
        /\ k.todo = j.want \ Enrolled(l) /\ k.drop = Enrolled(l) \ j.want
    BY <1>3 DEF CompareStudents, TypeOK, Job
  <2>3. ASSUME alone = r
        PROVE  /\ Active(r)'
               /\ Ways("enrol", k, v)
               /\ \A s \in Students :
                     /\ attend'[l][s] = AttendIs("enrol", k, v, s)
                     /\ progress'[l][s] = ProgressIs("enrol", k, v, s)
               /\ content'[l] = ContentIs("enrol", k, v)
               /\ Hosted(r)'
    <3>1. \A s \in Students : attend[l][s] = v.attend[s] /\ progress[l][s] = v.progress[s]
      BY <1>2, <2>1, <2>3 DEF AttendIs, ProgressIs
    <3>2. Enrolled(l) = Had(v)
      BY <3>1 DEF Enrolled, Had
    <3>3. Ways("enrol", k, v)
      BY <1>2, <2>1, <2>2, <2>3, <3>2 DEF Ways
    <3>4. \A s \in Students : s \in j.want => s \in Had(v) \cup k.todo
      BY <2>2, <3>2
    <3> QED
      BY <1>2, <2>1, <2>2, <2>3, <3>1, <3>3, <3>4
         DEF AttendIs, ProgressIs, ContentIs, Active, Resting, Hosted
  <2> QED
    BY <1>1, <2>1, <2>3, ShownAfter
<1>4. CASE InsertStudent(r)
  <2>1. PICK t \in j.todo : SetAttend(l, t, attend[l][t] \cup {FALSE}) /\ Todo(r, j.todo \ {t})
    BY <1>4 DEF InsertStudent
  <2>2. /\ pc[r] = "enrol" /\ pc'[r] = "enrol" /\ progress' = progress /\ content' = content
    BY <1>4 DEF InsertStudent
  <2>3. /\ k.op = j.op /\ k.want = j.want /\ k.todo = j.todo \ {t} /\ k.drop = j.drop
    BY <2>1, TodoFields
  <2>4. ASSUME alone = r
        PROVE  /\ Active(r)'
               /\ Ways("enrol", k, v)
               /\ \A s \in Students :
                     /\ attend'[l][s] = AttendIs("enrol", k, v, s)
                     /\ progress'[l][s] = ProgressIs("enrol", k, v, s)
               /\ content'[l] = ContentIs("enrol", k, v)
               /\ Hosted(r)'
    <3>1. j.todo \subseteq j.want \ Had(v)
      BY <1>2, <2>2, <2>4 DEF Ways
    <3>2. Ways("enrol", k, v)
      BY <1>2, <2>2, <2>3, <2>4 DEF Ways
    <3>3. ASSUME NEW s \in Students
          PROVE  attend'[l][s] = AttendIs("enrol", k, v, s)
      <4>1. attend'[l][s] = IF s = t THEN attend[l][t] \cup {FALSE} ELSE attend[l][s]
        BY <1>2, <2>1, <2>4, AttendAt
      <4>2. attend[l][s] = IF s \in j.want \ (Had(v) \cup j.todo) THEN {FALSE} ELSE v.attend[s]
        BY <1>2, <2>2, <2>4 DEF AttendIs
      <4>3. s = t => v.attend[s] = {}
        BY <2>1, <3>1 DEF Had
      <4>4. AttendIs("enrol", k, v, s) =
               IF s \in j.want \ (Had(v) \cup (j.todo \ {t})) THEN {FALSE} ELSE v.attend[s]
        BY <2>3 DEF AttendIs
      <4> QED
        BY <2>1, <3>1, <4>1, <4>2, <4>3, <4>4
    <3> QED
      BY <1>2, <2>2, <2>3, <2>4, <3>2, <3>3 DEF ProgressIs, ContentIs, Active, Resting, Hosted
  <2> QED
    BY <1>1, <2>2, <2>4, ShownAfter
<1>5. CASE InsertStudentsDone(r)
  <2>1. /\ pc[r] = "enrol" /\ j.todo = {}
        /\ attend' = attend /\ progress' = progress /\ content' = content
        /\ j.op = "new" => pc'[r] = "equip" /\ Todo(r, j.uses)
        /\ j.op # "new" => pc'[r] = "drop" /\ Todo(r, j.drop)
    BY <1>5 DEF InsertStudentsDone, Goto, TypeOK, tables
  <2>2. /\ k.op = j.op /\ k.want = j.want /\ k.uses = j.uses
        /\ k.todo = IF j.op = "new" THEN j.uses ELSE j.drop
    BY <2>1, TodoFields DEF TypeOK, Todo, Job
  <2>3. ASSUME alone = r
        PROVE  /\ Active(r)'
               /\ Ways(pc'[r], k, v)
               /\ \A s \in Students :
                     /\ attend'[l][s] = AttendIs(pc'[r], k, v, s)
                     /\ progress'[l][s] = ProgressIs(pc'[r], k, v, s)
               /\ content'[l] = ContentIs(pc'[r], k, v)
               /\ Hosted(r)'
    <3>1. /\ j.op = "update" => j.drop = Had(v) \ j.want
          /\ j.op = "new" => Had(v) = {} /\ v.content = {}
          /\ j.op \in {"new", "update"}
          /\ v.content = content[l]
      BY <1>2, <2>1, <2>3 DEF Ways, ContentIs
    <3>2. \A s \in Students :
             /\ attend[l][s] = IF s \in j.want \ Had(v) THEN {FALSE} ELSE v.attend[s]
             /\ s \notin Had(v) => v.attend[s] = {}
             /\ progress[l][s] = v.progress[s]
      BY <1>2, <2>1, <2>3 DEF AttendIs, ProgressIs, Had
    <3>3. CASE j.op = "new"
      <4>1. pc'[r] = "equip" /\ k.op = "new" /\ k.todo = k.uses
        BY <2>1, <2>2, <3>3
      <4>2. Ways("equip", k, v)
        BY <3>1, <3>3, <4>1 DEF Ways
      <4>3. \A s \in Students :
               /\ attend'[l][s] = AttendIs("equip", k, v, s)
               /\ progress'[l][s] = ProgressIs("equip", k, v, s)
        BY <2>1, <2>2, <3>1, <3>2, <3>3 DEF AttendIs, ProgressIs, Updated
      <4>4. content'[l] = ContentIs("equip", k, v)
        <5>1. content'[l] = {} /\ k.uses \ k.todo = {}
          BY <2>1, <3>1, <3>3, <4>1
        <5> QED
          BY <5>1 DEF ContentIs
      <4> QED
        BY <4>1, <4>2, <4>3, <4>4 DEF Active, Resting, Hosted
    <3>4. CASE j.op = "update"
      BY <2>1, <2>2, <3>1, <3>2, <3>4
         DEF Ways, AttendIs, ProgressIs, ContentIs, Updated, Active, Resting, Hosted
    <3> QED
      BY <3>1, <3>3, <3>4
  <2> QED
    BY <1>1, <2>3, ShownAfter
<1> QED
  BY <1>3, <1>4, <1>5

LEMMA DropQuiet ==
    ASSUME TypeOK, Locals, Undisturbed, Known, NEW r \in Requests,
           DeleteStudent(r) \/ DeleteStudentsDone(r) \/ CleanProgress(r)
    PROVE  Undisturbed'
<1> PICK j : j = job[r]
  OBVIOUS
<1> PICK k : k = job'[r]
  OBVIOUS
<1> PICK v : v = base
  OBVIOUS
<1> PICK l : l = Les(r)
  OBVIOUS
<1>1. Statement(r) /\ pc[r] # "insert"
  BY DEF Statement, DeleteStudent, DeleteStudentsDone, CleanProgress
<1>2. ASSUME alone = r
      PROVE  /\ l \in Lessons /\ v \in Views /\ j \in Job
             /\ Ways(pc[r], j, v)
             /\ \A s \in Students : /\ attend[l][s] = AttendIs(pc[r], j, v, s)
                                    /\ progress[l][s] = ProgressIs(pc[r], j, v, s)
             /\ content[l] = ContentIs(pc[r], j, v)
  BY <1>1, <1>2, ShownBefore DEF Shows
<1>3. CASE DeleteStudent(r)
  <2>1. PICK t \in j.todo : SetAttend(l, t, {}) /\ Todo(r, j.todo \ {t})
    BY <1>3 DEF DeleteStudent
  <2>2. /\ pc[r] = "drop" /\ pc'[r] = "drop" /\ progress' = progress /\ content' = content
    BY <1>3 DEF DeleteStudent
  <2>3. k.op = j.op /\ k.want = j.want /\ k.todo = j.todo \ {t}
    BY <2>1, TodoFields
  <2>4. ASSUME alone = r
        PROVE  /\ Active(r)'
               /\ Ways("drop", k, v)
               /\ \A s \in Students :
                     /\ attend'[l][s] = AttendIs("drop", k, v, s)
                     /\ progress'[l][s] = ProgressIs("drop", k, v, s)
               /\ content'[l] = ContentIs("drop", k, v)
               /\ Hosted(r)'
    <3>1. j.todo \subseteq Had(v) \ j.want
      BY <1>2, <2>2, <2>4 DEF Ways
    <3>2. Ways("drop", k, v)
      BY <1>2, <2>2, <2>3, <2>4 DEF Ways
    <3>3. ASSUME NEW s \in Students
          PROVE  attend'[l][s] = AttendIs("drop", k, v, s)
      <4>1. attend'[l][s] = IF s = t THEN {} ELSE attend[l][s]
        BY <1>2, <2>1, <2>4, AttendAt
      <4>2. attend[l][s] = IF s \in j.todo THEN v.attend[s] ELSE Updated(j, v, s)
        BY <1>2, <2>2, <2>4 DEF AttendIs
      <4>3. AttendIs("drop", k, v, s) =
               IF s \in j.todo \ {t} THEN v.attend[s] ELSE Updated(j, v, s)
        BY <2>3 DEF AttendIs, Updated
      <4>4. s = t => Updated(j, v, s) = {}
        BY <2>1, <3>1 DEF Updated
      <4> QED
        BY <4>1, <4>2, <4>3, <4>4
    <3> QED
      BY <1>2, <2>2, <2>3, <2>4, <3>2, <3>3 DEF ProgressIs, ContentIs, Active, Resting, Hosted
  <2> QED
    BY <1>1, <2>2, <2>4, ShownAfter
<1>4. CASE DeleteStudentsDone(r)
  <2>1. /\ pc[r] = "drop" /\ j.todo = {} /\ k = j
        /\ pc'[r] = IF j.uses = {} THEN "clean" ELSE "unequip"
        /\ attend' = attend /\ progress' = progress /\ content' = content
    BY <1>4 DEF DeleteStudentsDone, Goto, TypeOK, tables
  <2>2. ASSUME alone = r
        PROVE  /\ Active(r)'
               /\ Ways(pc'[r], k, v)
               /\ \A s \in Students :
                     /\ attend'[l][s] = AttendIs(pc'[r], k, v, s)
                     /\ progress'[l][s] = ProgressIs(pc'[r], k, v, s)
               /\ content'[l] = ContentIs(pc'[r], k, v)
               /\ Hosted(r)'
    <3>1. j.op = "update" /\ content[l] = v.content
      BY <1>2, <2>1, <2>2 DEF Ways, ContentIs
    <3>2. \A s \in Students :
             attend[l][s] = Updated(j, v, s) /\ progress[l][s] = v.progress[s]
      BY <1>2, <2>1, <2>2 DEF AttendIs, ProgressIs
    <3> QED
      BY <2>1, <3>1, <3>2
         DEF Ways, AttendIs, ProgressIs, ContentIs, Equipped, Active, Resting, Hosted
  <2> QED
    BY <1>1, <2>2, ShownAfter
<1>5. CASE CleanProgress(r)
  <2>1. /\ pc[r] = "clean" /\ pc'[r] = "done" /\ k = j
        /\ attend' = attend /\ content' = content
        /\ l \in Lessons =>
              \A s \in Students :
                 progress'[l][s] = IF s \in Enrolled(l) THEN progress[l][s] ELSE <<>>
    BY <1>5 DEF CleanProgress, Goto, TypeOK
  <2>2. ASSUME alone = r
        PROVE  /\ Active(r)' \/ pc'[r] = "done"
               /\ Ways(pc'[r], k, v)
               /\ \A s \in Students :
                     /\ attend'[l][s] = AttendIs(pc'[r], k, v, s)
                     /\ progress'[l][s] = ProgressIs(pc'[r], k, v, s)
               /\ content'[l] = ContentIs(pc'[r], k, v)
               /\ Hosted(r)'
    <3>1. j.op = "update" /\ content[l] = Equipped(j, v)
      BY <1>2, <2>1, <2>2 DEF Ways, ContentIs
    <3>2. \A s \in Students :
             attend[l][s] = Updated(j, v, s) /\ progress[l][s] = v.progress[s]
      BY <1>2, <2>1, <2>2 DEF AttendIs, ProgressIs
    <3>3. \A s \in Students : s \in Enrolled(l) <=> s \in j.want
      BY <3>2 DEF Enrolled, Updated, Had
    <3>4. /\ \A s \in Students :
                /\ Result(j, v).attend[s] = Updated(j, v, s)
                /\ Result(j, v).progress[s] = IF s \in j.want THEN v.progress[s] ELSE <<>>
          /\ Result(j, v).content = Equipped(j, v)
      BY <1>2, <2>2, <3>1, Results
    <3> QED
      BY <1>2, <2>1, <2>2, <3>1, <3>2, <3>3, <3>4
         DEF Ways, AttendIs, ProgressIs, ContentIs, Hosted
  <2> QED
    BY <1>1, <2>2, ShownAfter
<1> QED
  BY <1>3, <1>4, <1>5

LEMMA EquipQuiet ==
    ASSUME TypeOK, Locals, Undisturbed, Known, NEW r \in Requests,
           ReplaceContent(r) \/ InsertContent(r) \/ InsertContentDone(r)
    PROVE  Undisturbed'
<1> PICK j : j = job[r]
  OBVIOUS
<1> PICK k : k = job'[r]
  OBVIOUS
<1> PICK v : v = base
  OBVIOUS
<1> PICK l : l = Les(r)
  OBVIOUS
<1>1. Statement(r) /\ pc[r] # "insert"
  BY DEF Statement, ReplaceContent, InsertContent, InsertContentDone
<1>2. ASSUME alone = r
      PROVE  /\ l \in Lessons /\ v \in Views /\ j \in Job
             /\ Ways(pc[r], j, v)
             /\ \A s \in Students : /\ attend[l][s] = AttendIs(pc[r], j, v, s)
                                    /\ progress[l][s] = ProgressIs(pc[r], j, v, s)
             /\ content[l] = ContentIs(pc[r], j, v)
  BY <1>1, <1>2, ShownBefore DEF Shows
<1>3. CASE ReplaceContent(r)
  <2>1. /\ pc[r] = "unequip" /\ pc'[r] = "equip" /\ Todo(r, j.uses)
        /\ attend' = attend /\ progress' = progress
        /\ l \in Lessons => content'[l] = {}
    BY <1>3 DEF ReplaceContent, Goto, TypeOK
  <2>2. /\ k.op = j.op /\ k.want = j.want /\ k.uses = j.uses /\ k.todo = j.uses
    BY <2>1, TodoFields DEF TypeOK, Todo, Job
  <2>3. ASSUME alone = r
        PROVE  /\ Active(r)'
               /\ Ways("equip", k, v)
               /\ \A s \in Students :
                     /\ attend'[l][s] = AttendIs("equip", k, v, s)
                     /\ progress'[l][s] = ProgressIs("equip", k, v, s)
               /\ content'[l] = ContentIs("equip", k, v)
               /\ Hosted(r)'
    <3>1. j.op = "update" /\ j.uses # {}
      BY <1>2, <2>1, <2>3 DEF Ways
    <3>2. Ways("equip", k, v)
      BY <2>2, <3>1 DEF Ways
    <3>3. \A s \in Students :
             /\ attend'[l][s] = AttendIs("equip", k, v, s)
             /\ progress'[l][s] = ProgressIs("equip", k, v, s)
      BY <1>2, <2>1, <2>2, <2>3 DEF AttendIs, ProgressIs, Updated
    <3>4. content'[l] = {} /\ k.uses \ k.todo = {}
      BY <1>2, <2>1, <2>2, <2>3
    <3> QED
      BY <2>1, <3>2, <3>3, <3>4 DEF ContentIs, Active, Resting, Hosted
  <2> QED
    BY <1>1, <2>1, <2>3, ShownAfter
<1>4. CASE InsertContent(r)
  <2>1. PICK c \in j.todo : content' = [content EXCEPT ![l] = @ \cup {c}] /\ Todo(r, j.todo \ {c})
    BY <1>4 DEF InsertContent
  <2>2. /\ pc[r] = "equip" /\ pc'[r] = "equip" /\ attend' = attend /\ progress' = progress
    BY <1>4 DEF InsertContent
  <2>3. k.op = j.op /\ k.want = j.want /\ k.uses = j.uses /\ k.todo = j.todo \ {c}
    BY <2>1, TodoFields DEF TypeOK, Todo, Job
  <2>4. ASSUME alone = r
        PROVE  /\ Active(r)'
               /\ Ways("equip", k, v)
               /\ \A s \in Students :
                     /\ attend'[l][s] = AttendIs("equip", k, v, s)
                     /\ progress'[l][s] = ProgressIs("equip", k, v, s)
               /\ content'[l] = ContentIs("equip", k, v)
               /\ Hosted(r)'
    <3>1. j.todo \subseteq j.uses /\ content[l] = j.uses \ j.todo
      BY <1>2, <2>2, <2>4 DEF Ways, ContentIs
    <3>2. Ways("equip", k, v)
      BY <1>2, <2>2, <2>3, <2>4 DEF Ways
    <3>3. \A s \in Students :
             /\ attend'[l][s] = AttendIs("equip", k, v, s)
             /\ progress'[l][s] = ProgressIs("equip", k, v, s)
      BY <1>2, <2>2, <2>3, <2>4 DEF AttendIs, ProgressIs, Updated
    <3>4. content'[l] = content[l] \cup {c}
      BY <1>2, <2>1, <2>4 DEF TypeOK
    <3>5. (j.uses \ j.todo) \cup {c} = j.uses \ (j.todo \ {c})
      BY <2>1, <3>1
    <3> QED
      BY <2>2, <2>3, <3>1, <3>2, <3>3, <3>4, <3>5 DEF ContentIs, Active, Resting, Hosted
  <2> QED
    BY <1>1, <2>2, <2>4, ShownAfter
<1>5. CASE InsertContentDone(r)
  <2>1. /\ pc[r] = "equip" /\ j.todo = {} /\ k = j
        /\ pc'[r] = IF j.op = "new" THEN "done" ELSE "clean"
        /\ attend' = attend /\ progress' = progress /\ content' = content
    BY <1>5 DEF InsertContentDone, Goto, TypeOK, tables
  <2>2. ASSUME alone = r
        PROVE  /\ Active(r)' \/ pc'[r] = "done"
               /\ Ways(pc'[r], k, v)
               /\ \A s \in Students :
                     /\ attend'[l][s] = AttendIs(pc'[r], k, v, s)
                     /\ progress'[l][s] = ProgressIs(pc'[r], k, v, s)
               /\ content'[l] = ContentIs(pc'[r], k, v)
               /\ Hosted(r)'
    <3>1. /\ (j.op = "update" /\ j.uses # {}) \/ (j.op = "new" /\ Had(v) = {} /\ v.content = {})
          /\ content[l] = j.uses
      BY <1>2, <2>1, <2>2 DEF Ways, ContentIs
    <3>2. \A s \in Students :
             attend[l][s] = Updated(j, v, s) /\ progress[l][s] = v.progress[s]
      BY <1>2, <2>1, <2>2 DEF AttendIs, ProgressIs
    <3>3. CASE j.op = "update"
      BY <2>1, <3>1, <3>2, <3>3
         DEF Ways, AttendIs, ProgressIs, ContentIs, Equipped, Active, Resting, Hosted
    <3>4. CASE j.op = "new"
      <4>1. /\ \A s \in Students :
                  Result(j, v).attend[s] = IF s \in j.want THEN {FALSE} ELSE {}
            /\ Result(j, v).progress = v.progress /\ Result(j, v).content = j.uses
        BY <1>2, <2>2, <3>4, Results
      <4>2. \A s \in Students : Updated(j, v, s) = IF s \in j.want THEN {FALSE} ELSE {}
        BY <3>1, <3>4 DEF Updated
      <4> QED
        BY <2>1, <3>1, <3>2, <3>4, <4>1, <4>2
           DEF Ways, AttendIs, ProgressIs, ContentIs, Active, Resting, Hosted
    <3> QED
      BY <3>1, <3>3, <3>4
  <2> QED
    BY <1>1, <2>2, ShownAfter
<1> QED
  BY <1>3, <1>4, <1>5

LEMMA MarkQuiet ==
    ASSUME TypeOK, Locals, Undisturbed, Known, NEW r \in Requests,
           MarkStudent(r) \/ MarksDone(r)
    PROVE  Undisturbed'
<1> PICK j : j = job[r]
  OBVIOUS
<1> PICK k : k = job'[r]
  OBVIOUS
<1> PICK v : v = base
  OBVIOUS
<1> PICK l : l = Les(r)
  OBVIOUS
<1>1. Statement(r) /\ pc[r] # "insert"
  BY DEF Statement, MarkStudent, MarksDone
<1>2. ASSUME alone = r
      PROVE  /\ l \in Lessons /\ v \in Views /\ j \in Job
             /\ Ways(pc[r], j, v)
             /\ \A s \in Students : /\ attend[l][s] = AttendIs(pc[r], j, v, s)
                                    /\ progress[l][s] = ProgressIs(pc[r], j, v, s)
             /\ content[l] = ContentIs(pc[r], j, v)
  BY <1>1, <1>2, ShownBefore DEF Shows
<1>3. CASE MarkStudent(r)
  <2>1. PICK t \in j.todo :
           /\ SetAttend(l, t, IF t \in Enrolled(l) THEN MarkOf(j, t) ELSE {})
           /\ Todo(r, j.todo \ {t})
    BY <1>3 DEF MarkStudent
  <2>2. /\ pc[r] = "mark" /\ pc'[r] = "mark" /\ progress' = progress /\ content' = content
    BY <1>3 DEF MarkStudent
  <2>3. /\ k.op = j.op /\ k.want = j.want /\ k.marked = j.marked /\ k.rating = j.rating
        /\ k.todo = j.todo \ {t}
    BY <2>1, TodoFields DEF TypeOK, Todo, Job
  <2>4. ASSUME alone = r
        PROVE  /\ Active(r)'
               /\ Ways("mark", k, v)
               /\ \A s \in Students :
                     /\ attend'[l][s] = AttendIs("mark", k, v, s)
                     /\ progress'[l][s] = ProgressIs("mark", k, v, s)
               /\ content'[l] = ContentIs("mark", k, v)
               /\ Hosted(r)'
    <3>1. j.op = "save" /\ j.todo \subseteq j.want
      BY <1>2, <2>2, <2>4 DEF Ways
    <3>2. Ways("mark", k, v)
      BY <2>3, <3>1 DEF Ways
    <3>3. ASSUME NEW s \in Students
          PROVE  attend'[l][s] = AttendIs("mark", k, v, s)
      <4>1. attend'[l][s] = IF s = t THEN IF t \in Enrolled(l) THEN MarkOf(j, t) ELSE {}
                            ELSE attend[l][s]
        BY <1>2, <2>1, <2>4, AttendAt
      <4>2. attend[l][s] = IF s \in j.todo THEN v.attend[s] ELSE Remarked(j, v, s)
        BY <1>2, <2>2, <2>4 DEF AttendIs
      <4>3. MarkOf(k, s) = MarkOf(j, s)
        BY <2>3 DEF MarkOf
      <4>4. AttendIs("mark", k, v, s) =
               IF s \in j.todo \ {t} THEN v.attend[s] ELSE Remarked(j, v, s)
        BY <2>3, <4>3 DEF AttendIs, Remarked
      <4>5. s = t => Remarked(j, v, s) = IF t \in Enrolled(l) THEN MarkOf(j, t) ELSE {}
        BY <2>1, <3>1, <4>2 DEF Remarked, Had, Enrolled
      <4> QED
        BY <4>1, <4>2, <4>4, <4>5
    <3> QED
      BY <1>2, <2>2, <2>3, <2>4, <3>2, <3>3 DEF ProgressIs, ContentIs, Active, Resting, Hosted
  <2> QED
    BY <1>1, <2>2, <2>4, ShownAfter
<1>4. CASE MarksDone(r)
  <2>1. /\ pc[r] = "mark" /\ j.todo = {} /\ pc'[r] = "lookUp" /\ Todo(r, j.want)
        /\ attend' = attend /\ progress' = progress /\ content' = content
    BY <1>4 DEF MarksDone, Goto, TypeOK, tables
  <2>2. /\ k.op = j.op /\ k.want = j.want /\ k.marked = j.marked /\ k.todo = j.want
    BY <2>1, TodoFields DEF TypeOK, Todo, Job
  <2>3. ASSUME alone = r
        PROVE  /\ Active(r)'
               /\ Ways("lookUp", k, v)
               /\ \A s \in Students :
                     /\ attend'[l][s] = AttendIs("lookUp", k, v, s)
                     /\ progress'[l][s] = ProgressIs("lookUp", k, v, s)
               /\ content'[l] = ContentIs("lookUp", k, v)
               /\ Hosted(r)'
    <3>1. j.op = "save" /\ content[l] = v.content
      BY <1>2, <2>1, <2>3 DEF Ways, ContentIs
    <3>2. Ways("lookUp", k, v)
      BY <2>2, <3>1 DEF Ways
    <3>3. \A s \in Students :
             /\ attend[l][s] = Remarked(j, v, s) /\ progress[l][s] = v.progress[s]
             /\ Remarked(k, v, s) = Remarked(j, v, s)
      BY <1>2, <2>1, <2>2, <2>3 DEF AttendIs, ProgressIs, Remarked, MarkOf
    <3> QED
      BY <2>1, <2>2, <3>1, <3>2, <3>3
         DEF AttendIs, ProgressIs, ContentIs, Active, Resting, Hosted
  <2> QED
    BY <1>1, <2>1, <2>3, ShownAfter
<1> QED
  BY <1>3, <1>4

LEMMA RateQuiet ==
    ASSUME TypeOK, Locals, Undisturbed, Known, NEW r \in Requests,
           LookUp(r) \/ InsertRow(r) \/ UpdateRows(r) \/ SaveDone(r)
    PROVE  Undisturbed'
<1> PICK j : j = job[r]
  OBVIOUS
<1> PICK k : k = job'[r]
  OBVIOUS
<1> PICK v : v = base
  OBVIOUS
<1> PICK l : l = Les(r)
  OBVIOUS
<1>1. Statement(r) /\ pc[r] # "insert"
  BY DEF Statement, LookUp, InsertRow, UpdateRows, SaveDone
<1>2. ASSUME alone = r
      PROVE  /\ l \in Lessons /\ v \in Views /\ j \in Job
             /\ Ways(pc[r], j, v)
             /\ \A s \in Students : /\ attend[l][s] = AttendIs(pc[r], j, v, s)
                                    /\ progress[l][s] = ProgressIs(pc[r], j, v, s)
             /\ content[l] = ContentIs(pc[r], j, v)
  BY <1>1, <1>2, ShownBefore DEF Shows
<1>3. CASE LookUp(r)
  <2>1. PICK t \in j.todo :
           /\ job' = [job EXCEPT ![r].cur = t, ![r].todo = @ \ {t}]
           /\ pc'[r] = IF progress[l][t] = <<>> THEN "insertRow" ELSE "updateRows"
    BY <1>3 DEF LookUp, Goto, TypeOK
  <2>2. /\ pc[r] = "lookUp"
        /\ attend' = attend /\ progress' = progress /\ content' = content
    BY <1>3 DEF LookUp, tables
  <2>3. /\ k.op = j.op /\ k.want = j.want /\ k.marked = j.marked /\ k.rating = j.rating
        /\ k.todo = j.todo \ {t} /\ k.cur = t
    BY <2>1 DEF TypeOK, Job
  <2>4. ASSUME alone = r
        PROVE  /\ Active(r)'
               /\ Ways(pc'[r], k, v)
               /\ \A s \in Students :
                     /\ attend'[l][s] = AttendIs(pc'[r], k, v, s)
                     /\ progress'[l][s] = ProgressIs(pc'[r], k, v, s)
               /\ content'[l] = ContentIs(pc'[r], k, v)
               /\ Hosted(r)'
    <3>1. j.op = "save" /\ j.todo \subseteq j.want /\ content[l] = v.content
      BY <1>2, <2>2, <2>4 DEF Ways, ContentIs
    <3>2. j.want \subseteq Students
      BY <1>2, <2>4 DEF Job
    <3>3. \A s \in Students :
             /\ attend[l][s] = Remarked(j, v, s)
             /\ progress[l][s] = IF s \in j.want \ j.todo THEN Rerated(j, v, s) ELSE v.progress[s]
      BY <1>2, <2>2, <2>4 DEF AttendIs, ProgressIs
    <3>4. progress[l][t] = v.progress[t]
      BY <2>1, <3>1, <3>2, <3>3
    <3>5. Ways(pc'[r], k, v)
      BY <2>1, <2>3, <3>1, <3>4 DEF Ways
    <3>6. \A s \in Students :
             Remarked(k, v, s) = Remarked(j, v, s) /\ Rerated(k, v, s) = Rerated(j, v, s)
      BY <2>3 DEF Remarked, MarkOf, Rerated
    <3>7. k.todo \cup {k.cur} = j.todo
      BY <2>1, <2>3
    <3>8. ASSUME NEW s \in Students
          PROVE  /\ attend'[l][s] = AttendIs(pc'[r], k, v, s)
                 /\ progress'[l][s] = ProgressIs(pc'[r], k, v, s)
      <4>1. pc'[r] \in {"insertRow", "updateRows"}
        BY <2>1
      <4>2. AttendIs(pc'[r], k, v, s) = Remarked(k, v, s)
        BY <4>1 DEF AttendIs
      <4>3. ProgressIs(pc'[r], k, v, s) =
               IF s \in k.want \ (k.todo \cup {k.cur}) THEN Rerated(k, v, s) ELSE v.progress[s]
        BY <4>1 DEF ProgressIs
      <4> QED
        BY <2>2, <2>3, <3>3, <3>6, <3>7, <4>2, <4>3
    <3> QED
      BY <2>1, <2>2, <3>1, <3>5, <3>8 DEF ContentIs, Active, Resting, Hosted
  <2> QED
    BY <1>1, <2>4, ShownAfter
<1>4. CASE InsertRow(r) \/ UpdateRows(r)
  <2>1. /\ pc[r] \in {"insertRow", "updateRows"} /\ pc'[r] = "lookUp" /\ k = j
        /\ attend' = attend /\ content' = content
    BY <1>4 DEF InsertRow, UpdateRows, Goto, TypeOK
  <2>2. ASSUME alone = r
        PROVE  /\ Active(r)'
               /\ Ways("lookUp", k, v)
               /\ \A s \in Students :
                     /\ attend'[l][s] = AttendIs("lookUp", k, v, s)
                     /\ progress'[l][s] = ProgressIs("lookUp", k, v, s)
               /\ content'[l] = ContentIs("lookUp", k, v)
               /\ Hosted(r)'
    <3>1. /\ j.op = "save" /\ j.todo \subseteq j.want /\ content[l] = v.content
          /\ j.cur \in j.want \ j.todo
          /\ pc[r] = "insertRow" <=> v.progress[j.cur] = <<>>
      BY <1>2, <2>1, <2>2 DEF Ways, ContentIs
    <3>2. j.want \subseteq Students
      BY <1>2, <2>2 DEF Job
    <3>3. \A s \in Students :
             /\ attend[l][s] = Remarked(j, v, s)
             /\ progress[l][s] = IF s \in j.want \ (j.todo \cup {j.cur})
                                 THEN Rerated(j, v, s) ELSE v.progress[s]
      BY <1>2, <2>1, <2>2 DEF AttendIs, ProgressIs
    <3>4. progress[l][j.cur] = v.progress[j.cur] /\ j.cur \in Students
      BY <3>1, <3>2, <3>3
    <3>5. Ways("lookUp", k, v)
      BY <2>1, <3>1 DEF Ways
    <3>6. \A s \in Students :
             progress'[l][s] = IF s = j.cur THEN Rerated(j, v, s) ELSE progress[l][s]
      <4>1. CASE InsertRow(r)
        <5>1. v.progress[j.cur] = <<>>
          BY <3>1, <4>1 DEF InsertRow
        <5>2. Append(progress[l][j.cur], Rating(r)) = Rerated(j, v, j.cur)
          BY <3>4, <5>1 DEF Rerated, Rating
        <5>3. SetProgress(l, j.cur, Append(progress[l][j.cur], Rating(r)))
          BY <4>1 DEF InsertRow
        <5> QED
          BY <1>2, <2>2, <5>2, <5>3 DEF SetProgress, TypeOK
      <4>2. CASE UpdateRows(r)
        <5>1. v.progress[j.cur] # <<>>
          BY <3>1, <4>2 DEF UpdateRows
        <5>2. [i \in 1..Len(progress[l][j.cur]) |-> Rating(r)] = Rerated(j, v, j.cur)
          BY <3>4, <5>1 DEF Rerated, Rating
        <5>3. SetProgress(l, j.cur, [i \in 1..Len(progress[l][j.cur]) |-> Rating(r)])
          BY <4>2 DEF UpdateRows
        <5> QED
          BY <1>2, <2>2, <5>2, <5>3 DEF SetProgress, TypeOK
      <4> QED
        BY <1>4, <4>1, <4>2
    <3>7. \A s \in Students :
             progress'[l][s] = IF s \in j.want \ j.todo THEN Rerated(j, v, s) ELSE v.progress[s]
      BY <3>1, <3>3, <3>6
    <3> QED
      BY <2>1, <3>1, <3>3, <3>5, <3>7 DEF AttendIs, ProgressIs, ContentIs, Active, Resting, Hosted
  <2> QED
    BY <1>1, <2>1, <2>2, ShownAfter, ZenonT(60)
<1>5. CASE SaveDone(r)
  <2>1. /\ pc[r] = "lookUp" /\ j.todo = {} /\ pc'[r] = "done" /\ k = j
        /\ attend' = attend /\ progress' = progress /\ content' = content
    BY <1>5 DEF SaveDone, Goto, TypeOK, tables
  <2>2. ASSUME alone = r
        PROVE  /\ Active(r)' \/ pc'[r] = "done"
               /\ Ways(pc'[r], k, v)
               /\ \A s \in Students :
                     /\ attend'[l][s] = AttendIs(pc'[r], k, v, s)
                     /\ progress'[l][s] = ProgressIs(pc'[r], k, v, s)
               /\ content'[l] = ContentIs(pc'[r], k, v)
               /\ Hosted(r)'
    <3>1. j.op = "save" /\ content[l] = v.content
      BY <1>2, <2>1, <2>2 DEF Ways, ContentIs
    <3>2. \A s \in Students :
             /\ attend[l][s] = Remarked(j, v, s)
             /\ progress[l][s] = IF s \in j.want THEN Rerated(j, v, s) ELSE v.progress[s]
      BY <1>2, <2>1, <2>2 DEF AttendIs, ProgressIs
    <3>3. /\ \A s \in Students :
                /\ Result(j, v).attend[s] = Remarked(j, v, s)
                /\ Result(j, v).progress[s] =
                      IF s \in j.want THEN Rerated(j, v, s) ELSE v.progress[s]
          /\ Result(j, v).content = v.content
      BY <1>2, <2>2, <3>1, Results
    <3> QED
      BY <2>1, <3>1, <3>2, <3>3 DEF Ways, AttendIs, ProgressIs, ContentIs, Hosted
  <2> QED
    BY <1>1, <2>2, ShownAfter
<1> QED
  BY <1>3, <1>4, <1>5

LEMMA LookQuiet ==
    ASSUME TypeOK, Locals, Undisturbed, Known, NEW r \in Requests,
           CheckAttendance(r) \/ CheckProgress(r)
    PROVE  Undisturbed'
<1> PICK j : j = job[r]
  OBVIOUS
<1> PICK k : k = job'[r]
  OBVIOUS
<1> PICK v : v = base
  OBVIOUS
<1> PICK l : l = Les(r)
  OBVIOUS
<1>1. Statement(r) /\ pc[r] # "insert"
  BY DEF Statement, CheckAttendance, CheckProgress
<1>2. attend' = attend /\ progress' = progress /\ content' = content
  BY DEF CheckAttendance, CheckProgress, tables
<1>3. pc[r] \in {"ckAttendance", "ckProgress"}
  BY DEF CheckAttendance, CheckProgress
<1>4. ASSUME alone = r
      PROVE  /\ l \in Lessons /\ v \in Views /\ j \in Job
             /\ Ways(pc[r], j, v)
             /\ j.op = "delete"
             /\ \A s \in Students : attend[l][s] = v.attend[s] /\ progress[l][s] = v.progress[s]
             /\ content[l] = v.content
  BY <1>1, <1>3, <1>4, ShownBefore DEF Shows, Ways, AttendIs, ProgressIs, ContentIs
<1>5. CASE CheckAttendance(r)
  <2>1. /\ pc[r] = "ckAttendance" /\ pc'[r] = "ckProgress" /\ k.op = j.op
        /\ k.refuse = \E s \in Students : TRUE \in attend[l][s]
    BY <1>5 DEF CheckAttendance, Goto, TypeOK, Job
  <2>2. ASSUME alone = r
        PROVE  /\ Active(r)'
               /\ Ways("ckProgress", k, v)
               /\ \A s \in Students :
                     /\ attend'[l][s] = AttendIs("ckProgress", k, v, s)
                     /\ progress'[l][s] = ProgressIs("ckProgress", k, v, s)
               /\ content'[l] = ContentIs("ckProgress", k, v)
               /\ Hosted(r)'
    <3>1. Ways("ckProgress", k, v)
      BY <1>4, <2>1, <2>2 DEF Ways
    <3> QED
      BY <1>2, <1>4, <2>1, <2>2, <3>1
         DEF AttendIs, ProgressIs, ContentIs, Active, Resting, Hosted
  <2> QED
    BY <1>1, <2>1, <2>2, ShownAfter
<1>6. CASE CheckProgress(r)
  <2> DEFINE found == \E s \in Students : RatedIn(progress[l][s])
  <2>1. /\ pc[r] = "ckProgress"
        /\ pc'[r] = IF j.refuse \/ found THEN "unshare" ELSE "delContent"
    BY <1>6 DEF CheckProgress, Goto, TypeOK
  <2>2. k.op = j.op
    BY <1>6 DEF CheckProgress, TypeOK, Job
  <2>3. k \in Job
    BY TypeStep, <1>1 DEF Next, TypeOK
  <2>4. ASSUME alone = r
        PROVE  /\ Active(r)'
               /\ Ways(pc'[r], k, v)
               /\ \A s \in Students :
                     /\ attend'[l][s] = AttendIs(pc'[r], k, v, s)
                     /\ progress'[l][s] = ProgressIs(pc'[r], k, v, s)
               /\ content'[l] = ContentIs(pc'[r], k, v)
               /\ Hosted(r)'
    <3>1. j.refuse = \E s \in Students : TRUE \in v.attend[s]
      BY <1>4, <2>1, <2>4 DEF Ways
    <3>2. (j.refuse \/ found) <=> Recorded(v)
      BY <1>4, <2>4, <3>1 DEF Recorded
    <3> HIDE DEF found
    <3>3. CASE Recorded(v)
      <4>1. pc'[r] = "unshare" /\ k.op = "delete"
        BY <1>4, <2>1, <2>2, <2>4, <3>2, <3>3
      <4>2. Result(k, v) = v
        BY <1>4, <2>3, <2>4, <3>3, <4>1, Results
      <4> QED
        BY <1>2, <1>4, <1>1, <2>4, <3>3, <4>1, <4>2, AlonesStay
           DEF Ways, AttendIs, ProgressIs, ContentIs, Active, Resting, Hosted
    <3>4. CASE ~Recorded(v)
      <4>1. pc'[r] = "delContent" /\ k.op = "delete"
        BY <1>4, <2>1, <2>2, <2>4, <3>2, <3>4
      <4> QED
        BY <1>2, <1>4, <2>4, <3>4, <4>1
           DEF Ways, AttendIs, ProgressIs, ContentIs, Active, Resting, Hosted
    <3> QED
      BY <3>3, <3>4
  <2> QED
    BY <1>1, <2>4, ShownAfter
<1> QED
  BY <1>5, <1>6

LEMMA DeleteQuiet ==
    ASSUME TypeOK, Locals, Undisturbed, Known, NEW r \in Requests,
           DeleteContent(r) \/ DeleteAttend(r) \/ DeleteProgress(r) \/ DeleteLessonRow(r)
    PROVE  Undisturbed'
<1> PICK j : j = job[r]
  OBVIOUS
<1> PICK v : v = base
  OBVIOUS
<1> PICK l : l = Les(r)
  OBVIOUS
<1>1. Statement(r) /\ pc[r] # "insert"
  BY DEF Statement, DeleteContent, DeleteAttend, DeleteProgress, DeleteLessonRow
<1>2. job'[r] = j
  BY DEF DeleteContent, DeleteAttend, DeleteProgress, DeleteLessonRow
<1>3. ASSUME alone = r
      PROVE  /\ l \in Lessons /\ v \in Views /\ j \in Job
             /\ Ways(pc[r], j, v)
             /\ \A s \in Students : /\ attend[l][s] = AttendIs(pc[r], j, v, s)
                                    /\ progress[l][s] = ProgressIs(pc[r], j, v, s)
             /\ content[l] = ContentIs(pc[r], j, v)
  BY <1>1, <1>3, ShownBefore DEF Shows
<1> DEFINE Goal == alone = r =>
              /\ Active(r)' \/ pc'[r] = "done"
              /\ Ways(pc'[r], j, v)
              /\ \A s \in Students :
                    /\ attend'[l][s] = AttendIs(pc'[r], j, v, s)
                    /\ progress'[l][s] = ProgressIs(pc'[r], j, v, s)
              /\ content'[l] = ContentIs(pc'[r], j, v)
              /\ Hosted(r)'
<1>4. CASE DeleteContent(r)
  <2>1. /\ pc[r] = "delContent" /\ pc'[r] = "delAttend"
        /\ attend' = attend /\ progress' = progress
        /\ l \in Lessons => content'[l] = {}
    BY <1>4 DEF DeleteContent, Goto, TypeOK
  <2>2. Goal
    BY <1>3, <2>1 DEF Ways, AttendIs, ProgressIs, ContentIs, Active, Resting, Hosted
  <2> QED
    BY <1>1, <1>2, <2>2, ShownAfter
<1>5. CASE DeleteAttend(r)
  <2>1. /\ pc[r] = "delAttend"
        /\ pc'[r] = IF j.op = "delete" THEN "delProgress" ELSE "delLesson"
        /\ progress' = progress /\ content' = content
        /\ l \in Lessons => \A s \in Students : attend'[l][s] = {}
    BY <1>5 DEF DeleteAttend, Goto, TypeOK
  <2>2. Goal
    BY <1>3, <2>1 DEF Ways, AttendIs, ProgressIs, ContentIs, Active, Resting, Hosted
  <2> QED
    BY <1>1, <1>2, <2>2, ShownAfter
<1>6. CASE DeleteProgress(r)
  <2>1. /\ pc[r] = "delProgress" /\ pc'[r] = "delLesson"
        /\ attend' = attend /\ content' = content
        /\ l \in Lessons => \A s \in Students : progress'[l][s] = <<>>
    BY <1>6 DEF DeleteProgress, Goto, TypeOK
  <2>2. Goal
    BY <1>3, <2>1 DEF Ways, AttendIs, ProgressIs, ContentIs, Active, Resting, Hosted
  <2> QED
    BY <1>1, <1>2, <2>2, ShownAfter
<1>7. CASE DeleteLessonRow(r)
  <2>1. /\ pc[r] = "delLesson" /\ pc'[r] = IF j.op = "delete" THEN "unshare" ELSE "done"
        /\ attend' = attend /\ progress' = progress /\ content' = content
        /\ l \notin lessons'
    BY <1>7 DEF DeleteLessonRow, Goto, TypeOK
  <2>2. Les(r)' = l
    BY <1>2 DEF Les
  <2>3. ASSUME alone = r
        PROVE  Goal
    <3>1. /\ j.op \in {"delete", "archive"} /\ content[l] = {}
          /\ j.op = "delete" => ~Recorded(v)
      BY <1>3, <2>1, <2>3 DEF Ways, ContentIs
    <3>2. \A s \in Students :
             /\ attend[l][s] = {}
             /\ progress[l][s] = IF j.op = "delete" THEN <<>> ELSE v.progress[s]
      BY <1>3, <2>1, <2>3 DEF AttendIs, ProgressIs
    <3>3. /\ \A s \in Students :
                /\ Result(j, v).attend[s] = {}
                /\ Result(j, v).progress[s] = IF j.op = "delete" THEN <<>> ELSE v.progress[s]
          /\ Result(j, v).content = {}
      <4>1. CASE j.op = "delete"
        <5>1. Result(j, v) = NoView
          BY <1>3, <2>3, <3>1, <4>1, Results
        <5> QED
          BY <4>1, <5>1 DEF NoView
      <4>2. CASE j.op = "archive"
        <5>1. Result(j, v) = [NoView EXCEPT !.progress = v.progress]
          BY <1>3, <2>3, <4>2, Results
        <5> QED
          BY <4>2, <5>1 DEF NoView
      <4> QED
        BY <3>1, <4>1, <4>2
    <3>4. Ways(pc'[r], j, v)
      BY <2>1, <3>1 DEF Ways
    <3>5. Hosted(r)'
      BY <1>2, <2>1, <2>2, <3>1 DEF Hosted
    <3> QED
      BY <2>1, <3>2, <3>1, <3>3, <3>4, <3>5 DEF AttendIs, ProgressIs, ContentIs, Active, Resting
  <2> QED
    BY <1>1, <1>2, <2>3, ShownAfter
<1> QED
  BY <1>4, <1>5, <1>6, <1>7

LEMMA ShareQuiet ==
    ASSUME TypeOK, Locals, Undisturbed, Known, NEW r \in Requests,
           DeletePresenters(r) \/ InsertPresenter(r) \/ ShareDone(r)
    PROVE  Undisturbed'
<1> PICK j : j = job[r]
  OBVIOUS
<1> PICK k : k = job'[r]
  OBVIOUS
<1> PICK v : v = base
  OBVIOUS
<1> PICK l : l = Les(r)
  OBVIOUS
<1>1. Statement(r) /\ pc[r] # "insert"
  BY DEF Statement, DeletePresenters, InsertPresenter, ShareDone
<1>2. /\ lessons' = lessons /\ attend' = attend /\ progress' = progress
      /\ content' = content
  BY DEF DeletePresenters, InsertPresenter, ShareDone, tables
<1>3. ASSUME alone = r
      PROVE  /\ l \in Lessons /\ v \in Views /\ j \in Job
             /\ Ways(pc[r], j, v) /\ Hosted(r) /\ base' = base
             /\ \A s \in Students : /\ attend[l][s] = AttendIs(pc[r], j, v, s)
                                    /\ progress[l][s] = ProgressIs(pc[r], j, v, s)
             /\ content[l] = ContentIs(pc[r], j, v)
  BY <1>1, <1>3, ShownBefore, AlonesStay DEF Shows
<1>4. CASE DeletePresenters(r)
  <2>1. /\ pc[r] = "unshare" /\ k = j
        /\ pc'[r] = IF j.op = "share" THEN "share" ELSE "done"
        /\ l \in Lessons => presenters'[l] = {}
    BY <1>4 DEF DeletePresenters, Goto, TypeOK
  <2>2. Les(r)' = l
    BY <2>1 DEF Les
  <2>3. ASSUME alone = r
        PROVE  /\ Active(r)' \/ pc'[r] = "done"
               /\ Ways(pc'[r], k, v)
               /\ \A s \in Students :
                     /\ attend'[l][s] = AttendIs(pc'[r], k, v, s)
                     /\ progress'[l][s] = ProgressIs(pc'[r], k, v, s)
               /\ content'[l] = ContentIs(pc'[r], k, v)
               /\ Hosted(r)'
    <3>1. j.op = "delete" \/ (j.op = "share" /\ j.todo = j.hosts)
      BY <1>3, <2>1, <2>3 DEF Ways
    <3>2. j.op = "share" => Result(j, v) = v
      BY <1>3, <2>3, Results
    <3>3. CASE j.op = "share"
      <4>1. j.hosts \ j.todo = {}
        BY <3>1, <3>3
      <4> QED
        BY <1>2, <1>3, <2>1, <2>2, <2>3, <3>1, <3>2, <3>3, <4>1
           DEF Ways, AttendIs, ProgressIs, ContentIs, Active, Resting, Hosted
    <3>4. CASE j.op = "delete"
      BY <1>2, <1>3, <2>1, <2>2, <2>3, <3>4
         DEF Ways, AttendIs, ProgressIs, ContentIs, Hosted
    <3> QED
      BY <3>1, <3>3, <3>4
  <2> QED
    BY <1>1, <2>3, ShownAfter
<1>5. CASE InsertPresenter(r)
  <2>1. PICK t \in j.todo :
           presenters' = [presenters EXCEPT ![l] = @ \cup {t}] /\ Todo(r, j.todo \ {t})
    BY <1>5 DEF InsertPresenter
  <2>2. pc[r] = "share" /\ pc'[r] = "share"
    BY <1>5 DEF InsertPresenter
  <2>3. /\ k.op = j.op /\ k.lesson = j.lesson /\ k.hosts = j.hosts /\ k.todo = j.todo \ {t}
    BY <2>1, TodoFields DEF TypeOK, Todo, Job
  <2>4. Les(r)' = l
    BY <2>3 DEF Les
  <2>5. ASSUME alone = r
        PROVE  /\ Active(r)'
               /\ Ways("share", k, v)
               /\ \A s \in Students :
                     /\ attend'[l][s] = AttendIs("share", k, v, s)
                     /\ progress'[l][s] = ProgressIs("share", k, v, s)
               /\ content'[l] = ContentIs("share", k, v)
               /\ Hosted(r)'
    <3>1. j.op = "share" /\ j.todo \subseteq j.hosts
      BY <1>3, <2>2, <2>5 DEF Ways
    <3>2. presenters[l] = j.hosts \ j.todo /\ presenters'[l] = presenters[l] \cup {t}
      BY <1>3, <2>1, <2>2, <2>5 DEF Hosted, TypeOK
    <3>3. presenters'[l] = j.hosts \ (j.todo \ {t})
      BY <2>1, <3>1, <3>2
    <3>4. Ways("share", k, v)
      BY <2>3, <3>1 DEF Ways
    <3> QED
      BY <1>2, <1>3, <2>2, <2>3, <2>4, <2>5, <3>3, <3>4
         DEF AttendIs, ProgressIs, ContentIs, Active, Resting, Hosted
  <2> QED
    BY <1>1, <2>2, <2>5, ShownAfter
<1>6. CASE ShareDone(r)
  <2>1. pc[r] = "share" /\ j.todo = {} /\ pc'[r] = "done" /\ k = j /\ presenters' = presenters
    BY <1>6 DEF ShareDone, Goto, TypeOK, tables
  <2>2. Les(r)' = l
    BY <2>1 DEF Les
  <2>3. ASSUME alone = r
        PROVE  /\ Active(r)' \/ pc'[r] = "done"
               /\ Ways(pc'[r], k, v)
               /\ \A s \in Students :
                     /\ attend'[l][s] = AttendIs(pc'[r], k, v, s)
                     /\ progress'[l][s] = ProgressIs(pc'[r], k, v, s)
               /\ content'[l] = ContentIs(pc'[r], k, v)
               /\ Hosted(r)'
    <3>1. j.op = "share"
      BY <1>3, <2>1, <2>3 DEF Ways
    <3>2. Result(j, v) = v
      BY <1>3, <2>3, <3>1, Results
    <3>3. presenters[l] = j.hosts
      BY <1>3, <2>1, <2>3 DEF Hosted
    <3> QED
      BY <1>2, <1>3, <2>1, <2>2, <2>3, <3>1, <3>2, <3>3
         DEF Ways, AttendIs, ProgressIs, ContentIs, Hosted
  <2> QED
    BY <1>1, <2>3, ShownAfter
<1> QED
  BY <1>4, <1>5, <1>6

LEMMA StatementQuiet ==
    ASSUME TypeOK, Locals, Undisturbed, Known, Fresh, NEW r \in Requests, Statement(r)
    PROVE  Undisturbed'
  BY InsertLessonQuiet, EnrolQuiet, DropQuiet, EquipQuiet, MarkQuiet, RateQuiet, LookQuiet,
     DeleteQuiet, ShareQuiet, SMTT(60) DEF Statement

-----------------------------------------------------------------------------
(* Lessons of requests have ids; ids to come have no rows. *)

LEMMA OwnLesson ==
    ASSUME TypeOK, NEW r \in Requests, Arrive(r) \/ Statement(r) \/ Fail(r),
           NEW l \in Lessons, l # Les(r)
    PROVE  attend'[l] = attend[l] /\ content'[l] = content[l]
<1>1. CASE InsertStudent(r)
  BY <1>1 DEF InsertStudent, SetAttend, TypeOK
<1>2. CASE DeleteStudent(r)
  BY <1>2 DEF DeleteStudent, SetAttend, TypeOK
<1>3. CASE MarkStudent(r)
  BY <1>3 DEF MarkStudent, SetAttend, TypeOK
<1>4. CASE DeleteAttend(r) \/ ReplaceContent(r) \/ InsertContent(r) \/ DeleteContent(r)
  BY <1>4 DEF DeleteAttend, ReplaceContent, InsertContent, DeleteContent, TypeOK
<1> QED
  BY <1>1, <1>2, <1>3, <1>4
     DEF Arrive, BeginNew, BeginUpdate, BeginDelete, BeginArchive, BeginShare,
     OpenRecords, BeginSave, Begin, Fail, tables,
     Statement, InsertLesson, CompareStudents, InsertStudentsDone, DeleteStudentsDone,
     InsertContentDone, CleanProgress, MarksDone, LookUp, InsertRow, UpdateRows, SaveDone,
     CheckAttendance, CheckProgress, DeleteProgress, DeleteLessonRow, DeletePresenters,
     InsertPresenter, ShareDone

LEMMA MadeGrows ==
    ASSUME NEW r \in Requests, Arrive(r) \/ Statement(r) \/ Fail(r)
    PROVE  made \subseteq made' /\ (~InsertLesson(r) => made' = made)
<1>1. CASE InsertLesson(r)
  BY <1>1 DEF InsertLesson
<1> QED
  BY <1>1
     DEF Arrive, BeginNew, BeginUpdate, BeginDelete, BeginArchive, BeginShare,
     OpenRecords, BeginSave, Begin, Fail, tables,
     Statement, CompareStudents, InsertStudent, InsertStudentsDone, DeleteStudent,
     DeleteStudentsDone, ReplaceContent, InsertContent, InsertContentDone, CleanProgress,
     MarkStudent, MarksDone, LookUp, InsertRow, UpdateRows, SaveDone, CheckAttendance,
     CheckProgress, DeleteContent, DeleteAttend, DeleteProgress, DeleteLessonRow,
     DeletePresenters, InsertPresenter, ShareDone

LEMMA KnownStep == TypeOK /\ Locals /\ Known /\ [Next]_vars => Known'
<1> SUFFICES ASSUME TypeOK, Locals, Known, [Next]_vars, NEW q \in Requests,
                    (Active(q)' /\ pc'[q] # "insert") \/ pc'[q] = "page"
             PROVE  Les(q)' \in made'
  BY DEF Known
<1>1. CASE UNCHANGED vars
  BY <1>1 DEF vars, tables, Known, Active, Les
<1>2. ASSUME NEW r \in Requests, Arrive(r) \/ Statement(r) \/ Fail(r), r # q
      PROVE  Les(q)' \in made'
  BY <1>2, OwnStep, MadeGrows DEF Known, Active, Les
<1>3. CASE Arrive(q)
  <2> USE DEF Les, Asked
  <2>1. made' = made
    BY <1>3, MadeGrows DEF Arrive, BeginNew, BeginUpdate, BeginDelete, BeginArchive,
       BeginShare, OpenRecords, BeginSave, Begin, tables
  <2>2. CASE BeginNew(q)
    BY <2>2 DEF BeginNew, Begin, Goto, TypeOK
  <2>3. CASE BeginUpdate(q)
    BY <2>1, <2>3 DEF BeginUpdate, Begin, TypeOK
  <2>4. CASE BeginDelete(q) \/ BeginArchive(q)
    BY <2>1, <2>4 DEF BeginDelete, BeginArchive, Begin, TypeOK
  <2>5. CASE BeginShare(q)
    BY <2>1, <2>5 DEF BeginShare, Begin, TypeOK
  <2>6. CASE OpenRecords(q)
    BY <2>1, <2>6 DEF OpenRecords, TypeOK
  <2>7. CASE BeginSave(q)
    <3>1. job'[q].lesson = job[q].lesson /\ pc[q] = "page"
      BY <2>7 DEF BeginSave, Begin, TypeOK, Job
    <3> QED
      BY <2>1, <3>1 DEF Known
  <2> QED
    BY <1>3, <2>2, <2>3, <2>4, <2>5, <2>6, <2>7 DEF Arrive
<1>4. CASE Statement(q)
  <2>1. CASE InsertLesson(q)
    BY <2>1 DEF InsertLesson, Les, TypeOK, Job
  <2>2. CASE ~InsertLesson(q)
    <3>1. pc[q] # "insert"
      BY <1>4, <2>2 DEF Statement, CompareStudents, InsertStudent, InsertStudentsDone,
         DeleteStudent, DeleteStudentsDone, ReplaceContent, InsertContent, InsertContentDone,
         CleanProgress, MarkStudent, MarksDone, LookUp, InsertRow, UpdateRows, SaveDone,
         CheckAttendance, CheckProgress, DeleteContent, DeleteAttend, DeleteProgress,
         DeleteLessonRow, DeletePresenters, InsertPresenter, ShareDone
    <3> QED
      BY <1>4, <3>1, StatementKeeps, MadeGrows DEF Known, Les
  <2> QED
    BY <2>1, <2>2
<1>5. CASE Fail(q)
  BY <1>5 DEF Fail, Goto, TypeOK, Active, Resting
<1> QED
  BY <1>1, <1>2, <1>3, <1>4, <1>5 DEF Next

LEMMA FreshStep == TypeOK /\ Locals /\ Known /\ Fresh /\ [Next]_vars => Fresh'
<1> SUFFICES ASSUME TypeOK, Locals, Known, Fresh, [Next]_vars,
                    NEW l \in Lessons, l \notin made'
             PROVE  (\A s \in Students : attend'[l][s] = {}) /\ content'[l] = {}
  BY DEF Fresh
<1>1. CASE UNCHANGED vars
  BY <1>1 DEF vars, tables, Fresh
<1>2. ASSUME NEW r \in Requests, Arrive(r) \/ Statement(r) \/ Fail(r)
      PROVE  (\A s \in Students : attend'[l][s] = {}) /\ content'[l] = {}
  <2>1. l \notin made /\ (\A s \in Students : attend[l][s] = {}) /\ content[l] = {}
    BY <1>2, MadeGrows DEF Fresh
  <2>2. CASE l # Les(r)
    BY <1>2, <2>1, <2>2, OwnLesson
  <2>3. CASE UNCHANGED <<attend, content>>
    BY <2>1, <2>3
  <2>4. CASE ~UNCHANGED <<attend, content>>
    <3>1. ~Arrive(r) /\ ~Fail(r) /\ ~InsertLesson(r)
      BY <2>4, ZenonT(60) DEF Arrive, BeginNew, BeginUpdate, BeginDelete, BeginArchive, BeginShare,
         OpenRecords, BeginSave, Begin, Fail, tables, InsertLesson
    <3>2. Active(r) /\ pc[r] # "insert"
      BY <1>2, <3>1, StatementKeeps DEF Statement, CompareStudents, InsertStudent,
         InsertStudentsDone, DeleteStudent, DeleteStudentsDone, ReplaceContent, InsertContent,
         InsertContentDone, CleanProgress, MarkStudent, MarksDone, LookUp, InsertRow,
         UpdateRows, SaveDone, CheckAttendance, CheckProgress, DeleteContent, DeleteAttend,
         DeleteProgress, DeleteLessonRow, DeletePresenters, InsertPresenter, ShareDone
    <3> QED
      BY <2>1, <2>2, <3>2 DEF Known
  <2> QED
    BY <2>3, <2>4
<1> QED
  BY <1>1, <1>2 DEF Next

-----------------------------------------------------------------------------

LEMMA UndisturbedStep ==
    TypeOK /\ Locals /\ Known /\ Fresh /\ Undisturbed /\ [Next]_vars => Undisturbed'
<1> SUFFICES ASSUME TypeOK, Locals, Known, Fresh, Undisturbed, [Next]_vars
             PROVE  Undisturbed'
  OBVIOUS
<1>1. CASE UNCHANGED vars
  BY <1>1 DEF vars, tables, history, Undisturbed, Quiet, Active, Shows, Hosted, Les
<1>2. ASSUME NEW r \in Requests, Fail(r)
      PROVE  Undisturbed'
  <2> SUFFICES ASSUME NEW q \in Requests, alone' = q
               PROVE  FALSE
    BY DEF Undisturbed
  <2>1. Active(r) /\ alone = q /\ q # r
    BY <1>2, LessonsAssumption DEF Fail
  <2> QED
    BY <2>1 DEF Undisturbed, Quiet
<1> QED
  BY <1>1, <1>2, ArriveQuiet, StatementQuiet DEF Next

LEMMA AtomicInit == Init => Known /\ Fresh /\ Undisturbed
<1> SUFFICES ASSUME Init
             PROVE  Known /\ Fresh /\ Undisturbed
  OBVIOUS
<1>1. Known
  BY DEF Init, Known, Active, Resting
<1>2. Fresh
  BY DEF Init, Fresh, Enrolled
<1>3. Undisturbed
  BY LessonsAssumption DEF Init, Undisturbed
<1> QED
  BY <1>1, <1>2, <1>3

\* What a request shows at the end of its handler is the result of its kind.
LEMMA QuietIsAtomic == TypeOK /\ Undisturbed => UndisturbedIsAtomic
<1> SUFFICES ASSUME TypeOK, Undisturbed, NEW r \in Requests, alone = r, pc[r] = "done"
             PROVE  /\ View(Les(r)) = Result(job[r], base)
                    /\ job[r].op = "share" => presenters[Les(r)] = job[r].hosts
                    /\ job[r].op = "delete" =>
                          /\ presenters[Les(r)] = {}
                          /\ ~Recorded(base) => Les(r) \notin lessons
  BY DEF UndisturbedIsAtomic
<1>1. /\ Les(r) \in Lessons /\ base \in Views /\ job[r] \in Job
      /\ Shows(r) /\ Hosted(r)
  BY ShownBefore
<1>2. View(Les(r)) \in Views
  BY <1>1, ViewsTyped
<1>3. Result(job[r], base) \in Views
  BY <1>1, ResultTyped
<1>4. /\ \A s \in Students :
            /\ View(Les(r)).attend[s] = Result(job[r], base).attend[s]
            /\ View(Les(r)).progress[s] = Result(job[r], base).progress[s]
      /\ View(Les(r)).content = Result(job[r], base).content
  BY <1>1 DEF Shows, View, AttendIs, ProgressIs, ContentIs
<1>5. View(Les(r)) = Result(job[r], base)
  BY <1>2, <1>3, <1>4, SameView
<1> QED
  BY <1>1, <1>5 DEF Hosted

\* The loops of statements of Createlesson, Updatelesson, saveRecords, the deletions and
\* the sharing of a presentation add up to one change of the lesson as the request found
\* it, whatever earlier overlaps and failures left there, unless a request overlaps.
THEOREM UndisturbedRequestsAreAtomic == Spec => []UndisturbedIsAtomic
<1> DEFINE Inv == TypeOK /\ Locals /\ Known /\ Fresh /\ Undisturbed
<1>1. Init => Inv
  BY TypeInit, LocalInit, AtomicInit
<1>2. Inv /\ [Next]_vars => Inv'
  BY TypeStep, LocalStep, KnownStep, FreshStep, UndisturbedStep
<1>3. Inv => UndisturbedIsAtomic
  BY QuietIsAtomic
<1> QED
  BY <1>1, <1>2, <1>3, PTL DEF Spec
=============================================================================
