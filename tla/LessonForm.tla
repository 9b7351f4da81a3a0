----------------------------- MODULE LessonForm -----------------------------
(***************************************************************************)
(* The script of the page on which a lesson is made (createlesson.jsp, and *)
(* infouser.jsp, which it includes).  Choosing a level, a subject or an    *)
(* objective asks the server for the list of the next combo; the list of   *)
(* students, the terms of a year and a lesson idea are asked for likewise. *)
(*                                                                         *)
(* All requests share one variable, ajax, which holds the newest one.      *)
(* Each has a callback of its own, but every callback reads the state and  *)
(* the answer of whatever request ajax holds by then.  Answers come in any *)
(* order, and a request calls back before its answer is complete as well   *)
(* as when it is (readyState 2, 3 and 4).                                  *)
(***************************************************************************)
EXTENDS Naturals, FiniteSets

CONSTANTS
    Levels, Years, Ideas,
    Ids,             \* subjects, objectives and contents: ids of tables of their own
    SubjectsOf,      \* the subjects of a level
    ObjectivesOf,    \* the objectives of a subject
    ContentsOf,      \* the contents of an objective
    IdeaOf,          \* the level, subject and objective of an idea
    None,            \* "-1", the entry that asks to select
    MaxRequests,     \* bound: requests of one page
    MaxFaults        \* bound: answers with another status than 200

ASSUME FormAssumption ==
    /\ None \notin Ids \cup Levels
    /\ SubjectsOf \in [Levels \cup {None} -> SUBSET Ids] /\ SubjectsOf[None] = {}
    /\ ObjectivesOf \in [Ids \cup {None} -> SUBSET Ids] /\ ObjectivesOf[None] = {}
    /\ ContentsOf \in [Ids \cup {None} -> SUBSET Ids] /\ ContentsOf[None] = {}
    /\ IdeaOf \in [Ideas -> [level : Levels, subject : Ids, objective : Ids]]
    /\ MaxRequests \in Nat \ {0} /\ MaxFaults \in Nat

VARIABLES
    chosen,      \* what the combos stand on
    shown,       \* what they list
    loading,     \* whether the picture that covers the form is up
    ajax,        \* the newest request
    older,       \* how many of the others are out, by kind: nobody reads their answers
    made,        \* requests made
    faults,
    patient      \* history: nothing was asked while something else was out, no answer
                 \* was a failure and no idea was copied

combos == <<chosen, shown, loading>>
vars == <<combos, ajax, older, made, faults, patient>>

\* The combos that answers of one form fill: a list of ids with names.
Lists == {"subject", "objective", "content"}
Kinds == Lists \cup {"student", "term", "idea"}
Combos == Kinds \ {"idea"}
Items == Ids \cup Levels \cup Years \cup {None}
Args == Items \cup Ideas
Request == [kind : Kinds, arg : Args, state : {"unsent", "sent", "ok", "failed"},
            answer : SUBSET Items]

Asked(kind, arg, state) == [kind |-> kind, arg |-> arg, state |-> state, answer |-> {}]
NoneOut == ajax.state # "sent" /\ \A k \in Kinds : older[k] = 0

\* While the page loads, infouser.jsp asks for the terms of the current year.
Init ==
    /\ chosen = [level |-> None, subject |-> None, objective |-> None]
    /\ shown = [c \in Combos |-> {}]
    /\ loading = FALSE
    /\ \E y \in Years : ajax = Asked("term", y, "sent")
    /\ older = [k \in Kinds |-> 0]
    /\ made = 1
    /\ faults = 0
    /\ patient = TRUE

-----------------------------------------------------------------------------
(* The user. *)

Ask(kind, arg, state) ==
    /\ made < MaxRequests
    /\ made' = made + 1
    /\ ajax' = Asked(kind, arg, state)
    /\ older' = IF ajax.state = "sent" THEN [older EXCEPT ![ajax.kind] = @ + 1] ELSE older
    /\ patient' = (patient /\ (state = "sent" => kind # "idea")
                   /\ \A k \in Kinds : older'[k] > 0 => k = kind)
    /\ UNCHANGED faults

\* comboSelectionLevel
ChooseLevel(l) ==
    /\ l # chosen.level
    /\ Ask("subject", l, "sent")
    /\ chosen' = [level |-> l, subject |-> None, objective |-> None]
    /\ shown' = [shown EXCEPT !["content"] = {}]
    /\ loading' = TRUE

\* (Mutant: the contents of the objective before stay.)
ChooseSubjectOnly(s) ==
    /\ s \in shown["subject"] \cup {None} /\ s # chosen.subject
    /\ Ask("objective", s, "sent")
    /\ chosen' = [chosen EXCEPT !.subject = s]
    /\ UNCHANGED <<shown, loading>>

\* comboSelectionSubject: the objective chosen before stays until the answer comes.
ChooseSubject(s) ==
    /\ s \in shown["subject"] \cup {None} /\ s # chosen.subject
    /\ Ask("objective", s, "sent")
    /\ chosen' = [chosen EXCEPT !.subject = s]
    /\ shown' = [shown EXCEPT !["content"] = {}]
    /\ UNCHANGED loading

\* comboSelectionObjective
ChooseObjective(o) ==
    /\ o \in shown["objective"] \cup {None} /\ o # chosen.objective
    /\ Ask("content", o, "sent")
    /\ chosen' = [chosen EXCEPT !.objective = o]
    /\ UNCHANGED <<shown, loading>>

\* comboSelectionLevelStudent, and terms of infouser.jsp
ChooseStudents(l) == Ask("student", l, "sent") /\ UNCHANGED combos
ChooseYear(y) == Ask("term", y, "sent") /\ UNCHANGED combos

\* comboSelectionIdeaLessons: a request that is made and not sent when the entry
\* chosen is "Select an idea".
ChooseIdea(i) == Ask("idea", i, "sent") /\ loading' = TRUE /\ UNCHANGED <<chosen, shown>>
ChooseNoIdea == Ask("idea", None, "unsent") /\ UNCHANGED combos

-----------------------------------------------------------------------------
(* The server.  Of the subjects getSubjects passes over the first row it   *)
(* reads, which need not be one of an active course.                       *)

Listed(l) == {SubjectsOf[l]} \cup {SubjectsOf[l] \ {s} : s \in SubjectsOf[l]}

Answers(kind, arg) ==
    CASE kind = "subject"   -> Listed(arg)
      [] kind = "objective" -> {ObjectivesOf[arg]}
      [] kind = "content"   -> {ContentsOf[arg]}
      [] kind = "idea"      -> Listed(IdeaOf[arg].level)
      [] OTHER              -> {{arg}}

-----------------------------------------------------------------------------
(* The callbacks.  y is the request ajax holds, whose kind need not be the *)
(* callback's.                                                             *)

\* The callback of the objectives turns the first entry into the one that asks to
\* select; it alone reads the answer before it empties its combo.
Filled(k, y) ==
    CASE k = "objective" /\ y.kind = "content" /\ y.answer # {} ->
            {y.answer \ {i} : i \in y.answer}
      [] k = "objective" /\ y.kind = "student" -> {shown[k]}
      [] k = y.kind \/ {k, y.kind} \subseteq Lists -> {y.answer}
      [] OTHER -> {{}}

\* (Mutant: the subjects are listed anew with the old choice.)
DeselectsObjective(k, y) ==
    k = "objective" /\ y.kind # "student"

Deselects(k, y) ==
    k = "subject" \/ (k = "objective" /\ y.kind # "student")

ShowList(k, y) ==
    /\ \E items \in Filled(k, y) : shown' = [shown EXCEPT ![k] = items]
    /\ chosen' = IF Deselects(k, y) THEN [chosen EXCEPT ![k] = None] ELSE chosen
    /\ loading' = IF k = "subject" THEN FALSE ELSE loading

\* Which subject is chosen depends on the sorting, which keeps the position and moves
\* the entries; the level follows only if it has not been picked by hand before.
ShowIdea(y) ==
    LET idea == IdeaOf[y.arg]
    IN  /\ \E l \in {chosen.level, idea.level}, s \in y.answer \cup {None} :
              chosen' = [level |-> l, subject |-> s,
                         objective |-> IF idea.objective \in ObjectivesOf[idea.subject]
                                       THEN idea.objective ELSE None]
        /\ shown' = [shown EXCEPT !["subject"] = y.answer,
                                  !["objective"] = ObjectivesOf[idea.subject],
                                  !["content"] = ContentsOf[idea.objective]]
        /\ loading' = FALSE

Callback(k, y) ==
    IF y.state # "ok" THEN UNCHANGED combos
    ELSE IF k # "idea" THEN ShowList(k, y)
    ELSE IF y.kind = "idea" THEN ShowIdea(y)
    ELSE loading' = FALSE /\ UNCHANGED <<chosen, shown>>

Answer ==
    /\ ajax.state = "sent"
    /\ \E a \in Answers(ajax.kind, ajax.arg) :
          ajax' = [ajax EXCEPT !.state = "ok", !.answer = a]
    /\ Callback(ajax.kind, ajax')
    /\ UNCHANGED <<older, made, faults, patient>>

Fail ==
    /\ ajax.state = "sent" /\ faults < MaxFaults
    /\ faults' = faults + 1
    /\ ajax' = [ajax EXCEPT !.state = "failed"]
    /\ patient' = FALSE
    /\ UNCHANGED <<combos, older, made>>

\* (Mutant: a callback reads the request it belongs to.)
OwnAnswer(k, y) ==
    \E arg \in Levels : \E a \in Answers("subject", arg) :
       Callback(k, IF k = "subject" THEN [Asked(k, arg, "ok") EXCEPT !.answer = a] ELSE y)

Belated(k, y) == Callback(k, y)

\* An older request calls back, for the last time or not, with an answer or without.
Late(k) ==
    /\ older[k] > 0
    /\ \/ older' = [older EXCEPT ![k] = @ - 1]
       \/ UNCHANGED older
    /\ Belated(k, ajax)
    /\ UNCHANGED <<ajax, made, faults, patient>>

User ==
    \/ \E l \in Levels \cup {None} : ChooseLevel(l) \/ ChooseStudents(l)
    \/ \E i \in Ids \cup {None} : ChooseSubject(i) \/ ChooseObjective(i)
    \/ \E y \in Years : ChooseYear(y)
    \/ \E i \in Ideas : ChooseIdea(i)
    \/ ChooseNoIdea

Next == User \/ Answer \/ Fail \/ \E k \in Kinds : Late(k)

Spec == Init /\ [][Next]_vars

-----------------------------------------------------------------------------
(* Properties. *)

\* A combo stands on one of its entries, or on none.
TypeOK ==
    /\ chosen \in [level : Levels \cup {None}, subject : Ids \cup {None},
                   objective : Ids \cup {None}]
    /\ shown \in [Combos -> SUBSET Items]
    /\ \A k \in {"subject", "objective"} : chosen[k] \in shown[k] \cup {None}
    /\ loading \in BOOLEAN
    /\ ajax \in Request
    /\ older \in [Kinds -> 0..MaxRequests]
    /\ made \in 1..MaxRequests
    /\ faults \in 0..MaxFaults
    /\ patient \in BOOLEAN

\* The list that was asked for last is the one shown once its answer has come, in
\* whatever order older answers come after it (createlesson.jsp:462, :481, :575).
NewestShown ==
    ajax.state = "ok" /\ ajax.kind # "idea" => shown[ajax.kind] = ajax.answer

\* Who waits for an answer before asking for something else - but may change the
\* mind about the same combo at any time - gets combos that belong together.  (Who
\* does not gets an objective of another subject, or contents for objectives.)
PatientFormFits ==
    patient /\ NoneOut =>
        /\ ~loading
        /\ shown["subject"] \in Listed(chosen.level)
        /\ chosen.subject # None => shown["objective"] = ObjectivesOf[chosen.subject]
        /\ shown["content"] = ContentsOf[chosen.objective]
=============================================================================
