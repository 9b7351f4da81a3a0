-------------------------- MODULE LessonFormProofs --------------------------
(***************************************************************************)
(* Theorems about LessonForm, for all levels, ids, tables and bounds.      *)
(***************************************************************************)
EXTENDS LessonForm, TLAPS

\* What each kind of request is asked with and answered with; there are fewer older
\* requests of a kind than requests made.
Typed ==
    /\ ajax.kind \in {"subject", "student"} => ajax.arg \in Levels \cup {None}
    /\ ajax.kind \in {"objective", "content"} => ajax.arg \in Ids \cup {None}
    /\ ajax.kind = "idea" /\ ajax.state # "unsent" => ajax.arg \in Ideas
    /\ ajax.kind = "term" => ajax.arg \in Years
    /\ ajax.kind \in Lists \cup {"idea"} => ajax.answer \subseteq Ids
    /\ \A k \in Lists : shown[k] \subseteq Ids
    /\ \A k \in Kinds : older[k] < made

\* The request ajax holds has been answered, and what it was answered is an answer to
\* what it asked.
Answered ==
    ajax.state = "ok" => ajax.answer \in Answers(ajax.kind, ajax.arg)

Asking(k) == ajax.kind = k /\ ajax.state = "sent"

\* While the user is patient all requests out are of one kind, and each combo fits the
\* one before it, except those the newest request is about to fill.
Orderly ==
    patient =>
        /\ \A k \in Kinds : older[k] > 0 => k = ajax.kind
        /\ ajax.kind = "idea" => ajax.state = "unsent" /\ \A k \in Kinds : older[k] = 0
        /\ ajax.state = "failed" => FALSE
        /\ ajax.state = "unsent" => ajax.kind = "idea"
        /\ ajax.kind = "subject" =>
              /\ ajax.arg = chosen.level /\ chosen.subject = None /\ chosen.objective = None
              /\ shown["content"] = {}
        /\ ajax.kind = "objective" =>
              /\ ajax.arg = chosen.subject /\ shown["content"] = {}
              /\ ajax.state = "ok" => chosen.objective = None
        /\ ajax.kind = "content" => ajax.arg = chosen.objective
        /\ ~Asking("subject") => ~loading /\ shown["subject"] \in Listed(chosen.level)
        /\ ~Asking("objective") /\ chosen.subject # None =>
              shown["objective"] = ObjectivesOf[chosen.subject]
        /\ ~Asking("objective") /\ ~Asking("content") =>
              shown["content"] = ContentsOf[chosen.objective]

-----------------------------------------------------------------------------
(* The lists a callback may show.                                          *)

\* Answers are lists of what the combos hold.
LEMMA AnswersTyped ==
    ASSUME NEW kind \in Kinds, NEW arg \in Args,
           kind \in {"subject", "student"} => arg \in Levels \cup {None},
           kind \in {"objective", "content"} => arg \in Ids \cup {None},
           kind = "idea" => arg \in Ideas,
           kind = "term" => arg \in Years,
           NEW a \in Answers(kind, arg)
    PROVE  a \subseteq Items /\ (kind \in Lists \cup {"idea"} => a \subseteq Ids)
<1>1. \A l \in Levels \cup {None} : \A b \in Listed(l) : b \subseteq Ids
      BY FormAssumption DEF Listed
<1>2. kind = "idea" => IdeaOf[arg].level \in Levels
      BY FormAssumption
<1>. QED BY <1>1, <1>2, FormAssumption DEF Answers, Items, Lists, Kinds

\* Whatever request ajax holds, a callback fills its combo with entries of the right type.
LEMMA FilledTyped ==
    ASSUME TypeOK, Typed, NEW k \in Combos, NEW y \in Request,
           y.kind \in Lists => y.answer \subseteq Ids,
           NEW items \in Filled(k, y)
    PROVE  items \subseteq Items /\ (k \in Lists => items \subseteq Ids)
<1>1. CASE k = "objective" /\ y.kind = "content" /\ y.answer # {}
      BY <1>1 DEF Filled, Items, Lists
<1>2. CASE k = "objective" /\ y.kind = "student"
      BY <1>2 DEF Filled, TypeOK, Typed, Lists, Combos, Kinds
<1>3. CASE ~(k = "objective" /\ y.kind = "content" /\ y.answer # {})
           /\ ~(k = "objective" /\ y.kind = "student")
           /\ (k = y.kind \/ {k, y.kind} \subseteq Lists)
      BY <1>3 DEF Filled, Items, Lists, Request
<1>4. CASE ~(k = "objective" /\ y.kind = "content" /\ y.answer # {})
           /\ ~(k = "objective" /\ y.kind = "student")
           /\ ~(k = y.kind \/ {k, y.kind} \subseteq Lists)
      BY <1>4 DEF Filled
<1>. QED BY <1>1, <1>2, <1>3, <1>4

\* The same of a whole callback, and a combo still stands on one of its entries.
Standing ==
    /\ chosen' \in [level : Levels \cup {None}, subject : Ids \cup {None},
                    objective : Ids \cup {None}]
    /\ shown' \in [Combos -> SUBSET Items]
    /\ \A k \in {"subject", "objective"} : chosen'[k] \in shown'[k] \cup {None}
    /\ loading' \in BOOLEAN
    /\ \A k \in Lists : shown'[k] \subseteq Ids

LEMMA CallbackTyped ==
    ASSUME TypeOK, Typed, NEW k \in Kinds, NEW y \in Request,
           y.kind \in Lists \cup {"idea"} => y.answer \subseteq Ids,
           y.kind = "idea" /\ y.state = "ok" => y.arg \in Ideas,
           Callback(k, y)
    PROVE  Standing
<1>1. CASE y.state # "ok"
      BY <1>1 DEF Callback, Standing, TypeOK, Typed, combos
<1>2. CASE y.state = "ok" /\ k # "idea"
      <2>1. k \in Combos /\ ShowList(k, y)
            BY <1>2 DEF Callback, Combos
      <2>2. PICK items \in Filled(k, y) : shown' = [shown EXCEPT ![k] = items]
            BY <2>1 DEF ShowList
      <2>3. items \subseteq Items /\ (k \in Lists => items \subseteq Ids)
            BY <2>1, <2>2, FilledTyped
      <2>4. shown' \in [Combos -> SUBSET Items] /\ \A c \in Lists : shown'[c] \subseteq Ids
            BY <2>1, <2>2, <2>3 DEF TypeOK, Typed, Lists, Combos, Kinds
      <2>5. chosen' = IF Deselects(k, y) THEN [chosen EXCEPT ![k] = None] ELSE chosen
            BY <2>1 DEF ShowList
      <2>6. CASE Deselects(k, y)
            BY <2>1, <2>2, <2>4, <2>5, <2>6
            DEF Standing, TypeOK, Typed, Deselects, ShowList, Combos, Kinds, Lists
      <2>7. CASE ~Deselects(k, y)
            <3>1. k # "subject" /\ chosen' = chosen
                  BY <2>5, <2>7 DEF Deselects
            <3>2. k = "objective" => shown' = shown
                  <4>1. SUFFICES ASSUME k = "objective" PROVE shown' = shown
                        OBVIOUS
                  <4>2. y.kind = "student"
                        BY <2>7, <4>1 DEF Deselects
                  <4>3. Filled(k, y) = {shown[k]}
                        BY <4>1, <4>2 DEF Filled, Lists
                  <4>. QED BY <2>1, <2>2, <4>3 DEF TypeOK
            <3>. QED BY <3>1, <3>2, <2>1, <2>2, <2>4
                 DEF Standing, TypeOK, ShowList, Combos, Kinds, Lists
      <2>. QED BY <2>6, <2>7
<1>3. CASE y.state = "ok" /\ k = "idea" /\ y.kind = "idea"
      <2>1. ShowIdea(y) /\ y.arg \in Ideas /\ y.answer \subseteq Ids
            BY <1>3 DEF Callback
      <2>2. IdeaOf[y.arg] \in [level : Levels, subject : Ids, objective : Ids]
            BY <2>1, FormAssumption
      <2>3. ObjectivesOf[IdeaOf[y.arg].subject] \subseteq Ids
            /\ ContentsOf[IdeaOf[y.arg].objective] \subseteq Ids
            BY <2>2, FormAssumption
      <2>4. shown' \in [Combos -> SUBSET Items] /\ \A c \in Lists : shown'[c] \subseteq Ids
            BY <2>1, <2>3 DEF ShowIdea, TypeOK, Items, Lists, Combos, Kinds
      <2>5. /\ shown'["subject"] = y.answer
            /\ shown'["objective"] = ObjectivesOf[IdeaOf[y.arg].subject]
            BY <2>1 DEF ShowIdea, TypeOK, Combos, Kinds, Lists
      <2>6. PICK l \in {chosen.level, IdeaOf[y.arg].level}, s \in y.answer \cup {None} :
               chosen' = [level |-> l, subject |-> s,
                          objective |-> IF IdeaOf[y.arg].objective
                                           \in ObjectivesOf[IdeaOf[y.arg].subject]
                                        THEN IdeaOf[y.arg].objective ELSE None]
            BY <2>1 DEF ShowIdea
      <2>7. l \in Levels \cup {None}
            BY <2>2, <2>6 DEF TypeOK
      <2>8. chosen' \in [level : Levels \cup {None}, subject : Ids \cup {None},
                         objective : Ids \cup {None}]
            BY <2>1, <2>2, <2>6, <2>7
      <2>9. \A c \in {"subject", "objective"} : chosen'[c] \in shown'[c] \cup {None}
            <3>1. chosen'.subject \in shown'["subject"] \cup {None}
                  BY <2>5, <2>6
            <3>2. chosen'.objective \in shown'["objective"] \cup {None}
                  BY <2>5, <2>6
            <3>. QED BY <3>1, <3>2
      <2>10. loading' \in BOOLEAN
            BY <2>1 DEF ShowIdea
      <2>. QED BY <2>4, <2>8, <2>9, <2>10 DEF Standing
<1>4. CASE y.state = "ok" /\ k = "idea" /\ y.kind # "idea"
      <2>1. loading' = FALSE /\ chosen' = chosen /\ shown' = shown
            BY <1>4 DEF Callback
      <2>2. loading' \in BOOLEAN
            BY <2>1
      <2>3. UNCHANGED <<chosen, shown>>
            BY <2>1
      <2>. QED BY <2>2, <2>3 DEF Standing, TypeOK, Typed
<1>. QED BY <1>1, <1>2, <1>3, <1>4

-----------------------------------------------------------------------------
(* What a callback shows when the newest request has been answered.        *)

\* The list of the newest request is filled by its own callback and left alone by others.
LEMMA CallbackShows ==
    ASSUME TypeOK, NEW k \in Kinds, NEW y \in Request, y.state = "ok", y.kind # "idea",
           Callback(k, y), k = y.kind \/ shown[y.kind] = y.answer
    PROVE  shown'[y.kind] = y.answer
<1>1. CASE k = "idea"
      BY <1>1 DEF Callback
<1>2. CASE k # "idea"
      <2>1. k \in Combos /\ ShowList(k, y)
            BY <1>2 DEF Callback, Combos
      <2>2. PICK items \in Filled(k, y) : shown' = [shown EXCEPT ![k] = items]
            BY <2>1 DEF ShowList
      <2>3. CASE k = y.kind
            <3>1. Filled(k, y) = {y.answer}
                  BY <2>3 DEF Filled
            <3>. QED BY <2>1, <2>2, <2>3, <3>1 DEF TypeOK
      <2>4. CASE k # y.kind
            BY <2>1, <2>2, <2>4 DEF TypeOK, Request, Combos
      <2>. QED BY <2>3, <2>4
<1>. QED BY <1>1, <1>2

\* While the user is patient only the newest request's own callback runs, and what it
\* shows fits the rest of the form.
LEMMA CallbackOrderly ==
    ASSUME TypeOK, Typed, Orderly, patient, patient',
           ajax' \in Request, ajax'.kind = ajax.kind, ajax'.arg = ajax.arg,
           ajax.state \in {"sent", "ok"}, ajax'.state = "ok",
           ajax'.answer \in Answers(ajax.kind, ajax.arg),
           Callback(ajax.kind, ajax'),
           \A c \in Kinds : older'[c] > 0 => older[c] > 0
    PROVE  Orderly'
<1>. DEFINE k == ajax.kind
<1>1. k \in Combos /\ k \in Kinds
      BY DEF Orderly, TypeOK, Request, Combos
<1>2. ShowList(k, ajax')
      BY <1>1 DEF Callback, Combos
<1>3. Filled(k, ajax') = {ajax'.answer}
      BY DEF Filled
<1>4. shown' = [shown EXCEPT ![k] = ajax'.answer]
      BY <1>2, <1>3 DEF ShowList
<1>5. /\ \A c \in Kinds : older'[c] > 0 => c = ajax'.kind
      /\ ajax'.kind # "idea"
      /\ \A c \in Kinds : ~Asking(c)'
      BY <1>1 DEF Orderly, Asking, Combos
<1>6. CASE k = "subject"
      <2>1. chosen' = chosen /\ ~loading'
            BY <1>2, <1>6 DEF ShowList, Deselects, Orderly, TypeOK
      <2>2. shown'["subject"] \in Listed(ajax.arg)
            BY <1>4, <1>6 DEF Answers, TypeOK, Combos, Kinds, Lists
      <2>3. shown'["content"] = shown["content"]
            BY <1>4, <1>6 DEF TypeOK, Combos, Kinds, Lists
      <2>. QED BY <1>5, <1>6, <2>1, <2>2, <2>3, FormAssumption DEF Orderly, Asking
<1>7. CASE k = "objective"
      <2>1. chosen' = [chosen EXCEPT !.objective = None] /\ loading' = loading
            BY <1>2, <1>7 DEF ShowList, Deselects
      <2>2. shown'["objective"] = ObjectivesOf[ajax.arg]
            BY <1>4, <1>7 DEF Answers, TypeOK, Combos, Kinds, Lists
      <2>3. shown'["content"] = shown["content"] /\ shown'["subject"] = shown["subject"]
            BY <1>4, <1>7 DEF TypeOK, Combos, Kinds, Lists
      <2>4. chosen'.level = chosen.level /\ chosen'.subject = chosen.subject
            /\ chosen'.objective = None
            BY <2>1 DEF TypeOK
      <2>. QED BY <1>5, <1>7, <2>1, <2>2, <2>3, <2>4, FormAssumption DEF Orderly, Asking
<1>8. CASE k = "content"
      <2>1. chosen' = chosen /\ loading' = loading
            BY <1>2, <1>8 DEF ShowList, Deselects
      <2>2. shown'["content"] = ContentsOf[ajax.arg]
            BY <1>4, <1>8 DEF Answers, TypeOK, Combos, Kinds, Lists
      <2>3. shown'["objective"] = shown["objective"] /\ shown'["subject"] = shown["subject"]
            BY <1>4, <1>8 DEF TypeOK, Combos, Kinds, Lists
      <2>. QED BY <1>5, <1>8, <2>1, <2>2, <2>3 DEF Orderly, Asking
<1>9. CASE k \in {"student", "term"}
      <2>1. chosen' = chosen /\ loading' = loading
            BY <1>2, <1>9 DEF ShowList, Deselects
      <2>2. /\ shown'["objective"] = shown["objective"]
            /\ shown'["subject"] = shown["subject"]
            /\ shown'["content"] = shown["content"]
            BY <1>4, <1>9 DEF TypeOK, Combos, Kinds, Lists
      <2>. QED BY <1>5, <1>9, <2>1, <2>2 DEF Orderly, Asking
<1>. QED BY <1>1, <1>6, <1>7, <1>8, <1>9 DEF Combos, Kinds, Lists

-----------------------------------------------------------------------------
(* The steps.                                                              *)

Inv == TypeOK /\ Typed /\ Answered /\ NewestShown /\ Orderly

LEMMA InitInv == Init => Inv
<1>. SUFFICES ASSUME Init PROVE Inv
     OBVIOUS
<1>1. PICK y \in Years : ajax = Asked("term", y, "sent")
      BY DEF Init
<1>2. TypeOK
      <2>1. ajax \in Request
            BY <1>1 DEF Asked, Request, Kinds, Lists, Args, Items
      <2>2. /\ chosen \in [level : Levels \cup {None}, subject : Ids \cup {None},
                            objective : Ids \cup {None}]
            /\ chosen.subject = None /\ chosen.objective = None
            BY DEF Init
      <2>3. shown \in [Combos -> SUBSET Items] /\ older \in [Kinds -> 0..MaxRequests]
            BY FormAssumption DEF Init
      <2>4. made \in 1..MaxRequests /\ faults \in 0..MaxFaults
            BY FormAssumption DEF Init
      <2>. QED BY <2>1, <2>2, <2>3, <2>4 DEF Init, TypeOK
<1>3. Typed
      BY <1>1 DEF Init, Typed, Asked, Kinds, Lists, Combos
<1>4. Answered /\ NewestShown
      BY <1>1 DEF Answered, NewestShown, Asked
<1>5. Orderly
      BY <1>1, FormAssumption DEF Init, Orderly, Asking, Asked, Listed, Kinds, Lists, Combos
<1>. QED BY <1>2, <1>3, <1>4, <1>5 DEF Inv

\* A request that the user makes becomes the newest, and the one before it an older one.
LEMMA AskTyped ==
    ASSUME Inv, NEW kind \in Kinds, NEW arg \in Args, NEW state \in {"sent", "unsent"},
           Ask(kind, arg, state),
           kind \in {"subject", "student"} => arg \in Levels \cup {None},
           kind \in {"objective", "content"} => arg \in Ids \cup {None},
           kind = "idea" /\ state # "unsent" => arg \in Ideas,
           kind = "term" => arg \in Years,
           Standing
    PROVE  TypeOK' /\ Typed' /\ Answered' /\ NewestShown'
<1>1. /\ made' = made + 1 /\ made < MaxRequests
      /\ ajax' = Asked(kind, arg, state)
      /\ ajax' \in Request
      BY DEF Ask, Asked, Request
<1>2. /\ older' \in [Kinds -> 0..MaxRequests]
      /\ \A k \in Kinds : older'[k] < made'
      <2>1. ajax.kind \in Kinds /\ older \in [Kinds -> 0..MaxRequests]
            /\ \A k \in Kinds : older[k] < made
            /\ made \in Nat /\ MaxRequests \in Nat
            BY FormAssumption DEF Inv, TypeOK, Typed, Request
      <2>2. CASE ajax.state = "sent"
            <3>1. older' = [older EXCEPT ![ajax.kind] = @ + 1]
                  BY <2>2 DEF Ask
            <3>2. \A k \in Kinds : older'[k] \in Nat /\ older'[k] < made + 1
                  BY <2>1, <3>1
            <3>3. \A k \in Kinds : older'[k] \in 0..MaxRequests
                  BY <1>1, <2>1, <3>2
            <3>. QED BY <1>1, <2>1, <3>1, <3>2, <3>3
      <2>3. CASE ajax.state # "sent"
            BY <1>1, <2>1, <2>3 DEF Ask
      <2>. QED BY <2>2, <2>3
<1>3. TypeOK'
      <2>1. made' \in 1..MaxRequests
            BY <1>1, FormAssumption DEF Inv, TypeOK
      <2>2. patient' \in BOOLEAN /\ faults' = faults
            BY DEF Ask
      <2>. QED BY <1>1, <1>2, <2>1, <2>2 DEF Inv, TypeOK, Standing
<1>4. Typed'
      BY <1>1, <1>2 DEF Typed, Standing, Asked
<1>5. Answered' /\ NewestShown'
      BY <1>1 DEF Answered, NewestShown, Asked
<1>. QED BY <1>3, <1>4, <1>5

\* While the user is patient, what was out before a request is of the request's kind.
LEMMA AskPatient ==
    ASSUME Inv, NEW kind \in Kinds, NEW arg, NEW state \in {"sent", "unsent"},
           Ask(kind, arg, state), patient'
    PROVE  /\ patient
           /\ \A k \in Kinds : older'[k] > 0 => k = kind
           /\ \A k \in Kinds : Asking(k) => k = kind
           /\ state = "sent" => kind # "idea"
           /\ kind = "idea" => ajax.state # "sent" /\ \A k \in Kinds : older'[k] = 0
<1>1. /\ patient
      /\ \A k \in Kinds : older'[k] > 0 => k = kind
      /\ state = "sent" => kind # "idea"
      BY DEF Ask
<1>2. ajax.state = "sent" => ajax.kind = kind /\ ajax.kind # "idea"
      <2>. SUFFICES ASSUME ajax.state = "sent" PROVE ajax.kind = kind /\ ajax.kind # "idea"
           OBVIOUS
      <2>1. ajax.kind \in Kinds /\ older[ajax.kind] \in Nat
            /\ older \in [Kinds -> 0..MaxRequests]
            BY FormAssumption DEF Inv, TypeOK, Request
      <2>2. older'[ajax.kind] = older[ajax.kind] + 1
            BY <2>1 DEF Ask
      <2>. QED BY <1>1, <2>1, <2>2 DEF Inv, Orderly
<1>3. kind = "idea" => ajax.state # "sent" /\ \A k \in Kinds : older'[k] = 0
      <2>. SUFFICES ASSUME kind = "idea"
                    PROVE  ajax.state # "sent" /\ \A k \in Kinds : older'[k] = 0
           OBVIOUS
      <2>1. ajax.state # "sent" /\ older' = older
            BY <1>2 DEF Ask
      <2>2. \A k \in Kinds : older[k] \in Nat
            BY FormAssumption DEF Inv, TypeOK
      <2>3. \A k \in Kinds : older[k] > 0 => k = "idea" /\ k = ajax.kind
            BY <1>1, <2>1 DEF Inv, Orderly
      <2>4. \A k \in Kinds : ~(older[k] > 0)
            BY <1>1, <2>2, <2>3 DEF Inv, Orderly
      <2>. QED BY <2>1, <2>2, <2>4
<1>. QED BY <1>1, <1>2, <1>3 DEF Asking

LEMMA ChooseLevelInv == Inv /\ (\E l \in Levels \cup {None} : ChooseLevel(l)) => Inv'
<1>. SUFFICES ASSUME Inv, NEW l \in Levels \cup {None}, ChooseLevel(l) PROVE Inv'
     OBVIOUS
<1>1. Ask("subject", l, "sent") /\ l \in Args
      BY DEF ChooseLevel, Args, Items
<1>2. Standing
      BY DEF ChooseLevel, Standing, Inv, TypeOK, Typed, Lists, Combos, Kinds
<1>3. TypeOK' /\ Typed' /\ Answered' /\ NewestShown'
      BY <1>1, <1>2, AskTyped DEF Kinds, Lists
<1>4. Orderly'
      <2>. SUFFICES ASSUME patient' PROVE Orderly'
           BY DEF Orderly
      <2>1. \A k \in Kinds : older'[k] > 0 => k = "subject"
            BY <1>1, AskPatient DEF Kinds, Lists
      <2>2. ajax' = Asked("subject", l, "sent")
            BY <1>1 DEF Ask
      <2>3. chosen'.level = l /\ chosen'.subject = None /\ chosen'.objective = None
            BY DEF ChooseLevel
      <2>4. shown'["content"] = {}
            BY DEF ChooseLevel, Inv, TypeOK, Combos, Kinds, Lists
      <2>. QED BY <2>1, <2>2, <2>3, <2>4, FormAssumption DEF Orderly, Asking, Asked
<1>. QED BY <1>3, <1>4 DEF Inv

LEMMA ChooseSubjectInv == Inv /\ (\E i \in Ids \cup {None} : ChooseSubject(i)) => Inv'
<1>. SUFFICES ASSUME Inv, NEW i \in Ids \cup {None}, ChooseSubject(i) PROVE Inv'
     OBVIOUS
<1>1. Ask("objective", i, "sent") /\ i \in Args
      BY DEF ChooseSubject, Args, Items
<1>2. Standing
      BY DEF ChooseSubject, Standing, Inv, TypeOK, Typed, Lists, Combos, Kinds
<1>3. TypeOK' /\ Typed' /\ Answered' /\ NewestShown'
      BY <1>1, <1>2, AskTyped DEF Kinds, Lists
<1>4. Orderly'
      <2>. SUFFICES ASSUME patient' PROVE Orderly'
           BY DEF Orderly
      <2>1. /\ \A k \in Kinds : older'[k] > 0 => k = "objective"
            /\ patient /\ ~Asking("subject")
            BY <1>1, AskPatient DEF Kinds, Lists
      <2>2. ajax' = Asked("objective", i, "sent")
            BY <1>1 DEF Ask
      <2>3. chosen'.level = chosen.level /\ chosen'.subject = i /\ loading' = loading
            BY DEF ChooseSubject, Inv, TypeOK
      <2>4. shown'["content"] = {} /\ shown'["subject"] = shown["subject"]
            BY DEF ChooseSubject, Inv, TypeOK, Combos, Kinds, Lists
      <2>. QED BY <2>1, <2>2, <2>3, <2>4 DEF Inv, Orderly, Asking, Asked
<1>. QED BY <1>3, <1>4 DEF Inv

LEMMA ChooseObjectiveInv == Inv /\ (\E i \in Ids \cup {None} : ChooseObjective(i)) => Inv'
<1>. SUFFICES ASSUME Inv, NEW i \in Ids \cup {None}, ChooseObjective(i) PROVE Inv'
     OBVIOUS
<1>1. Ask("content", i, "sent") /\ i \in Args
      BY DEF ChooseObjective, Args, Items
<1>2. Standing
      BY DEF ChooseObjective, Standing, Inv, TypeOK, Typed, Lists, Combos, Kinds
<1>3. TypeOK' /\ Typed' /\ Answered' /\ NewestShown'
      BY <1>1, <1>2, AskTyped DEF Kinds, Lists
<1>4. Orderly'
      <2>. SUFFICES ASSUME patient' PROVE Orderly'
           BY DEF Orderly
      <2>1. /\ \A k \in Kinds : older'[k] > 0 => k = "content"
            /\ patient /\ ~Asking("subject") /\ ~Asking("objective")
            BY <1>1, AskPatient DEF Kinds, Lists
      <2>2. ajax' = Asked("content", i, "sent")
            BY <1>1 DEF Ask
      <2>3. /\ chosen'.level = chosen.level /\ chosen'.subject = chosen.subject
            /\ chosen'.objective = i /\ loading' = loading /\ shown' = shown
            BY DEF ChooseObjective, Inv, TypeOK
      <2>. QED BY <2>1, <2>2, <2>3 DEF Inv, Orderly, Asking, Asked
<1>. QED BY <1>3, <1>4 DEF Inv

\* The requests that leave the combos alone.
LEMMA OtherRequestInv ==
    ASSUME Inv, UNCHANGED combos, NEW kind \in {"student", "term", "idea"}, NEW arg \in Args,
           NEW state \in {"sent", "unsent"}, Ask(kind, arg, state),
           kind = "student" => arg \in Levels \cup {None},
           kind = "term" => arg \in Years,
           kind = "idea" <=> state = "unsent"
    PROVE  Inv'
<1>1. Standing
      BY DEF Standing, Inv, TypeOK, Typed, combos
<1>2. kind \in Kinds /\ kind \notin Lists
      BY DEF Kinds, Lists
<1>3. TypeOK' /\ Typed' /\ Answered' /\ NewestShown'
      <2>1. kind \in {"subject", "student"} => arg \in Levels \cup {None}
            OBVIOUS
      <2>2. kind \in {"objective", "content"} => arg \in Ids \cup {None}
            OBVIOUS
      <2>. QED BY <1>1, <1>2, <2>1, <2>2, AskTyped
<1>4. Orderly'
      <2>. SUFFICES ASSUME patient' PROVE Orderly'
           BY DEF Orderly
      <2>1. /\ patient
            /\ \A k \in Kinds : older'[k] > 0 => k = kind
            /\ \A k \in Kinds : Asking(k) => k = kind
            /\ kind = "idea" => \A k \in Kinds : older'[k] = 0
            BY <1>2, AskPatient
      <2>2. ~Asking("subject") /\ ~Asking("objective") /\ ~Asking("content")
            BY <2>1, <1>2 DEF Kinds, Lists
      <2>3. ajax' = Asked(kind, arg, state)
            BY DEF Ask
      <2>4. chosen' = chosen /\ loading' = loading /\ shown' = shown
            BY DEF combos
      <2>. QED BY <1>2, <2>1, <2>2, <2>3, <2>4 DEF Inv, Orderly, Asking, Asked, Lists
<1>. QED BY <1>3, <1>4 DEF Inv

LEMMA ChooseIdeaInv == Inv /\ (\E i \in Ideas : ChooseIdea(i)) => Inv'
<1>. SUFFICES ASSUME Inv, NEW i \in Ideas, ChooseIdea(i) PROVE Inv'
     OBVIOUS
<1>1. Ask("idea", i, "sent") /\ i \in Args /\ "idea" \in Kinds
      BY DEF ChooseIdea, Args, Kinds
<1>2. Standing
      BY DEF ChooseIdea, Standing, Inv, TypeOK, Typed
<1>3. TypeOK' /\ Typed' /\ Answered' /\ NewestShown'
      BY <1>1, <1>2, AskTyped
<1>4. ~patient'
      BY <1>1 DEF Ask
<1>. QED BY <1>3, <1>4 DEF Inv, Orderly

LEMMA AnswerInv == Inv /\ Answer => Inv'
<1>. SUFFICES ASSUME Inv, Answer PROVE Inv'
     OBVIOUS
<1>1. PICK a \in Answers(ajax.kind, ajax.arg) : ajax' = [ajax EXCEPT !.state = "ok", !.answer = a]
      BY DEF Answer
<1>2. ajax \in Request /\ ajax.state = "sent"
      BY DEF Answer, Inv, TypeOK
<1>3. a \subseteq Items /\ (ajax.kind \in Lists \cup {"idea"} => a \subseteq Ids)
      BY <1>1, <1>2, AnswersTyped DEF Inv, Typed, Request
<1>4. /\ ajax' \in Request /\ ajax'.kind = ajax.kind /\ ajax'.arg = ajax.arg
      /\ ajax'.state = "ok" /\ ajax'.answer = a
      BY <1>1, <1>2, <1>3 DEF Request
<1>5. Callback(ajax.kind, ajax') /\ ajax.kind \in Kinds
      BY <1>2 DEF Answer, Request
<1>6. Standing
      <2>1. ajax'.kind \in Lists \cup {"idea"} => ajax'.answer \subseteq Ids
            BY <1>3, <1>4
      <2>2. ajax'.kind = "idea" /\ ajax'.state = "ok" => ajax'.arg \in Ideas
            BY <1>2, <1>4 DEF Inv, Typed
      <2>. QED BY <1>4, <1>5, <2>1, <2>2, CallbackTyped DEF Inv
<1>7. TypeOK' /\ Typed'
      BY <1>2, <1>3, <1>4, <1>6 DEF Answer, Inv, TypeOK, Typed, Standing
<1>8. Answered'
      BY <1>1, <1>4 DEF Answered
<1>9. NewestShown'
      BY <1>4, <1>5, CallbackShows DEF Inv, NewestShown
<1>10. Orderly'
      <2>. SUFFICES ASSUME patient' PROVE Orderly'
           BY DEF Orderly
      <2>1. patient /\ older' = older
            BY DEF Answer
      <2>. QED BY <1>1, <1>2, <1>4, <1>5, <2>1, CallbackOrderly DEF Inv
<1>. QED BY <1>7, <1>8, <1>9, <1>10 DEF Inv

LEMMA FailInv == Inv /\ Fail => Inv'
<1>. SUFFICES ASSUME Inv, Fail PROVE Inv'
     OBVIOUS
<1>1. ajax' = [ajax EXCEPT !.state = "failed"] /\ ajax \in Request
      BY DEF Fail, Inv, TypeOK
<1>2. /\ ajax' \in Request /\ ajax'.kind = ajax.kind /\ ajax'.arg = ajax.arg
      /\ ajax'.state = "failed" /\ ajax'.answer = ajax.answer
      BY <1>1 DEF Request
<1>3. TypeOK'
      <2>1. faults' \in 0..MaxFaults
            BY FormAssumption DEF Fail, Inv, TypeOK
      <2>2. chosen' = chosen /\ shown' = shown /\ loading' = loading
            /\ older' = older /\ made' = made /\ patient' = FALSE
            BY DEF Fail, combos
      <2>. QED BY <1>2, <2>1, <2>2 DEF Inv, TypeOK
<1>4. Typed' /\ Answered' /\ NewestShown' /\ Orderly'
      BY <1>2 DEF Fail, Inv, Typed, Answered, NewestShown, Orderly, combos
<1>. QED BY <1>3, <1>4 DEF Inv

LEMMA LateInv == Inv /\ (\E k \in Kinds : Late(k)) => Inv'
<1>. SUFFICES ASSUME Inv, NEW k \in Kinds, Late(k) PROVE Inv'
     OBVIOUS
<1>1. /\ ajax' = ajax /\ made' = made /\ faults' = faults /\ patient' = patient
      /\ Callback(k, ajax) /\ older[k] > 0
      BY DEF Late, Belated
<1>2. /\ older' \in [Kinds -> 0..MaxRequests]
      /\ \A c \in Kinds : older'[c] < made
      /\ \A c \in Kinds : older'[c] > 0 => older[c] > 0
      <2>1. older \in [Kinds -> 0..MaxRequests] /\ made \in Nat /\ MaxRequests \in Nat
            /\ \A c \in Kinds : older[c] < made
            BY FormAssumption DEF Inv, TypeOK, Typed
      <2>2. CASE older' = [older EXCEPT ![k] = @ - 1]
            BY <1>1, <2>1, <2>2
      <2>3. CASE UNCHANGED older
            BY <2>1, <2>3
      <2>. QED BY <2>2, <2>3 DEF Late
<1>3. Standing
      <2>1. ajax \in Request /\ (ajax.kind \in Lists \cup {"idea"} => ajax.answer \subseteq Ids)
            /\ (ajax.kind = "idea" /\ ajax.state = "ok" => ajax.arg \in Ideas)
            BY DEF Inv, TypeOK, Typed
      <2>. QED BY <1>1, <2>1, CallbackTyped DEF Inv
<1>4. TypeOK' /\ Typed'
      BY <1>1, <1>2, <1>3 DEF Inv, TypeOK, Typed, Standing
<1>5. Answered'
      BY <1>1 DEF Inv, Answered
<1>6. NewestShown'
      <2>. SUFFICES ASSUME ajax.state = "ok", ajax.kind # "idea"
                    PROVE  shown'[ajax.kind] = ajax.answer
           BY <1>1 DEF NewestShown
      <2>. QED BY <1>1, CallbackShows DEF Inv, NewestShown, TypeOK
<1>7. Orderly'
      <2>. SUFFICES ASSUME patient' PROVE Orderly'
           BY DEF Orderly
      <2>1. patient /\ k = ajax.kind
            BY <1>1 DEF Inv, Orderly
      <2>2. CASE ajax.state = "ok"
            BY <1>1, <1>2, <2>1, <2>2, CallbackOrderly DEF Inv, TypeOK, Answered
      <2>3. CASE ajax.state # "ok"
            <3>1. chosen' = chosen /\ shown' = shown /\ loading' = loading
                  BY <1>1, <2>3 DEF Callback, combos
            <3>2. ajax.kind # "idea"
                  BY <1>1, <2>1 DEF Inv, Orderly
            <3>3. \A c \in Kinds : older'[c] > 0 => c = ajax.kind
                  BY <1>2, <2>1 DEF Inv, Orderly
            <3>. QED BY <1>1, <2>1, <3>1, <3>2, <3>3 DEF Inv, Orderly, Asking
      <2>. QED BY <2>2, <2>3
<1>. QED BY <1>4, <1>5, <1>6, <1>7 DEF Inv

-----------------------------------------------------------------------------
(* The theorems.                                                           *)

LEMMA StepInv == Inv /\ [Next]_vars => Inv'
<1>. SUFFICES ASSUME Inv, [Next]_vars PROVE Inv'
     OBVIOUS
<1>1. CASE \E l \in Levels \cup {None} : ChooseLevel(l)
      BY <1>1, ChooseLevelInv
<1>2. CASE \E i \in Ids \cup {None} : ChooseSubject(i)
      BY <1>2, ChooseSubjectInv
<1>3. CASE \E i \in Ids \cup {None} : ChooseObjective(i)
      BY <1>3, ChooseObjectiveInv
<1>4. ASSUME NEW l \in Levels \cup {None}, ChooseStudents(l) PROVE Inv'
      BY <1>4, OtherRequestInv DEF ChooseStudents, Args, Items
<1>5. ASSUME NEW y \in Years, ChooseYear(y) PROVE Inv'
      BY <1>5, OtherRequestInv DEF ChooseYear, Args, Items
<1>6. CASE \E i \in Ideas : ChooseIdea(i)
      BY <1>6, ChooseIdeaInv
<1>7. CASE ChooseNoIdea
      BY <1>7, OtherRequestInv DEF ChooseNoIdea, Args, Items
<1>8. CASE Answer
      BY <1>8, AnswerInv
<1>9. CASE Fail
      BY <1>9, FailInv
<1>10. CASE \E k \in Kinds : Late(k)
      BY <1>10, LateInv
<1>11. CASE UNCHANGED vars
      BY <1>11 DEF vars, combos, Inv, TypeOK, Typed, Answered, NewestShown, Orderly, Asking
<1>. QED BY <1>1, <1>2, <1>3, <1>4, <1>5, <1>6, <1>7, <1>8, <1>9, <1>10, <1>11
     DEF Next, User

LEMMA Invariance == Spec => []Inv
<1>. QED BY InitInv, StepInv, PTL DEF Spec

\* A combo never stands on an entry that it does not list, and the rest of the form is
\* of its type, whatever the order in which answers come.
THEOREM FormTypeCorrect == Spec => []TypeOK
<1>1. Inv => TypeOK
      BY DEF Inv
<1>. QED BY <1>1, Invariance, PTL

\* The list of the newest request is the one shown once it has been answered, whatever
\* callbacks of older requests read it afterwards.
THEOREM NewestListShown == Spec => []NewestShown
<1>1. Inv => NewestShown
      BY DEF Inv
<1>. QED BY <1>1, Invariance, PTL

\* Level, subject, objective and content belong together for whoever waits for the
\* answer to one question before asking another.
THEOREM PatientFormFit == Spec => []PatientFormFits
<1>1. Inv => PatientFormFits
      <2>. SUFFICES ASSUME Inv, patient, NoneOut
                    PROVE  /\ ~loading
                           /\ shown["subject"] \in Listed(chosen.level)
                           /\ chosen.subject # None =>
                                 shown["objective"] = ObjectivesOf[chosen.subject]
                           /\ shown["content"] = ContentsOf[chosen.objective]
           BY DEF PatientFormFits
      <2>1. ~Asking("subject") /\ ~Asking("objective") /\ ~Asking("content")
            BY DEF NoneOut, Asking
      <2>. QED BY <2>1 DEF Inv, Orderly
<1>. QED BY <1>1, Invariance, PTL
=============================================================================
