---------------------------- MODULE MCLessonForm ----------------------------
(* LessonForm on small sets, for TLC. *)
EXTENDS LessonForm, TLC

CONSTANTS l1, l2, y1, i1

Subjects == (l1 :> {1, 2}) @@ (l2 :> {2}) @@ (None :> {})
Objectives == (1 :> {1, 2}) @@ (2 :> {3}) @@ (3 :> {}) @@ (None :> {})
Contents == (1 :> {1}) @@ (2 :> {2, 3}) @@ (3 :> {}) @@ (None :> {})
Idea == [i \in Ideas |-> [level |-> l2, subject |-> 2, objective |-> 3]]
=============================================================================
