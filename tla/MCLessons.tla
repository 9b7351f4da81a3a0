------------------------------ MODULE MCLessons ------------------------------
(* Lessons on small sets, for TLC. *)
EXTENDS Lessons, TLC

CONSTANTS r1, r2, l1, s1, s2, c1, t1, rated, na

Interchangeable == Permutations(Requests) \cup Permutations(Students)
=============================================================================
