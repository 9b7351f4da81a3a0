---------------------------- MODULE StepCompare ----------------------------
(***************************************************************************)
(* Step.compareandupdate: the steps of an objective are made those of the  *)
(* page it was edited on.  Steps are their ids; the page sends "0" for a   *)
(* step that has none yet, and may send one that another user has deleted. *)
(***************************************************************************)
EXTENDS Naturals, Sequences, FiniteSets, Rows

\* found as the next old step finds it: it is set before the loop and never
\* reset.  (Mutant: it is.)
CarriedReset(found) == FALSE
Carried(found) == found

\* The first loop: the steps deleted, with the old ones in the order read.
Deleted(old, page) ==
    LET run[i \in 0..Len(old)] ==
        IF i = 0 THEN [found |-> FALSE, gone |-> {}]
        ELSE LET found == Carried(run[i - 1].found) \/ old[i] \in page
             IN  [found |-> found,
                  gone |-> run[i - 1].gone \cup (IF found THEN {} ELSE {old[i]})]
    IN  run[Len(old)].gone

Removed(steps, page) == steps \ page

\* The same without the order: everything that was removed on the page when
\* nothing was kept, and otherwise what happens to be read before a kept step.
Deletions(steps, page) ==
    IF steps \cap page = {} THEN {steps} ELSE SUBSET Removed(steps, page)
=============================================================================
