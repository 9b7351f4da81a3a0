---------------------------- MODULE InvoiceCompare ----------------------------
(***************************************************************************)
(* The second phase of InvoiceSync.invoicesync: which charges are put on   *)
(* the add list and which lines on the update list, given the charges and  *)
(* the invoice lines read.  Neither query has an ORDER BY, so the loops    *)
(* see both in any order.                                                  *)
(*                                                                         *)
(* Loop is the code, order by order; Outcomes says what it can come to     *)
(* without the orders, and is what InvoiceSync uses.  Loops states that    *)
(* the two agree.                                                          *)
(***************************************************************************)
EXTENDS Integers, Sequences, FiniteSets, Rows

CONSTANTS
    Charges,     \* RenWeb charge ids
    Amounts,     \* amounts of charges and lines
    Null,        \* custom fields of a line: none (or not XML)
    Unreadable,  \* ... too short, or not a number
    Zero         \* ... "0"

ASSUME FieldsAssumption ==
    /\ {Null, Unreadable, Zero} \cap Charges = {}
    /\ Cardinality({Null, Unreadable, Zero}) = 3
    /\ Amounts \subseteq Int

Fields == Charges \cup {Null, Unreadable, Zero}

Thrown == [thrown |-> TRUE, add |-> {}, update |-> {}]
Lists(add, update) == [thrown |-> FALSE, add |-> add, update |-> update]

-----------------------------------------------------------------------------
(* The loops.  due gives the amount of each charge read; cs and ls are the *)
(* charges and the lines in the order read.                                *)

\* compareresult after a line of another charge.  (Mutant: the else is lost.)
PassedLost(missed) == missed
Passed(missed) == TRUE

\* compareresult as the next charge finds it: it is set before the loop over y3
\* and never reset.  (Mutant: it is.)
CarriedReset(missed) == FALSE
Carried(missed) == missed

\* One charge against the lines: scan[i][flag] is what the loop over z3 comes to
\* from line i on, when compareresult says "Match not found" iff flag.
Scan(c, ls) ==
    LET scan[i \in 1..Len(ls) + 1] ==
        [flag \in BOOLEAN |->
            CASE i > Len(ls) -> [at |-> 0, missed |-> flag, thrown |-> FALSE]
              [] i <= Len(ls) /\ ls[i].field = Zero -> scan[i + 1][flag]
              [] i <= Len(ls) /\ ls[i].field \in {Null, Unreadable} ->
                    [at |-> 0, missed |-> flag, thrown |-> TRUE]
              [] i <= Len(ls) /\ ls[i].field = c ->
                    [at |-> i, missed |-> flag, thrown |-> FALSE]
              [] OTHER -> scan[i + 1][Passed(flag)]]
    IN  scan[1]

\* The loop over y3.
Loop(due, cs, ls) ==
    LET run[k \in 0..Len(cs)] ==
        IF k = 0 THEN [missed |-> FALSE, lists |-> Lists({}, {})]
        ELSE IF run[k - 1].lists.thrown THEN run[k - 1]
        ELSE LET c == cs[k]
                 seen == Scan(c, ls)[Carried(run[k - 1].missed)]
                 old == run[k - 1].lists
                 hit == IF seen.at = 0 THEN {} ELSE {ls[seen.at]}
             IN  [missed |-> seen.missed,
                  lists |->
                    IF seen.thrown THEN Thrown
                    ELSE Lists(old.add \cup (IF seen.missed THEN {c} ELSE {}),
                               old.update \cup {<<l, due[c]>> :
                                   l \in {h \in hit : h.amount # due[c]}})]
    IN  run[Len(cs)].lists

-----------------------------------------------------------------------------
(* What the loops can come to.  compareresult sticks once a charge passes  *)
(* a line of another charge, and every charge after the first passes the   *)
(* first line or is passed over by it: so all that the two orders decide   *)
(* is the first line and the first charge, which line of a charge is met   *)
(* before its others, and whether an unreadable line is met at all.        *)

Outcomes(due, lines) ==
    LET all == DOMAIN due
        dirty == {l \in lines : l.field \in {Null, Unreadable}}
        compared == {l \in lines : l.field # Zero}
        Of(c) == {l \in lines : l.field = c}
        matched == {c \in all : Of(c) # {}}
        Meets == {m \in [matched -> lines] : \A c \in matched : m[c] \in Of(c)}
        Update(m) == {<<m[c], due[c]>> : c \in {d \in matched : m[d].amount # due[d]}}
        Add(m, head, first) ==
            IF first \in matched /\ m[first] = head THEN all \ {first} ELSE all
    IN  IF all = {} \/ compared = {} THEN {Lists({}, {})}
        ELSE (IF dirty # {} THEN {Thrown} ELSE {})
             \cup
             (IF dirty # {} /\ matched # all THEN {}
              ELSE {Lists(Add(p[1], p[2], p[3]), Update(p[1])) :
                       p \in {q \in Meets \X (compared \ dirty) \X all :
                                  q[2].field \in all => q[1][q[2].field] = q[2]}})
=============================================================================
