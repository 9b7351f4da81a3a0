-------------------------------- MODULE Loops --------------------------------
(* The loops over unordered rows - InvoiceCompare, PaymentCharges and       *)
(* StepCompare - on every input.  A behaviour builds up the input of one of *)
(* them piece by piece.                                                     *)
EXTENDS InvoiceCompare

CONSTANTS
    Kinds,       \* the loops an instance looks at
    MaxLines,    \* bound: invoice lines in an input
    Slots, NoCharge,    \* as in PaymentCharges
    Steps, New   \* steps of an objective, and a step that has no id yet

\* An empty element of the array reads "null", which no line bears.
ASSUME ArrayAssumption == Slots \in Nat /\ NoCharge \notin Fields

Paid == INSTANCE PaymentCharges
Edit == INSTANCE StepCompare

VARIABLES
    loop,
    charges, lines,     \* charges and invoice lines, with their amounts
    steps, page         \* steps of an objective, and those of the page

Init ==
    /\ loop \in Kinds
    /\ charges = [c \in {} |-> 0]
    /\ lines = {}
    /\ steps = {} /\ page = {}

AddCharge(c, a) ==
    /\ loop # "steps"
    /\ c \notin DOMAIN charges
    /\ charges' = [d \in DOMAIN charges \cup {c} |-> IF d = c THEN a ELSE charges[d]]
    /\ UNCHANGED <<loop, lines, steps, page>>

AddLine(f, a) ==
    /\ loop # "steps"
    /\ Cardinality(lines) < MaxLines
    /\ lines' = lines \cup {[id |-> Cardinality(lines) + 1, field |-> f, amount |-> a]}
    /\ UNCHANGED <<loop, charges, steps, page>>

AddStep(s) ==
    /\ loop = "steps"
    /\ \/ s # New /\ steps' = steps \cup {s} /\ UNCHANGED page
       \/ page' = page \cup {s} /\ UNCHANGED steps
    /\ UNCHANGED <<loop, charges, lines>>

Next ==
    \/ \E c \in Charges, a \in Amounts : AddCharge(c, a)
    \/ \E f \in Fields, a \in Amounts : AddLine(f, a)
    \/ \E s \in Steps \cup {New} : AddStep(s)

vars == <<loop, charges, lines, steps, page>>

Spec == Init /\ [][Next]_vars

\* Outcomes is exact: over all orders of the two result sets the loops of
\* InvoiceSync.java:128-192 come to the outcomes it names and to no other.
OutcomesExact ==
    loop = "invoices" =>
        Outcomes(charges, lines) =
            {Loop(charges, cs, ls) : cs \in Arrangements(DOMAIN charges),
                                     ls \in Arrangements(lines)}

\* However the rows are ordered, a charge that no line bears is put on the add
\* list, unless there was no line to compare it with or the run is given up:
\* the sticky compareresult (InvoiceSync.java:128) adds too much, never too little.
MissingIsAdded ==
    loop = "invoices" =>
        \A cs \in Arrangements(DOMAIN charges), ls \in Arrangements(lines) :
            LET out == Loop(charges, cs, ls)
            IN  \/ out.thrown
                \/ \A l \in lines : l.field = Zero
                \/ \A c \in DOMAIN charges :
                      (\A l \in lines : l.field # c) => c \in out.add

-----------------------------------------------------------------------------
Billed == {<<l.id, l.field>> : l \in lines}

\* InvoicesOf, which PaymentSync uses, is exact: over all orders of payment_charges
\* and InvoiceLineItems the array chargeid loses no invoice and adds none.
InvoicesExact ==
    loop = "payments" /\ ~Paid!Overruns(DOMAIN charges) =>
        Paid!InvoicesOf(DOMAIN charges, Billed) =
            {Paid!AppliedToRefIDs(rows, ls) : rows \in Arrangements(DOMAIN charges),
                                              ls \in Arrangements(Billed)}

\* The array turns the charges round and the amounts stay as they were read
\* (PaymenttoCharge.java:44 and :74), so that with an invoice line for each charge the
\* first charge is paid the amount of the last: what a payment applies adds up to its
\* shares, and a charge gets its own only in the middle.
SharesMirrored ==
    \A rows \in Arrangements(DOMAIN charges), ls \in Arrangements(Billed) :
        LET n == Len(rows)
            refs == Paid!AppliedToRefIDs(rows, ls)
            amounts == [i \in 1..n |-> charges[rows[i]]]
        IN  loop = "payments" /\ ~Paid!Overruns(DOMAIN charges)
            /\ Cardinality(lines) = n /\ {l.field : l \in lines} = DOMAIN charges
            => Paid!Applied(refs, amounts) =
                  {<<p[2].id, charges[rows[n + 1 - p[1]]]>> :
                      p \in {r \in (1..n) \X lines : r[2].field = rows[r[1]]}}

-----------------------------------------------------------------------------
\* Deletions is exact: whether a removed step goes depends on the rows' order alone,
\* and no step that is on the page ever goes.
DeletionsExact ==
    loop = "steps" =>
        Edit!Deletions(steps, page) = {Edit!Deleted(rows, page) : rows \in Arrangements(steps)}
=============================================================================
