--------------------------- MODULE PaymentCharges ---------------------------
(***************************************************************************)
(* The invoices a payment is applied to and the amounts applied:           *)
(* PaymenttoCharge.getAppliedtoRefID and getAppliedtoAmount, and the loop  *)
(* of InsertPayment.insertPayment that pairs them by position.  An invoice *)
(* line is a pair of the invoice and the charge it bears.                  *)
(***************************************************************************)
EXTENDS Naturals, Sequences, FiniteSets, Rows

CONSTANTS
    Slots,      \* length of the array chargeid
    NoCharge    \* what its other elements hold

\* The first row goes to index count, the last to index 1.
Overruns(charges) == Cardinality(charges) >= Slots

\* (Mutants: the array is filled upwards; the last row is not read.)
FilledUpwards(rows) ==
    [i \in 0..Slots - 1 |-> IF i \in DOMAIN rows THEN rows[i] ELSE NoCharge]
FilledShort(rows) ==
    [i \in 0..Slots - 1 |->
        IF i \in DOMAIN rows /\ i # 1 THEN rows[Len(rows) + 1 - i] ELSE NoCharge]

Filled(rows) ==
    [i \in 0..Slots - 1 |-> IF i \in DOMAIN rows THEN rows[Len(rows) + 1 - i] ELSE NoCharge]

\* The invoices of a charge's lines, which the query finds in the order ls.
InvoicesFor(c, ls) ==
    LET found[k \in 0..Len(ls)] ==
            IF k = 0 THEN <<>>
            ELSE IF ls[k][2] = c THEN Append(found[k - 1], ls[k][1]) ELSE found[k - 1]
    IN  found[Len(ls)]

\* The loop over the array.
AppliedToRefIDs(rows, ls) ==
    LET chargeid == Filled(rows)
        results[i \in 0..Slots] ==
            IF i = 0 THEN <<>> ELSE results[i - 1] \o InvoicesFor(chargeid[i - 1], ls)
    IN  results[Slots]

\* The same without the orders: the invoices of the charges, charge by charge.
InvoicesOf(charges, lines) ==
    LET hits == {l \in lines : l[2] \in charges}
        Together(q) ==
            \A i, j, k \in DOMAIN q : i < j /\ j < k /\ q[i][2] = q[k][2] => q[j][2] = q[i][2]
    IN  {[i \in DOMAIN q |-> q[i][1]] : q \in {o \in Arrangements(hits) : Together(o)}}

\* What is applied to which invoice, as far as there are amounts.
Applied(refs, amounts) ==
    {<<refs[i], amounts[i]>> : i \in DOMAIN refs \cap DOMAIN amounts}
=============================================================================
