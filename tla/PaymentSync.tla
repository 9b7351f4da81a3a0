----------------------------- MODULE PaymentSync -----------------------------
(***************************************************************************)
(* quickbooksync.PaymentSync and what it calls: RenWeb's payments are      *)
(* mirrored as payments received in QuickBooks, applied to the invoices of *)
(* the charges they pay.  Its loops are those of InvoiceSync, and compare  *)
(* what InvoiceCompare says; but a payment it enters carries the payment   *)
(* id in ReferenceNumber, and the loops look for it in CustomFields.       *)
(* Invoices come and go meanwhile: InvoiceSync runs in other threads.      *)
(***************************************************************************)
EXTENDS Integers, Sequences, FiniteSets

CONSTANTS
    Sessions,        \* threads that run paymentsync
    Payments,        \* RenWeb payment ids
    Charges,         \* RenWeb charge ids
    AppliesTo,       \* payment_charges: the charges a payment pays
    Families, FamilyOf,
    Amounts,
    NoFamily,        \* no customer ("null"), or one of the bookkeeper's
    NoPayment,       \* the payment is the bookkeeper's own
    NoInvoice,       \* the payment is not applied to an invoice
    Null, Unreadable, Zero,   \* custom fields, as in InvoiceCompare
    ForeignFields,   \* custom fields of payments the bookkeeper enters
    Slots,           \* as in PaymentCharges
    MaxForeign,      \* bound: payments in QuickBooks when the bookkeeper enters one
    MaxInvoices,     \* bound: invoices ever made
    MaxRuns, MaxEdits, MaxFaults   \* bounds, as in InvoiceSync

ASSUME PaymentsAssumption ==
    /\ AppliesTo \in [Payments -> SUBSET Charges]
    /\ \A p \in Payments : IsFiniteSet(AppliesTo[p])
    /\ FamilyOf \in [Payments -> Families]
    /\ NoFamily \notin Families /\ NoPayment \notin Payments
    /\ ForeignFields \subseteq Payments \cup {Null, Unreadable, Zero}
    /\ Slots \in Nat /\ NoInvoice \notin Nat
    /\ MaxForeign \in Nat /\ MaxInvoices \in Nat
    /\ MaxRuns \in Nat /\ MaxEdits \in Nat /\ MaxFaults \in Nat

VARIABLES
    payments,   \* RenWeb payments: the amount of each there is
    linked,     \* families with a row in CUSTOMERMAPPING
    invoices,   \* InvoiceLineItems: pairs of an invoice and the charge it bears
    billed,     \* invoices made so far
    received,   \* QuickBooks ReceivePayments
    nextId,     \* the next id QuickBooks gives a payment
    pc,         \* where a session is
    due,        \* allrwpayment
    del,        \* deletelist
    upd,        \* updatelist: pairs of a payment received and its new amount
    todo,       \* payments to be put on the add list
    add,        \* addlist
    runs, faults, edits,   \* counted for the bounds
    quiet, clean           \* history, as in InvoiceSync; a refused statement counts as quiet

rwVars == <<payments, linked>>
qbVars == <<received, nextId>>
billVars == <<invoices, billed>>
lists == <<del, upd, todo, add>>
counts == <<runs, edits>>
history == <<quiet, clean>>
vars == <<rwVars, billVars, qbVars, pc, due, lists, counts, faults, history>>

Compare == INSTANCE InvoiceCompare WITH Charges <- Payments
Paid == INSTANCE PaymentCharges WITH NoCharge <- Null

Ended == {"idle", "done", "aborted"}

\* for: the RenWeb payment it was entered for (it is in ReferenceNumber).
Receipt == [id : Nat, for : Payments \cup {NoPayment}, cust : Families \cup {NoFamily},
            field : Compare!Fields, applied : Nat \cup {NoInvoice}, amount : Amounts]

\* An entry of addlist: the invoices of appliedTo, the number of amounts in
\* appliedToAmount, how many of the invoices are done, and whether customFields
\* is the XML of the second phase.
Entry == [for : Payments, cust : Families \cup {NoFamily}, refs : Seq(Nat),
          parts : Nat, done : Nat, xml : BOOLEAN, amount : Amounts]

\* The payments there are, or were read, each with its amount.
PaymentTables == UNION {[P -> Amounts] : P \in SUBSET Payments}
NoRow == [p \in {} |-> 0]

Init ==
    /\ payments \in PaymentTables
    /\ linked \in SUBSET Families
    /\ billed \in 0..MaxInvoices
    /\ \E f \in [1..billed -> Charges] : invoices = {<<i, f[i]>> : i \in 1..billed}
    /\ received = {}
    /\ nextId = 1
    /\ pc = [s \in Sessions |-> "idle"]
    /\ due = [s \in Sessions |-> NoRow]
    /\ del = [s \in Sessions |-> {}]
    /\ upd = [s \in Sessions |-> {}]
    /\ todo = [s \in Sessions |-> {}]
    /\ add = [s \in Sessions |-> <<>>]
    /\ runs = 0 /\ faults = 0 /\ edits = 0
    /\ quiet = {}
    /\ clean = 0

-----------------------------------------------------------------------------
(* Steps shared by the actions of a session. *)

Goto(s, l) == pc' = [pc EXCEPT ![s] = l]

Undisturbed == UNCHANGED <<faults, quiet, clean>>

Fault(s) ==
    /\ faults < MaxFaults
    /\ faults' = faults + 1
    /\ quiet' = quiet \ {s}
    /\ clean' = 0

Forget(s) ==
    /\ due' = [due EXCEPT ![s] = NoRow]
    /\ del' = [del EXCEPT ![s] = {}]
    /\ upd' = [upd EXCEPT ![s] = {}]
    /\ todo' = [todo EXCEPT ![s] = {}]
    /\ add' = [add EXCEPT ![s] = <<>>]

\* An exception that paymentsync does not catch.
Throw(s) ==
    /\ Goto(s, "aborted")
    /\ Forget(s)
    /\ quiet' = quiet \ {s}
    /\ clean' = 0
    /\ UNCHANGED faults

\* A failing read leaves the rows fetched before the failure.
Readable(all) == IF faults < MaxFaults THEN SUBSET all ELSE {all}

Alone(s) == \A t \in Sessions \ {s} : pc[t] \in Ended

-----------------------------------------------------------------------------
(* A session. *)

Start(s) ==
    /\ pc[s] \in Ended
    /\ runs < MaxRuns
    /\ runs' = runs + 1
    /\ Goto(s, "payments")
    /\ quiet' = IF Alone(s) THEN {s} ELSE {}
    /\ clean' = IF Alone(s) THEN clean ELSE 0
    /\ UNCHANGED <<rwVars, billVars, qbVars, due, lists, edits, faults>>

RetrieveRwPayment(s) ==
    /\ pc[s] = "payments"
    /\ \E some \in Readable(DOMAIN payments) :
          /\ IF some = DOMAIN payments THEN Undisturbed ELSE Fault(s)
          /\ due' = [due EXCEPT ![s] = [p \in some |-> payments[p]]]
    /\ Goto(s, "received")
    /\ UNCHANGED <<rwVars, billVars, qbVars, lists, counts>>

\* (Mutant: RenWeb is asked again.)
RetrieveNoneAgain(s) ==
    /\ pc[s] = "received"
    /\ received = {} /\ Undisturbed
    /\ todo' = [todo EXCEPT ![s] = DOMAIN payments]
    /\ Goto(s, "planAll")
    /\ UNCHANGED <<rwVars, billVars, qbVars, due, del, upd, add, counts>>

\* QuickBooks has no payment, or the read fails before the first.
RetrieveNone(s) ==
    /\ pc[s] = "received"
    /\ {} \in Readable(received)
    /\ IF received = {} THEN Undisturbed ELSE Fault(s)
    /\ todo' = [todo EXCEPT ![s] = DOMAIN due[s]]
    /\ Goto(s, "planAll")
    /\ UNCHANGED <<rwVars, billVars, qbVars, due, del, upd, add, counts>>

\* What does not carry the id of a payment that was read is to be deleted.
RetrievePayment(s) ==
    /\ pc[s] = "received"
    /\ \E some \in Readable(received) \ {{}} :
          IF \E r \in some : r.field = Unreadable
          THEN Throw(s)
          ELSE /\ IF some = received THEN Undisturbed ELSE Fault(s)
               /\ del' = [del EXCEPT ![s] = {r \in some : r.field \notin DOMAIN due[s]}]
               /\ Goto(s, "delete")
               /\ UNCHANGED <<due, upd, todo, add>>
    /\ UNCHANGED <<rwVars, billVars, qbVars, counts>>

\* What is gone may be refused, which ends the loop as any SQLException does.
DeletePayment(s) ==
    /\ pc[s] = "delete"
    /\ \E r \in del[s] :
          LET left == {q \in received : q.id # r.id}
          IN  \/ /\ received' = left
                 /\ del' = [del EXCEPT ![s] = @ \ {r}]
                 /\ Undisturbed
              \/ /\ left = received /\ UNCHANGED received /\ Undisturbed
                 /\ del' = [del EXCEPT ![s] = {}]
              \/ /\ Fault(s)
                 /\ received' \in {received, left}
                 /\ del' = [del EXCEPT ![s] = {}]
    /\ UNCHANGED <<rwVars, billVars, nextId, pc, due, upd, todo, add, counts>>

\* The payments are read again and compared, as the invoice lines are.
Reread(s) ==
    /\ pc[s] = "delete"
    /\ del[s] = {}
    /\ \E some \in Readable(received) : \E out \in Compare!Outcomes(due[s], some) :
          IF out.thrown
          THEN Throw(s)
          ELSE /\ IF some = received THEN Undisturbed ELSE Fault(s)
               /\ todo' = [todo EXCEPT ![s] = out.add]
               /\ upd' = [upd EXCEPT ![s] = out.update]
               /\ Goto(s, "planNew")
               /\ UNCHANGED <<due, del, add>>
    /\ UNCHANGED <<rwVars, billVars, qbVars, counts>>

-----------------------------------------------------------------------------
(* The add list: the lookups for a payment are made one payment at a time. *)

\* chargeid is filled from index count down to 1 and has the indices below Slots.
Overruns(p) == Paid!Overruns(AppliesTo[p])

\* appliedTo: the invoices of the charges, charge by charge.
\* (Mutant: the invoices of every charge.)
AppliedToAny(p) ==
    {[i \in DOMAIN q |-> q[i][1]] : q \in Compare!Arrangements(invoices)}

AppliedTo(p) == Paid!InvoicesOf(AppliesTo[p], invoices)

\* The second phase asks for no amounts.
PartsOf(s, p) == IF pc[s] = "planAll" THEN Cardinality(AppliesTo[p]) ELSE 0

EntryOf(s, p, cust, refs, parts) ==
    [for |-> p, cust |-> cust, refs |-> refs, parts |-> parts, done |-> 0,
     xml |-> pc[s] = "planNew", amount |-> due[s][p]]

Customer(p) == IF FamilyOf[p] \in linked THEN FamilyOf[p] ELSE NoFamily

\* A lookup that fails gives no customer, or the invoices or amounts found so far.
PlanPayment(s) ==
    /\ pc[s] \in {"planAll", "planNew"}
    /\ \E p \in todo[s] : \E refs \in AppliedTo(p) :
          IF Overruns(p)
          THEN Throw(s)
          ELSE /\ \/ /\ add' = [add EXCEPT ![s] =
                            Append(@, EntryOf(s, p, Customer(p), refs, PartsOf(s, p)))]
                     /\ Undisturbed
                  \/ /\ Fault(s)
                     /\ \E cust \in {Customer(p), NoFamily}, n \in 0..Len(refs),
                           parts \in 0..PartsOf(s, p) :
                           add' = [add EXCEPT ![s] =
                               Append(@, EntryOf(s, p, cust, SubSeq(refs, 1, n), parts))]
               /\ todo' = [todo EXCEPT ![s] = @ \ {p}]
               /\ UNCHANGED <<pc, due, del, upd>>
    /\ UNCHANGED <<rwVars, billVars, qbVars, counts>>

\* The update names a column that ReceivePayments does not have: it is refused.
UpdatePayment(s) ==
    /\ pc[s] \in {"planAll", "planNew"}
    /\ todo[s] = {}
    /\ upd' = [upd EXCEPT ![s] = {}]
    /\ Goto(s, "add")
    /\ UNCHANGED <<rwVars, billVars, qbVars, due, del, todo, add, counts, faults, history>>

-----------------------------------------------------------------------------
(* The inserts: one for a payment without an invoice, one for each invoice. *)

NewReceipt(e, ref) ==
    /\ received' = received \cup {[id |-> nextId, for |-> e.for, cust |-> e.cust, field |-> Null,
                                   applied |-> ref, amount |-> e.amount]}
    /\ nextId' = nextId + 1

Accepted(e, ref) ==
    /\ e.cust # NoFamily
    /\ ref # NoInvoice => \E l \in invoices : l[1] = ref

\* A reference number of more than 21 characters is cut or refused.
Refused(e, ref) == ~Accepted(e, ref) \/ e.xml

Target(e) == IF e.refs = <<>> THEN NoInvoice ELSE e.refs[e.done + 1]

\* (Mutant: the loop over the payments is left with the first.)
AdvancedOnce(q) ==
    LET e == Head(q)
    IN  IF e.done + 1 < Len(e.refs) THEN <<[e EXCEPT !.done = @ + 1]>> ELSE <<>>

Advanced(q) ==
    LET e == Head(q)
    IN  IF e.done + 1 < Len(e.refs)
        THEN <<[e EXCEPT !.done = @ + 1]>> \o Tail(q)
        ELSE Tail(q)

InsertPayment(s) ==
    /\ pc[s] = "add"
    /\ add[s] # <<>>
    /\ LET e == Head(add[s])
       IN  IF e.refs # <<>> /\ e.done >= e.parts
           THEN Throw(s) /\ UNCHANGED qbVars
           ELSE /\ \/ /\ Accepted(e, Target(e))
                      /\ NewReceipt(e, Target(e))
                      /\ add' = [add EXCEPT ![s] = Advanced(@)]
                      /\ Undisturbed
                   \/ /\ Refused(e, Target(e))
                      /\ add' = [add EXCEPT ![s] = <<>>]
                      /\ UNCHANGED qbVars /\ Undisturbed
                   \/ /\ Fault(s)
                      /\ UNCHANGED qbVars \/ (Accepted(e, Target(e)) /\ NewReceipt(e, Target(e)))
                      /\ add' = [add EXCEPT ![s] = <<>>]
                /\ UNCHANGED <<pc, due, del, upd, todo>>
    /\ UNCHANGED <<rwVars, billVars, counts>>

\* At most two quiet requests in a row matter.
Return(s) ==
    /\ pc[s] = "add"
    /\ add[s] = <<>>
    /\ Goto(s, "done")
    /\ Forget(s)
    /\ clean' = IF s \notin quiet THEN 0 ELSE IF clean < 2 THEN clean + 1 ELSE 2
    /\ UNCHANGED <<rwVars, billVars, qbVars, counts, faults, quiet>>

\* A connection that cannot be opened; or the server stops.
Abort(s) ==
    /\ pc[s] \notin Ended
    /\ Fault(s)
    /\ Goto(s, "aborted")
    /\ Forget(s)
    /\ UNCHANGED <<rwVars, billVars, qbVars, counts>>

Session(s) ==
    \/ RetrieveRwPayment(s) \/ RetrieveNone(s) \/ RetrievePayment(s)
    \/ DeletePayment(s) \/ Reread(s) \/ PlanPayment(s) \/ UpdatePayment(s)
    \/ InsertPayment(s) \/ Return(s)

-----------------------------------------------------------------------------
(* The users of RenWeb and QuickBooks, and InvoiceSync. *)

Edit ==
    /\ edits < MaxEdits
    /\ edits' = edits + 1
    /\ quiet' = {}
    /\ clean' = 0
    /\ UNCHANGED <<pc, due, lists, runs, faults>>

EditPayment(p, a) ==
    /\ p \in DOMAIN payments => payments[p] # a
    /\ payments' = [r \in DOMAIN payments \cup {p} |-> IF r = p THEN a ELSE payments[r]]
    /\ UNCHANGED <<linked, billVars, qbVars>>
    /\ Edit

RemovePayment(p) ==
    /\ p \in DOMAIN payments
    /\ payments' = [r \in DOMAIN payments \ {p} |-> payments[r]]
    /\ UNCHANGED <<linked, billVars, qbVars>>
    /\ Edit

InvoiceMade(c) ==
    /\ billed < MaxInvoices
    /\ invoices' = invoices \cup {<<billed + 1, c>>}
    /\ billed' = billed + 1
    /\ UNCHANGED <<rwVars, qbVars>>
    /\ Edit

InvoiceDeleted(l) ==
    /\ l \in invoices
    /\ invoices' = invoices \ {l}
    /\ UNCHANGED <<billed, rwVars, qbVars>>
    /\ Edit

BookkeeperReceives(fld, a) ==
    /\ Cardinality(received) < MaxForeign
    /\ received' = received \cup {[id |-> nextId, for |-> NoPayment, cust |-> NoFamily,
                                   field |-> fld, applied |-> NoInvoice, amount |-> a]}
    /\ nextId' = nextId + 1
    /\ UNCHANGED <<rwVars, billVars>>
    /\ Edit

Users ==
    \/ \E p \in Payments, a \in Amounts : EditPayment(p, a)
    \/ \E p \in Payments : RemovePayment(p)
    \/ \E c \in Charges : InvoiceMade(c)
    \/ \E l \in invoices : InvoiceDeleted(l)
    \/ \E fld \in ForeignFields, a \in Amounts : BookkeeperReceives(fld, a)

Next == Users \/ \E s \in Sessions : Start(s) \/ Session(s) \/ Abort(s)

Spec == Init /\ [][Next]_vars
-----------------------------------------------------------------------------
(* Properties. *)

TypeOK ==
    /\ payments \in PaymentTables
    /\ linked \subseteq Families
    /\ invoices \subseteq (1..billed) \X Charges
    /\ billed \in 0..MaxInvoices
    /\ received \subseteq Receipt
    /\ nextId \in Nat \ {0}
    /\ pc \in [Sessions -> Ended \cup {"payments", "received", "delete", "planAll",
                                       "planNew", "add"}]
    /\ due \in [Sessions -> PaymentTables]
    /\ del \in [Sessions -> SUBSET Receipt]
    /\ upd \in [Sessions -> SUBSET (Receipt \X Amounts)]
    /\ todo \in [Sessions -> SUBSET Payments]
    /\ \A s \in Sessions : todo[s] \subseteq DOMAIN due[s]
    /\ add \in [Sessions -> Seq(Entry)]
    /\ faults \in 0..MaxFaults /\ runs \in 0..MaxRuns /\ edits \in 0..MaxEdits
    /\ quiet \subseteq Sessions
    /\ clean \in 0..2

\* A payment is entered for its own family and applied only to an invoice that
\* bears a charge it pays, though the invoices are looked up payment by payment
\* before the first insert and come and go meanwhile (PaymentSync.java:64,
\* PaymenttoCharge.java:51, InsertPayment.java:46).
AppliedToOwnInvoices ==
    \A r \in received : r.for # NoPayment =>
        /\ r.cust = FamilyOf[r.for]
        /\ \A l \in invoices : l[1] = r.applied => l[2] \in AppliesTo[r.for]

Entered(p) == \E r \in received : r.for = p

\* No request is running, every family is linked and nobody has typed a payment
\* id into a custom field.
Regular ==
    /\ \A s \in Sessions : pc[s] \in Ended
    /\ linked = Families
    /\ \A r \in received : r.field \notin Payments

\* An undisturbed request leaves QuickBooks with all of RenWeb's payments or with
\* none at all, whatever failures and edits left behind: never with some, and
\* never with a payment that RenWeb no longer has.
AllOrNothing ==
    clean >= 1 /\ Regular =>
        \/ received = {}
        \/ /\ \A p \in DOMAIN payments : Entered(p)
           /\ \A r \in received : r.for \in DOMAIN payments

\* "Check QB payments against RW to check for updates or deletion"
\* (PaymentSync.java:51): a payment that RenWeb has is not deleted, so that after
\* two undisturbed requests it is there.
PaymentsStay ==
    clean = 2 /\ Regular => \A p \in DOMAIN payments : Entered(p)
=============================================================================
