----------------------------- MODULE InvoiceSync -----------------------------
(***************************************************************************)
(* quickbooksync.InvoiceSync and what it calls: RenWeb's charges are       *)
(* mirrored as QuickBooks invoice lines that carry the charge id in their  *)
(* custom fields.  Every database call is a step of the session, and the   *)
(* users of RenWeb and QuickBooks work between the steps.  A customer is   *)
(* named by the family it is linked to, which CustomerSync makes           *)
(* one-to-one.                                                             *)
(***************************************************************************)
EXTENDS InvoiceCompare

CONSTANTS
    Sessions,       \* threads that run invoicesync
    Families,       \* RenWeb families
    NoFamily,       \* no customer ("null"), or one that is linked to no family
    Dates,
    FamilyOf,       \* the family a charge bills
    DateOf,         \* the date of a charge
    ForeignFields,  \* custom fields of invoices the bookkeeper enters
    MaxForeign,     \* bound: such invoices
    MaxRuns,        \* bound: requests
    MaxEdits,       \* bound: edits of charges in RenWeb
    MaxFaults       \* bound: failed calls and lost threads

ASSUME ChargesAssumption ==
    /\ FamilyOf \in [Charges -> Families]
    /\ DateOf \in [Charges -> Dates]
    /\ NoFamily \notin Families
    /\ ForeignFields \subseteq {Null, Unreadable, Zero}
    /\ MaxForeign \in Nat /\ MaxRuns \in Nat /\ MaxEdits \in Nat /\ MaxFaults \in Nat

VARIABLES
    charges,   \* RenWeb Charges: the amount of each charge there is
    retired,   \* charge ids that were deleted; RenWeb does not use them again
    linked,    \* families with a row in CUSTOMERMAPPING
    lines,     \* QuickBooks InvoiceLineItems
    nextId,    \* the next line id QuickBooks gives out
    pc,        \* where a session is
    due,       \* allcharge
    del,       \* deletelist
    upd,       \* updatelist: pairs of a line and its new amount
    add,       \* addlist
    disc,      \* discountlist
    runs,      \* requests so far
    faults,    \* calls that have failed so far
    edits,     \* edits so far
    quiet,     \* history: sessions that ran alone, with no edit and no call that failed
    clean      \* history: quiet requests completed since the last disturbance

rwVars == <<charges, retired, linked>>
qbVars == <<lines, nextId>>
lists == <<del, upd, add, disc>>
counts == <<runs, edits>>
history == <<quiet, clean>>
vars == <<rwVars, qbVars, pc, due, lists, counts, faults, history>>

Ended == {"idle", "done", "aborted"}

AmountsOf == Amounts \cup {-a : a \in Amounts}
Line == [id : Nat, inv : Nat, cust : Families \cup {NoFamily}, date : Dates,
         field : Fields, amount : AmountsOf]
Entry == [cust : Families \cup {NoFamily}, field : Charges, amount : AmountsOf]

\* The charges there are, or were read, each with its amount.
ChargeTables == UNION {[C -> Amounts] : C \in SUBSET Charges}
NoCharge == [c \in {} |-> 0]

Abs(a) == IF a < 0 THEN -a ELSE a

\* At most two quiet requests in a row matter.
Capped(n) == IF n > 2 THEN 2 ELSE n

Init ==
    /\ charges \in ChargeTables
    /\ retired = {}
    /\ linked \in SUBSET Families
    /\ lines = {}
    /\ nextId = 1
    /\ pc = [s \in Sessions |-> "idle"]
    /\ due = [s \in Sessions |-> NoCharge]
    /\ del = [s \in Sessions |-> {}]
    /\ upd = [s \in Sessions |-> {}]
    /\ add = [s \in Sessions |-> {}]
    /\ disc = [s \in Sessions |-> {}]
    /\ runs = 0
    /\ faults = 0
    /\ edits = 0
    /\ quiet = {}
    /\ clean = 0

-----------------------------------------------------------------------------
(* Steps shared by the actions of a session. *)

Goto(s, l) == pc' = [pc EXCEPT ![s] = l]

Undisturbed == UNCHANGED <<faults, quiet, clean>>

Fault(s) ==
    /\ faults < MaxFaults
    /\ faults' = faults + 1
    /\ quiet' = quiet \ {s}
    /\ clean' = 0

Forget(s) ==
    /\ due' = [due EXCEPT ![s] = NoCharge]
    /\ del' = [del EXCEPT ![s] = {}]
    /\ upd' = [upd EXCEPT ![s] = {}]
    /\ add' = [add EXCEPT ![s] = {}]
    /\ disc' = [disc EXCEPT ![s] = {}]

\* A call fails for a reason of its own: no fault is to blame.
Refused(s) ==
    /\ quiet' = quiet \ {s}
    /\ clean' = 0
    /\ UNCHANGED faults

\* An exception that is not an SQLException: the request fails.
Throw(s) ==
    /\ Goto(s, "aborted")
    /\ Forget(s)
    /\ Refused(s)

\* The lines for a set of charges: a charge below zero becomes a discount of
\* the absolute amount.  lost are those whose mapping lookup failed.
\* (Mutant: the charge id is not written into the custom fields.)
EntryForUnmarked(s, c, lost) ==
    [cust |-> IF FamilyOf[c] \in linked /\ c \notin lost THEN FamilyOf[c] ELSE NoFamily,
     field |-> Zero,
     amount |-> Abs(due[s][c])]

EntryFor(s, c, lost) ==
    [cust |-> IF FamilyOf[c] \in linked /\ c \notin lost THEN FamilyOf[c] ELSE NoFamily,
     field |-> c,
     amount |-> Abs(due[s][c])]

Plan(s, toAdd, readAll) ==
    \E lost \in SUBSET toAdd :
        /\ IF readAll /\ lost = {} THEN Undisturbed ELSE Fault(s)
        /\ add' = [add EXCEPT ![s] =
               {EntryFor(s, c, lost) : c \in {d \in toAdd : due[s][d] >= 0}}]
        /\ disc' = [disc EXCEPT ![s] =
               {EntryFor(s, c, lost) : c \in {d \in toAdd : due[s][d] < 0}}]

\* A failing read leaves the rows fetched before the failure.
Readable(all) == IF faults < MaxFaults THEN SUBSET all ELSE {all}

-----------------------------------------------------------------------------
(* A session. *)

Alone(s) == \A t \in Sessions \ {s} : pc[t] \in Ended

Start(s) ==
    /\ pc[s] \in Ended
    /\ runs < MaxRuns
    /\ runs' = runs + 1
    /\ Goto(s, "charges")
    /\ quiet' = IF Alone(s) THEN {s} ELSE {}
    /\ clean' = IF Alone(s) THEN clean ELSE 0
    /\ UNCHANGED <<rwVars, qbVars, due, lists, edits, faults>>

RetrieveCharge(s) ==
    /\ pc[s] = "charges"
    /\ \E some \in Readable(DOMAIN charges) :
          /\ IF some = DOMAIN charges THEN Undisturbed ELSE Fault(s)
          /\ due' = [due EXCEPT ![s] = [c \in some |-> charges[c]]]
    /\ Goto(s, "lines")
    /\ UNCHANGED <<rwVars, qbVars, lists, counts>>

\* No line is found, or the read fails before the first: every charge is new.
RetrieveNoLine(s) ==
    /\ pc[s] = "lines"
    /\ {} \in Readable(lines)
    /\ Plan(s, DOMAIN due[s], lines = {})
    /\ Goto(s, "update")
    /\ UNCHANGED <<rwVars, qbVars, due, del, upd, counts>>

\* A line is to be deleted unless it bears the id of a charge that was read.
\* (Mutant: a line whose amount changed is, too.)
StaleIfChanged(s, l) == l.field \in DOMAIN due[s] => due[s][l.field] # l.amount
Stale(s, l) == l.field \notin DOMAIN due[s]

\* An id that cannot be cut out of the custom fields, or is no number, throws.
RetrieveInvoice(s) ==
    /\ pc[s] = "lines"
    /\ \E some \in Readable(lines) \ {{}} :
          IF \E l \in some : l.field = Unreadable
          THEN Throw(s)
          ELSE /\ IF some = lines THEN Undisturbed ELSE Fault(s)
               /\ del' = [del EXCEPT ![s] = {l \in some : Stale(s, l)}]
               /\ Goto(s, "delete")
               /\ UNCHANGED <<due, upd, add, disc>>
    /\ UNCHANGED <<rwVars, qbVars, counts>>

InvoiceLines(inv) == {l \in lines : l.inv = inv}

\* The whole invoice of a line goes.  QuickBooks may refuse to delete one that
\* is gone, which ends the loop as any SQLException does.
DeleteInvoice(s) ==
    /\ pc[s] = "delete"
    /\ \E l \in del[s] :
          \/ /\ lines' = lines \ InvoiceLines(l.inv)
             /\ del' = [del EXCEPT ![s] = @ \ {l}]
             /\ Undisturbed
          \/ /\ InvoiceLines(l.inv) = {} /\ Refused(s) /\ UNCHANGED lines
             /\ del' = [del EXCEPT ![s] = {}]
          \/ /\ Fault(s)
             /\ lines' \in {lines, lines \ InvoiceLines(l.inv)}
             /\ del' = [del EXCEPT ![s] = {}]
    /\ UNCHANGED <<rwVars, nextId, pc, due, upd, add, disc, counts>>

\* The lines are read again and compared with the charges.
Reread(s) ==
    /\ pc[s] = "delete"
    /\ del[s] = {}
    /\ \E some \in Readable(lines) : \E out \in Outcomes(due[s], some) :
          IF out.thrown
          THEN Throw(s)
          ELSE /\ Plan(s, out.add, some = lines)
               /\ upd' = [upd EXCEPT ![s] = out.update]
               /\ Goto(s, "update")
               /\ UNCHANGED <<due, del>>
    /\ UNCHANGED <<rwVars, qbVars, counts>>

Amended(u) == {IF l.id = u[1].id THEN [l EXCEPT !.amount = u[2]] ELSE l : l \in lines}

\* A line that is gone may be refused; either way nothing is updated.
UpdateInvoice(s) ==
    /\ pc[s] = "update"
    /\ \E u \in upd[s] :
          \/ /\ lines' = Amended(u)
             /\ upd' = [upd EXCEPT ![s] = @ \ {u}]
             /\ Undisturbed
          \/ /\ Amended(u) = lines /\ Refused(s) /\ UNCHANGED lines
             /\ upd' = [upd EXCEPT ![s] = {}]
          \/ /\ Fault(s)
             /\ lines' \in {lines, Amended(u)}
             /\ upd' = [upd EXCEPT ![s] = {}]
    /\ UNCHANGED <<rwVars, nextId, pc, due, del, add, disc, counts>>

\* (Mutant: the update list is left alone.)
UpdateDoneEarly(s) ==
    /\ pc[s] = "update"
    /\ Goto(s, "add")
    /\ UNCHANGED <<rwVars, qbVars, due, lists, counts, faults, history>>

UpdateDone(s) ==
    /\ pc[s] = "update"
    /\ upd[s] = {}
    /\ Goto(s, "add")
    /\ UNCHANGED <<rwVars, qbVars, due, lists, counts, faults, history>>

\* A new invoice of one line.
NewInvoice(e) ==
    /\ lines' = lines \cup {[id |-> nextId, inv |-> nextId, cust |-> e.cust,
                             date |-> DateOf[e.field], field |-> e.field,
                             amount |-> e.amount]}
    /\ nextId' = nextId + 1

\* An invoice for the customer "null" is refused, and that ends the loop.
InsertInvoice(s) ==
    /\ pc[s] = "add"
    /\ \E e \in add[s] :
          \/ /\ e.cust # NoFamily
             /\ NewInvoice(e)
             /\ add' = [add EXCEPT ![s] = @ \ {e}]
             /\ Undisturbed
          \/ /\ e.cust = NoFamily
             /\ add' = [add EXCEPT ![s] = {}]
             /\ Refused(s) /\ UNCHANGED qbVars
          \/ /\ Fault(s)
             /\ UNCHANGED qbVars \/ (e.cust # NoFamily /\ NewInvoice(e))
             /\ add' = [add EXCEPT ![s] = {}]
    /\ UNCHANGED <<rwVars, pc, due, del, upd, disc, counts>>

InsertDone(s) ==
    /\ pc[s] = "add"
    /\ add[s] = {}
    /\ Goto(s, "discount")
    /\ UNCHANGED <<rwVars, qbVars, due, lists, counts, faults, history>>

\* A discount goes to the invoice of every line its customer has on its date:
\* one more line each.  (Mutant: only the date is compared.)
DiscountedByDate(e) == {l \in lines : l.cust # NoFamily /\ l.date = DateOf[e.field]}
Discounted(e) == {l \in lines : l.cust = e.cust /\ l.cust # NoFamily /\ l.date = DateOf[e.field]}

DiscountLine(e, l, hit) ==
    [id |-> nextId + Cardinality({k \in hit : k.id < l.id}), inv |-> l.inv,
     cust |-> e.cust, date |-> DateOf[e.field], field |-> e.field, amount |-> e.amount]

\* The inserts use the statement whose result set the loop is reading: a driver
\* that closes it ends the loop, and all discounts with it, after an insert.
AddDiscount(s) ==
    /\ pc[s] = "discount"
    /\ \E e \in disc[s] :
       \E hit \in Readable(Discounted(e)) \cup {{l} : l \in Discounted(e)} :
          /\ lines' = lines \cup {DiscountLine(e, l, hit) : l \in hit}
          /\ nextId' = nextId + Cardinality(hit)
          /\ \/ /\ hit = Discounted(e)
                /\ disc' = [disc EXCEPT ![s] = @ \ {e}]
                /\ Undisturbed
             \/ /\ Cardinality(hit) = 1
                /\ disc' = [disc EXCEPT ![s] = {}]
                /\ Undisturbed
             \/ /\ Fault(s)
                /\ disc' = [disc EXCEPT ![s] = {}]
    /\ UNCHANGED <<rwVars, pc, due, del, upd, add, counts>>

Return(s) ==
    /\ pc[s] = "discount"
    /\ disc[s] = {}
    /\ Goto(s, "done")
    /\ Forget(s)
    /\ clean' = IF s \in quiet THEN Capped(clean + 1) ELSE 0
    /\ UNCHANGED <<rwVars, qbVars, counts, faults, quiet>>

\* A connection that cannot be opened is a NullPointerException at its first
\* use; or the server stops.
Abort(s) ==
    /\ pc[s] \notin Ended
    /\ Fault(s)
    /\ Goto(s, "aborted")
    /\ Forget(s)
    /\ UNCHANGED <<rwVars, qbVars, counts>>

Session(s) ==
    \/ RetrieveCharge(s) \/ RetrieveNoLine(s) \/ RetrieveInvoice(s)
    \/ DeleteInvoice(s) \/ Reread(s) \/ UpdateInvoice(s) \/ UpdateDone(s)
    \/ InsertInvoice(s) \/ InsertDone(s) \/ AddDiscount(s) \/ Return(s)

-----------------------------------------------------------------------------
(* The users of RenWeb and QuickBooks. *)

Edit ==
    /\ edits < MaxEdits
    /\ edits' = edits + 1
    /\ quiet' = {}
    /\ clean' = 0
    /\ UNCHANGED <<pc, due, lists, runs, faults>>

\* A charge is entered or gets another amount.
EditCharge(c, a) ==
    /\ c \notin retired
    /\ c \in DOMAIN charges => charges[c] # a
    /\ charges' = [d \in DOMAIN charges \cup {c} |-> IF d = c THEN a ELSE charges[d]]
    /\ UNCHANGED <<retired, linked, qbVars>>
    /\ Edit

RemoveCharge(c) ==
    /\ c \in DOMAIN charges
    /\ charges' = [d \in DOMAIN charges \ {c} |-> charges[d]]
    /\ retired' = retired \cup {c}
    /\ UNCHANGED <<linked, qbVars>>
    /\ Edit

LinkFamily(f) ==
    /\ f \notin linked
    /\ linked' = linked \cup {f}
    /\ UNCHANGED <<charges, retired, qbVars>>
    /\ Edit

BookkeeperInvoices(d, fld, a) ==
    /\ Cardinality({l \in lines : l.cust = NoFamily}) < MaxForeign
    /\ lines' = lines \cup {[id |-> nextId, inv |-> nextId, cust |-> NoFamily, date |-> d,
                             field |-> fld, amount |-> a]}
    /\ nextId' = nextId + 1
    /\ UNCHANGED rwVars
    /\ Edit

Users ==
    \/ \E c \in Charges, a \in Amounts : EditCharge(c, a)
    \/ \E c \in Charges : RemoveCharge(c)
    \/ \E f \in Families : LinkFamily(f)
    \/ \E d \in Dates, fld \in ForeignFields, a \in Amounts : BookkeeperInvoices(d, fld, a)

Next == Users \/ \E s \in Sessions : Start(s) \/ Session(s) \/ Abort(s)

Spec == Init /\ [][Next]_vars

-----------------------------------------------------------------------------
(* Properties. *)

TypeOK ==
    /\ charges \in ChargeTables
    /\ DOMAIN charges \cap retired = {}
    /\ retired \subseteq Charges
    /\ linked \subseteq Families
    /\ lines \subseteq Line
    /\ nextId \in Nat \ {0}
    /\ pc \in [Sessions -> Ended \cup {"charges", "lines", "delete", "update", "add", "discount"}]
    /\ due \in [Sessions -> ChargeTables]
    /\ del \in [Sessions -> SUBSET Line]
    /\ upd \in [Sessions -> SUBSET (Line \X Amounts)]
    /\ add \in [Sessions -> SUBSET Entry]
    /\ disc \in [Sessions -> SUBSET Entry]
    /\ runs \in 0..MaxRuns
    /\ faults \in 0..MaxFaults
    /\ edits \in 0..MaxEdits
    /\ quiet \subseteq Sessions
    /\ clean \in 0..2

Charged(l) == l.field \in Charges

\* A line that bears a charge is on the account of the family the charge is for,
\* on an invoice no other family has a line on, whatever is edited, deleted and
\* discounted in between (InsertInvoice.java:35, AddDiscounts.java:38-46).
BilledToFamily ==
    \A l \in lines :
        Charged(l) =>
            /\ l.cust = FamilyOf[l.field]
            /\ l.date = DateOf[l.field]
            /\ \A k \in InvoiceLines(l.inv) : k.cust = l.cust

\* One request at a time and as long as no call fails, a line goes only with an
\* invoice that bears a line whose charge is gone from RenWeb: InvoiceSync.java:101
\* lists what bears no charge, and the delete statement takes the whole invoice
\* (DeleteInvoice.java:37), a live line beside a withdrawn discount included.
KeepsLiveInvoices ==
    [][\A l \in lines :
          faults = 0 /\ (\A k \in lines' : k.id # l.id)
            => \E k \in InvoiceLines(l.inv) : k.field \notin DOMAIN charges]_lines

\* Each charge has an invoice line with its current amount.
\* (A charge below zero has one only if there was an invoice to put it on.)
Covered ==
    \A c \in DOMAIN charges :
        charges[c] >= 0 => \E l \in lines : l.field = c /\ l.amount = charges[c]

\* Two requests that nothing disturbs bring QuickBooks up to date, from whatever
\* failures, edits and overlapping requests left behind: every charge is billed with
\* its amount and every other line is gone.  One is not enough: when the deletions
\* empty the table, the comparison finds nothing to differ from
\* (InvoiceSync.java:128-160).  A refused statement disturbs, as a failed one does: the
\* insert for a family without a customer, or the deletion of an invoice that went with
\* another of its lines, ends its loop (InsertInvoice.java:38, DeleteInvoice.java:40).
TwoRunsSettle ==
    clean = 2 => Covered /\ \A l \in lines : l.field \in DOMAIN charges

\* "match is found": a charge that has its line gets no other
\* (InvoiceSync.java:124, 141).
OneLinePerCharge ==
    \A l, k \in lines : Charged(l) /\ l.field = k.field => l = k
=============================================================================
