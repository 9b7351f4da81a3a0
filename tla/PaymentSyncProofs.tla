-------------------------- MODULE PaymentSyncProofs --------------------------
(***************************************************************************)
(* Proofs about PaymentSync, for any sets of sessions, payments, charges,  *)
(* families and amounts and any number of requests, edits, invoices and    *)
(* failures: type correctness, that a payment is applied to an invoice of  *)
(* its own charges, and that a quiet request leaves all of RenWeb's        *)
(* payments in QuickBooks or none.                                         *)
(***************************************************************************)
EXTENDS PaymentSync, FiniteSetTheorems, SequenceTheorems, TLAPS

USE PaymentsAssumption

-----------------------------------------------------------------------------
(* Tables of payments, the comparison, and the invoices of a payment. *)

LEMMA TableIs ==
    ASSUME NEW f \in PaymentTables
    PROVE  /\ f \in [DOMAIN f -> Amounts]
           /\ DOMAIN f \subseteq Payments
           /\ \A p \in DOMAIN f : f[p] \in Amounts
<1>1. PICK P \in SUBSET Payments : f \in [P -> Amounts]
    BY DEF PaymentTables
<1> QED BY <1>1

LEMMA TableFrom ==
    ASSUME NEW P \in SUBSET Payments, NEW f \in [P -> Amounts]
    PROVE  f \in PaymentTables
    BY DEF PaymentTables

LEMMA EmptyTable == NoRow \in PaymentTables
<1>1. NoRow \in [{} -> Amounts]
    BY DEF NoRow
<1>2. {} \in SUBSET Payments
    OBVIOUS
<1> QED BY <1>1, <1>2, TableFrom

\* What the comparison puts on its lists, whatever the orders: payments that were
\* read, and payments received with the amount of their payment.  It has nothing to
\* say when QuickBooks has no payment.
LEMMA OutcomeLists ==
    ASSUME NEW d, NEW R, NEW out \in Compare!Outcomes(d, R), ~out.thrown
    PROVE  /\ out.add \subseteq DOMAIN d
           /\ \A u \in out.update :
                 \E r \in R : r.field \in DOMAIN d /\ u = <<r, d[r.field]>>
           /\ R = {} => out.add = {}
<1> DEFINE all == DOMAIN d
           dirty == {l \in R : l.field \in {Null, Unreadable}}
           compared == {l \in R : l.field # Zero}
           Of(c) == {l \in R : l.field = c}
           matched == {c \in all : Of(c) # {}}
           Meets == {m \in [matched -> R] : \A c \in matched : m[c] \in Of(c)}
           Update(m) == {<<m[c], d[c]>> : c \in {e \in matched : m[e].amount # d[e]}}
           Add(m, head, first) ==
               IF first \in matched /\ m[first] = head THEN all \ {first} ELSE all
           Fits(o) == /\ o.add \subseteq DOMAIN d
                      /\ \A u \in o.update :
                            \E r \in R : r.field \in DOMAIN d /\ u = <<r, d[r.field]>>
<1>1. CASE out = Compare!Lists({}, {})
    BY <1>1 DEF Compare!Lists
<1>2. CASE out = Compare!Thrown
    BY <1>2 DEF Compare!Thrown
<1>3. ASSUME NEW m \in Meets, NEW h, NEW f, out = Compare!Lists(Add(m, h, f), Update(m))
      PROVE  Fits(out)
    <2>1. out.add = Add(m, h, f) /\ out.update = Update(m)
        BY <1>3 DEF Compare!Lists
    <2>2. ASSUME NEW u \in Update(m)
          PROVE  \E r \in R : r.field \in DOMAIN d /\ u = <<r, d[r.field]>>
        <3>1. PICK c \in matched : u = <<m[c], d[c]>>
            BY <2>2
        <3>2. m[c] \in R /\ m[c].field = c /\ c \in DOMAIN d
            OBVIOUS
        <3> QED BY <3>1, <3>2
    <2> QED BY <2>1, <2>2
<1>4. CASE \E p \in Meets \X (compared \ dirty) \X all :
               out = Compare!Lists(Add(p[1], p[2], p[3]), Update(p[1]))
    <2>1. PICK p \in Meets \X (compared \ dirty) \X all :
              out = Compare!Lists(Add(p[1], p[2], p[3]), Update(p[1]))
        BY <1>4
    <2>2. p[1] \in Meets /\ R # {}
        OBVIOUS
    <2>3. Fits(out)
        <3> HIDE DEF Meets, Add, Update, Fits
        <3> QED BY <1>3, <2>1, <2>2
    <2> QED BY <2>2, <2>3
<1>5. \/ out = Compare!Lists({}, {}) \/ out = Compare!Thrown
      \/ \E p \in Meets \X (compared \ dirty) \X all :
             out = Compare!Lists(Add(p[1], p[2], p[3]), Update(p[1]))
    BY DEF Compare!Outcomes
<1> QED BY <1>1, <1>2, <1>4, <1>5

LEMMA PaidCounts == \A S : Paid!Cardinality(S) = Cardinality(S)
    BY DEF Paid!Cardinality, Cardinality

\* An invoice has one line here, and its number is used once.
BilledOnce == \A k, l \in invoices : k[1] = l[1] => k = l

LEMMA InvoicesFinite == TypeOK /\ BilledOnce => IsFiniteSet(invoices)
<1> SUFFICES ASSUME TypeOK, BilledOnce PROVE IsFiniteSet(invoices)
    OBVIOUS
<1> DEFINE f == [l \in invoices |-> l[1]]
<1>1. f \in [invoices -> 1..billed]
    BY DEF TypeOK
<1>2. \A k, l \in invoices : f[k] = f[l] => k = l
    BY DEF BilledOnce
<1>3. f \in Injection(invoices, 1..billed)
    BY <1>1, <1>2 DEF Injection, IsInjective
<1>4. billed \in Int /\ IsFiniteSet(1..billed)
    BY FS_Interval DEF TypeOK
<1> QED BY <1>3, <1>4, FS_Injection

\* The invoices looked up for a payment are there, and bear charges it pays.
LEMMA AppliedToInvoices ==
    ASSUME TypeOK, BilledOnce, NEW p \in Payments, NEW refs \in AppliedTo(p)
    PROVE  /\ refs \in Seq(Nat)
           /\ \A k \in DOMAIN refs : \E l \in invoices : l[1] = refs[k] /\ l[2] \in AppliesTo[p]
<1> DEFINE hits == {l \in invoices : l[2] \in AppliesTo[p]}
<1>1. PICK q \in Paid!Arrangements(hits) : refs = [i \in DOMAIN q |-> q[i][1]]
    BY DEF AppliedTo, Paid!InvoicesOf
<1>2. IsFiniteSet(hits)
    BY InvoicesFinite, FS_Subset
<1>3. Cardinality(hits) \in Nat
    BY <1>2, FS_CardinalityType
<1>4. q \in [1..Cardinality(hits) -> hits]
    BY PaidCounts DEF Paid!Arrangements
<1>5. \A l \in hits : l[1] \in Nat
    BY DEF TypeOK
<1> HIDE DEF hits
<1>6. refs \in [1..Cardinality(hits) -> Nat]
    BY <1>1, <1>4, <1>5
<1>7. refs \in Seq(Nat)
    BY <1>3, <1>6
<1>8. ASSUME NEW k \in DOMAIN refs
      PROVE  \E l \in invoices : l[1] = refs[k] /\ l[2] \in AppliesTo[p]
    <2>1. q[k] \in hits /\ refs[k] = q[k][1]
        BY <1>1, <1>4, <1>8
    <2> QED BY <2>1 DEF hits
<1> QED BY <1>7, <1>8

-----------------------------------------------------------------------------
(* What is on the lists, and when. *)

\* A request forgets its lists, and fills them in the order of the code.
ListsFit ==
    \A s \in Sessions :
        /\ pc[s] \in Ended \cup {"payments", "received"} => del[s] = {} /\ upd[s] = {}
        /\ pc[s] \in Ended \cup {"payments", "received", "delete"} => todo[s] = {} /\ add[s] = <<>>
        /\ pc[s] = "add" => todo[s] = {}

\* An entry stays on the add list until the last of its invoices is done.
EntriesPending ==
    \A s \in Sessions : \A i \in DOMAIN add[s] :
        add[s][i].refs = <<>> \/ add[s][i].done < Len(add[s][i].refs)

LEMMA EntryAdvances ==
    ASSUME NEW e \in Entry
    PROVE  [e EXCEPT !.done = @ + 1] \in Entry
<1> DEFINE Refs == Seq(Nat)
<1>1. Entry = [for : Payments, cust : Families \cup {NoFamily}, refs : Refs,
               parts : Nat, done : Nat, xml : BOOLEAN, amount : Amounts]
    BY DEF Entry
<1> HIDE DEF Refs
<1>2. e.done + 1 \in Nat
    BY <1>1
<1> QED BY <1>1, <1>2

\* The add list after an insert.
LEMMA AdvancedEntries ==
    ASSUME NEW q \in Seq(Entry), q # <<>>
    PROVE  /\ Head(q) \in Entry /\ 1 \in DOMAIN q /\ Head(q) = q[1]
           /\ Advanced(q) \in Seq(Entry)
           /\ \A i \in DOMAIN Advanced(q) :
                 \/ \E j \in DOMAIN q : Advanced(q)[i] = q[j]
                 \/ /\ Head(q).done + 1 < Len(Head(q).refs)
                    /\ Advanced(q)[i] = [Head(q) EXCEPT !.done = @ + 1]
           /\ \A j \in DOMAIN q : j # 1 => \E i \in DOMAIN Advanced(q) : Advanced(q)[i] = q[j]
<1> DEFINE e == Head(q)
           next == [e EXCEPT !.done = @ + 1]
<1>1. e \in Entry /\ Tail(q) \in Seq(Entry) /\ Len(Tail(q)) = Len(q) - 1
      /\ \A i \in 1..Len(Tail(q)) : Tail(q)[i] = q[i + 1]
    BY HeadTailProperties
<1>2. Len(q) \in Nat \ {0} /\ DOMAIN q = 1..Len(q) /\ e = q[1]
    BY EmptySeq
<1>3. DOMAIN Tail(q) = 1..Len(Tail(q))
    BY <1>1
<1>4. next \in Entry
    BY <1>1, EntryAdvances
<1> HIDE DEF next, e
<1>5. CASE e.done + 1 < Len(e.refs)
    <2>1. Advanced(q) = <<next>> \o Tail(q)
        BY <1>5 DEF Advanced, e, next
    <2>2. <<next>> \in Seq(Entry) /\ Len(<<next>>) = 1 /\ <<next>>[1] = next
        BY <1>4
    <2>3. /\ Advanced(q) \in Seq(Entry)
          /\ Len(Advanced(q)) = Len(q)
          /\ \A i \in 1..Len(q) :
                Advanced(q)[i] = IF i <= 1 THEN <<next>>[i] ELSE Tail(q)[i - 1]
        BY <1>1, <1>2, <2>1, <2>2, ConcatProperties
    <2>4. DOMAIN Advanced(q) = 1..Len(q)
        BY <2>3
    <2>5. \A i \in 1..Len(q) : Advanced(q)[i] = IF i = 1 THEN next ELSE q[i]
        <3>1. SUFFICES ASSUME NEW i \in 1..Len(q), i # 1 PROVE Tail(q)[i - 1] = q[i]
            BY <1>2, <2>2, <2>3
        <3>2. i - 1 \in 1..Len(Tail(q)) /\ (i - 1) + 1 = i
            BY <1>1, <1>2, <3>1
        <3>3. Tail(q)[i - 1] = q[(i - 1) + 1]
            BY <1>1, <3>2
        <3> QED BY <3>2, <3>3
    <2> QED BY <1>1, <1>2, <1>5, <2>3, <2>4, <2>5 DEF e, next
<1>6. CASE ~(e.done + 1 < Len(e.refs))
    <2>1. Advanced(q) = Tail(q)
        BY <1>6 DEF Advanced, e
    <2>2. \A i \in DOMAIN Tail(q) : i + 1 \in DOMAIN q /\ Tail(q)[i] = q[i + 1]
        BY <1>1, <1>2, <1>3
    <2>3. ASSUME NEW j \in DOMAIN q, j # 1
          PROVE  \E i \in DOMAIN Tail(q) : Tail(q)[i] = q[j]
        <3>1. j - 1 \in 1..Len(Tail(q)) /\ (j - 1) + 1 = j
            BY <1>1, <1>2, <2>3
        <3>2. Tail(q)[j - 1] = q[j]
            BY <1>1, <3>1
        <3> QED BY <1>3, <3>1, <3>2
    <2> QED BY <1>1, <1>2, <2>1, <2>2, <2>3 DEF e
<1> QED BY <1>5, <1>6

LEMMA Appended ==
    ASSUME NEW q \in Seq(Entry), NEW e \in Entry
    PROVE  /\ Append(q, e) \in Seq(Entry)
           /\ \A i \in DOMAIN Append(q, e) :
                 Append(q, e)[i] = e \/ \E j \in DOMAIN q : Append(q, e)[i] = q[j]
           /\ \A j \in DOMAIN q : j \in DOMAIN Append(q, e) /\ Append(q, e)[j] = q[j]
           /\ \E i \in DOMAIN Append(q, e) : Append(q, e)[i] = e
<1>1. /\ Append(q, e) \in Seq(Entry) /\ Len(q) \in Nat /\ DOMAIN q = 1..Len(q)
      /\ DOMAIN Append(q, e) = 1..Len(q) + 1
      /\ \A i \in 1..Len(q) : Append(q, e)[i] = q[i]
      /\ Append(q, e)[Len(q) + 1] = e
    OBVIOUS
<1>2. \A i \in 1..Len(q) + 1 : i \in 1..Len(q) \/ i = Len(q) + 1
    BY <1>1
<1>3. Len(q) + 1 \in 1..Len(q) + 1 /\ 1..Len(q) \subseteq 1..Len(q) + 1
    BY <1>1
<1> QED BY <1>1, <1>2, <1>3

\* A payment that is planned is put on the add list with invoices of its charges:
\* all of them and its customer, unless a lookup fails.
Planned(s, p, cust, refs, parts) ==
    /\ add' = [add EXCEPT ![s] = Append(@, EntryOf(s, p, cust, refs, parts))]
    /\ todo' = [todo EXCEPT ![s] = @ \ {p}]
    /\ UNCHANGED <<pc, due, del, upd>>
    /\ cust \in {Customer(p), NoFamily}
    /\ \A k \in DOMAIN refs : \E l \in invoices : l[1] = refs[k] /\ l[2] \in AppliesTo[p]
    /\ (Undisturbed /\ cust = Customer(p)) \/ Fault(s)
    /\ EntryOf(s, p, cust, refs, parts) \in Entry

LEMMA PlanStep ==
    ASSUME TypeOK, BilledOnce, NEW s \in Sessions, PlanPayment(s)
    PROVE  Throw(s) \/ \E p \in todo[s] : \E cust, refs, parts : Planned(s, p, cust, refs, parts)
<1>0. PICK p \in todo[s] : \E refs \in AppliedTo(p) :
          IF Overruns(p)
          THEN Throw(s)
          ELSE /\ \/ /\ add' = [add EXCEPT ![s] =
                            Append(@, EntryOf(s, p, Customer(p), refs, PartsOf(s, p)))]
                     /\ Undisturbed
                  \/ /\ Fault(s)
                     /\ \E cust \in {Customer(p), NoFamily}, n \in 0..Len(refs),
                           parts \in 0..PartsOf(s, p) :
                           add' = [add EXCEPT ![s] =
                               Append(@, EntryOf(s, p, cust, SubSeq(refs, 1, n), parts))]
               /\ todo' = [todo EXCEPT ![s] = @ \ {p}]
               /\ UNCHANGED <<pc, due, del, upd>>
    BY DEF PlanPayment
<1>1. PICK refs \in AppliedTo(p) :
          IF Overruns(p)
          THEN Throw(s)
          ELSE /\ \/ /\ add' = [add EXCEPT ![s] =
                            Append(@, EntryOf(s, p, Customer(p), refs, PartsOf(s, p)))]
                     /\ Undisturbed
                  \/ /\ Fault(s)
                     /\ \E cust \in {Customer(p), NoFamily}, n \in 0..Len(refs),
                           parts \in 0..PartsOf(s, p) :
                           add' = [add EXCEPT ![s] =
                               Append(@, EntryOf(s, p, cust, SubSeq(refs, 1, n), parts))]
               /\ todo' = [todo EXCEPT ![s] = @ \ {p}]
               /\ UNCHANGED <<pc, due, del, upd>>
    BY <1>0
<1>2. p \in Payments /\ due[s][p] \in Amounts
    BY TableIs DEF TypeOK
<1>3. /\ refs \in Seq(Nat)
      /\ \A k \in DOMAIN refs : \E l \in invoices : l[1] = refs[k] /\ l[2] \in AppliesTo[p]
    BY <1>2, AppliedToInvoices
<1>4. Customer(p) \in Families \cup {NoFamily}
    BY <1>2 DEF Customer
<1>5. PartsOf(s, p) \in Nat
    BY <1>2, FS_CardinalityType DEF PartsOf
<1>6. ASSUME NEW cust \in {Customer(p), NoFamily}, NEW some \in Seq(Nat), NEW parts \in Nat
      PROVE  EntryOf(s, p, cust, some, parts) \in Entry
    BY <1>2, <1>4, <1>6 DEF EntryOf, Entry
<1>7. CASE /\ add' = [add EXCEPT ![s] =
                    Append(@, EntryOf(s, p, Customer(p), refs, PartsOf(s, p)))]
           /\ Undisturbed
           /\ todo' = [todo EXCEPT ![s] = @ \ {p}]
           /\ UNCHANGED <<pc, due, del, upd>>
    <2>1. Planned(s, p, Customer(p), refs, PartsOf(s, p))
        BY <1>3, <1>5, <1>6, <1>7 DEF Planned
    <2> QED BY <2>1
<1>8. ASSUME Fault(s), NEW cust \in {Customer(p), NoFamily}, NEW n \in 0..Len(refs),
             NEW parts \in 0..PartsOf(s, p),
             add' = [add EXCEPT ![s] =
                        Append(@, EntryOf(s, p, cust, SubSeq(refs, 1, n), parts))],
             todo' = [todo EXCEPT ![s] = @ \ {p}],
             UNCHANGED <<pc, due, del, upd>>
      PROVE  \E c, some, m : Planned(s, p, c, some, m)
    <2>1. Len(refs) \in Nat /\ DOMAIN refs = 1..Len(refs) /\ \A i \in 1..n : refs[i] \in Nat
        BY <1>3
    <2>2. n \in Nat /\ n <= Len(refs) /\ parts \in Nat
        BY <1>5, <2>1
    <2>3. SubSeq(refs, 1, n) \in Seq(Nat) /\ Len(SubSeq(refs, 1, n)) = n
          /\ \A k \in 1..n : SubSeq(refs, 1, n)[k] = refs[k]
        BY <1>3, <2>1, <2>2
    <2>4. \A k \in DOMAIN SubSeq(refs, 1, n) : k \in DOMAIN refs
                                               /\ SubSeq(refs, 1, n)[k] = refs[k]
        BY <2>1, <2>2, <2>3
    <2>5. \A k \in DOMAIN SubSeq(refs, 1, n) :
              \E l \in invoices : l[1] = SubSeq(refs, 1, n)[k] /\ l[2] \in AppliesTo[p]
        BY <1>3, <2>4
    <2>6. Planned(s, p, cust, SubSeq(refs, 1, n), parts)
        BY <1>6, <1>8, <2>2, <2>3, <2>5 DEF Planned
    <2> QED BY <2>6
<1> QED BY <1>1, <1>7, <1>8

-----------------------------------------------------------------------------
(* Type correctness. *)

LEMMA TypeInit == Init => TypeOK /\ BilledOnce /\ ListsFit /\ EntriesPending
<1> SUFFICES ASSUME Init PROVE TypeOK /\ BilledOnce /\ ListsFit /\ EntriesPending
    OBVIOUS
<1>1. PICK f \in [1..billed -> Charges] : invoices = {<<i, f[i]>> : i \in 1..billed}
    BY DEF Init
<1>2. invoices \subseteq (1..billed) \X Charges /\ BilledOnce
    BY <1>1 DEF BilledOnce
<1>3. due \in [Sessions -> PaymentTables]
    BY EmptyTable DEF Init
<1>4. add \in [Sessions -> Seq(Entry)]
    BY DEF Init
<1>5. \A s \in Sessions : todo[s] \subseteq DOMAIN due[s]
    BY DEF Init
<1>6. TypeOK
    BY <1>2, <1>3, <1>4, <1>5 DEF Init, TypeOK, Ended
<1>7. ListsFit /\ EntriesPending
    BY DEF Init, ListsFit, EntriesPending
<1> QED BY <1>2, <1>6, <1>7

\* A request that ends forgets its lists.
LEMMA ForgetTypes ==
    ASSUME TypeOK, NEW s \in Sessions, Forget(s)
    PROVE  /\ due' \in [Sessions -> PaymentTables]
           /\ del' \in [Sessions -> SUBSET Receipt]
           /\ upd' \in [Sessions -> SUBSET (Receipt \X Amounts)]
           /\ todo' \in [Sessions -> SUBSET Payments]
           /\ \A t \in Sessions : todo'[t] \subseteq DOMAIN due'[t]
           /\ add' \in [Sessions -> Seq(Entry)]
<1>1. due' \in [Sessions -> PaymentTables]
    BY EmptyTable DEF TypeOK, Forget
<1>2. add' \in [Sessions -> Seq(Entry)]
    BY DEF TypeOK, Forget
<1>3. todo' \in [Sessions -> SUBSET Payments]
    BY DEF TypeOK, Forget
<1>4. ASSUME NEW t \in Sessions PROVE todo'[t] \subseteq DOMAIN due'[t]
    BY DEF TypeOK, Forget
<1> QED BY <1>1, <1>2, <1>3, <1>4 DEF TypeOK, Forget

LEMMA ThrowTypes ==
    ASSUME TypeOK, NEW s \in Sessions, Throw(s), UNCHANGED <<rwVars, billVars, qbVars, counts>>
    PROVE  TypeOK'
<1>1. Forget(s)
    BY DEF Throw
<1> QED BY <1>1, ForgetTypes
        DEF TypeOK, Throw, Goto, Ended, rwVars, billVars, qbVars, counts

LEMMA TypeRetrieveRwPayment ==
    ASSUME TypeOK, ListsFit, NEW s \in Sessions, RetrieveRwPayment(s)
    PROVE  TypeOK'
<1>1. PICK some \in Readable(DOMAIN payments) :
          /\ IF some = DOMAIN payments THEN Undisturbed ELSE Fault(s)
          /\ due' = [due EXCEPT ![s] = [p \in some |-> payments[p]]]
    BY DEF RetrieveRwPayment
<1>2. some \subseteq DOMAIN payments
    BY DEF Readable
<1>3. [p \in some |-> payments[p]] \in [some -> Amounts] /\ some \subseteq Payments
    BY <1>2, TableIs DEF TypeOK
<1>4. [p \in some |-> payments[p]] \in PaymentTables
    BY <1>3, TableFrom
<1>5. due' \in [Sessions -> PaymentTables]
    BY <1>1, <1>4 DEF TypeOK
<1>6. faults' \in 0..MaxFaults /\ quiet' \subseteq Sessions /\ clean' \in 0..2
    BY <1>1 DEF TypeOK, Undisturbed, Fault
<1>7. todo[s] = {} /\ UNCHANGED todo
    BY DEF ListsFit, RetrieveRwPayment, lists
<1>8. \A t \in Sessions : todo'[t] \subseteq DOMAIN due'[t]
    BY <1>1, <1>7 DEF TypeOK
<1> QED BY <1>5, <1>6, <1>8
        DEF TypeOK, RetrieveRwPayment, Goto, Ended, rwVars, billVars, qbVars, lists, counts

LEMMA TypeRetrieveNone ==
    ASSUME TypeOK, NEW s \in Sessions, RetrieveNone(s)
    PROVE  TypeOK'
<1>1. DOMAIN due[s] \subseteq Payments
    BY TableIs DEF TypeOK
<1>2. todo' \in [Sessions -> SUBSET Payments]
    BY <1>1 DEF TypeOK, RetrieveNone
<1>3. \A t \in Sessions : todo'[t] \subseteq DOMAIN due'[t]
    BY DEF TypeOK, RetrieveNone
<1>4. faults' \in 0..MaxFaults /\ quiet' \subseteq Sessions /\ clean' \in 0..2
    BY DEF TypeOK, RetrieveNone, Undisturbed, Fault
<1> QED BY <1>2, <1>3, <1>4
        DEF TypeOK, RetrieveNone, Goto, Ended, rwVars, billVars, qbVars, counts

LEMMA TypeRetrievePayment ==
    ASSUME TypeOK, NEW s \in Sessions, RetrievePayment(s)
    PROVE  TypeOK'
<1>1. PICK some \in Readable(received) \ {{}} :
          IF \E r \in some : r.field = Unreadable
          THEN Throw(s)
          ELSE /\ IF some = received THEN Undisturbed ELSE Fault(s)
               /\ del' = [del EXCEPT ![s] = {r \in some : r.field \notin DOMAIN due[s]}]
               /\ Goto(s, "delete")
               /\ UNCHANGED <<due, upd, todo, add>>
    BY DEF RetrievePayment
<1>2. some \subseteq received
    BY DEF Readable
<1>3. CASE Throw(s)
    BY <1>3, ThrowTypes DEF RetrievePayment
<1>4. CASE /\ IF some = received THEN Undisturbed ELSE Fault(s)
           /\ del' = [del EXCEPT ![s] = {r \in some : r.field \notin DOMAIN due[s]}]
           /\ Goto(s, "delete")
           /\ UNCHANGED <<due, upd, todo, add>>
    <2>1. del' \in [Sessions -> SUBSET Receipt]
        BY <1>2, <1>4 DEF TypeOK
    <2>2. faults' \in 0..MaxFaults /\ quiet' \subseteq Sessions /\ clean' \in 0..2
        BY <1>4 DEF TypeOK, Undisturbed, Fault
    <2> QED BY <1>4, <2>1, <2>2
            DEF TypeOK, RetrievePayment, Goto, Ended, rwVars, billVars, qbVars, counts
<1> QED BY <1>1, <1>3, <1>4

LEMMA TypeDeletePayment ==
    ASSUME TypeOK, NEW s \in Sessions, DeletePayment(s)
    PROVE  TypeOK'
<1>1. received' \subseteq received
    BY DEF DeletePayment
<1>2. del' \in [Sessions -> SUBSET Receipt]
    <2>1. \E r \in del[s] : \/ del' = [del EXCEPT ![s] = @ \ {r}]
                            \/ del' = [del EXCEPT ![s] = {}]
        BY DEF DeletePayment
    <2>2. del \in [Sessions -> SUBSET Receipt]
        BY DEF TypeOK
    <2> QED BY <2>1, <2>2
<1>3. faults' \in 0..MaxFaults /\ quiet' \subseteq Sessions /\ clean' \in 0..2
    BY DEF DeletePayment, TypeOK, Undisturbed, Fault
<1> QED BY <1>1, <1>2, <1>3 DEF TypeOK, DeletePayment, rwVars, billVars, counts

LEMMA TypeReread ==
    ASSUME TypeOK, NEW s \in Sessions, Reread(s)
    PROVE  TypeOK'
<1>0. PICK some \in Readable(received) : \E out \in Compare!Outcomes(due[s], some) :
          IF out.thrown
          THEN Throw(s)
          ELSE /\ IF some = received THEN Undisturbed ELSE Fault(s)
               /\ todo' = [todo EXCEPT ![s] = out.add]
               /\ upd' = [upd EXCEPT ![s] = out.update]
               /\ Goto(s, "planNew")
               /\ UNCHANGED <<due, del, add>>
    BY DEF Reread
<1>1. PICK out \in Compare!Outcomes(due[s], some) :
          IF out.thrown
          THEN Throw(s)
          ELSE /\ IF some = received THEN Undisturbed ELSE Fault(s)
               /\ todo' = [todo EXCEPT ![s] = out.add]
               /\ upd' = [upd EXCEPT ![s] = out.update]
               /\ Goto(s, "planNew")
               /\ UNCHANGED <<due, del, add>>
    BY <1>0
<1>2. some \subseteq received
    BY DEF Readable
<1>3. CASE out.thrown
    BY <1>1, <1>3, ThrowTypes DEF Reread
<1>4. CASE ~out.thrown
    <2>1. out.add \subseteq DOMAIN due[s]
        BY <1>4, OutcomeLists
    <2>2. due[s] \in PaymentTables /\ DOMAIN due[s] \subseteq Payments
        BY TableIs DEF TypeOK
    <2>3. out.update \subseteq Receipt \X Amounts
        <3>1. SUFFICES ASSUME NEW u \in out.update PROVE u \in Receipt \X Amounts
            OBVIOUS
        <3>2. PICK r \in some : r.field \in DOMAIN due[s] /\ u = <<r, due[s][r.field]>>
            BY <1>4, OutcomeLists
        <3> QED BY <1>2, <2>2, <3>2, TableIs DEF TypeOK
    <2>4. upd' \in [Sessions -> SUBSET (Receipt \X Amounts)]
        BY <1>1, <1>4, <2>3 DEF TypeOK
    <2>5. todo' \in [Sessions -> SUBSET Payments]
        BY <1>1, <1>4, <2>1, <2>2 DEF TypeOK
    <2>6. \A t \in Sessions : todo'[t] \subseteq DOMAIN due'[t]
        BY <1>1, <1>4, <2>1 DEF TypeOK
    <2>7. faults' \in 0..MaxFaults /\ quiet' \subseteq Sessions /\ clean' \in 0..2
        BY <1>1, <1>4 DEF TypeOK, Undisturbed, Fault
    <2> QED BY <1>1, <1>4, <2>4, <2>5, <2>6, <2>7
            DEF TypeOK, Reread, Goto, Ended, rwVars, billVars, qbVars, counts
<1> QED BY <1>3, <1>4

LEMMA TypePlanPayment ==
    ASSUME TypeOK, BilledOnce, NEW s \in Sessions, PlanPayment(s)
    PROVE  TypeOK'
<1>1. CASE Throw(s)
    BY <1>1, ThrowTypes DEF PlanPayment
<1>2. ASSUME NEW p \in todo[s], NEW cust, NEW refs, NEW parts, Planned(s, p, cust, refs, parts)
      PROVE  TypeOK'
    <2> DEFINE e == EntryOf(s, p, cust, refs, parts)
    <2>1. e \in Entry /\ add' = [add EXCEPT ![s] = Append(@, e)]
        BY <1>2 DEF Planned
    <2> HIDE DEF e
    <2>2. add' \in [Sessions -> Seq(Entry)]
        BY <2>1, Appended DEF TypeOK
    <2>3. /\ todo' \in [Sessions -> SUBSET Payments]
          /\ \A t \in Sessions : todo'[t] \subseteq todo[t]
        BY <1>2 DEF Planned, TypeOK
    <2>4. faults' \in 0..MaxFaults /\ quiet' \subseteq Sessions /\ clean' \in 0..2
        BY <1>2 DEF Planned, TypeOK, Undisturbed, Fault
    <2>5. UNCHANGED <<pc, due, del, upd, rwVars, billVars, qbVars, counts>>
        BY <1>2 DEF Planned, PlanPayment
    <2> QED BY <2>2, <2>3, <2>4, <2>5 DEF TypeOK, rwVars, billVars, qbVars, counts
<1> QED BY <1>1, <1>2, PlanStep

\* What an insert does: nothing, or a payment for the first entry of the list.
LEMMA InsertStep ==
    ASSUME TypeOK, NEW s \in Sessions, InsertPayment(s)
    PROVE  /\ pc[s] = "add" /\ add[s] # <<>> /\ UNCHANGED <<rwVars, billVars, counts>>
           /\ \/ UNCHANGED qbVars
              \/ /\ Accepted(Head(add[s]), Target(Head(add[s])))
                 /\ NewReceipt(Head(add[s]), Target(Head(add[s])))
           /\ \/ Throw(s) /\ UNCHANGED qbVars
              \/ /\ UNCHANGED <<pc, due, del, upd, todo>>
                 /\ \/ add' = [add EXCEPT ![s] = Advanced(@)]
                    \/ add' = [add EXCEPT ![s] = <<>>]
                 /\ faults' \in 0..MaxFaults /\ quiet' \subseteq Sessions /\ clean' \in 0..2
    BY DEF InsertPayment, TypeOK, Undisturbed, Fault

LEMMA TargetType ==
    ASSUME TypeOK, EntriesPending, NEW s \in Sessions, add[s] # <<>>
    PROVE  /\ Head(add[s]) \in Entry /\ 1 \in DOMAIN add[s] /\ Head(add[s]) = add[s][1]
           /\ \/ Head(add[s]).refs = <<>> /\ Target(Head(add[s])) = NoInvoice
              \/ \E k \in DOMAIN Head(add[s]).refs :
                    Target(Head(add[s])) = Head(add[s]).refs[k]
           /\ Target(Head(add[s])) \in Nat \cup {NoInvoice}
<1>0. add[s] \in Seq(Entry)
    BY DEF TypeOK
<1>1. Head(add[s]) \in Entry /\ 1 \in DOMAIN add[s] /\ Head(add[s]) = add[s][1]
    BY <1>0, AdvancedEntries
<1> DEFINE e == Head(add[s])
<1>2. e.refs = <<>> \/ e.done < Len(e.refs)
    BY <1>1 DEF EntriesPending
<1>3. e \in Entry
    BY <1>1
<1> HIDE DEF e
<1>4. e.done \in Nat /\ e.refs \in Seq(Nat)
    BY <1>3 DEF Entry
<1>5. e.refs # <<>> => e.done + 1 \in DOMAIN e.refs /\ Target(e) = e.refs[e.done + 1]
    BY <1>2, <1>4 DEF Target
<1>6. e.refs = <<>> => Target(e) = NoInvoice
    BY DEF Target
<1>7. \A k \in DOMAIN e.refs : e.refs[k] \in Nat
    BY <1>4
<1> QED BY <1>1, <1>5, <1>6, <1>7 DEF e

LEMMA TypeInsertPayment ==
    ASSUME TypeOK, EntriesPending, NEW s \in Sessions, InsertPayment(s)
    PROVE  TypeOK'
<1>1. /\ add[s] # <<>> /\ UNCHANGED <<rwVars, billVars, counts>>
      /\ UNCHANGED qbVars \/ NewReceipt(Head(add[s]), Target(Head(add[s])))
    BY InsertStep
<1>2. CASE Throw(s) /\ UNCHANGED qbVars
    BY <1>1, <1>2, ThrowTypes
<1>3. CASE /\ UNCHANGED <<pc, due, del, upd, todo>>
           /\ \/ add' = [add EXCEPT ![s] = Advanced(@)]
              \/ add' = [add EXCEPT ![s] = <<>>]
           /\ faults' \in 0..MaxFaults /\ quiet' \subseteq Sessions /\ clean' \in 0..2
    <2> DEFINE e == Head(add[s])
               ref == Target(e)
    <2>1. e \in Entry /\ ref \in Nat \cup {NoInvoice}
        BY <1>1, TargetType
    <2>2. UNCHANGED qbVars \/ NewReceipt(e, ref)
        BY <1>1
    <2> HIDE DEF e, ref
    <2>3. received' \subseteq Receipt /\ nextId' \in Nat \ {0}
        <3>1. CASE UNCHANGED qbVars
            BY <3>1 DEF TypeOK, qbVars
        <3>2. CASE NewReceipt(e, ref)
            <4>1. /\ e.for \in Payments /\ e.cust \in Families \cup {NoFamily}
                  /\ e.amount \in Amounts
                BY <2>1 DEF Entry
            <4>2. Null \in Compare!Fields
                BY DEF Compare!Fields
            <4> QED BY <2>1, <3>2, <4>1, <4>2 DEF TypeOK, NewReceipt, Receipt
        <3> QED BY <2>2, <3>1, <3>2
    <2>4. Advanced(add[s]) \in Seq(Entry) /\ <<>> \in Seq(Entry)
        BY <1>1, AdvancedEntries DEF TypeOK
    <2>5. add' \in [Sessions -> Seq(Entry)]
        BY <1>3, <2>4 DEF TypeOK
    <2> QED BY <1>1, <1>3, <2>3, <2>5 DEF TypeOK, rwVars, billVars, counts
<1> QED BY <1>2, <1>3, InsertStep

LEMMA TypeSession ==
    ASSUME TypeOK, BilledOnce, ListsFit, EntriesPending, NEW s \in Sessions, Session(s)
    PROVE  TypeOK'
<1>1. CASE UpdatePayment(s)
    BY <1>1 DEF TypeOK, UpdatePayment, Goto, Ended, rwVars, billVars, qbVars, counts, history
<1>2. CASE Return(s)
    <2>1. Forget(s)
        BY <1>2 DEF Return
    <2>2. clean' \in 0..2
        BY <1>2 DEF Return, TypeOK
    <2> QED BY <1>2, <2>1, <2>2, ForgetTypes
            DEF TypeOK, Return, Goto, Ended, rwVars, billVars, qbVars, counts
<1> QED BY <1>1, <1>2, TypeRetrieveRwPayment, TypeRetrieveNone, TypeRetrievePayment,
           TypeDeletePayment, TypeReread, TypePlanPayment, TypeInsertPayment DEF Session

LEMMA TypeUsers ==
    ASSUME TypeOK, Users
    PROVE  TypeOK'
<1>0. payments \in PaymentTables
    BY DEF TypeOK
<1>1. ASSUME NEW p \in Payments, NEW a \in Amounts, EditPayment(p, a)
      PROVE  TypeOK'
    <2>1. /\ payments' \in [DOMAIN payments \cup {p} -> Amounts]
          /\ DOMAIN payments \cup {p} \subseteq Payments
        BY <1>0, <1>1, TableIs DEF EditPayment
    <2>2. payments' \in PaymentTables
        BY <2>1, TableFrom
    <2> QED BY <1>1, <2>2 DEF TypeOK, EditPayment, Edit, Ended, billVars, qbVars, lists
<1>2. ASSUME NEW p \in Payments, RemovePayment(p)
      PROVE  TypeOK'
    <2>1. /\ payments' \in [DOMAIN payments \ {p} -> Amounts]
          /\ DOMAIN payments \ {p} \subseteq Payments
        BY <1>0, <1>2, TableIs DEF RemovePayment
    <2>2. payments' \in PaymentTables
        BY <2>1, TableFrom
    <2> QED BY <1>2, <2>2 DEF TypeOK, RemovePayment, Edit, Ended, billVars, qbVars, lists
<1>3. ASSUME NEW c \in Charges, InvoiceMade(c)
      PROVE  TypeOK'
    <2>1. billed \in Nat /\ billed + 1 \in 0..MaxInvoices
        BY <1>3 DEF TypeOK, InvoiceMade
    <2>2. invoices' \subseteq (1..billed + 1) \X Charges
        BY <1>3, <2>1 DEF TypeOK, InvoiceMade
    <2> QED BY <1>3, <2>1, <2>2 DEF TypeOK, InvoiceMade, Edit, Ended, rwVars, qbVars, lists
<1>4. ASSUME NEW l \in invoices, InvoiceDeleted(l)
      PROVE  TypeOK'
    BY <1>4 DEF TypeOK, InvoiceDeleted, Edit, Ended, rwVars, qbVars, lists
<1>5. ASSUME NEW fld \in ForeignFields, NEW a \in Amounts, BookkeeperReceives(fld, a)
      PROVE  TypeOK'
    <2>1. received' \subseteq Receipt /\ nextId' \in Nat \ {0}
        BY <1>5 DEF TypeOK, BookkeeperReceives, Receipt, Compare!Fields
    <2> QED BY <1>5, <2>1 DEF TypeOK, BookkeeperReceives, Edit, Ended, rwVars, billVars, lists
<1> QED BY <1>1, <1>2, <1>3, <1>4, <1>5 DEF Users

LEMMA TypeStep ==
    ASSUME TypeOK, BilledOnce, ListsFit, EntriesPending, [Next]_vars
    PROVE  TypeOK'
<1>1. CASE Users
    BY <1>1, TypeUsers
<1>2. ASSUME NEW s \in Sessions, Start(s)
      PROVE  TypeOK'
    BY <1>2 DEF TypeOK, Start, Goto, Ended, rwVars, billVars, qbVars, lists
<1>3. ASSUME NEW s \in Sessions, Session(s)
      PROVE  TypeOK'
    BY <1>3, TypeSession
<1>4. ASSUME NEW s \in Sessions, Abort(s)
      PROVE  TypeOK'
    <2>1. Forget(s)
        BY <1>4 DEF Abort
    <2> QED BY <1>4, <2>1, ForgetTypes
            DEF TypeOK, Abort, Goto, Fault, Ended, rwVars, billVars, qbVars, counts
<1>5. CASE UNCHANGED vars
    BY <1>5 DEF TypeOK, vars, rwVars, billVars, qbVars, lists, counts, history
<1> QED BY <1>1, <1>2, <1>3, <1>4, <1>5 DEF Next

\* The users add invoices with new numbers and delete them; nothing else does.
LEMMA InvoicesStep ==
    ASSUME [Next]_vars
    PROVE  \/ invoices' \subseteq invoices /\ UNCHANGED billed
           \/ \E c \in Charges :
                 invoices' = invoices \cup {<<billed + 1, c>>} /\ billed' = billed + 1
    BY DEF Next, Users, EditPayment, RemovePayment, InvoiceMade, InvoiceDeleted,
           BookkeeperReceives, Start, Session, Abort, RetrieveRwPayment, RetrieveNone,
           RetrievePayment, DeletePayment, Reread, PlanPayment, UpdatePayment, InsertPayment,
           Return, vars, billVars

LEMMA BilledOnceStep ==
    ASSUME TypeOK, BilledOnce, [Next]_vars
    PROVE  BilledOnce'
<1>1. billed \in Nat /\ \A l \in invoices : l[1] \in 1..billed
    BY DEF TypeOK
<1>2. CASE invoices' \subseteq invoices
    BY <1>2 DEF BilledOnce
<1>3. ASSUME NEW c \in Charges, invoices' = invoices \cup {<<billed + 1, c>>}
      PROVE  BilledOnce'
    <2>1. \A l \in invoices : l[1] # billed + 1
        BY <1>1
    <2> QED BY <1>3, <2>1 DEF BilledOnce
<1> QED BY <1>2, <1>3, InvoicesStep

LEMMA ListsFitStep ==
    ASSUME TypeOK, BilledOnce, ListsFit, [Next]_vars
    PROVE  ListsFit'
<1>1. ASSUME UNCHANGED <<pc, lists>> PROVE ListsFit'
    BY <1>1 DEF ListsFit, lists
<1>2. CASE Users \/ UNCHANGED vars
    BY <1>1, <1>2 DEF Users, EditPayment, RemovePayment, InvoiceMade, InvoiceDeleted,
                      BookkeeperReceives, Edit, vars
<1>3. ASSUME NEW s \in Sessions, Forget(s), Goto(s, "aborted") \/ Goto(s, "done")
      PROVE  ListsFit'
    BY <1>3 DEF ListsFit, TypeOK, Forget, Goto, Ended
<1>4. ASSUME NEW s \in Sessions, Throw(s)
      PROVE  ListsFit'
    BY <1>3, <1>4 DEF Throw
<1>5. ASSUME NEW s \in Sessions, Start(s) \/ RetrieveRwPayment(s)
      PROVE  ListsFit'
    BY <1>5 DEF ListsFit, TypeOK, Start, RetrieveRwPayment, Goto, Ended, lists
<1>6. ASSUME NEW s \in Sessions, Return(s) \/ Abort(s)
      PROVE  ListsFit'
    BY <1>3, <1>6 DEF Return, Abort
<1>7. ASSUME NEW s \in Sessions, RetrieveNone(s) \/ UpdatePayment(s)
      PROVE  ListsFit'
    BY <1>7, ZenonT(60) DEF ListsFit, TypeOK, RetrieveNone, UpdatePayment, Goto, Ended
<1>8. ASSUME NEW s \in Sessions, RetrievePayment(s)
      PROVE  ListsFit'
    <2>1. Throw(s) \/ (Goto(s, "delete") /\ (\E some : del' = [del EXCEPT ![s] = some])
                       /\ UNCHANGED <<upd, todo, add>> /\ pc[s] = "received")
        BY <1>8 DEF RetrievePayment
    <2>2. CASE Goto(s, "delete") /\ (\E some : del' = [del EXCEPT ![s] = some])
               /\ UNCHANGED <<upd, todo, add>> /\ pc[s] = "received"
        BY <2>2 DEF ListsFit, TypeOK, Goto, Ended
    <2> QED BY <1>4, <2>1, <2>2
<1>9. ASSUME NEW s \in Sessions, DeletePayment(s)
      PROVE  ListsFit'
    BY <1>9 DEF ListsFit, TypeOK, DeletePayment, Ended
<1>10. ASSUME NEW s \in Sessions, Reread(s)
       PROVE  ListsFit'
    <2>1. Throw(s) \/ \E new, amended :
              /\ todo' = [todo EXCEPT ![s] = new] /\ upd' = [upd EXCEPT ![s] = amended]
              /\ Goto(s, "planNew") /\ UNCHANGED <<del, add>> /\ pc[s] = "delete"
        BY <1>10 DEF Reread
    <2>2. ASSUME NEW new, NEW amended,
                 todo' = [todo EXCEPT ![s] = new], upd' = [upd EXCEPT ![s] = amended],
                 Goto(s, "planNew"), UNCHANGED <<del, add>>, pc[s] = "delete"
          PROVE  ListsFit'
        BY <2>2 DEF ListsFit, TypeOK, Goto, Ended
    <2> QED BY <1>4, <2>1, <2>2
<1>11. ASSUME NEW s \in Sessions, PlanPayment(s)
       PROVE  ListsFit'
    <2>1. ASSUME NEW p \in todo[s], NEW cust, NEW refs, NEW parts, Planned(s, p, cust, refs, parts)
          PROVE  ListsFit'
        <3>1. /\ \A t \in Sessions \ {s} : add'[t] = add[t] /\ todo'[t] = todo[t]
              /\ UNCHANGED <<pc, del, upd>>
            BY <2>1 DEF Planned, TypeOK
        <3>2. pc[s] \in {"planAll", "planNew"}
            BY <1>11 DEF PlanPayment
        <3> QED BY <3>1, <3>2 DEF ListsFit, Ended
    <2> QED BY <1>4, <1>11, <2>1, PlanStep
<1>12. ASSUME NEW s \in Sessions, InsertPayment(s)
       PROVE  ListsFit'
    <2>1. CASE UNCHANGED <<pc, due, del, upd, todo>>
               /\ \E q : add' = [add EXCEPT ![s] = q]
        <3>1. \A t \in Sessions \ {s} : add'[t] = add[t]
            BY <2>1 DEF TypeOK
        <3>2. pc[s] = "add"
            BY <1>12 DEF InsertPayment
        <3> QED BY <2>1, <3>1, <3>2 DEF ListsFit, Ended
    <2> QED BY <1>4, <1>12, <2>1, InsertStep
<1> QED BY <1>2, <1>5, <1>6, <1>7, <1>8, <1>9, <1>10, <1>11, <1>12 DEF Next, Session

\* Where the entries of an add list come from.
LEMMA EntriesStep ==
    ASSUME TypeOK, BilledOnce, [Next]_vars, NEW s \in Sessions, NEW i \in DOMAIN add'[s]
    PROVE  \/ \E j \in DOMAIN add[s] : add'[s][i] = add[s][j]
           \/ \E j \in DOMAIN add[s] : /\ add[s][j] \in Entry
                                       /\ add[s][j].done + 1 < Len(add[s][j].refs)
                                       /\ add'[s][i] = [add[s][j] EXCEPT !.done = @ + 1]
           \/ \E p \in todo[s] : \E cust, refs, parts :
                 /\ Planned(s, p, cust, refs, parts)
                 /\ add'[s][i] = EntryOf(s, p, cust, refs, parts)
<1> DEFINE Kept == \E j \in DOMAIN add[s] : add'[s][i] = add[s][j]
<1>0. add[s] \in Seq(Entry)
    BY DEF TypeOK
<1>1. ASSUME NEW t \in Sessions, Forget(t) PROVE Kept
    BY <1>1 DEF Forget, TypeOK
<1>2. ASSUME UNCHANGED add PROVE Kept
    BY <1>2
<1>3. ASSUME NEW t \in Sessions, NEW q, add' = [add EXCEPT ![t] = q], t # s
      PROVE  Kept
    BY <1>3 DEF TypeOK
<1>4. CASE Users \/ UNCHANGED vars
    BY <1>2, <1>4 DEF Users, EditPayment, RemovePayment, InvoiceMade, InvoiceDeleted,
                      BookkeeperReceives, Edit, vars, lists
<1>5. ASSUME NEW t \in Sessions, PlanPayment(t), t # s
      PROVE  Kept
    <2>1. Throw(t) \/ \E q : add' = [add EXCEPT ![t] = q]
        BY <1>5, PlanStep DEF Planned
    <2> QED BY <1>1, <1>3, <1>5, <2>1 DEF Throw
<1>6. ASSUME PlanPayment(s), ~Throw(s)
      PROVE  \/ Kept
             \/ \E p \in todo[s] : \E cust, refs, parts :
                   /\ Planned(s, p, cust, refs, parts)
                   /\ add'[s][i] = EntryOf(s, p, cust, refs, parts)
    <2>0. PICK p \in todo[s] : \E cust, refs, parts : Planned(s, p, cust, refs, parts)
        BY <1>6, PlanStep
    <2>1. PICK cust, refs, parts : Planned(s, p, cust, refs, parts)
        BY <2>0
    <2> DEFINE e == EntryOf(s, p, cust, refs, parts)
    <2>2. e \in Entry /\ add'[s] = Append(add[s], e)
        BY <2>1 DEF Planned, TypeOK
    <2> HIDE DEF e
    <2>3. add'[s][i] = e \/ Kept
        BY <1>0, <2>2, Appended
    <2> QED BY <2>1, <2>3 DEF e
<1>7. ASSUME NEW t \in Sessions, InsertPayment(t), t # s
      PROVE  Kept
    <2>1. Throw(t) \/ \E q : add' = [add EXCEPT ![t] = q]
        BY <1>7, InsertStep
    <2> QED BY <1>1, <1>3, <1>7, <2>1 DEF Throw
<1>8. ASSUME InsertPayment(s), ~Throw(s)
      PROVE  \/ Kept
             \/ \E j \in DOMAIN add[s] : /\ add[s][j] \in Entry
                                         /\ add[s][j].done + 1 < Len(add[s][j].refs)
                                         /\ add'[s][i] = [add[s][j] EXCEPT !.done = @ + 1]
    <2>1. add[s] # <<>> /\ (add'[s] = Advanced(add[s]) \/ add'[s] = <<>>)
        BY <1>8, InsertStep DEF TypeOK
    <2>2. add'[s] = Advanced(add[s])
        BY <2>1
    <2>3. /\ Head(add[s]) \in Entry /\ 1 \in DOMAIN add[s] /\ Head(add[s]) = add[s][1]
          /\ \A k \in DOMAIN Advanced(add[s]) :
                 \/ \E j \in DOMAIN add[s] : Advanced(add[s])[k] = add[s][j]
                 \/ /\ Head(add[s]).done + 1 < Len(Head(add[s]).refs)
                    /\ Advanced(add[s])[k] = [Head(add[s]) EXCEPT !.done = @ + 1]
        BY <1>0, <2>1, AdvancedEntries
    <2> QED BY <2>2, <2>3
<1>9. ASSUME NEW t \in Sessions,
             Throw(t) \/ Start(t) \/ Abort(t) \/ RetrieveRwPayment(t) \/ RetrieveNone(t)
                 \/ RetrievePayment(t) \/ DeletePayment(t) \/ Reread(t) \/ UpdatePayment(t)
                 \/ Return(t)
      PROVE  Kept
    BY <1>1, <1>2, <1>9 DEF Throw, Start, Abort, RetrieveRwPayment, RetrieveNone, RetrievePayment,
                            DeletePayment, Reread, UpdatePayment, Return, lists
<1> QED BY <1>4, <1>5, <1>6, <1>7, <1>8, <1>9 DEF Next, Session

LEMMA EntriesPendingStep ==
    ASSUME TypeOK, BilledOnce, EntriesPending, [Next]_vars
    PROVE  EntriesPending'
<1> SUFFICES ASSUME NEW s \in Sessions, NEW i \in DOMAIN add'[s]
             PROVE  add'[s][i].refs = <<>> \/ add'[s][i].done < Len(add'[s][i].refs)
    BY DEF EntriesPending
<1>1. CASE \E j \in DOMAIN add[s] : add'[s][i] = add[s][j]
    BY <1>1 DEF EntriesPending
<1>2. ASSUME NEW e \in Entry, e.done + 1 < Len(e.refs), add'[s][i] = [e EXCEPT !.done = @ + 1]
      PROVE  add'[s][i].done < Len(add'[s][i].refs)
    BY <1>2 DEF Entry
<1>3. ASSUME NEW p, NEW cust, NEW refs, NEW parts,
             EntryOf(s, p, cust, refs, parts) \in Entry,
             add'[s][i] = EntryOf(s, p, cust, refs, parts)
      PROVE  add'[s][i].refs = <<>> \/ add'[s][i].done < Len(add'[s][i].refs)
    <2>1. add'[s][i].done = 0 /\ add'[s][i].refs = refs
        BY <1>3 DEF EntryOf
    <2>2. refs \in Seq(Nat)
        BY <1>3 DEF EntryOf, Entry
    <2>3. refs # <<>> => Len(refs) \in Nat \ {0}
        BY <2>2, EmptySeq
    <2> QED BY <2>1, <2>3
<1> QED BY <1>1, <1>2, <1>3, EntriesStep DEF Planned

\* The state of the synchronisation, of RenWeb and of QuickBooks, and the lists of
\* every request, keep their types; an insert always has an invoice left to name.
THEOREM PaymentsTypeCorrect == Spec => []TypeOK
<1> DEFINE Inv == TypeOK /\ BilledOnce /\ ListsFit /\ EntriesPending
<1>1. Inv /\ [Next]_vars => Inv'
    BY TypeStep, BilledOnceStep, ListsFitStep, EntriesPendingStep
<1> QED BY TypeInit, <1>1, PTL DEF Spec

-----------------------------------------------------------------------------
(* Payments are applied to invoices of their own charges. *)

\* The invoice i was billed, and bears a charge that p pays for as long as it is there:
\* its number is not given to another invoice.
Own(i, p) ==
    /\ i \in 1..billed
    /\ \A l \in invoices : l[1] = i => l[2] \in AppliesTo[p]

\* What an add list says of a payment stays true while invoices come and go:
\* AppliedToOwnInvoices is not inductive without it.
EntriesOwn ==
    \A s \in Sessions : \A i \in DOMAIN add[s] :
        /\ add[s][i].cust \in {FamilyOf[add[s][i].for], NoFamily}
        /\ \A k \in DOMAIN add[s][i].refs : Own(add[s][i].refs[k], add[s][i].for)

ReceiptsOwn ==
    \A r \in received : r.for # NoPayment =>
        /\ r.cust = FamilyOf[r.for]
        /\ r.applied = NoInvoice \/ Own(r.applied, r.for)

LEMMA OwnStays ==
    ASSUME TypeOK, [Next]_vars, NEW i, NEW p, Own(i, p)
    PROVE  Own(i, p)'
<1>0. billed \in Nat
    BY DEF TypeOK
<1>1. CASE invoices' \subseteq invoices /\ UNCHANGED billed
    BY <1>1 DEF Own
<1>2. ASSUME NEW c \in Charges, invoices' = invoices \cup {<<billed + 1, c>>},
             billed' = billed + 1
      PROVE  Own(i, p)'
    BY <1>0, <1>2 DEF Own
<1> QED BY <1>1, <1>2, InvoicesStep

LEMMA EntriesOwnStep ==
    ASSUME TypeOK, BilledOnce, EntriesOwn, [Next]_vars
    PROVE  EntriesOwn'
<1> SUFFICES ASSUME NEW s \in Sessions, NEW i \in DOMAIN add'[s]
             PROVE  /\ add'[s][i].cust \in {FamilyOf[add'[s][i].for], NoFamily}
                    /\ \A k \in DOMAIN add'[s][i].refs : Own(add[s][i].refs[k], add[s][i].for)'
    BY DEF EntriesOwn
<1>1. ASSUME NEW j \in DOMAIN add[s], NEW e, e = add[s][j], add'[s][i].for = e.for,
             add'[s][i].cust = e.cust, add'[s][i].refs = e.refs
      PROVE  /\ add'[s][i].cust \in {FamilyOf[add'[s][i].for], NoFamily}
             /\ \A k \in DOMAIN add'[s][i].refs : Own(add[s][i].refs[k], add[s][i].for)'
    <2>1. /\ e.cust \in {FamilyOf[e.for], NoFamily}
          /\ \A k \in DOMAIN e.refs : Own(e.refs[k], e.for)
        BY <1>1 DEF EntriesOwn
    <2>2. \A k \in DOMAIN e.refs : Own(e.refs[k], e.for)'
        BY <2>1, OwnStays
    <2>3. ASSUME NEW k \in DOMAIN add'[s][i].refs
          PROVE  Own(add[s][i].refs[k], add[s][i].for)'
        BY <1>1, <2>2 DEF Own
    <2> QED BY <1>1, <2>1, <2>3
<1>2. ASSUME NEW e \in Entry, NEW x, x = [e EXCEPT !.done = @ + 1]
      PROVE  x.for = e.for /\ x.cust = e.cust /\ x.refs = e.refs
    BY <1>2 DEF Entry
<1>3. ASSUME NEW p \in todo[s], NEW cust, NEW refs, NEW parts, Planned(s, p, cust, refs, parts),
             add'[s][i] = EntryOf(s, p, cust, refs, parts)
      PROVE  /\ add'[s][i].cust \in {FamilyOf[add'[s][i].for], NoFamily}
             /\ \A k \in DOMAIN add'[s][i].refs : Own(add[s][i].refs[k], add[s][i].for)'
    <2>1. /\ add'[s][i].for = p /\ add'[s][i].cust = cust /\ add'[s][i].refs = refs
        BY <1>3 DEF EntryOf
    <2>2. cust \in {FamilyOf[p], NoFamily}
        BY <1>3 DEF Planned, Customer
    <2>3. ASSUME NEW k \in DOMAIN refs PROVE Own(refs[k], p)'
        <3>1. PICK l \in invoices : l[1] = refs[k] /\ l[2] \in AppliesTo[p]
            BY <1>3 DEF Planned
        <3>2. refs[k] \in 1..billed
            BY <3>1 DEF TypeOK
        <3>3. Own(refs[k], p)
            BY <3>1, <3>2 DEF Own, BilledOnce
        <3> QED BY <3>3, OwnStays
    <2>4. ASSUME NEW k \in DOMAIN add'[s][i].refs
          PROVE  Own(add[s][i].refs[k], add[s][i].for)'
        BY <2>1, <2>3 DEF Own
    <2> QED BY <2>1, <2>2, <2>4
<1>4. CASE \E j \in DOMAIN add[s] : add'[s][i] = add[s][j]
    BY <1>1, <1>4
<1>5. CASE \E j \in DOMAIN add[s] : /\ add[s][j] \in Entry
                                    /\ add[s][j].done + 1 < Len(add[s][j].refs)
                                    /\ add'[s][i] = [add[s][j] EXCEPT !.done = @ + 1]
    BY <1>1, <1>2, <1>5
<1> QED BY <1>3, <1>4, <1>5, EntriesStep

\* How the payments received change.
LEMMA ReceivedStep ==
    ASSUME TypeOK, [Next]_vars
    PROVE  \/ received' \subseteq received /\ UNCHANGED nextId
           \/ \E s \in Sessions : /\ pc[s] = "add" /\ add[s] # <<>>
                                  /\ Accepted(Head(add[s]), Target(Head(add[s])))
                                  /\ NewReceipt(Head(add[s]), Target(Head(add[s])))
           \/ \E fld \in ForeignFields, a \in Amounts : BookkeeperReceives(fld, a)
<1>1. ASSUME NEW s \in Sessions, InsertPayment(s)
      PROVE  \/ received' \subseteq received /\ UNCHANGED nextId
             \/ /\ pc[s] = "add" /\ add[s] # <<>>
                /\ Accepted(Head(add[s]), Target(Head(add[s])))
                /\ NewReceipt(Head(add[s]), Target(Head(add[s])))
    BY <1>1, InsertStep DEF qbVars
<1>2. ASSUME NEW s \in Sessions, DeletePayment(s)
      PROVE  received' \subseteq received /\ UNCHANGED nextId
    BY <1>2 DEF DeletePayment
<1>3. CASE UNCHANGED <<received, nextId>>
    BY <1>3
<1> QED BY <1>1, <1>2, <1>3
        DEF Next, Users, EditPayment, RemovePayment, InvoiceMade, InvoiceDeleted, Start, Session,
            Abort, RetrieveRwPayment, RetrieveNone, RetrievePayment, Reread, PlanPayment,
            UpdatePayment, Return, vars, qbVars

LEMMA ReceiptsOwnStep ==
    ASSUME TypeOK, BilledOnce, EntriesPending, EntriesOwn, ReceiptsOwn, [Next]_vars
    PROVE  ReceiptsOwn'
<1>1. ASSUME NEW r \in received, r.for # NoPayment
      PROVE  r.cust = FamilyOf[r.for] /\ (r.applied = NoInvoice \/ Own(r.applied, r.for)')
    BY <1>1, OwnStays DEF ReceiptsOwn
<1>2. CASE received' \subseteq received
    BY <1>1, <1>2 DEF ReceiptsOwn, Own
<1>3. ASSUME NEW s \in Sessions, add[s] # <<>>, NEW e, NEW ref,
             e = Head(add[s]), ref = Target(e), Accepted(e, ref), NewReceipt(e, ref)
      PROVE  ReceiptsOwn'
    <2> DEFINE new == [id |-> nextId, for |-> e.for, cust |-> e.cust, field |-> Null,
                       applied |-> ref, amount |-> e.amount]
    <2>1. /\ 1 \in DOMAIN add[s] /\ e = add[s][1]
          /\ ref = NoInvoice \/ \E k \in DOMAIN e.refs : ref = e.refs[k]
        BY <1>3, TargetType
    <2>2. e.cust = FamilyOf[e.for] /\ (ref = NoInvoice \/ Own(ref, e.for))
        BY <1>3, <2>1 DEF EntriesOwn, Accepted
    <2>3. ref = NoInvoice \/ Own(ref, e.for)'
        BY <2>2, OwnStays
    <2>4. received' = received \cup {new}
        BY <1>3 DEF NewReceipt
    <2>5. new.for = e.for /\ new.cust = e.cust /\ new.applied = ref
        OBVIOUS
    <2> HIDE DEF new
    <2> QED BY <1>1, <2>2, <2>3, <2>4, <2>5 DEF ReceiptsOwn, Own
<1>4. ASSUME NEW fld \in ForeignFields, NEW a \in Amounts, BookkeeperReceives(fld, a)
      PROVE  ReceiptsOwn'
    <2> DEFINE new == [id |-> nextId, for |-> NoPayment, cust |-> NoFamily, field |-> fld,
                       applied |-> NoInvoice, amount |-> a]
    <2>1. received' = received \cup {new}
        BY <1>4 DEF BookkeeperReceives
    <2>2. new.for = NoPayment
        OBVIOUS
    <2> HIDE DEF new
    <2> QED BY <1>1, <2>1, <2>2 DEF ReceiptsOwn, Own
<1> QED BY <1>2, <1>3, <1>4, ReceivedStep

\* A payment is on its family's account and applied to an invoice that bears a charge it
\* pays, though invoices come and go between the lookups and the inserts
\* (PaymentSync.java:64, PaymenttoCharge.java:51, InsertPayment.java:46).
THEOREM PaymentsAppliedToOwnInvoices == Spec => []AppliedToOwnInvoices
<1> DEFINE Inv == /\ TypeOK /\ BilledOnce /\ ListsFit /\ EntriesPending
                  /\ EntriesOwn /\ ReceiptsOwn
<1>1. Init => Inv
    BY TypeInit DEF Init, EntriesOwn, ReceiptsOwn
<1>2. Inv /\ [Next]_vars => Inv'
    BY TypeStep, BilledOnceStep, ListsFitStep, EntriesPendingStep, EntriesOwnStep, ReceiptsOwnStep
<1>3. Inv => AppliedToOwnInvoices
    <2> SUFFICES ASSUME Inv, NEW r \in received, r.for # NoPayment
                 PROVE  /\ r.cust = FamilyOf[r.for]
                        /\ \A l \in invoices : l[1] = r.applied => l[2] \in AppliesTo[r.for]
        BY DEF AppliedToOwnInvoices
    <2>1. \A l \in invoices : l[1] # NoInvoice
        BY DEF TypeOK
    <2> QED BY <2>1 DEF ReceiptsOwn, Own
<1> QED BY <1>1, <1>2, <1>3, PTL DEF Spec

-----------------------------------------------------------------------------
(* A quiet request leaves all of RenWeb's payments in QuickBooks or none. *)

\* QuickBooks gives out the id of a payment once.
Ids ==
    /\ \A r \in received : r.id < nextId
    /\ \A q, r \in received : q.id = r.id => q = r

LEMMA IdsStep ==
    ASSUME TypeOK, Ids, [Next]_vars
    PROVE  Ids'
<1>0. nextId \in Nat /\ \A r \in received : r.id \in Nat
    BY DEF TypeOK, Receipt
<1>1. CASE received' \subseteq received /\ UNCHANGED nextId
    BY <1>1 DEF Ids
<1>2. ASSUME NEW new, new.id = nextId, received' = received \cup {new}, nextId' = nextId + 1
      PROVE  Ids'
    BY <1>0, <1>2 DEF Ids
<1>3. ASSUME NEW e, NEW ref, NewReceipt(e, ref)
      PROVE  Ids'
    <2> DEFINE new == [id |-> nextId, for |-> e.for, cust |-> e.cust, field |-> Null,
                       applied |-> ref, amount |-> e.amount]
    <2>1. new.id = nextId /\ received' = received \cup {new} /\ nextId' = nextId + 1
        BY <1>3 DEF NewReceipt
    <2> HIDE DEF new
    <2> QED BY <1>2, <2>1
<1>4. ASSUME NEW fld, NEW a, BookkeeperReceives(fld, a)
      PROVE  Ids'
    <2> DEFINE new == [id |-> nextId, for |-> NoPayment, cust |-> NoFamily, field |-> fld,
                       applied |-> NoInvoice, amount |-> a]
    <2>1. new.id = nextId /\ received' = received \cup {new} /\ nextId' = nextId + 1
        BY <1>4 DEF BookkeeperReceives
    <2> HIDE DEF new
    <2> QED BY <1>2, <2>1
<1> QED BY <1>1, <1>3, <1>4, ReceivedStep

Active(s) == pc[s] \notin Ended

\* A quiet request is the only one, and its table is what RenWeb has; while quiet
\* requests are being counted, what runs is quiet.
QuietAlone ==
    \A s \in Sessions : Active(s) =>
        /\ s \in quiet => Alone(s) /\ (pc[s] # "payments" => due[s] = payments)
        /\ clean >= 1 => s \in quiet

\* Someone typed a payment id into a custom field: no request writes one there.
TypedIn == \E r \in received : r.field \in Payments

AllIn ==
    /\ \A p \in DOMAIN payments : Entered(p)
    /\ \A r \in received : r.for \in DOMAIN payments

Whole == TypedIn \/ received = {} \/ AllIn

\* An entry that QuickBooks accepts, each time it is used.
Sure(e) ==
    /\ e.cust # NoFamily /\ ~e.xml /\ e.for \in DOMAIN payments
    /\ \A k \in DOMAIN e.refs : \E l \in invoices : l[1] = e.refs[k]

\* A payment that is not in QuickBooks is still to be planned or on the add list.
InHand(s) ==
    /\ \A r \in received : r.for \in DOMAIN payments
    /\ \A i \in DOMAIN add[s] : Sure(add[s][i])
    /\ \A p \in DOMAIN payments :
          Entered(p) \/ p \in todo[s] \/ \E i \in DOMAIN add[s] : add[s][i].for = p

\* Where a quiet request is: it deletes whatever bears no id of a payment, and then the
\* comparison finds nothing, or it has found nothing at first and enters everything.
Depositing(s) ==
    /\ pc[s] = "delete" => del[s] = {r \in received : r.field \notin DOMAIN payments}
    /\ pc[s] = "planAll" => InHand(s)
    /\ pc[s] = "planNew" => TypedIn \/ (received = {} /\ todo[s] = {} /\ add[s] = <<>>)
    /\ pc[s] = "add" => TypedIn \/ (received = {} /\ add[s] = <<>>) \/ InHand(s)

Deposits ==
    linked = Families =>
        /\ clean >= 1 /\ (\A s \in Sessions : ~Active(s)) => Whole
        /\ \A s \in quiet : Depositing(s)

QuietInv ==
    TypeOK /\ BilledOnce /\ ListsFit /\ EntriesPending /\ Ids /\ QuietAlone /\ Deposits

\* After a disturbance nothing is claimed.
LEMMA Disturbed ==
    ASSUME clean' = 0, \A t \in quiet' : pc'[t] \in Ended, TypeOK'
    PROVE  QuietAlone' /\ Deposits'
<1>1. QuietAlone'
    BY DEF QuietAlone, Active
<1>2. \A t \in quiet' : Depositing(t)'
    BY DEF Depositing, Ended
<1> QED BY <1>1, <1>2 DEF Deposits

\* A step of a session is counted as undisturbed, or the session is not quiet any more.
LEMMA SessionHistory ==
    ASSUME NEW s \in Sessions, Session(s)
    PROVE  \/ UNCHANGED quiet /\ (UNCHANGED clean \/ Return(s))
           \/ quiet' = quiet \ {s} /\ clean' = 0
<1> DEFINE Counted == \/ UNCHANGED quiet /\ (UNCHANGED clean \/ Return(s))
                      \/ quiet' = quiet \ {s} /\ clean' = 0
<1>1. Undisturbed \/ Fault(s) \/ Throw(s) => Counted
    BY DEF Undisturbed, Fault, Throw
<1>2. CASE RetrieveRwPayment(s) \/ RetrieveNone(s) \/ RetrievePayment(s) \/ DeletePayment(s)
           \/ Reread(s) \/ PlanPayment(s)
    BY <1>1, <1>2 DEF RetrieveRwPayment, RetrieveNone, RetrievePayment, DeletePayment, Reread,
                      PlanPayment
<1>3. CASE InsertPayment(s)
    BY <1>1, <1>3 DEF InsertPayment
<1>4. CASE UpdatePayment(s) \/ Return(s)
    BY <1>4 DEF UpdatePayment, Return, history
<1> QED BY <1>2, <1>3, <1>4 DEF Session

LEMMA SessionFrame ==
    ASSUME TypeOK, NEW s \in Sessions, Session(s)
    PROVE  /\ pc[s] \notin Ended
           /\ \A t \in Sessions \ {s} : pc'[t] = pc[t] /\ due'[t] = due[t]
           /\ UNCHANGED <<payments, linked, invoices>>
    BY DEF TypeOK, Session, RetrieveRwPayment, RetrieveNone, RetrievePayment, DeletePayment, Reread,
           PlanPayment, UpdatePayment, InsertPayment, Return, Throw, Forget, Goto, Ended, rwVars,
           billVars

LEMMA QuietRetrieveRwPayment ==
    ASSUME QuietInv, NEW s \in Sessions, s \in quiet', RetrieveRwPayment(s)
    PROVE  pc'[s] = "received" /\ due'[s] = payments /\ Depositing(s)'
<1>0. TypeOK
    BY DEF QuietInv
<1>1. pc'[s] = "received"
    BY <1>0 DEF RetrieveRwPayment, Goto, TypeOK
<1>2. due'[s] = [p \in DOMAIN payments |-> payments[p]]
    BY <1>0 DEF RetrieveRwPayment, Fault, TypeOK
<1>3. due'[s] = payments
    BY <1>0, <1>2, TableIs DEF TypeOK
<1> QED BY <1>1, <1>3 DEF Depositing

LEMMA QuietRetrieveNone ==
    ASSUME QuietInv, NEW s \in Sessions, s \in quiet', due[s] = payments, RetrieveNone(s)
    PROVE  pc'[s] = "planAll" /\ Depositing(s)'
<1>0. TypeOK /\ ListsFit
    BY DEF QuietInv
<1>1. received = {} /\ UNCHANGED <<received, payments, add>>
    BY DEF RetrieveNone, Fault, qbVars, rwVars
<1>2. pc'[s] = "planAll" /\ todo'[s] = DOMAIN payments /\ add[s] = <<>>
    BY <1>0 DEF RetrieveNone, Goto, TypeOK, ListsFit
<1>3. InHand(s)'
    BY <1>1, <1>2 DEF InHand
<1> QED BY <1>2, <1>3 DEF Depositing

LEMMA QuietRetrievePayment ==
    ASSUME QuietInv, NEW s \in Sessions, s \in quiet', due[s] = payments, RetrievePayment(s)
    PROVE  pc'[s] = "delete" /\ Depositing(s)'
<1>0. TypeOK
    BY DEF QuietInv
<1>1. UNCHANGED <<received, payments>>
    BY DEF RetrievePayment, qbVars, rwVars
<1>2. /\ del' = [del EXCEPT ![s] = {r \in received : r.field \notin DOMAIN due[s]}]
      /\ Goto(s, "delete")
    BY DEF RetrievePayment, Throw, Fault
<1>3. /\ del'[s] = {r \in received : r.field \notin DOMAIN payments}
      /\ pc'[s] = "delete"
    BY <1>0, <1>2 DEF Goto, TypeOK
<1> QED BY <1>1, <1>3 DEF Depositing

\* What is on the list of a quiet request is there, and is deleted.
LEMMA QuietDeletePayment ==
    ASSUME QuietInv, NEW s \in Sessions, Depositing(s), s \in quiet, s \in quiet',
           DeletePayment(s)
    PROVE  pc'[s] = "delete" /\ Depositing(s)'
<1>0. TypeOK /\ Ids
    BY DEF QuietInv
<1>1. pc[s] = "delete" /\ UNCHANGED <<pc, payments>>
    BY DEF DeletePayment, rwVars
<1>2. del[s] = {r \in received : r.field \notin DOMAIN payments}
    BY <1>1 DEF Depositing
<1>3. PICK r \in del[s] :
          \/ /\ received' = {q \in received : q.id # r.id}
             /\ del' = [del EXCEPT ![s] = @ \ {r}]
          \/ received = {q \in received : q.id # r.id}
    BY DEF DeletePayment, Fault
<1>4. r \in received
    BY <1>2
<1>5. received' = received \ {r} /\ del' = [del EXCEPT ![s] = @ \ {r}]
    BY <1>0, <1>3, <1>4 DEF Ids
<1>6. del'[s] = del[s] \ {r}
    BY <1>0, <1>5 DEF TypeOK
<1>7. del'[s] = {q \in received' : q.field \notin DOMAIN payments'}
    BY <1>1, <1>2, <1>5, <1>6
<1> QED BY <1>1, <1>7 DEF Depositing

LEMMA QuietReread ==
    ASSUME QuietInv, NEW s \in Sessions, Depositing(s), s \in quiet', due[s] = payments, Reread(s)
    PROVE  pc'[s] = "planNew" /\ Depositing(s)'
<1>0. TypeOK /\ ListsFit
    BY DEF QuietInv
<1>1. pc[s] = "delete" /\ del[s] = {} /\ UNCHANGED received
    BY DEF Reread, qbVars
<1>2. ~Throw(s) /\ ~Fault(s)
    BY DEF Throw, Fault
<1>3. PICK some \in Readable(received) : \E out \in Compare!Outcomes(due[s], some) :
          /\ ~out.thrown /\ some = received
          /\ todo' = [todo EXCEPT ![s] = out.add]
          /\ Goto(s, "planNew")
          /\ UNCHANGED add
    BY <1>2 DEF Reread
<1>4. PICK out \in Compare!Outcomes(due[s], some) :
          /\ ~out.thrown /\ some = received
          /\ todo' = [todo EXCEPT ![s] = out.add]
          /\ Goto(s, "planNew")
          /\ UNCHANGED add
    BY <1>3
<1>5. pc'[s] = "planNew" /\ todo'[s] = out.add /\ add'[s] = <<>>
    BY <1>0, <1>1, <1>4 DEF Goto, TypeOK, ListsFit
<1>6. received = {} => out.add = {}
    BY <1>4, OutcomeLists
<1>7. received # {} => TypedIn
    <2>1. \A r \in received : r.field \in DOMAIN payments
        BY <1>1 DEF Depositing
    <2>2. DOMAIN payments \subseteq Payments
        BY <1>0, TableIs DEF TypeOK
    <2> QED BY <2>1, <2>2 DEF TypedIn
<1>8. TypedIn' \/ (received' = {} /\ todo'[s] = {} /\ add'[s] = <<>>)
    BY <1>1, <1>5, <1>6, <1>7 DEF TypedIn
<1> QED BY <1>5, <1>8 DEF Depositing

LEMMA QuietPlanPayment ==
    ASSUME QuietInv, NEW s \in Sessions, Depositing(s), s \in quiet', due[s] = payments,
           linked = Families, PlanPayment(s)
    PROVE  pc'[s] \in {"planAll", "planNew"} /\ Depositing(s)'
<1>0. TypeOK /\ BilledOnce
    BY DEF QuietInv
<1>1. /\ pc[s] \in {"planAll", "planNew"}
      /\ UNCHANGED <<received, payments, linked, invoices>>
    BY DEF PlanPayment, qbVars, rwVars, billVars
<1>2. ~Throw(s) /\ ~Fault(s)
    BY DEF Throw, Fault
<1>p. PICK p \in todo[s] : \E cust, refs, parts : Planned(s, p, cust, refs, parts)
    BY <1>0, <1>2, PlanStep
<1>3. PICK cust, refs, parts : Planned(s, p, cust, refs, parts)
    BY <1>p
<1> DEFINE e == EntryOf(s, p, cust, refs, parts)
<1>4. /\ e \in Entry /\ UNCHANGED pc
      /\ add' = [add EXCEPT ![s] = Append(@, e)] /\ todo' = [todo EXCEPT ![s] = @ \ {p}]
      /\ cust = Customer(p)
      /\ \A k \in DOMAIN refs : \E l \in invoices : l[1] = refs[k]
    BY <1>2, <1>3 DEF Planned
<1>5. e.for = p /\ e.cust = cust /\ e.refs = refs /\ (e.xml = (pc[s] = "planNew"))
    BY DEF EntryOf
<1> HIDE DEF e
<1>6. add'[s] = Append(add[s], e) /\ todo'[s] = todo[s] \ {p} /\ add[s] \in Seq(Entry)
    BY <1>0, <1>4 DEF TypeOK
<1>7. CASE pc[s] = "planNew"
    <2>1. TypedIn
        BY <1>7 DEF Depositing
    <2>2. TypedIn'
        BY <1>1, <2>1 DEF TypedIn
    <2> QED BY <1>4, <1>7, <2>2 DEF Depositing
<1>8. CASE pc[s] = "planAll"
    <2>1. InHand(s)
        BY <1>8 DEF Depositing
    <2>2. p \in DOMAIN payments /\ p \in Payments
        BY <1>0 DEF TypeOK
    <2>3. cust # NoFamily
        BY <1>4, <2>2 DEF Customer
    <2>4. ~e.xml
        BY <1>5, <1>8
    <2>5. Sure(e)
        BY <1>4, <1>5, <2>2, <2>3, <2>4 DEF Sure
    <2>6. \A i \in DOMAIN add[s] : Sure(add[s][i])
        BY <2>1 DEF InHand
    <2>7. ASSUME NEW i \in DOMAIN add'[s] PROVE Sure(add[s][i])'
        <3>1. Sure(add'[s][i])
            BY <1>4, <1>6, <2>5, <2>6, Appended
        <3> QED BY <1>1, <3>1 DEF Sure
    <2>8. ASSUME NEW c \in DOMAIN payments
          PROVE  \/ Entered(c) \/ c \in todo'[s] \/ \E i \in DOMAIN add'[s] : add'[s][i].for = c
        <3>1. CASE c = p
            BY <1>4, <1>5, <1>6, <3>1, Appended
        <3>2. CASE \E i \in DOMAIN add[s] : add[s][i].for = c
            BY <1>4, <1>6, <3>2, Appended
        <3> QED BY <1>6, <2>1, <3>1, <3>2 DEF InHand
    <2>9. InHand(s)'
        BY <1>1, <2>1, <2>7, <2>8 DEF InHand, Entered
    <2> QED BY <1>4, <1>8, <2>9 DEF Depositing
<1> QED BY <1>1, <1>4, <1>7, <1>8

LEMMA QuietUpdatePayment ==
    ASSUME QuietInv, NEW s \in Sessions, Depositing(s), UpdatePayment(s)
    PROVE  pc'[s] = "add" /\ Depositing(s)'
<1>1. /\ pc[s] \in {"planAll", "planNew"} /\ todo[s] = {} /\ pc'[s] = "add"
      /\ UNCHANGED <<received, payments, invoices, todo, add>>
    BY DEF UpdatePayment, Goto, QuietInv, TypeOK, qbVars, rwVars, billVars
<1>2. InHand(s) => InHand(s)'
    BY <1>1 DEF InHand, Sure, Entered
<1>3. TypedIn => TypedIn'
    BY <1>1 DEF TypedIn
<1> QED BY <1>1, <1>2, <1>3 DEF Depositing

\* Each insert of a quiet request that has found nothing is accepted.
LEMMA QuietInsertPayment ==
    ASSUME QuietInv, NEW s \in Sessions, Depositing(s), s \in quiet', InsertPayment(s)
    PROVE  pc'[s] = "add" /\ Depositing(s)'
<1>0. TypeOK /\ EntriesPending /\ ListsFit
    BY DEF QuietInv
<1>1. /\ pc[s] = "add" /\ add[s] # <<>> /\ UNCHANGED <<payments, invoices>>
    BY DEF InsertPayment, rwVars, billVars
<1>2. ~Throw(s) /\ ~Fault(s)
    BY DEF Throw, Fault
<1>3. PICK e : e = Head(add[s])
    OBVIOUS
<1>4. /\ UNCHANGED <<pc, todo>>
      /\ \/ /\ NewReceipt(e, Target(e))
            /\ add' = [add EXCEPT ![s] = Advanced(@)]
         \/ Refused(e, Target(e)) /\ UNCHANGED qbVars /\ add' = [add EXCEPT ![s] = <<>>]
    BY <1>2, <1>3 DEF InsertPayment
<1> DEFINE new == [id |-> nextId, for |-> e.for, cust |-> e.cust, field |-> Null,
                   applied |-> Target(e), amount |-> e.amount]
<1>5. new.for = e.for /\ (NewReceipt(e, Target(e)) => received' = received \cup {new})
    BY DEF NewReceipt
<1> HIDE DEF new
<1>6. received \subseteq received'
    BY <1>4, <1>5 DEF qbVars
<1>7. CASE TypedIn
    <2>1. TypedIn'
        BY <1>6, <1>7 DEF TypedIn
    <2> QED BY <1>1, <1>4, <2>1 DEF Depositing
<1>8. CASE InHand(s)
    <2>1. /\ e \in Entry /\ 1 \in DOMAIN add[s] /\ e = add[s][1]
          /\ Target(e) = NoInvoice \/ \E k \in DOMAIN e.refs : Target(e) = e.refs[k]
        BY <1>0, <1>1, <1>3, TargetType
    <2>2. Sure(e)
        BY <1>8, <2>1 DEF InHand
    <2>3. ~Refused(e, Target(e))
        BY <2>1, <2>2 DEF Refused, Accepted, Sure
    <2>4. received' = received \cup {new} /\ add' = [add EXCEPT ![s] = Advanced(@)]
        BY <1>4, <1>5, <2>3
    <2>5. add[s] \in Seq(Entry) /\ add'[s] = Advanced(add[s])
        BY <1>0, <2>4 DEF TypeOK
    <2>6. \A i \in DOMAIN add[s] : Sure(add[s][i])
        BY <1>8 DEF InHand
    <2>7. ASSUME NEW x, x = [e EXCEPT !.done = @ + 1]
          PROVE  Sure(x)
        <3>1. x.for = e.for /\ x.cust = e.cust /\ x.refs = e.refs /\ x.xml = e.xml
            BY <2>1, <2>7 DEF Entry
        <3> QED BY <2>2, <3>1 DEF Sure
    <2>8. ASSUME NEW i \in DOMAIN add'[s] PROVE Sure(add[s][i])'
        <3>0. \A k \in DOMAIN Advanced(add[s]) :
                  \/ \E j \in DOMAIN add[s] : Advanced(add[s])[k] = add[s][j]
                  \/ Advanced(add[s])[k] = [Head(add[s]) EXCEPT !.done = @ + 1]
            BY <1>1, <2>5, AdvancedEntries
        <3>1. \/ \E j \in DOMAIN add[s] : add'[s][i] = add[s][j]
              \/ add'[s][i] = [e EXCEPT !.done = @ + 1]
            BY <1>3, <2>5, <3>0
        <3>2. Sure(add'[s][i])
            BY <2>6, <2>7, <3>1
        <3> QED BY <1>1, <3>2 DEF Sure
    <2>9. \A r \in received' : r.for \in DOMAIN payments
        BY <1>5, <1>8, <2>2, <2>4 DEF InHand, Sure
    <2>10. ASSUME NEW c \in DOMAIN payments
           PROVE  \/ \E r \in received' : r.for = c
                  \/ \E i \in DOMAIN add'[s] : add'[s][i].for = c
        <3>1. CASE e.for = c
            BY <1>5, <2>4, <3>1
        <3>2. CASE Entered(c)
            BY <1>6, <3>2 DEF Entered
        <3>3. ASSUME NEW j \in DOMAIN add[s], j # 1, add[s][j].for = c
              PROVE  \E i \in DOMAIN add'[s] : add'[s][i].for = c
            BY <1>1, <2>5, <3>3, AdvancedEntries
        <3>4. c \notin todo[s]
            BY <1>0, <1>1 DEF ListsFit
        <3> QED BY <1>8, <2>1, <3>1, <3>2, <3>3, <3>4 DEF InHand
    <2>11. InHand(s)'
        BY <1>1, <2>8, <2>9, <2>10 DEF InHand, Entered
    <2> QED BY <1>1, <1>4, <2>11 DEF Depositing
<1> QED BY <1>1, <1>7, <1>8 DEF Depositing

LEMMA QuietReturn ==
    ASSUME QuietInv, NEW s \in Sessions, Depositing(s), Return(s)
    PROVE  pc'[s] = "done" /\ Whole'
<1>1. /\ pc[s] = "add" /\ add[s] = <<>> /\ pc'[s] = "done" /\ UNCHANGED <<received, payments>>
    BY DEF Return, Goto, QuietInv, TypeOK, rwVars, qbVars
<1>2. todo[s] = {}
    BY <1>1 DEF QuietInv, ListsFit
<1>3. Whole
    BY <1>1, <1>2 DEF Depositing, InHand, Whole, AllIn
<1>4. Whole'
    BY <1>1, <1>3 DEF Whole, TypedIn, AllIn, Entered
<1> QED BY <1>1, <1>4

LEMMA QuietStep ==
    ASSUME QuietInv, NEW s \in Sessions, s \in quiet, s \in quiet', Session(s)
    PROVE  \/ /\ pc'[s] \notin Ended /\ (pc'[s] # "payments" => due'[s] = payments)
              /\ linked = Families => Depositing(s)'
           \/ pc'[s] = "done" /\ (linked = Families => Whole')
<1>0. TypeOK
    BY DEF QuietInv
<1>1. pc[s] # "payments" => due[s] = payments
    BY <1>0, SessionFrame DEF QuietInv, QuietAlone, Active
<1>2. linked = Families => Depositing(s)
    BY DEF QuietInv, Deposits
<1>3. CASE RetrieveRwPayment(s)
    BY <1>3, QuietRetrieveRwPayment DEF Ended
<1>4. CASE Return(s)
    <2>1. pc'[s] = "done"
        BY <1>0, <1>4 DEF Return, Goto, TypeOK
    <2> QED BY <1>2, <1>4, <2>1, QuietReturn
<1>5. CASE ~RetrieveRwPayment(s) /\ ~Return(s)
    <2>0. ~Throw(s)
        BY DEF Throw
    <2>1. pc[s] # "payments" /\ pc'[s] \notin Ended \cup {"payments"} /\ due'[s] = due[s]
        <3>1. CASE RetrieveNone(s) \/ RetrievePayment(s) \/ DeletePayment(s) \/ Reread(s)
                   \/ UpdatePayment(s)
            BY <1>0, <2>0, <3>1
               DEF RetrieveNone, RetrievePayment, DeletePayment, Reread, UpdatePayment, Goto,
                   Ended, TypeOK
        <3>2. CASE PlanPayment(s)
            BY <2>0, <3>2 DEF PlanPayment, Ended
        <3>3. CASE InsertPayment(s)
            BY <2>0, <3>3 DEF InsertPayment, Ended
        <3> QED BY <1>5, <3>1, <3>2, <3>3 DEF Session
    <2>2. ASSUME linked = Families PROVE Depositing(s)'
        BY <1>1, <1>2, <1>5, <2>1, <2>2, QuietRetrieveNone, QuietRetrievePayment,
           QuietDeletePayment, QuietReread, QuietPlanPayment, QuietUpdatePayment,
           QuietInsertPayment DEF Session
    <2> QED BY <1>1, <2>1, <2>2
<1> QED BY <1>3, <1>4, <1>5

LEMMA DepositsSession ==
    ASSUME QuietInv, TypeOK', NEW s \in Sessions, Session(s)
    PROVE  QuietAlone' /\ Deposits'
<1>0. TypeOK /\ quiet \subseteq Sessions
    BY DEF QuietInv, TypeOK
<1>1. /\ pc[s] \notin Ended /\ UNCHANGED <<payments, linked>>
      /\ \A t \in Sessions \ {s} : pc'[t] = pc[t] /\ due'[t] = due[t]
    BY <1>0, SessionFrame
<1>2. \A t \in quiet \ {s} : pc[t] \in Ended
    BY <1>0, <1>1 DEF QuietInv, QuietAlone, Active, Alone
<1>3. CASE s \notin quiet'
    <2>1. clean' = 0
        <3>1. CASE UNCHANGED quiet
            <4>1. clean = 0
                BY <1>0, <1>1, <1>3, <3>1 DEF QuietInv, QuietAlone, Active, TypeOK
            <4>2. Return(s) => clean' = 0
                BY <1>3, <3>1 DEF Return
            <4> QED BY <4>1, <4>2, SessionHistory
        <3>2. CASE ~UNCHANGED quiet
            BY <3>2, SessionHistory
        <3> QED BY <3>1, <3>2
    <2>2. quiet' \subseteq quiet \ {s}
        BY <1>3, SessionHistory
    <2>3. \A t \in quiet' : pc'[t] \in Ended
        BY <1>0, <1>1, <1>2, <2>2
    <2> QED BY <2>1, <2>3, Disturbed
<1>4. CASE s \in quiet'
    <2>1. UNCHANGED quiet
        BY <1>4, SessionHistory
    <2>2. s \in quiet /\ \A t \in Sessions \ {s} : pc'[t] \in Ended
        BY <1>1, <1>4, <2>1 DEF QuietInv, QuietAlone, Active, Alone
    <2>3. \/ /\ pc'[s] \notin Ended /\ (pc'[s] # "payments" => due'[s] = payments)
             /\ linked = Families => Depositing(s)'
          \/ pc'[s] = "done" /\ (linked = Families => Whole')
        BY <1>4, <2>2, QuietStep
    <2>4. QuietAlone'
        BY <1>1, <1>4, <2>2, <2>3 DEF QuietAlone, Active, Alone, Ended
    <2>5. \A t \in Sessions : pc'[t] \in Ended => Depositing(t)'
        BY DEF Depositing, Ended
    <2>6. linked = Families => \A t \in quiet' : Depositing(t)'
        BY <1>0, <2>1, <2>2, <2>3, <2>5 DEF Ended
    <2>7. linked = Families /\ (\A t \in Sessions : pc'[t] \in Ended) => Whole'
        BY <2>3
    <2> QED BY <1>1, <2>4, <2>6, <2>7 DEF Deposits, Active
<1> QED BY <1>3, <1>4

LEMMA DepositsStep ==
    ASSUME QuietInv, [Next]_vars
    PROVE  QuietInv'
<1>0. /\ TypeOK /\ BilledOnce /\ ListsFit /\ EntriesPending /\ Ids /\ QuietAlone /\ Deposits
      /\ quiet \subseteq Sessions
    BY DEF QuietInv, TypeOK
<1>1. TypeOK' /\ BilledOnce' /\ ListsFit' /\ EntriesPending' /\ Ids'
    BY <1>0, TypeStep, BilledOnceStep, ListsFitStep, EntriesPendingStep, IdsStep
<1>2. CASE Users
    <2>1. quiet' = {} /\ clean' = 0
        BY <1>2 DEF Users, EditPayment, RemovePayment, InvoiceMade, InvoiceDeleted,
                    BookkeeperReceives, Edit
    <2> QED BY <1>1, <2>1, Disturbed DEF QuietInv
<1>3. ASSUME NEW s \in Sessions, Session(s)
      PROVE  QuietInv'
    BY <1>1, <1>3, DepositsSession DEF QuietInv
<1>4. ASSUME NEW s \in Sessions, Abort(s)
      PROVE  QuietInv'
    <2>1. clean' = 0 /\ quiet' = quiet \ {s} /\ pc[s] \notin Ended
        BY <1>4 DEF Abort, Fault
    <2>2. \A t \in quiet \ {s} : pc[t] \in Ended /\ pc'[t] = pc[t]
        BY <1>0, <1>4, <2>1 DEF QuietAlone, Active, Alone, Abort, Goto, TypeOK
    <2> QED BY <1>1, <2>1, <2>2, Disturbed DEF QuietInv
<1>5. ASSUME NEW s \in Sessions, Start(s)
      PROVE  QuietInv'
    <2>1. /\ pc'[s] = "payments" /\ \A t \in Sessions \ {s} : pc'[t] = pc[t]
          /\ pc[s] \in Ended /\ UNCHANGED <<payments, linked, received, due>>
        BY <1>0, <1>5 DEF Start, Goto, rwVars, qbVars, TypeOK
    <2>2. CASE ~Alone(s)
        <3>1. clean' = 0 /\ quiet' = {}
            BY <1>5, <2>2 DEF Start
        <3> QED BY <1>1, <3>1, Disturbed DEF QuietInv
    <2>3. CASE Alone(s)
        <3>1. UNCHANGED clean /\ quiet' = {s}
            BY <1>5, <2>3 DEF Start
        <3>2. QuietAlone'
            BY <2>1, <2>3, <3>1 DEF QuietAlone, Active, Alone, Ended
        <3>3. Depositing(s)'
            BY <2>1 DEF Depositing
        <3>4. ~(\A t \in Sessions : ~Active(t)')
            BY <2>1 DEF Active, Ended
        <3> QED BY <1>1, <3>1, <3>2, <3>3, <3>4 DEF QuietInv, Deposits
    <2> QED BY <2>2, <2>3
<1>6. CASE UNCHANGED vars
    <2>1. UNCHANGED <<payments, linked, invoices, received, pc, due, del, todo, add, quiet, clean>>
        BY <1>6 DEF vars, rwVars, billVars, qbVars, lists, history
    <2>2. QuietAlone'
        BY <1>0, <2>1 DEF QuietAlone, Active, Alone
    <2>3. (Whole => Whole') /\ (\A s \in Sessions : Active(s)' <=> Active(s))
        BY <2>1 DEF Whole, TypedIn, AllIn, Entered, Active
    <2>4. ASSUME NEW s \in quiet, Depositing(s) PROVE Depositing(s)'
        BY <2>1, <2>4 DEF Depositing, TypedIn, InHand, Sure, Entered
    <2> QED BY <1>0, <1>1, <2>1, <2>2, <2>3, <2>4 DEF QuietInv, Deposits
<1> QED BY <1>2, <1>3, <1>4, <1>5, <1>6 DEF Next

\* When a request that nothing disturbs is over, every family is linked and nobody has
\* typed in an id, QuickBooks has all of RenWeb's payments and no other, or none at all,
\* whatever failures, edits and overlapping requests left behind (PaymentSync.java:51,
\* InsertPayment.java:46).
THEOREM QuietRequestsAllOrNothing == Spec => []AllOrNothing
<1>1. Init => QuietInv
    <2> SUFFICES ASSUME Init PROVE QuietInv
        OBVIOUS
    <2>1. \A s \in Sessions : ~Active(s)
        BY DEF Init, Active, Ended
    <2>2. QuietAlone /\ Deposits /\ Ids
        BY <2>1 DEF Init, QuietAlone, Deposits, Ids
    <2> QED BY <2>2, TypeInit DEF QuietInv
<1>2. QuietInv /\ [Next]_vars => QuietInv'
    BY DepositsStep
<1>3. QuietInv => AllOrNothing
    <2> SUFFICES ASSUME QuietInv, clean >= 1, Regular
                 PROVE  \/ received = {}
                        \/ /\ \A p \in DOMAIN payments : Entered(p)
                           /\ \A r \in received : r.for \in DOMAIN payments
        BY DEF AllOrNothing
    <2>1. linked = Families /\ (\A s \in Sessions : ~Active(s)) /\ ~TypedIn
        BY DEF Regular, Active, TypedIn
    <2> QED BY <2>1 DEF QuietInv, Deposits, Whole, AllIn
<1> QED BY <1>1, <1>2, <1>3, PTL DEF Spec
=============================================================================
