-------------------------- MODULE InvoiceSyncProofs --------------------------
(***************************************************************************)
(* Proofs about InvoiceSync, for any sets of sessions, charges, families,  *)
(* dates and amounts and any number of requests, edits and failures: type  *)
(* correctness, that a line is on its own family's account, that two quiet *)
(* requests settle, and, for one request at a time, that an invoice goes   *)
(* only when a charge on it is gone.                                       *)
(***************************************************************************)
EXTENDS InvoiceSync, FiniteSetTheorems, TLAPS

USE FieldsAssumption, ChargesAssumption

-----------------------------------------------------------------------------
(* Tables of charges, and the comparison. *)

LEMMA TableIs ==
    ASSUME NEW f \in ChargeTables
    PROVE  /\ f \in [DOMAIN f -> Amounts]
           /\ DOMAIN f \subseteq Charges
           /\ \A c \in DOMAIN f : f[c] \in Amounts
<1>1. PICK C \in SUBSET Charges : f \in [C -> Amounts]
    BY DEF ChargeTables
<1> QED BY <1>1

LEMMA TableFrom ==
    ASSUME NEW C \in SUBSET Charges, NEW f \in [C -> Amounts]
    PROVE  f \in ChargeTables
    BY DEF ChargeTables

LEMMA EmptyTable == NoCharge \in ChargeTables
<1>1. NoCharge \in [{} -> Amounts]
    BY DEF NoCharge
<1>2. {} \in SUBSET Charges
    OBVIOUS
<1> QED BY <1>1, <1>2, TableFrom

\* What the comparison puts on its lists, whatever the orders: charges that were
\* read, and lines that were read with the amount of their charge when it is another.
LEMMA OutcomeLists ==
    ASSUME NEW d, NEW L, NEW out \in Outcomes(d, L), ~out.thrown
    PROVE  /\ out.add \subseteq DOMAIN d
           /\ \A u \in out.update :
                 \E l \in L : l.field \in DOMAIN d /\ u = <<l, d[l.field]>>
<1> DEFINE all == DOMAIN d
           dirty == {l \in L : l.field \in {Null, Unreadable}}
           compared == {l \in L : l.field # Zero}
           Of(c) == {l \in L : l.field = c}
           matched == {c \in all : Of(c) # {}}
           Meets == {m \in [matched -> L] : \A c \in matched : m[c] \in Of(c)}
           Update(m) == {<<m[c], d[c]>> : c \in {e \in matched : m[e].amount # d[e]}}
           Add(m, head, first) ==
               IF first \in matched /\ m[first] = head THEN all \ {first} ELSE all
<1>1. CASE out = Lists({}, {})
    BY <1>1 DEF Lists
<1>2. CASE out = Thrown
    BY <1>2 DEF Thrown
<1>3. ASSUME NEW m \in Meets, NEW h, NEW f, out = Lists(Add(m, h, f), Update(m))
      PROVE  /\ out.add \subseteq DOMAIN d
             /\ \A u \in out.update :
                   \E l \in L : l.field \in DOMAIN d /\ u = <<l, d[l.field]>>
    <2>1. out.add = Add(m, h, f) /\ out.update = Update(m)
        BY <1>3 DEF Lists
    <2>2. ASSUME NEW u \in Update(m)
          PROVE  \E l \in L : l.field \in DOMAIN d /\ u = <<l, d[l.field]>>
        <3>1. PICK c \in matched : u = <<m[c], d[c]>>
            BY <2>2
        <3>2. m[c] \in L /\ m[c].field = c /\ c \in DOMAIN d
            OBVIOUS
        <3> QED BY <3>1, <3>2
    <2> QED BY <2>1, <2>2
<1>4. CASE \E p \in Meets \X (compared \ dirty) \X all :
               out = Lists(Add(p[1], p[2], p[3]), Update(p[1]))
    <2>1. PICK p \in Meets \X (compared \ dirty) \X all :
              out = Lists(Add(p[1], p[2], p[3]), Update(p[1]))
        BY <1>4
    <2>2. p[1] \in Meets
        OBVIOUS
    <2> HIDE DEF Meets, Add, Update
    <2> QED BY <1>3, <2>1, <2>2
<1>5. \/ out = Lists({}, {}) \/ out = Thrown
      \/ \E p \in Meets \X (compared \ dirty) \X all :
             out = Lists(Add(p[1], p[2], p[3]), Update(p[1]))
    BY DEF Outcomes
<1> QED BY <1>1, <1>2, <1>4, <1>5

-----------------------------------------------------------------------------
(* The ids of lines and invoices. *)

\* QuickBooks gives out a line id once, and what is there has an id it gave out.
Ids ==
    /\ \A l \in lines : l.id < nextId /\ l.inv < nextId
    /\ \A k, l \in lines : k.id = l.id => k = l

LEMMA LinesFinite == TypeOK /\ Ids => IsFiniteSet(lines)
<1> SUFFICES ASSUME TypeOK, Ids PROVE IsFiniteSet(lines)
    OBVIOUS
<1> DEFINE f == [l \in lines |-> l.id]
<1>1. nextId \in Nat /\ \A l \in lines : l.id \in Nat
    BY DEF TypeOK, Line
<1>2. f \in [lines -> 0..nextId]
    BY <1>1 DEF Ids
<1>3. \A k, l \in lines : f[k] = f[l] => k = l
    BY DEF Ids
<1>4. f \in Injection(lines, 0..nextId)
    BY <1>2, <1>3 DEF Injection, IsInjective
<1>5. IsFiniteSet(0..nextId)
    BY <1>1, FS_Interval
<1> QED BY <1>4, <1>5, FS_Injection

\* The discount lines of a step get ids of their own, all of them new.
LEMMA DiscountIds ==
    ASSUME TypeOK, Ids, NEW e, NEW hit \in SUBSET lines
    PROVE  /\ IsFiniteSet(hit) /\ Cardinality(hit) \in Nat
           /\ \A l \in hit : /\ DiscountLine(e, l, hit).id \in Nat
                             /\ DiscountLine(e, l, hit).id >= nextId
                             /\ DiscountLine(e, l, hit).id < nextId + Cardinality(hit)
           /\ \A k, l \in hit :
                 DiscountLine(e, k, hit).id = DiscountLine(e, l, hit).id => k = l
<1> DEFINE below(l) == {k \in hit : k.id < l.id}
<1>1. nextId \in Nat /\ \A l \in hit : l.id \in Nat
    BY DEF TypeOK, Line
<1>2. IsFiniteSet(hit)
    BY LinesFinite, FS_Subset
<1>3. Cardinality(hit) \in Nat
    BY <1>2, FS_CardinalityType
<1>4. ASSUME NEW l \in hit
      PROVE  /\ IsFiniteSet(below(l)) /\ Cardinality(below(l)) \in Nat
             /\ Cardinality(below(l)) < Cardinality(hit)
    <2>1. below(l) \in SUBSET hit /\ below(l) # hit
        BY <1>1, <1>4
    <2>2. IsFiniteSet(below(l)) /\ Cardinality(below(l)) <= Cardinality(hit)
          /\ Cardinality(below(l)) # Cardinality(hit)
        BY <1>2, <2>1, FS_Subset
    <2>3. Cardinality(below(l)) \in Nat
        BY <2>2, FS_CardinalityType
    <2> QED BY <1>3, <2>2, <2>3
<1>5. ASSUME NEW k \in hit, NEW l \in hit, k.id < l.id
      PROVE  Cardinality(below(k)) < Cardinality(below(l))
    <2>1. below(k) \in SUBSET below(l) /\ below(k) # below(l)
        BY <1>1, <1>5
    <2>2. Cardinality(below(k)) <= Cardinality(below(l))
          /\ Cardinality(below(k)) # Cardinality(below(l))
        BY <1>4, <2>1, FS_Subset
    <2> HIDE DEF below
    <2> QED BY <1>4, <2>2
<1>6. \A l \in hit : DiscountLine(e, l, hit).id = nextId + Cardinality(below(l))
    BY DEF DiscountLine
<1>7. ASSUME NEW k \in hit, NEW l \in hit,
             DiscountLine(e, k, hit).id = DiscountLine(e, l, hit).id
      PROVE  k = l
    <2> HIDE DEF below
    <2>1. Cardinality(below(k)) = Cardinality(below(l))
        BY <1>1, <1>4, <1>6, <1>7
    <2>2. ~(k.id < l.id) /\ ~(l.id < k.id)
        BY <1>4, <1>5, <2>1
    <2> QED BY <1>1, <2>2 DEF Ids
<1> HIDE DEF below
<1> QED BY <1>1, <1>2, <1>3, <1>4, <1>6, <1>7

\* What an update leaves alone.
LEMMA AmendedLine ==
    ASSUME NEW u, NEW k \in Amended(u), TypeOK
    PROVE  \E l \in lines :
               /\ k.id = l.id /\ k.inv = l.inv /\ k.cust = l.cust
               /\ k.date = l.date /\ k.field = l.field
               /\ k.amount = IF l.id = u[1].id THEN u[2] ELSE l.amount
               /\ l.id # u[1].id => k = l
<1>1. PICK l \in lines : k = IF l.id = u[1].id THEN [l EXCEPT !.amount = u[2]] ELSE l
    BY DEF Amended
<1>2. l \in Line
    BY DEF TypeOK
<1> QED BY <1>1, <1>2 DEF Line

-----------------------------------------------------------------------------
(* Type correctness. *)

LEMMA TypeInit == Init => TypeOK /\ Ids
<1> SUFFICES ASSUME Init PROVE TypeOK /\ Ids
    OBVIOUS
<1>1. due \in [Sessions -> ChargeTables]
    BY EmptyTable DEF Init
<1> QED BY <1>1 DEF Init, TypeOK, Ids, Ended

\* A request that ends forgets its lists.
LEMMA ForgetTypes ==
    ASSUME TypeOK, NEW s \in Sessions, Forget(s)
    PROVE  /\ due' \in [Sessions -> ChargeTables]
           /\ del' \in [Sessions -> SUBSET Line]
           /\ upd' \in [Sessions -> SUBSET (Line \X Amounts)]
           /\ add' \in [Sessions -> SUBSET Entry]
           /\ disc' \in [Sessions -> SUBSET Entry]
    BY EmptyTable DEF TypeOK, Forget

LEMMA EntryType ==
    ASSUME TypeOK, NEW s \in Sessions, NEW c \in DOMAIN due[s], NEW lost
    PROVE  EntryFor(s, c, lost) \in Entry
<1>1. due[s] \in ChargeTables
    BY DEF TypeOK
<1>2. c \in Charges /\ due[s][c] \in Amounts
    BY <1>1, TableIs
<1>3. Abs(due[s][c]) \in AmountsOf
    BY <1>2 DEF Abs, AmountsOf
<1>4. FamilyOf[c] \in Families
    BY <1>2
<1> QED BY <1>2, <1>3, <1>4 DEF EntryFor, Entry

LEMMA PlanTypes ==
    ASSUME TypeOK, NEW s \in Sessions, NEW toAdd \in SUBSET (DOMAIN due[s]), NEW readAll,
           Plan(s, toAdd, readAll)
    PROVE  /\ add' \in [Sessions -> SUBSET Entry]
           /\ disc' \in [Sessions -> SUBSET Entry]
           /\ faults' \in 0..MaxFaults /\ quiet' \subseteq Sessions /\ clean' \in 0..2
<1>1. PICK lost \in SUBSET toAdd :
        /\ IF readAll /\ lost = {} THEN Undisturbed ELSE Fault(s)
        /\ add' = [add EXCEPT ![s] =
               {EntryFor(s, c, lost) : c \in {d \in toAdd : due[s][d] >= 0}}]
        /\ disc' = [disc EXCEPT ![s] =
               {EntryFor(s, c, lost) : c \in {d \in toAdd : due[s][d] < 0}}]
    BY DEF Plan
<1>2. \A c \in toAdd : EntryFor(s, c, lost) \in Entry
    BY EntryType
<1>3. faults' \in 0..MaxFaults /\ quiet' \subseteq Sessions /\ clean' \in 0..2
    BY <1>1 DEF TypeOK, Undisturbed, Fault
<1> QED BY <1>1, <1>2, <1>3 DEF TypeOK

LEMMA TypeRetrieveCharge ==
    ASSUME TypeOK, NEW s \in Sessions, RetrieveCharge(s)
    PROVE  TypeOK'
<1>1. PICK some \in Readable(DOMAIN charges) :
          /\ IF some = DOMAIN charges THEN Undisturbed ELSE Fault(s)
          /\ due' = [due EXCEPT ![s] = [c \in some |-> charges[c]]]
    BY DEF RetrieveCharge
<1>2. some \subseteq DOMAIN charges
    BY DEF Readable
<1>3. [c \in some |-> charges[c]] \in [some -> Amounts] /\ some \subseteq Charges
    BY <1>2, TableIs DEF TypeOK
<1>4. [c \in some |-> charges[c]] \in ChargeTables
    BY <1>3, TableFrom
<1>5. due' \in [Sessions -> ChargeTables]
    BY <1>1, <1>4 DEF TypeOK
<1>6. faults' \in 0..MaxFaults /\ quiet' \subseteq Sessions /\ clean' \in 0..2
    BY <1>1 DEF TypeOK, Undisturbed, Fault
<1> QED BY <1>5, <1>6
        DEF TypeOK, RetrieveCharge, Goto, Ended, rwVars, qbVars, lists, counts

LEMMA TypeRetrieveNoLine ==
    ASSUME TypeOK, NEW s \in Sessions, RetrieveNoLine(s)
    PROVE  TypeOK'
    BY PlanTypes DEF TypeOK, RetrieveNoLine, Goto, Ended, rwVars, qbVars, counts

LEMMA ThrowTypes ==
    ASSUME TypeOK, NEW s \in Sessions, Throw(s), UNCHANGED <<rwVars, qbVars, counts>>
    PROVE  TypeOK'
<1>1. Forget(s)
    BY DEF Throw
<1> QED BY <1>1, ForgetTypes
        DEF TypeOK, Throw, Refused, Goto, Ended, rwVars, qbVars, counts

LEMMA TypeRetrieveInvoice ==
    ASSUME TypeOK, NEW s \in Sessions, RetrieveInvoice(s)
    PROVE  TypeOK'
<1>1. PICK some \in Readable(lines) \ {{}} :
          IF \E l \in some : l.field = Unreadable
          THEN Throw(s)
          ELSE /\ IF some = lines THEN Undisturbed ELSE Fault(s)
               /\ del' = [del EXCEPT ![s] = {l \in some : Stale(s, l)}]
               /\ Goto(s, "delete")
               /\ UNCHANGED <<due, upd, add, disc>>
    BY DEF RetrieveInvoice
<1>2. some \subseteq lines
    BY DEF Readable
<1>3. CASE Throw(s)
    BY <1>3, ThrowTypes DEF RetrieveInvoice
<1>4. CASE /\ IF some = lines THEN Undisturbed ELSE Fault(s)
           /\ del' = [del EXCEPT ![s] = {l \in some : Stale(s, l)}]
           /\ Goto(s, "delete")
           /\ UNCHANGED <<due, upd, add, disc>>
    <2>1. del' \in [Sessions -> SUBSET Line]
        BY <1>2, <1>4 DEF TypeOK
    <2>2. faults' \in 0..MaxFaults /\ quiet' \subseteq Sessions /\ clean' \in 0..2
        BY <1>4 DEF TypeOK, Undisturbed, Fault
    <2> QED BY <1>4, <2>1, <2>2
            DEF TypeOK, RetrieveInvoice, Goto, Ended, rwVars, qbVars, counts
<1> QED BY <1>1, <1>3, <1>4

LEMMA TypeDeleteInvoice ==
    ASSUME TypeOK, NEW s \in Sessions, DeleteInvoice(s)
    PROVE  TypeOK'
<1>1. lines' \subseteq lines
    BY DEF DeleteInvoice
<1>2. del' \in [Sessions -> SUBSET Line]
    BY DEF DeleteInvoice, TypeOK
<1>3. faults' \in 0..MaxFaults /\ quiet' \subseteq Sessions /\ clean' \in 0..2
    BY DEF DeleteInvoice, TypeOK, Undisturbed, Refused, Fault
<1> QED BY <1>1, <1>2, <1>3 DEF TypeOK, DeleteInvoice, rwVars, counts

LEMMA TypeReread ==
    ASSUME TypeOK, NEW s \in Sessions, Reread(s)
    PROVE  TypeOK'
<1>0. PICK some \in Readable(lines) : \E out \in Outcomes(due[s], some) :
          IF out.thrown
          THEN Throw(s)
          ELSE /\ Plan(s, out.add, some = lines)
               /\ upd' = [upd EXCEPT ![s] = out.update]
               /\ Goto(s, "update")
               /\ UNCHANGED <<due, del>>
    BY DEF Reread
<1>1. PICK out \in Outcomes(due[s], some) :
          IF out.thrown
          THEN Throw(s)
          ELSE /\ Plan(s, out.add, some = lines)
               /\ upd' = [upd EXCEPT ![s] = out.update]
               /\ Goto(s, "update")
               /\ UNCHANGED <<due, del>>
    BY <1>0
<1>2. some \subseteq lines
    BY DEF Readable
<1>3. CASE out.thrown
    BY <1>1, <1>3, ThrowTypes DEF Reread
<1>4. CASE ~out.thrown
    <2>1. out.add \subseteq DOMAIN due[s]
        BY <1>4, OutcomeLists
    <2>2. due[s] \in ChargeTables
        BY DEF TypeOK
    <2>3. out.update \subseteq Line \X Amounts
        <3>1. SUFFICES ASSUME NEW u \in out.update PROVE u \in Line \X Amounts
            OBVIOUS
        <3>2. PICK l \in some : l.field \in DOMAIN due[s] /\ u = <<l, due[s][l.field]>>
            BY <1>4, OutcomeLists
        <3> QED BY <1>2, <2>2, <3>2, TableIs DEF TypeOK
    <2>4. upd' \in [Sessions -> SUBSET (Line \X Amounts)]
        BY <1>1, <1>4, <2>3 DEF TypeOK
    <2>5. /\ add' \in [Sessions -> SUBSET Entry]
          /\ disc' \in [Sessions -> SUBSET Entry]
          /\ faults' \in 0..MaxFaults /\ quiet' \subseteq Sessions /\ clean' \in 0..2
        BY <1>1, <1>4, <2>1, PlanTypes
    <2> QED BY <1>1, <1>4, <2>4, <2>5
            DEF TypeOK, Reread, Goto, Ended, rwVars, qbVars, counts
<1> QED BY <1>3, <1>4

LEMMA TypeUpdateInvoice ==
    ASSUME TypeOK, NEW s \in Sessions, UpdateInvoice(s)
    PROVE  TypeOK'
<1>1. PICK u \in upd[s] :
          /\ lines' \in {lines, Amended(u)}
          /\ upd' = [upd EXCEPT ![s] = @ \ {u}] \/ upd' = [upd EXCEPT ![s] = {}]
    BY DEF UpdateInvoice
<1>2. u[2] \in AmountsOf
    BY DEF TypeOK, AmountsOf
<1>3. Amended(u) \subseteq Line
    <2>1. SUFFICES ASSUME NEW k \in Amended(u) PROVE k \in Line
        OBVIOUS
    <2>2. PICK l \in lines : k = IF l.id = u[1].id THEN [l EXCEPT !.amount = u[2]] ELSE l
        BY DEF Amended
    <2> QED BY <1>2, <2>2 DEF TypeOK, Line
<1>4. lines' \subseteq Line
    BY <1>1, <1>3 DEF TypeOK
<1>5. upd' \in [Sessions -> SUBSET (Line \X Amounts)]
    BY <1>1 DEF TypeOK
<1>6. faults' \in 0..MaxFaults /\ quiet' \subseteq Sessions /\ clean' \in 0..2
    BY DEF UpdateInvoice, TypeOK, Undisturbed, Refused, Fault
<1> QED BY <1>4, <1>5, <1>6 DEF TypeOK, UpdateInvoice, rwVars, counts

LEMMA TypeInsertInvoice ==
    ASSUME TypeOK, NEW s \in Sessions, InsertInvoice(s)
    PROVE  TypeOK'
<1>1. PICK e \in add[s] :
          /\ UNCHANGED qbVars \/ NewInvoice(e)
          /\ add' = [add EXCEPT ![s] = @ \ {e}] \/ add' = [add EXCEPT ![s] = {}]
    BY DEF InsertInvoice
<1>2. e \in Entry
    BY DEF TypeOK
<1>3. lines' \subseteq Line /\ nextId' \in Nat \ {0}
    <2>1. CASE UNCHANGED qbVars
        BY <2>1 DEF TypeOK, qbVars
    <2>2. CASE NewInvoice(e)
        BY <1>2, <2>2 DEF TypeOK, NewInvoice, Line, Entry, Fields
    <2> QED BY <1>1, <2>1, <2>2
<1>4. add' \in [Sessions -> SUBSET Entry]
    BY <1>1 DEF TypeOK
<1>5. faults' \in 0..MaxFaults /\ quiet' \subseteq Sessions /\ clean' \in 0..2
    BY DEF InsertInvoice, TypeOK, Undisturbed, Refused, Fault
<1> QED BY <1>3, <1>4, <1>5 DEF TypeOK, InsertInvoice, rwVars, counts

LEMMA TypeAddDiscount ==
    ASSUME TypeOK, Ids, NEW s \in Sessions, AddDiscount(s)
    PROVE  TypeOK'
<1>0. PICK e \in disc[s] :
          \E hit \in Readable(Discounted(e)) \cup {{l} : l \in Discounted(e)} :
              /\ lines' = lines \cup {DiscountLine(e, l, hit) : l \in hit}
              /\ nextId' = nextId + Cardinality(hit)
              /\ disc' = [disc EXCEPT ![s] = @ \ {e}] \/ disc' = [disc EXCEPT ![s] = {}]
    BY DEF AddDiscount
<1>1. PICK hit \in Readable(Discounted(e)) \cup {{l} : l \in Discounted(e)} :
          /\ lines' = lines \cup {DiscountLine(e, l, hit) : l \in hit}
          /\ nextId' = nextId + Cardinality(hit)
          /\ disc' = [disc EXCEPT ![s] = @ \ {e}] \/ disc' = [disc EXCEPT ![s] = {}]
    BY <1>0
<1>2. e \in Entry
    BY DEF TypeOK
<1>3. hit \in SUBSET lines
    BY DEF Readable, Discounted
<1>4. /\ Cardinality(hit) \in Nat
      /\ \A l \in hit : DiscountLine(e, l, hit).id \in Nat
    BY <1>3, DiscountIds
<1>5. \A l \in hit : DiscountLine(e, l, hit) \in Line
    BY <1>2, <1>3, <1>4 DEF TypeOK, DiscountLine, Line, Entry, Fields
<1>6. lines' \subseteq Line /\ nextId' \in Nat \ {0}
    BY <1>1, <1>4, <1>5 DEF TypeOK
<1>7. disc' \in [Sessions -> SUBSET Entry]
    BY <1>1 DEF TypeOK
<1>8. faults' \in 0..MaxFaults /\ quiet' \subseteq Sessions /\ clean' \in 0..2
    BY DEF AddDiscount, TypeOK, Undisturbed, Fault
<1> QED BY <1>6, <1>7, <1>8 DEF TypeOK, AddDiscount, rwVars, counts

LEMMA TypeSession ==
    ASSUME TypeOK, Ids, NEW s \in Sessions, Session(s)
    PROVE  TypeOK'
<1>1. CASE UpdateDone(s) \/ InsertDone(s)
    BY <1>1 DEF TypeOK, UpdateDone, InsertDone, Goto, Ended, rwVars, qbVars, lists, counts,
                history
<1>2. CASE Return(s)
    <2>1. Forget(s)
        BY <1>2 DEF Return
    <2>2. clean' \in 0..2
        BY <1>2 DEF Return, Capped, TypeOK
    <2> QED BY <1>2, <2>1, <2>2, ForgetTypes
            DEF TypeOK, Return, Goto, Ended, rwVars, qbVars, counts
<1> QED BY <1>1, <1>2, TypeRetrieveCharge, TypeRetrieveNoLine, TypeRetrieveInvoice,
           TypeDeleteInvoice, TypeReread, TypeUpdateInvoice, TypeInsertInvoice,
           TypeAddDiscount DEF Session

LEMMA TypeUsers ==
    ASSUME TypeOK, Users
    PROVE  TypeOK'
<1>1. ASSUME NEW c \in Charges, NEW a \in Amounts, EditCharge(c, a)
      PROVE  TypeOK'
    <2>1. charges \in ChargeTables
        BY DEF TypeOK
    <2>2. /\ charges' \in [DOMAIN charges \cup {c} -> Amounts]
          /\ DOMAIN charges \cup {c} \subseteq Charges
        BY <1>1, <2>1, TableIs DEF EditCharge
    <2>3. charges' \in ChargeTables
        BY <2>2, TableFrom
    <2>4. DOMAIN charges' \cap retired' = {}
        BY <1>1 DEF EditCharge, TypeOK
    <2> QED BY <1>1, <2>3, <2>4 DEF TypeOK, EditCharge, Edit, Ended, qbVars, lists
<1>2. ASSUME NEW c \in Charges, RemoveCharge(c)
      PROVE  TypeOK'
    <2>1. charges \in ChargeTables
        BY DEF TypeOK
    <2>2. /\ charges' \in [DOMAIN charges \ {c} -> Amounts]
          /\ DOMAIN charges \ {c} \subseteq Charges
        BY <1>2, <2>1, TableIs DEF RemoveCharge
    <2>3. charges' \in ChargeTables
        BY <2>2, TableFrom
    <2>4. DOMAIN charges' \cap retired' = {}
        BY <1>2 DEF RemoveCharge, TypeOK
    <2> QED BY <1>2, <2>3, <2>4 DEF TypeOK, RemoveCharge, Edit, Ended, qbVars, lists
<1>3. ASSUME NEW f \in Families, LinkFamily(f)
      PROVE  TypeOK'
    BY <1>3 DEF TypeOK, LinkFamily, Edit, Ended, qbVars, lists
<1>4. ASSUME NEW d \in Dates, NEW fld \in ForeignFields, NEW a \in Amounts,
             BookkeeperInvoices(d, fld, a)
      PROVE  TypeOK'
    <2>1. lines' \subseteq Line /\ nextId' \in Nat \ {0}
        BY <1>4 DEF TypeOK, BookkeeperInvoices, Line, Fields, AmountsOf
    <2> QED BY <1>4, <2>1 DEF TypeOK, BookkeeperInvoices, Edit, Ended, rwVars, lists
<1> QED BY <1>1, <1>2, <1>3, <1>4 DEF Users

LEMMA TypeStep ==
    ASSUME TypeOK, Ids, [Next]_vars
    PROVE  TypeOK'
<1>1. CASE Users
    BY <1>1, TypeUsers
<1>2. ASSUME NEW s \in Sessions, Start(s)
      PROVE  TypeOK'
    BY <1>2 DEF TypeOK, Start, Goto, Ended, rwVars, qbVars, lists
<1>3. ASSUME NEW s \in Sessions, Session(s)
      PROVE  TypeOK'
    BY <1>3, TypeSession
<1>4. ASSUME NEW s \in Sessions, Abort(s)
      PROVE  TypeOK'
    <2>1. Forget(s)
        BY <1>4 DEF Abort
    <2> QED BY <1>4, <2>1, ForgetTypes
            DEF TypeOK, Abort, Goto, Fault, Ended, rwVars, qbVars, counts
<1>5. CASE UNCHANGED vars
    BY <1>5 DEF TypeOK, vars, rwVars, qbVars, lists, counts, history
<1> QED BY <1>1, <1>2, <1>3, <1>4, <1>5 DEF Next

\* The lines a step leaves or makes: those there were, amended ones, and new ones.
LEMMA IdsStep ==
    ASSUME TypeOK, Ids, [Next]_vars
    PROVE  Ids'
<1>0. nextId \in Nat /\ \A l \in lines : l.id \in Nat /\ l.inv \in Nat
    BY DEF TypeOK, Line
<1>1. ASSUME lines' \subseteq lines, UNCHANGED nextId
      PROVE  Ids'
    BY <1>1 DEF Ids
<1>2. ASSUME NEW s \in Sessions, UpdateInvoice(s)
      PROVE  Ids'
    <2>1. PICK u \in upd[s] : lines' \in {lines, Amended(u)}
        BY <1>2 DEF UpdateInvoice
    <2>2. CASE lines' = Amended(u)
        <3>1. \A k \in lines' : \E l \in lines :
                  k.id = l.id /\ k.inv = l.inv /\ (l.id # u[1].id => k = l)
            BY <2>2, AmendedLine
        <3>2. \A l \in lines' : l.id < nextId /\ l.inv < nextId
            BY <3>1 DEF Ids
        <3>3. ASSUME NEW k \in lines', NEW l \in lines', k.id = l.id
              PROVE  k = l
            <4>1. PICK i \in lines :
                      k = IF i.id = u[1].id THEN [i EXCEPT !.amount = u[2]] ELSE i
                BY <2>2 DEF Amended
            <4>2. PICK j \in lines :
                      l = IF j.id = u[1].id THEN [j EXCEPT !.amount = u[2]] ELSE j
                BY <2>2 DEF Amended
            <4>3. i \in Line /\ j \in Line
                BY DEF TypeOK
            <4>4. k.id = i.id /\ l.id = j.id
                BY <4>1, <4>2, <4>3 DEF Line
            <4> QED BY <3>3, <4>1, <4>2, <4>4 DEF Ids
        <3> QED BY <1>2, <3>2, <3>3 DEF Ids, UpdateInvoice
    <2> QED BY <1>1, <1>2, <2>1, <2>2 DEF UpdateInvoice
<1>3. ASSUME NEW row, row.id = nextId, row.inv = nextId,
             lines' = lines \cup {row}, nextId' = nextId + 1
      PROVE  Ids'
    BY <1>0, <1>3 DEF Ids
<1>4. ASSUME NEW s \in Sessions, InsertInvoice(s)
      PROVE  Ids'
    <2>1. PICK e \in add[s] : UNCHANGED qbVars \/ NewInvoice(e)
        BY <1>4 DEF InsertInvoice
    <2>2. CASE UNCHANGED qbVars
        BY <1>1, <2>2 DEF qbVars
    <2>3. CASE NewInvoice(e)
        <3> DEFINE row == [id |-> nextId, inv |-> nextId, cust |-> e.cust,
                           date |-> DateOf[e.field], field |-> e.field, amount |-> e.amount]
        <3>1. row.id = nextId /\ row.inv = nextId
            OBVIOUS
        <3>2. lines' = lines \cup {row} /\ nextId' = nextId + 1
            BY <2>3 DEF NewInvoice
        <3> HIDE DEF row
        <3> QED BY <1>3, <3>1, <3>2
    <2> QED BY <2>1, <2>2, <2>3
<1>5. ASSUME NEW s \in Sessions, AddDiscount(s)
      PROVE  Ids'
    <2>1. PICK e \in disc[s] :
              \E hit \in Readable(Discounted(e)) \cup {{l} : l \in Discounted(e)} :
                  /\ lines' = lines \cup {DiscountLine(e, l, hit) : l \in hit}
                  /\ nextId' = nextId + Cardinality(hit)
        BY <1>5 DEF AddDiscount
    <2>2. PICK hit \in Readable(Discounted(e)) \cup {{l} : l \in Discounted(e)} :
              /\ lines' = lines \cup {DiscountLine(e, l, hit) : l \in hit}
              /\ nextId' = nextId + Cardinality(hit)
        BY <2>1
    <2>3. hit \in SUBSET lines
        BY DEF Readable, Discounted
    <2>4. \A l \in hit : DiscountLine(e, l, hit).inv = l.inv
        BY DEF DiscountLine
    <2>5. /\ Cardinality(hit) \in Nat
          /\ \A l \in hit : /\ DiscountLine(e, l, hit).id \in Nat
                            /\ DiscountLine(e, l, hit).id >= nextId
                            /\ DiscountLine(e, l, hit).id < nextId + Cardinality(hit)
          /\ \A k, l \in hit :
                DiscountLine(e, k, hit).id = DiscountLine(e, l, hit).id => k = l
        BY <2>3, DiscountIds
    <2>6. \A l \in lines' : l.id < nextId' /\ l.inv < nextId'
        BY <1>0, <2>2, <2>3, <2>4, <2>5 DEF Ids
    <2>7. \A k, l \in lines' : k.id = l.id => k = l
        BY <1>0, <2>2, <2>3, <2>5 DEF Ids
    <2> QED BY <2>6, <2>7 DEF Ids
<1>6. ASSUME NEW d \in Dates, NEW fld \in ForeignFields, NEW a \in Amounts,
             BookkeeperInvoices(d, fld, a)
      PROVE  Ids'
    <2> DEFINE row == [id |-> nextId, inv |-> nextId, cust |-> NoFamily, date |-> d,
                       field |-> fld, amount |-> a]
    <2>1. row.id = nextId /\ row.inv = nextId
        OBVIOUS
    <2>2. lines' = lines \cup {row} /\ nextId' = nextId + 1
        BY <1>6 DEF BookkeeperInvoices
    <2> HIDE DEF row
    <2> QED BY <1>3, <2>1, <2>2
<1>7. CASE UNCHANGED qbVars
    BY <1>1, <1>7 DEF qbVars
<1>8. ASSUME NEW s \in Sessions, DeleteInvoice(s)
      PROVE  Ids'
    BY <1>1, <1>8 DEF DeleteInvoice
<1> QED BY <1>2, <1>4, <1>5, <1>6, <1>7, <1>8
        DEF Next, Users, Session, Start, Abort, RetrieveCharge, RetrieveNoLine,
            RetrieveInvoice, Reread, UpdateDone, InsertDone, Return, EditCharge,
            RemoveCharge, LinkFamily, vars

\* The state of the synchronisation, of RenWeb and of QuickBooks, and the lists of
\* every request, keep their types.
THEOREM InvoicesTypeCorrect == Spec => []TypeOK
<1>1. TypeOK /\ Ids /\ [Next]_vars => TypeOK' /\ Ids'
    BY TypeStep, IdsStep
<1> QED BY TypeInit, <1>1, PTL DEF Spec

-----------------------------------------------------------------------------
(* Lines are on their own family's account. *)

\* An entry is for the family of its charge, or for the customer "null".
EntriesAddressed ==
    \A s \in Sessions : \A e \in add[s] \cup disc[s] : e.cust \in {FamilyOf[e.field], NoFamily}

\* The lines of an invoice are on one account, and a line that bears a charge is on
\* its family's.  BilledToFamily says so only of invoices that bear a charge, which
\* is not inductive: an invoice gets its second line from a discount.
LinesAddressed ==
    /\ \A l \in lines : Charged(l) => l.cust = FamilyOf[l.field] /\ l.date = DateOf[l.field]
    /\ \A k, l \in lines : k.inv = l.inv => k.cust = l.cust

\* What a request puts on its lists it has read; a failure makes nothing up.
LEMMA PlanEntries ==
    ASSUME TypeOK, NEW s \in Sessions, NEW toAdd, NEW readAll, Plan(s, toAdd, readAll)
    PROVE  /\ \A t \in Sessions \ {s} : add'[t] = add[t] /\ disc'[t] = disc[t]
           /\ \A e \in add'[s] \cup disc'[s] :
                 \E c \in toAdd, lost \in SUBSET toAdd : e = EntryFor(s, c, lost)
    BY DEF Plan, TypeOK

\* The other steps only take entries off the lists.
LEMMA EntriesShrink ==
    ASSUME TypeOK, [Next]_vars, NEW s \in Sessions, ~RetrieveNoLine(s), ~Reread(s)
    PROVE  add'[s] \subseteq add[s] /\ disc'[s] \subseteq disc[s]
<1>1. ASSUME NEW t \in Sessions, Forget(t) PROVE add'[s] \subseteq add[s] /\ disc'[s] \subseteq disc[s]
    BY <1>1 DEF Forget, TypeOK
<1>2. ASSUME UNCHANGED <<add, disc>> PROVE add'[s] \subseteq add[s] /\ disc'[s] \subseteq disc[s]
    BY <1>2
<1>3. CASE Users \/ UNCHANGED vars
    BY <1>2, <1>3 DEF Users, EditCharge, RemoveCharge, LinkFamily, BookkeeperInvoices, Edit, lists,
                      vars
<1>4. ASSUME NEW t \in Sessions, Start(t) \/ Abort(t)
      PROVE  add'[s] \subseteq add[s] /\ disc'[s] \subseteq disc[s]
    BY <1>1, <1>2, <1>4 DEF Start, Abort, lists
<1>5. ASSUME NEW t \in Sessions, RetrieveNoLine(t) \/ Reread(t)
      PROVE  add'[s] \subseteq add[s] /\ disc'[s] \subseteq disc[s]
    <2>1. s # t
        BY <1>5
    <2>2. Throw(t) \/ \E toAdd, readAll : Plan(t, toAdd, readAll)
        BY <1>5 DEF RetrieveNoLine, Reread
    <2> QED BY <1>1, <2>1, <2>2, PlanEntries DEF Throw
<1>6. ASSUME NEW t \in Sessions, RetrieveInvoice(t)
      PROVE  add'[s] \subseteq add[s] /\ disc'[s] \subseteq disc[s]
    BY <1>1, <1>2, <1>6 DEF RetrieveInvoice, Throw
<1>7. ASSUME NEW t \in Sessions, InsertInvoice(t) \/ AddDiscount(t)
      PROVE  add'[s] \subseteq add[s] /\ disc'[s] \subseteq disc[s]
    BY <1>7 DEF InsertInvoice, AddDiscount, TypeOK
<1>8. ASSUME NEW t \in Sessions,
             RetrieveCharge(t) \/ DeleteInvoice(t) \/ UpdateInvoice(t) \/ UpdateDone(t)
                 \/ InsertDone(t) \/ Return(t)
      PROVE  add'[s] \subseteq add[s] /\ disc'[s] \subseteq disc[s]
    BY <1>1, <1>2, <1>8 DEF RetrieveCharge, DeleteInvoice, UpdateInvoice, UpdateDone, InsertDone,
                            Return, lists
<1> QED BY <1>3, <1>4, <1>5, <1>6, <1>7, <1>8 DEF Next, Session

LEMMA EntriesAddressedStep ==
    ASSUME TypeOK, EntriesAddressed, [Next]_vars
    PROVE  EntriesAddressed'
<1> SUFFICES ASSUME NEW s \in Sessions, NEW e \in add'[s] \cup disc'[s]
             PROVE  e.cust \in {FamilyOf[e.field], NoFamily}
    BY DEF EntriesAddressed
<1>1. CASE e \in add[s] \cup disc[s]
    BY <1>1 DEF EntriesAddressed
<1>2. CASE \E c, lost : e = EntryFor(s, c, lost)
    BY <1>2 DEF EntryFor
<1>3. CASE RetrieveNoLine(s)
    BY <1>2, <1>3, PlanEntries DEF RetrieveNoLine
<1>4. CASE Reread(s)
    <2>1. CASE Throw(s)
        BY <2>1 DEF Throw, Forget, TypeOK
    <2>2. ASSUME NEW toAdd, NEW readAll, Plan(s, toAdd, readAll)
          PROVE  e.cust \in {FamilyOf[e.field], NoFamily}
        BY <1>2, <2>2, PlanEntries
    <2> QED BY <1>4, <2>1, <2>2 DEF Reread
<1> QED BY <1>1, <1>3, <1>4, EntriesShrink

\* How the lines in QuickBooks change.
LEMMA LinesStep ==
    ASSUME [Next]_vars
    PROVE  \/ lines' \subseteq lines
           \/ \E s \in Sessions : \E u \in upd[s] : lines' = Amended(u)
           \/ \E s \in Sessions : \E e \in add[s] : e.cust # NoFamily /\ NewInvoice(e)
           \/ \E s \in Sessions : \E e \in disc[s] : \E hit \in SUBSET Discounted(e) :
                  lines' = lines \cup {DiscountLine(e, l, hit) : l \in hit}
           \/ \E d \in Dates, fld \in ForeignFields, a \in Amounts : BookkeeperInvoices(d, fld, a)
<1>1. ASSUME NEW s \in Sessions, UpdateInvoice(s)
      PROVE  lines' \subseteq lines \/ \E u \in upd[s] : lines' = Amended(u)
    BY <1>1 DEF UpdateInvoice
<1>2. ASSUME NEW s \in Sessions, InsertInvoice(s)
      PROVE  lines' \subseteq lines \/ \E e \in add[s] : e.cust # NoFamily /\ NewInvoice(e)
    BY <1>2 DEF InsertInvoice, qbVars
<1>3. ASSUME NEW s \in Sessions, AddDiscount(s)
      PROVE  \E e \in disc[s] : \E hit \in SUBSET Discounted(e) :
                 lines' = lines \cup {DiscountLine(e, l, hit) : l \in hit}
    <2>1. PICK e \in disc[s] :
              \E hit \in Readable(Discounted(e)) \cup {{l} : l \in Discounted(e)} :
                  lines' = lines \cup {DiscountLine(e, l, hit) : l \in hit}
        BY <1>3 DEF AddDiscount
    <2>2. Readable(Discounted(e)) \cup {{l} : l \in Discounted(e)} \subseteq SUBSET Discounted(e)
        BY DEF Readable
    <2> QED BY <2>1, <2>2
<1>4. ASSUME NEW s \in Sessions, DeleteInvoice(s)
      PROVE  lines' \subseteq lines
    BY <1>4 DEF DeleteInvoice
<1>5. CASE UNCHANGED lines
    BY <1>5
<1> QED BY <1>1, <1>2, <1>3, <1>4, <1>5
        DEF Next, Users, Session, Start, Abort, RetrieveCharge, RetrieveNoLine,
            RetrieveInvoice, Reread, UpdateDone, InsertDone, Return, EditCharge,
            RemoveCharge, LinkFamily, vars, qbVars

LEMMA LinesAddressedStep ==
    ASSUME TypeOK, Ids, EntriesAddressed, LinesAddressed, [Next]_vars
    PROVE  LinesAddressed'
<1>0. nextId \in Nat /\ \A l \in lines : l.inv \in Nat /\ l.inv < nextId
    BY DEF TypeOK, Line, Ids
<1>1. CASE lines' \subseteq lines
    BY <1>1 DEF LinesAddressed, Charged
<1>2. ASSUME NEW u, lines' = Amended(u)
      PROVE  LinesAddressed'
    <2>1. \A k \in lines' : \E l \in lines :
              k.inv = l.inv /\ k.cust = l.cust /\ k.date = l.date /\ k.field = l.field
        BY <1>2, AmendedLine
    <2> QED BY <2>1 DEF LinesAddressed, Charged
<1>3. ASSUME NEW row, row.inv = nextId, lines' = lines \cup {row},
             Charged(row) => row.cust = FamilyOf[row.field] /\ row.date = DateOf[row.field]
      PROVE  LinesAddressed'
    BY <1>0, <1>3 DEF LinesAddressed, Charged
<1>4. ASSUME NEW s \in Sessions, NEW e \in add[s], e.cust # NoFamily, NewInvoice(e)
      PROVE  LinesAddressed'
    <2> DEFINE row == [id |-> nextId, inv |-> nextId, cust |-> e.cust,
                       date |-> DateOf[e.field], field |-> e.field, amount |-> e.amount]
    <2>1. e.cust = FamilyOf[e.field]
        BY <1>4 DEF EntriesAddressed
    <2>2. row.inv = nextId /\ row.cust = FamilyOf[row.field] /\ row.date = DateOf[row.field]
        BY <2>1
    <2>3. lines' = lines \cup {row}
        BY <1>4 DEF NewInvoice
    <2> HIDE DEF row
    <2> QED BY <1>3, <2>2, <2>3
<1>5. ASSUME NEW s \in Sessions, NEW e \in disc[s], NEW hit \in SUBSET Discounted(e),
             lines' = lines \cup {DiscountLine(e, l, hit) : l \in hit}
      PROVE  LinesAddressed'
    <2>1. \A l \in hit : l \in lines /\ l.cust = e.cust /\ l.cust # NoFamily
        BY DEF Discounted
    <2>2. \A l \in hit : e.cust = FamilyOf[e.field]
        BY <2>1 DEF EntriesAddressed
    <2>3. \A l \in hit : /\ DiscountLine(e, l, hit).inv = l.inv
                         /\ DiscountLine(e, l, hit).cust = l.cust
                         /\ DiscountLine(e, l, hit).cust = e.cust
                         /\ DiscountLine(e, l, hit).field = e.field
                         /\ DiscountLine(e, l, hit).date = DateOf[e.field]
        BY <2>1 DEF DiscountLine
    <2>4. \A k \in lines' : \E l \in lines : k.inv = l.inv /\ k.cust = l.cust
        BY <1>5, <2>1, <2>3
    <2>5. \A k, l \in lines' : k.inv = l.inv => k.cust = l.cust
        BY <2>4 DEF LinesAddressed
    <2>6. \A k \in lines' :
              Charged(k) => k.cust = FamilyOf[k.field] /\ k.date = DateOf[k.field]
        BY <1>5, <2>2, <2>3 DEF LinesAddressed, Charged
    <2> QED BY <2>5, <2>6 DEF LinesAddressed, Charged
<1>6. ASSUME NEW d \in Dates, NEW fld \in ForeignFields, NEW a \in Amounts,
             BookkeeperInvoices(d, fld, a)
      PROVE  LinesAddressed'
    <2> DEFINE row == [id |-> nextId, inv |-> nextId, cust |-> NoFamily, date |-> d,
                       field |-> fld, amount |-> a]
    <2>1. row.inv = nextId /\ ~Charged(row)
        BY DEF Charged
    <2>2. lines' = lines \cup {row}
        BY <1>6 DEF BookkeeperInvoices
    <2> HIDE DEF row
    <2> QED BY <1>3, <2>1, <2>2
<1> QED BY <1>1, <1>2, <1>4, <1>5, <1>6, LinesStep

\* A line that bears a charge is on the account of the charge's family, and on an
\* invoice that no other family has a line on, whatever fails, is edited and overlaps
\* (InsertInvoice.java:35, AddDiscounts.java:38-46).
THEOREM InvoicesBilledToFamily == Spec => []BilledToFamily
<1> DEFINE Inv == TypeOK /\ Ids /\ EntriesAddressed /\ LinesAddressed
<1>1. Init => Inv
    BY TypeInit DEF Init, EntriesAddressed, LinesAddressed
<1>2. Inv /\ [Next]_vars => Inv'
    BY TypeStep, IdsStep, EntriesAddressedStep, LinesAddressedStep
<1>3. Inv => BilledToFamily
    BY DEF LinesAddressed, BilledToFamily, InvoiceLines
<1> QED BY <1>1, <1>2, <1>3, PTL DEF Spec

-----------------------------------------------------------------------------
(* What is on the lists, and when. *)

ListsFit ==
    \A s \in Sessions :
        /\ pc[s] \in Ended \cup {"charges", "lines"} =>
              del[s] = {} /\ upd[s] = {} /\ add[s] = {} /\ disc[s] = {}
        /\ pc[s] = "delete" => upd[s] = {} /\ add[s] = {} /\ disc[s] = {}
        /\ pc[s] \in {"update", "add", "discount"} => del[s] = {}
        /\ pc[s] \in {"add", "discount"} => upd[s] = {}
        /\ pc[s] = "discount" => add[s] = {}

LEMMA ListsFitStep ==
    ASSUME TypeOK, ListsFit, [Next]_vars
    PROVE  ListsFit'
<1>1. ASSUME UNCHANGED <<pc, lists>> PROVE ListsFit'
    BY <1>1 DEF ListsFit, lists
<1>2. CASE Users \/ UNCHANGED vars
    BY <1>1, <1>2 DEF Users, EditCharge, RemoveCharge, LinkFamily, BookkeeperInvoices, Edit, vars
<1>3. ASSUME NEW s \in Sessions, Forget(s), Goto(s, "aborted") \/ Goto(s, "done")
      PROVE  ListsFit'
    BY <1>3 DEF ListsFit, TypeOK, Forget, Goto, Ended
<1>4. ASSUME NEW s \in Sessions, Start(s) \/ RetrieveCharge(s) \/ UpdateDone(s) \/ InsertDone(s)
      PROVE  ListsFit'
    BY <1>4 DEF ListsFit, TypeOK, Start, RetrieveCharge, UpdateDone, InsertDone, Goto, Ended, lists
<1>5. ASSUME NEW s \in Sessions, Return(s) \/ Abort(s)
      PROVE  ListsFit'
    BY <1>3, <1>5 DEF Return, Abort
<1>6. ASSUME NEW s \in Sessions, RetrieveNoLine(s)
      PROVE  ListsFit'
    <2>1. \A t \in Sessions \ {s} : add'[t] = add[t] /\ disc'[t] = disc[t]
        BY <1>6, PlanEntries DEF RetrieveNoLine
    <2> QED BY <1>6, <2>1 DEF ListsFit, TypeOK, RetrieveNoLine, Goto, Ended
<1>7. ASSUME NEW s \in Sessions, RetrieveInvoice(s)
      PROVE  ListsFit'
    <2>1. CASE Throw(s)
        BY <1>3, <2>1 DEF Throw
    <2>2. CASE Goto(s, "delete") /\ (\E some : del' = [del EXCEPT ![s] = some])
               /\ UNCHANGED <<upd, add, disc>>
        BY <1>7, <2>2 DEF ListsFit, TypeOK, RetrieveInvoice, Goto, Ended
    <2> QED BY <1>7, <2>1, <2>2 DEF RetrieveInvoice
<1>8. ASSUME NEW s \in Sessions, Reread(s)
      PROVE  ListsFit'
    <2>1. CASE Throw(s)
        BY <1>3, <2>1 DEF Throw
    <2>2. ASSUME NEW toAdd, NEW readAll, NEW new, Plan(s, toAdd, readAll),
                 upd' = [upd EXCEPT ![s] = new], Goto(s, "update"), UNCHANGED del
          PROVE  ListsFit'
        <3>1. \A t \in Sessions \ {s} : add'[t] = add[t] /\ disc'[t] = disc[t]
            BY <2>2, PlanEntries
        <3> QED BY <1>8, <2>2, <3>1 DEF ListsFit, TypeOK, Reread, Goto, Ended
    <2> QED BY <1>8, <2>1, <2>2 DEF Reread
<1>9. ASSUME NEW s \in Sessions,
             DeleteInvoice(s) \/ UpdateInvoice(s) \/ InsertInvoice(s) \/ AddDiscount(s)
      PROVE  ListsFit'
    BY <1>9 DEF ListsFit, TypeOK, DeleteInvoice, UpdateInvoice, InsertInvoice, AddDiscount, Ended
<1> QED BY <1>2, <1>4, <1>5, <1>6, <1>7, <1>8, <1>9 DEF Next, Session

\* A session's table holds charges that are or were in RenWeb, its entries bear
\* charges of its table, and so do lines: no charge id comes from anywhere else.
Known == DOMAIN charges \cup retired

ChargesKnown ==
    /\ \A s \in Sessions :
          /\ DOMAIN due[s] \subseteq Known
          /\ \A e \in add[s] \cup disc[s] : e.field \in DOMAIN due[s]
    /\ \A l \in lines : Charged(l) => l.field \in Known

LEMMA KnownGrows ==
    ASSUME [Next]_vars
    PROVE  Known \subseteq Known' /\ retired \subseteq retired'
    BY DEF Known, Next, Users, EditCharge, RemoveCharge, LinkFamily, BookkeeperInvoices, Start,
           Session, Abort, RetrieveCharge, RetrieveNoLine, RetrieveInvoice, DeleteInvoice, Reread,
           UpdateInvoice, UpdateDone, InsertInvoice, InsertDone, AddDiscount, Return, vars, rwVars

\* A session's table changes when it is read, and is forgotten in the end.
LEMMA DueStep ==
    ASSUME TypeOK, ListsFit, [Next]_vars, NEW s \in Sessions
    PROVE  \/ due'[s] = due[s]
           \/ due'[s] = NoCharge /\ add'[s] = {} /\ disc'[s] = {}
           \/ /\ RetrieveCharge(s) /\ DOMAIN due'[s] \subseteq DOMAIN charges
              /\ add'[s] = {} /\ disc'[s] = {}
<1>1. ASSUME NEW t \in Sessions, Forget(t)
      PROVE  due'[s] = due[s] \/ (due'[s] = NoCharge /\ add'[s] = {} /\ disc'[s] = {})
    BY <1>1 DEF Forget, TypeOK
<1>2. ASSUME NEW t \in Sessions, RetrieveCharge(t), s # t
      PROVE  due'[s] = due[s]
    BY <1>2 DEF RetrieveCharge, TypeOK
<1>3. ASSUME RetrieveCharge(s)
      PROVE  DOMAIN due'[s] \subseteq DOMAIN charges /\ add'[s] = {} /\ disc'[s] = {}
    <2>1. PICK some \in Readable(DOMAIN charges) :
              due' = [due EXCEPT ![s] = [c \in some |-> charges[c]]]
        BY <1>3 DEF RetrieveCharge
    <2>2. some \subseteq DOMAIN charges
        BY DEF Readable
    <2>3. due'[s] = [c \in some |-> charges[c]]
        BY <2>1 DEF TypeOK
    <2> QED BY <1>3, <2>2, <2>3 DEF RetrieveCharge, ListsFit, lists
<1>4. ASSUME UNCHANGED due PROVE due'[s] = due[s]
    BY <1>4
<1> QED BY <1>1, <1>2, <1>3, <1>4
        DEF Next, Users, EditCharge, RemoveCharge, LinkFamily, BookkeeperInvoices, Edit, Start,
            Session, Abort, RetrieveNoLine, RetrieveInvoice, DeleteInvoice, Reread, Throw,
            UpdateInvoice, UpdateDone, InsertInvoice, InsertDone, AddDiscount, Return, vars

\* Entries bear charges of the table they were planned from.
LEMMA EntriesRead ==
    ASSUME TypeOK, ListsFit, ChargesKnown, [Next]_vars,
           NEW s \in Sessions, NEW e \in add'[s] \cup disc'[s]
    PROVE  e.field \in DOMAIN due'[s]
<1>1. CASE RetrieveNoLine(s)
    <2>1. due'[s] = due[s]
        BY <1>1 DEF RetrieveNoLine
    <2>2. \E c \in DOMAIN due[s] : \E lost : e = EntryFor(s, c, lost)
        BY <1>1, PlanEntries DEF RetrieveNoLine
    <2> QED BY <2>1, <2>2 DEF EntryFor
<1>2. CASE Reread(s)
    <2>1. CASE Throw(s)
        BY <2>1 DEF Throw, Forget, TypeOK
    <2>2. ASSUME NEW some, NEW out \in Outcomes(due[s], some), ~out.thrown,
                 Plan(s, out.add, some = lines), UNCHANGED due
          PROVE  e.field \in DOMAIN due'[s]
        <3>1. out.add \subseteq DOMAIN due[s]
            BY <2>2, OutcomeLists
        <3>2. \E c \in out.add : \E lost : e = EntryFor(s, c, lost)
            BY <2>2, PlanEntries
        <3> QED BY <2>2, <3>1, <3>2 DEF EntryFor
    <2> QED BY <1>2, <2>1, <2>2 DEF Reread
<1>3. CASE ~RetrieveNoLine(s) /\ ~Reread(s)
    <2>1. e \in add[s] \cup disc[s]
        BY <1>3, EntriesShrink
    <2>2. e.field \in DOMAIN due[s]
        BY <2>1 DEF ChargesKnown
    <2> QED BY <2>2, DueStep
<1> QED BY <1>1, <1>2, <1>3

\* The charges that lines bear: those they bore and those of the lists.
LEMMA LinesCharges ==
    ASSUME TypeOK, [Next]_vars, NEW k \in lines', Charged(k)
    PROVE  \/ \E l \in lines : l.field = k.field
           \/ \E s \in Sessions : \E e \in add[s] \cup disc[s] : e.field = k.field
<1>1. CASE lines' \subseteq lines
    BY <1>1
<1>2. ASSUME NEW u, lines' = Amended(u)
      PROVE  \E l \in lines : l.field = k.field
    BY <1>2, AmendedLine
<1>3. ASSUME NEW s \in Sessions, NEW e \in add[s], NewInvoice(e)
      PROVE  k \in lines \/ k.field = e.field
    BY <1>3 DEF NewInvoice
<1>4. ASSUME NEW s \in Sessions, NEW e \in disc[s], NEW hit \in SUBSET Discounted(e),
             lines' = lines \cup {DiscountLine(e, l, hit) : l \in hit}
      PROVE  k \in lines \/ k.field = e.field
    <2>1. \A l \in hit : DiscountLine(e, l, hit).field = e.field
        BY DEF DiscountLine
    <2> QED BY <1>4, <2>1
<1>5. ASSUME NEW d \in Dates, NEW fld \in ForeignFields, NEW a \in Amounts,
             BookkeeperInvoices(d, fld, a)
      PROVE  k \in lines
    BY <1>5 DEF BookkeeperInvoices, Charged
<1> QED BY <1>1, <1>2, <1>3, <1>4, <1>5, LinesStep

LEMMA ChargesKnownStep ==
    ASSUME TypeOK, ListsFit, ChargesKnown, [Next]_vars
    PROVE  ChargesKnown'
<1>1. ASSUME NEW s \in Sessions
      PROVE  DOMAIN due'[s] \subseteq Known'
    <2>1. DOMAIN due[s] \subseteq Known /\ DOMAIN NoCharge = {} /\ DOMAIN charges \subseteq Known
        BY DEF ChargesKnown, NoCharge, Known
    <2> QED BY <2>1, DueStep, KnownGrows
<1>2. ASSUME NEW k \in lines', Charged(k)
      PROVE  k.field \in Known'
    <2>1. \A l \in lines : l.field = k.field => l.field \in Known
        BY <1>2 DEF ChargesKnown, Charged
    <2>2. \A s \in Sessions : \A e \in add[s] \cup disc[s] : e.field \in Known
        BY DEF ChargesKnown
    <2> QED BY <1>2, <2>1, <2>2, LinesCharges, KnownGrows
<1> QED BY <1>1, <1>2, EntriesRead DEF ChargesKnown, Charged

-----------------------------------------------------------------------------
(* One request at a time, an invoice goes only when a charge on it is gone. *)

\* As long as no call fails, a session has read every charge that a line bears,
\* but for those that were deleted.
LinesRead ==
    faults = 0 =>
        \A s \in Sessions : pc[s] \notin Ended \cup {"charges"} =>
            \A l \in lines : Charged(l) => l.field \in DOMAIN due[s] \cup retired

\* A line to be deleted bears no charge that is or will be in RenWeb again, and is
\* there until its invoice goes.
StaleGone ==
    faults = 0 =>
        \A s \in Sessions : \A l \in del[s] :
            /\ Charged(l) => l.field \in retired
            /\ l.inv < nextId
            /\ l \in lines \/ \A k \in lines : k.inv # l.inv

\* A step of a session is counted as undisturbed, or the session is not quiet any more.
LEMMA SessionHistory ==
    ASSUME NEW s \in Sessions, Session(s)
    PROVE  \/ UNCHANGED <<faults, quiet>> /\ (UNCHANGED clean \/ Return(s))
           \/ faults' \in {faults, faults + 1} /\ quiet' = quiet \ {s} /\ clean' = 0
<1> DEFINE Counted == \/ UNCHANGED <<faults, quiet>> /\ (UNCHANGED clean \/ Return(s))
                      \/ faults' \in {faults, faults + 1} /\ quiet' = quiet \ {s} /\ clean' = 0
<1>1. Undisturbed \/ Fault(s) \/ Refused(s) \/ Throw(s) => Counted
    BY DEF Undisturbed, Fault, Refused, Throw
<1>2. ASSUME NEW toAdd, NEW readAll, Plan(s, toAdd, readAll)
      PROVE  Undisturbed \/ Fault(s)
    BY <1>2 DEF Plan
<1>3. CASE RetrieveCharge(s) \/ RetrieveInvoice(s) \/ DeleteInvoice(s) \/ UpdateInvoice(s)
           \/ InsertInvoice(s) \/ AddDiscount(s)
    BY <1>1, <1>3 DEF RetrieveCharge, RetrieveInvoice, DeleteInvoice, UpdateInvoice,
                      InsertInvoice, AddDiscount
<1>4. CASE RetrieveNoLine(s) \/ Reread(s)
    BY <1>1, <1>2, <1>4 DEF RetrieveNoLine, Reread
<1>5. CASE UpdateDone(s) \/ InsertDone(s) \/ Return(s)
    BY <1>5 DEF UpdateDone, InsertDone, Return, history
<1> QED BY <1>3, <1>4, <1>5 DEF Session

LEMMA FaultsStay ==
    ASSUME TypeOK, [Next]_vars, faults' = 0
    PROVE  faults = 0
<1>1. faults \in Nat
    BY DEF TypeOK
<1>2. ASSUME NEW s \in Sessions, Session(s) PROVE faults = 0
    BY <1>1, <1>2, SessionHistory
<1>3. ASSUME NEW s \in Sessions, Start(s) \/ Abort(s) PROVE faults = 0
    BY <1>1, <1>3 DEF Start, Abort, Fault
<1>4. CASE Users \/ UNCHANGED vars
    BY <1>4 DEF Users, EditCharge, RemoveCharge, LinkFamily, BookkeeperInvoices, Edit, vars
<1> QED BY <1>2, <1>3, <1>4 DEF Next

LEMMA LinesReadStep ==
    ASSUME \A s, t \in Sessions : s = t,
           TypeOK, ListsFit, ChargesKnown, LinesRead, [Next]_vars
    PROVE  LinesRead'
<1> SUFFICES ASSUME faults' = 0, NEW s \in Sessions, pc'[s] \notin Ended \cup {"charges"},
                    NEW k \in lines', Charged(k)
             PROVE  k.field \in DOMAIN due'[s] \cup retired'
    BY DEF LinesRead, Charged
<1>1. faults = 0
    BY FaultsStay
<1>2. CASE RetrieveCharge(s)
    <2>1. DOMAIN due'[s] = DOMAIN charges
        BY <1>1, <1>2 DEF RetrieveCharge, Fault, TypeOK
    <2>2. k \in lines /\ retired' = retired
        BY <1>2 DEF RetrieveCharge, qbVars, rwVars
    <2> QED BY <2>1, <2>2 DEF ChargesKnown, Known
<1>3. CASE ~RetrieveCharge(s)
    <2>1. pc[s] \notin Ended \cup {"charges"} /\ due'[s] = due[s]
        <3>1. CASE Users \/ UNCHANGED vars
            BY <3>1 DEF Users, EditCharge, RemoveCharge, LinkFamily, BookkeeperInvoices, Edit, vars
        <3>2. ~Start(s) /\ ~Abort(s) /\ ~Return(s) /\ ~Throw(s)
            BY DEF Start, Abort, Return, Throw, Goto, Ended, TypeOK
        <3>3. CASE Session(s)
            BY <1>3, <3>2, <3>3
               DEF Session, RetrieveNoLine, RetrieveInvoice, DeleteInvoice, Reread, UpdateInvoice,
                   UpdateDone, InsertInvoice, InsertDone, AddDiscount, Ended
        <3>4. \A t \in Sessions : t = s
            OBVIOUS
        <3> QED BY <3>1, <3>2, <3>3, <3>4 DEF Next
    <2>2. \A l \in lines : Charged(l) => l.field \in DOMAIN due[s] \cup retired
        BY <1>1, <2>1 DEF LinesRead
    <2>3. \A t \in Sessions : \A e \in add[t] \cup disc[t] : e.field \in DOMAIN due[s]
        BY DEF ChargesKnown
    <2> QED BY <2>1, <2>2, <2>3, LinesCharges, KnownGrows DEF Charged
<1> QED BY <1>2, <1>3

\* While a line waits to be deleted the session does nothing but delete.
LEMMA DelStep ==
    ASSUME \A s, t \in Sessions : s = t, TypeOK, ListsFit, [Next]_vars,
           NEW s \in Sessions, NEW l \in del'[s]
    PROVE  \/ RetrieveInvoice(s)
           \/ l \in del[s] /\ (DeleteInvoice(s) \/ Users \/ UNCHANGED vars)
<1>1. CASE Users \/ UNCHANGED vars
    BY <1>1 DEF Users, EditCharge, RemoveCharge, LinkFamily, BookkeeperInvoices, Edit, lists, vars
<1>2. ~Forget(s)
    BY DEF Forget, TypeOK
<1>3. ~Start(s)
    BY DEF Start, ListsFit, lists
<1>4. CASE Session(s)
    <2>1. ~Return(s) /\ ~Throw(s)
        BY <1>2 DEF Return, Throw
    <2>2. CASE DeleteInvoice(s)
        BY <2>2 DEF DeleteInvoice, TypeOK
    <2>3. ~RetrieveCharge(s) /\ ~RetrieveNoLine(s)
        BY DEF RetrieveCharge, RetrieveNoLine, ListsFit, lists
    <2>4. ~Reread(s)
        BY <2>1 DEF Reread
    <2>5. ~UpdateInvoice(s) /\ ~UpdateDone(s) /\ ~InsertInvoice(s) /\ ~InsertDone(s)
          /\ ~AddDiscount(s)
        BY DEF UpdateInvoice, UpdateDone, InsertInvoice, InsertDone, AddDiscount, ListsFit, lists
    <2> QED BY <1>4, <2>1, <2>2, <2>3, <2>4, <2>5 DEF Session
<1>5. \A t \in Sessions : t = s
    OBVIOUS
<1> QED BY <1>1, <1>2, <1>3, <1>4, <1>5 DEF Next, Abort

LEMMA StaleGoneStep ==
    ASSUME \A s, t \in Sessions : s = t,
           TypeOK, Ids, ListsFit, LinesRead, StaleGone, [Next]_vars
    PROVE  StaleGone'
<1> SUFFICES ASSUME faults' = 0, NEW s \in Sessions, NEW l \in del'[s]
             PROVE  /\ Charged(l) => l.field \in retired'
                    /\ l.inv < nextId'
                    /\ l \in lines' \/ \A k \in lines' : k.inv # l.inv
    BY DEF StaleGone, Charged
<1>1. faults = 0
    BY FaultsStay
<1>2. nextId \in Nat /\ l.inv \in Nat
    BY TypeStep DEF TypeOK, Line
<1>3. CASE RetrieveInvoice(s)
    <2>1. ~Throw(s)
        BY DEF Throw, Forget, TypeOK
    <2>2. l \in lines /\ Stale(s, l)
        BY <1>3, <2>1 DEF RetrieveInvoice, Readable, TypeOK
    <2>3. Charged(l) => l.field \in retired
        BY <1>1, <1>3, <2>2 DEF LinesRead, Stale, RetrieveInvoice, Ended
    <2>4. UNCHANGED <<rwVars, qbVars>>
        BY <1>3 DEF RetrieveInvoice
    <2> QED BY <2>2, <2>3, <2>4 DEF Ids, rwVars, qbVars
<1>4. ASSUME l \in del[s]
      PROVE  /\ Charged(l) => l.field \in retired'
             /\ l.inv < nextId
             /\ l \in lines \/ \A k \in lines : k.inv # l.inv
    BY <1>1, <1>4, KnownGrows DEF StaleGone
<1>5. CASE l \in del[s] /\ DeleteInvoice(s)
    <2>1. UNCHANGED nextId /\ \E d : lines' \in {lines, lines \ InvoiceLines(d.inv)}
        BY <1>5 DEF DeleteInvoice
    <2>2. l \in lines' \/ \A k \in lines' : k.inv # l.inv
        BY <1>4, <1>5, <2>1 DEF InvoiceLines
    <2> QED BY <1>4, <1>5, <2>1, <2>2
<1>6. CASE l \in del[s] /\ (Users \/ UNCHANGED vars)
    <2>1. \/ UNCHANGED qbVars
          \/ /\ \A k \in lines' : k \in lines \/ k.inv = nextId
             /\ lines \subseteq lines' /\ nextId' = nextId + 1
        <3>1. ASSUME NEW d, NEW fld, NEW a, BookkeeperInvoices(d, fld, a)
              PROVE  /\ \A k \in lines' : k \in lines \/ k.inv = nextId
                     /\ lines \subseteq lines' /\ nextId' = nextId + 1
            BY <3>1 DEF BookkeeperInvoices
        <3> QED BY <1>6, <3>1 DEF Users, EditCharge, RemoveCharge, LinkFamily, vars
    <2> QED BY <1>2, <1>4, <1>6, <2>1 DEF qbVars
<1> QED BY <1>3, <1>5, <1>6, DelStep

\* With one session, and as long as no call fails, a line goes only with an invoice
\* that bears a line whose charge is gone from RenWeb: what the delete list was made
\* from is still so when the invoice goes (InvoiceSync.java:101, DeleteInvoice.java:37).
THEOREM OneRequestKeepsLiveInvoices ==
    ASSUME \A s, t \in Sessions : s = t
    PROVE  Spec => KeepsLiveInvoices
<1> DEFINE Inv == TypeOK /\ Ids /\ ListsFit /\ ChargesKnown /\ LinesRead /\ StaleGone
           Kept == \A l \in lines :
                       faults = 0 /\ (\A k \in lines' : k.id # l.id)
                         => \E k \in InvoiceLines(l.inv) : k.field \notin DOMAIN charges
<1>1. Init => Inv
    <2> SUFFICES ASSUME Init PROVE Inv
        OBVIOUS
    <2>1. ListsFit
        BY DEF Init, ListsFit
    <2>2. ChargesKnown
        BY DEF Init, ChargesKnown, NoCharge
    <2> QED BY <2>1, <2>2, TypeInit DEF Init, LinesRead, StaleGone
<1>2. Inv /\ [Next]_vars => Inv'
    BY TypeStep, IdsStep, ListsFitStep, ChargesKnownStep, LinesReadStep, StaleGoneStep
<1>3. Inv /\ [Next]_vars => [Kept]_lines
    <2> SUFFICES ASSUME Inv, [Next]_vars, NEW l \in lines, faults = 0,
                        \A k \in lines' : k.id # l.id
                 PROVE  \E k \in InvoiceLines(l.inv) : k.field \notin DOMAIN charges
        OBVIOUS
    <2>1. ~(lines \subseteq lines')
        OBVIOUS
    <2>2. ASSUME NEW u, lines' = Amended(u)
          PROVE  FALSE
        <3>1. (IF l.id = u[1].id THEN [l EXCEPT !.amount = u[2]] ELSE l) \in lines'
            BY <2>2 DEF Amended
        <3>2. l \in Line
            BY DEF TypeOK
        <3> QED BY <3>1, <3>2 DEF Line
    <2>3. PICK s \in Sessions : DeleteInvoice(s)
        <3>1. ASSUME NEW s \in Sessions, UpdateInvoice(s)
              PROVE  FALSE
            BY <2>1, <2>2, <3>1 DEF UpdateInvoice
        <3>2. ASSUME NEW s \in Sessions, InsertInvoice(s)
              PROVE  FALSE
            BY <2>1, <3>2 DEF InsertInvoice, NewInvoice, qbVars
        <3>3. ASSUME NEW s \in Sessions, AddDiscount(s)
              PROVE  FALSE
            BY <2>1, <3>3 DEF AddDiscount
        <3>4. lines' # lines
            BY <2>1
        <3> QED BY <2>1, <3>1, <3>2, <3>3, <3>4
                DEF Next, Users, Session, Start, Abort, RetrieveCharge, RetrieveNoLine,
                    RetrieveInvoice, Reread, UpdateDone, InsertDone, Return, EditCharge,
                    RemoveCharge, LinkFamily, BookkeeperInvoices, vars, qbVars
    <2>4. PICK d \in del[s] : lines' \in {lines, lines \ InvoiceLines(d.inv)}
        BY <2>3 DEF DeleteInvoice
    <2>5. l.inv = d.inv
        BY <2>1, <2>4 DEF InvoiceLines
    <2>6. d \in InvoiceLines(l.inv)
        BY <2>5 DEF StaleGone, InvoiceLines
    <2>7. d.field \notin DOMAIN charges
        <3>1. DOMAIN charges \subseteq Charges /\ DOMAIN charges \cap retired = {}
            BY TableIs DEF TypeOK
        <3> QED BY <3>1 DEF StaleGone, Charged
    <2> QED BY <2>6, <2>7
<1> QED BY <1>1, <1>2, <1>3, PTL DEF Spec, KeepsLiveInvoices

-----------------------------------------------------------------------------
(* Two quiet requests settle. *)

\* Whatever was to be compared is: a charge is added, or a line of it has the amount
\* or is to get it.  Nothing is compared without a charge and a line of an id.
LEMMA OutcomeCovers ==
    ASSUME NEW d, NEW L, NEW out \in Outcomes(d, L), ~out.thrown
    PROVE  \/ /\ out.add = {} /\ out.update = {}
              /\ DOMAIN d = {} \/ \A l \in L : l.field = Zero
           \/ \A c \in DOMAIN d :
                 \/ c \in out.add
                 \/ \E l \in L : l.field = c /\ (l.amount = d[c] \/ <<l, d[c]>> \in out.update)
<1> DEFINE all == DOMAIN d
           dirty == {l \in L : l.field \in {Null, Unreadable}}
           compared == {l \in L : l.field # Zero}
           Of(c) == {l \in L : l.field = c}
           matched == {c \in all : Of(c) # {}}
           Meets == {m \in [matched -> L] : \A c \in matched : m[c] \in Of(c)}
           Update(m) == {<<m[c], d[c]>> : c \in {e \in matched : m[e].amount # d[e]}}
           Add(m, head, first) ==
               IF first \in matched /\ m[first] = head THEN all \ {first} ELSE all
           Covers(o) == \A c \in DOMAIN d :
                 \/ c \in o.add
                 \/ \E l \in L : l.field = c /\ (l.amount = d[c] \/ <<l, d[c]>> \in o.update)
<1>1. CASE all = {} \/ compared = {}
    <2>1. out = Lists({}, {})
        BY <1>1 DEF Outcomes
    <2> QED BY <1>1, <2>1 DEF Lists
<1>2. ASSUME NEW m \in Meets, NEW h, NEW f, out = Lists(Add(m, h, f), Update(m))
      PROVE  Covers(out)
    <2>1. out.add = Add(m, h, f) /\ out.update = Update(m)
        BY <1>2 DEF Lists
    <2>2. ASSUME NEW c \in all, c \notin out.add
          PROVE  \E l \in L : l.field = c /\ (l.amount = d[c] \/ <<l, d[c]>> \in out.update)
        <3>1. c \in matched
            BY <2>1, <2>2
        <3>2. m[c] \in L /\ m[c].field = c
            BY <3>1
        <3>3. m[c].amount # d[c] => <<m[c], d[c]>> \in out.update
            BY <2>1, <3>1
        <3> QED BY <3>2, <3>3
    <2> QED BY <2>2
<1>3. CASE ~(all = {} \/ compared = {})
    <2>1. PICK p \in Meets \X (compared \ dirty) \X all :
              out = Lists(Add(p[1], p[2], p[3]), Update(p[1]))
        <3>1. out # Thrown
            BY DEF Thrown
        <3>2. out = Thrown \/ \E p \in Meets \X (compared \ dirty) \X all :
                                   out = Lists(Add(p[1], p[2], p[3]), Update(p[1]))
            BY <1>3 DEF Outcomes
        <3> QED BY <3>1, <3>2
    <2>2. p[1] \in Meets
        OBVIOUS
    <2>3. Covers(out)
        <3> HIDE DEF Meets, Add, Update, Covers
        <3> QED BY <1>2, <2>1, <2>2
    <2> QED BY <2>3
<1> QED BY <1>1, <1>3

Active(s) == pc[s] \notin Ended
NoStray == \A l \in lines : l.field \in DOMAIN charges
Settled == NoStray /\ Covered

\* A quiet request is the only one, and its table is what RenWeb has; while quiet
\* requests are being counted, what runs is quiet.
QuietAlone ==
    \A s \in Sessions : Active(s) =>
        /\ s \in quiet => Alone(s) /\ (pc[s] # "charges" => due[s] = charges)
        /\ clean >= 1 => s \in quiet

\* What a quiet request has still to do: a charge that has no line of its amount is on
\* a list, and what is on the lists is right.
InHand(s) ==
    /\ NoStray
    /\ \A u \in upd[s] :
          u[1] \in lines /\ u[1].field \in DOMAIN charges /\ u[2] = charges[u[1].field]
    /\ \A e \in add[s] \cup disc[s] : e.field \in DOMAIN charges
    /\ \A e \in add[s] : e.amount = charges[e.field]
    /\ \A c \in DOMAIN charges : charges[c] >= 0 =>
          \/ \E l \in lines : l.field = c /\ l.amount = charges[c]
          \/ \E u \in upd[s] : u[1].field = c
          \/ \E e \in add[s] : e.field = c

\* Where a quiet request is: the first one may empty QuickBooks and add nothing, after
\* which there is nothing to delete for the second.
Settling(s) ==
    /\ pc[s] \in {"charges", "lines"} /\ clean >= 1 => Settled \/ lines = {}
    /\ pc[s] = "delete" =>
          /\ \A l \in lines : l.field \notin DOMAIN charges => l \in del[s]
          /\ clean >= 1 => Settled /\ lines # {} /\ del[s] = {}
    /\ pc[s] \in {"update", "add", "discount"} =>
          \/ lines = {} /\ upd[s] = {} /\ add[s] = {} /\ disc[s] = {} /\ clean = 0
          \/ InHand(s)

Settles ==
    /\ clean = 2 => Settled
    /\ clean >= 1 /\ (\A s \in Sessions : ~Active(s)) => Settled \/ lines = {}
    /\ \A s \in quiet : Settling(s)

\* After a disturbance nothing is claimed.
LEMMA Disturbed ==
    ASSUME clean' = 0, \A t \in quiet' : pc'[t] \in Ended, TypeOK'
    PROVE  QuietAlone' /\ Settles'
    BY DEF QuietAlone, Settles, Settling, Active, Ended, TypeOK

LEMMA SessionFrame ==
    ASSUME TypeOK, NEW s \in Sessions, Session(s)
    PROVE  /\ pc[s] \notin Ended
           /\ \A t \in Sessions \ {s} : pc'[t] = pc[t] /\ due'[t] = due[t]
           /\ UNCHANGED rwVars
    BY DEF TypeOK, Session, RetrieveCharge, RetrieveNoLine, RetrieveInvoice, DeleteInvoice, Reread,
           UpdateInvoice, UpdateDone, InsertInvoice, InsertDone, AddDiscount, Return, Throw, Forget,
           Goto, Ended

LEMMA SettledStays ==
    ASSUME UNCHANGED <<lines, charges>>
    PROVE  /\ NoStray' <=> NoStray
           /\ Settled' <=> Settled
    BY DEF Settled, NoStray, Covered

\* A plan has all that was asked for.
LEMMA PlanLists ==
    ASSUME TypeOK, NEW s \in Sessions, NEW toAdd, NEW readAll,
           toAdd \subseteq DOMAIN due[s], Plan(s, toAdd, readAll)
    PROVE  /\ \A e \in add'[s] : e.field \in toAdd /\ e.amount = due[s][e.field]
           /\ \A e \in disc'[s] : e.field \in toAdd
           /\ \A c \in toAdd : due[s][c] >= 0 => \E e \in add'[s] : e.field = c
<1>1. PICK lost \in SUBSET toAdd :
        /\ add' = [add EXCEPT ![s] =
               {EntryFor(s, c, lost) : c \in {d \in toAdd : due[s][d] >= 0}}]
        /\ disc' = [disc EXCEPT ![s] =
               {EntryFor(s, c, lost) : c \in {d \in toAdd : due[s][d] < 0}}]
    BY DEF Plan
<1>2. /\ add'[s] = {EntryFor(s, c, lost) : c \in {d \in toAdd : due[s][d] >= 0}}
      /\ disc'[s] = {EntryFor(s, c, lost) : c \in {d \in toAdd : due[s][d] < 0}}
    BY <1>1 DEF TypeOK
<1>3. \A c \in toAdd : due[s][c] \in Int
    BY TableIs DEF TypeOK
<1>4. \A c \in toAdd : /\ EntryFor(s, c, lost).field = c
                       /\ due[s][c] >= 0 => EntryFor(s, c, lost).amount = due[s][c]
    BY <1>3 DEF EntryFor, Abs
<1> QED BY <1>2, <1>4

\* The invariants under which a quiet request is followed.
QuietInv == TypeOK /\ Ids /\ ListsFit /\ QuietAlone /\ Settles

LEMMA QuietRetrieveCharge ==
    ASSUME QuietInv, NEW s \in Sessions, s \in quiet, s \in quiet', RetrieveCharge(s)
    PROVE  Settling(s)' /\ (clean' = 2 => Settled') /\ due'[s] = charges
<1>1. PICK some \in Readable(DOMAIN charges) :
          /\ IF some = DOMAIN charges THEN Undisturbed ELSE Fault(s)
          /\ due' = [due EXCEPT ![s] = [c \in some |-> charges[c]]]
    BY DEF RetrieveCharge
<1>2. some = DOMAIN charges /\ UNCHANGED clean
    BY <1>1 DEF Fault, Undisturbed
<1>3. due'[s] = charges
    BY <1>1, <1>2, TableIs DEF QuietInv, TypeOK
<1>4. pc[s] = "charges" /\ pc'[s] = "lines" /\ UNCHANGED <<lines, charges>>
    BY DEF RetrieveCharge, QuietInv, TypeOK, Goto, rwVars, qbVars
<1>5. Settled' <=> Settled
    BY <1>4, SettledStays
<1> QED BY <1>2, <1>3, <1>4, <1>5 DEF QuietInv, Settles, Settling

LEMMA QuietRetrieveNoLine ==
    ASSUME QuietInv, NEW s \in Sessions, s \in quiet, s \in quiet', RetrieveNoLine(s)
    PROVE  Settling(s)' /\ (clean' = 2 => Settled')
<1>1. /\ Plan(s, DOMAIN due[s], lines = {})
      /\ pc[s] = "lines" /\ pc'[s] = "update" /\ UNCHANGED <<lines, charges, upd>>
    BY DEF RetrieveNoLine, QuietInv, TypeOK, Goto, rwVars, qbVars
<1>0. lines = {} /\ UNCHANGED clean
    BY <1>1 DEF Plan, Fault, Undisturbed
<1>2. /\ \A e \in add'[s] : e.field \in DOMAIN due[s] /\ e.amount = due[s][e.field]
      /\ \A e \in disc'[s] : e.field \in DOMAIN due[s]
      /\ \A c \in DOMAIN due[s] : due[s][c] >= 0 => \E e \in add'[s] : e.field = c
    <2>1. TypeOK
        BY DEF QuietInv
    <2>2. Plan(s, DOMAIN due[s], lines = {}) /\ DOMAIN due[s] \subseteq DOMAIN due[s]
        BY <1>1
    <2> QED BY <2>1, <2>2, PlanLists
<1>3. due[s] = charges /\ upd'[s] = {}
    BY <1>1 DEF QuietInv, QuietAlone, Active, Ended, ListsFit
<1>4. InHand(s)'
    BY <1>0, <1>1, <1>2, <1>3 DEF InHand, NoStray
<1>5. Settled' <=> Settled
    BY <1>1, SettledStays
<1> QED BY <1>0, <1>1, <1>4, <1>5 DEF QuietInv, Settles, Settling

LEMMA QuietRetrieveInvoice ==
    ASSUME QuietInv, NEW s \in Sessions, s \in quiet, s \in quiet', RetrieveInvoice(s)
    PROVE  Settling(s)' /\ (clean' = 2 => Settled')
<1>1. PICK some \in Readable(lines) \ {{}} :
          IF \E l \in some : l.field = Unreadable
          THEN Throw(s)
          ELSE /\ IF some = lines THEN Undisturbed ELSE Fault(s)
               /\ del' = [del EXCEPT ![s] = {l \in some : Stale(s, l)}]
               /\ Goto(s, "delete")
               /\ UNCHANGED <<due, upd, add, disc>>
    BY DEF RetrieveInvoice
<1>2. ~Throw(s)
    BY DEF Throw, Refused
<1>3. some = lines /\ UNCHANGED clean
    BY <1>1, <1>2 DEF Fault, Undisturbed
<1>4. pc[s] = "lines" /\ pc'[s] = "delete" /\ UNCHANGED <<lines, charges>>
    BY <1>1, <1>2 DEF RetrieveInvoice, QuietInv, TypeOK, Goto, rwVars, qbVars
<1>5. lines # {} /\ del'[s] = {l \in lines : Stale(s, l)}
    BY <1>1, <1>2, <1>3 DEF QuietInv, TypeOK
<1>6. due[s] = charges
    BY <1>4 DEF QuietInv, QuietAlone, Active, Ended
<1>7. \A l \in lines : l.field \notin DOMAIN charges => l \in del'[s]
    BY <1>5, <1>6 DEF Stale
<1>8. clean >= 1 => Settled /\ del'[s] = {}
    <2>1. clean >= 1 => Settled
        BY <1>4, <1>5 DEF QuietInv, Settles, Settling
    <2>2. Settled => del'[s] = {}
        BY <1>5, <1>6 DEF Stale, Settled, NoStray
    <2> QED BY <2>1, <2>2
<1>9. Settled' <=> Settled
    BY <1>4, SettledStays
<1> QED BY <1>3, <1>4, <1>5, <1>7, <1>8, <1>9 DEF QuietInv, Settles, Settling

LEMMA QuietDeleteInvoice ==
    ASSUME QuietInv, NEW s \in Sessions, s \in quiet, s \in quiet', DeleteInvoice(s)
    PROVE  Settling(s)' /\ (clean' = 2 => Settled')
<1>1. PICK l \in del[s] :
          /\ lines' = lines \ InvoiceLines(l.inv)
          /\ del' = [del EXCEPT ![s] = @ \ {l}]
          /\ UNCHANGED clean
    BY DEF DeleteInvoice, Refused, Fault, Undisturbed
<1>2. pc[s] = "delete" /\ UNCHANGED <<pc, charges>>
    BY DEF DeleteInvoice, rwVars
<1>3. clean = 0
    BY <1>1, <1>2 DEF QuietInv, Settles, Settling, TypeOK
<1>4. l \in lines => l \notin lines'
    BY <1>1 DEF InvoiceLines
<1>5. \A k \in lines' : k \in lines /\ k # l
    BY <1>1, <1>4
<1>6. del'[s] = del[s] \ {l}
    BY <1>1 DEF QuietInv, TypeOK
<1>7. \A k \in lines' : k.field \notin DOMAIN charges' => k \in del'[s]
    BY <1>2, <1>5, <1>6 DEF QuietInv, Settles, Settling
<1> QED BY <1>1, <1>2, <1>3, <1>7 DEF Settling

LEMMA QuietReread ==
    ASSUME QuietInv, NEW s \in Sessions, s \in quiet, s \in quiet', Reread(s)
    PROVE  Settling(s)' /\ (clean' = 2 => Settled')
<1>1. PICK some \in Readable(lines) : \E out \in Outcomes(due[s], some) :
          IF out.thrown
          THEN Throw(s)
          ELSE /\ Plan(s, out.add, some = lines)
               /\ upd' = [upd EXCEPT ![s] = out.update]
               /\ Goto(s, "update")
               /\ UNCHANGED <<due, del>>
    BY DEF Reread
<1>2. ~Throw(s)
    BY DEF Throw, Refused
<1>3. PICK out \in Outcomes(due[s], some) :
          /\ ~out.thrown
          /\ Plan(s, out.add, some = lines)
          /\ upd' = [upd EXCEPT ![s] = out.update]
          /\ Goto(s, "update")
    BY <1>1, <1>2
<1>4. /\ pc[s] = "delete" /\ pc'[s] = "update" /\ del[s] = {}
      /\ UNCHANGED <<lines, charges>>
    BY <1>3 DEF Reread, QuietInv, TypeOK, Goto, rwVars, qbVars
<1>5. due[s] = charges
    BY <1>4 DEF QuietInv, QuietAlone, Active, Ended
<1>6. NoStray
    BY <1>4 DEF QuietInv, Settles, Settling, NoStray
<1>7. out.add \subseteq DOMAIN due[s]
    BY <1>3, OutcomeLists
<1>8. some = lines /\ UNCHANGED clean
    BY <1>3 DEF Plan, Fault, Undisturbed
<1>9. /\ \A e \in add'[s] : e.field \in out.add /\ e.amount = charges[e.field]
      /\ \A e \in disc'[s] : e.field \in out.add
      /\ \A c \in out.add : charges[c] >= 0 => \E e \in add'[s] : e.field = c
    <2>1. TypeOK
        BY DEF QuietInv
    <2>2. Plan(s, out.add, some = lines) /\ out.add \subseteq DOMAIN due[s]
        BY <1>3, <1>7
    <2>3. /\ \A e \in add'[s] : e.field \in out.add /\ e.amount = due[s][e.field]
          /\ \A e \in disc'[s] : e.field \in out.add
          /\ \A c \in out.add : due[s][c] >= 0 => \E e \in add'[s] : e.field = c
        BY <2>1, <2>2, PlanLists
    <2> QED BY <1>5, <2>3
<1>10. upd'[s] = out.update
    BY <1>3 DEF QuietInv, TypeOK
<1>11. clean' = 2 => Settled'
    BY <1>4, <1>8, SettledStays DEF QuietInv, Settles
<1>12. CASE /\ out.add = {} /\ out.update = {}
            /\ DOMAIN charges = {} \/ \A l \in lines : l.field = Zero
    <2>1. lines = {}
        <3>1. Zero \notin DOMAIN charges
            BY TableIs DEF QuietInv, TypeOK
        <3> QED BY <1>6, <1>12, <3>1 DEF NoStray
    <2>2. clean = 0
        BY <1>4, <2>1 DEF QuietInv, Settles, Settling, TypeOK
    <2>3. upd'[s] = {} /\ add'[s] = {} /\ disc'[s] = {}
        BY <1>9, <1>10, <1>12
    <2> QED BY <1>4, <1>8, <1>11, <2>1, <2>2, <2>3 DEF Settling
<1>13. CASE \A c \in DOMAIN charges :
                \/ c \in out.add
                \/ \E l \in lines : l.field = c
                       /\ (l.amount = charges[c] \/ <<l, charges[c]>> \in out.update)
    <2>1. \A u \in upd'[s] : /\ u[1] \in lines /\ u[1].field \in DOMAIN charges
                             /\ u[2] = charges[u[1].field]
        BY <1>3, <1>5, <1>8, <1>10, OutcomeLists
    <2>2. \A c \in DOMAIN charges : charges[c] >= 0 =>
              \/ \E l \in lines : l.field = c /\ l.amount = charges[c]
              \/ \E u \in upd'[s] : u[1].field = c
              \/ \E e \in add'[s] : e.field = c
        <3>1. ASSUME NEW l \in lines, <<l, charges[l.field]>> \in out.update
              PROVE  \E u \in upd'[s] : u[1].field = l.field
            <4>1. <<l, charges[l.field]>>[1] = l /\ <<l, charges[l.field]>> \in upd'[s]
                BY <1>10, <3>1
            <4> QED BY <4>1
        <3>2. ASSUME NEW c \in DOMAIN charges, c \notin out.add
              PROVE  \/ \E l \in lines : l.field = c /\ l.amount = charges[c]
                     \/ \E u \in upd'[s] : u[1].field = c
            <4>1. PICK l \in lines : l.field = c
                      /\ (l.amount = charges[c] \/ <<l, charges[c]>> \in out.update)
                BY <1>13, <3>2
            <4> QED BY <3>1, <4>1
        <3> QED BY <1>9, <3>2
    <2>3. InHand(s)'
        BY <1>4, <1>5, <1>6, <1>7, <1>9, <2>1, <2>2 DEF InHand, NoStray
    <2> QED BY <1>4, <1>11, <2>3 DEF Settling
<1>14. \/ /\ out.add = {} /\ out.update = {}
          /\ DOMAIN due[s] = {} \/ \A l \in some : l.field = Zero
       \/ \A c \in DOMAIN due[s] :
             \/ c \in out.add
             \/ \E l \in some : l.field = c
                    /\ (l.amount = due[s][c] \/ <<l, due[s][c]>> \in out.update)
    <2>1. out \in Outcomes(due[s], some) /\ ~out.thrown
        BY <1>3
    <2> QED BY <2>1, OutcomeCovers
<1> QED BY <1>5, <1>8, <1>12, <1>13, <1>14

LEMMA QuietUpdateInvoice ==
    ASSUME QuietInv, NEW s \in Sessions, s \in quiet, s \in quiet', UpdateInvoice(s)
    PROVE  Settling(s)' /\ (clean' = 2 => Settled')
<1>1. PICK u \in upd[s] :
          /\ lines' = Amended(u)
          /\ upd' = [upd EXCEPT ![s] = @ \ {u}]
          /\ UNCHANGED clean
    BY DEF UpdateInvoice, Refused, Fault, Undisturbed
<1>2. pc[s] = "update" /\ UNCHANGED <<pc, charges, add, disc>>
    BY DEF UpdateInvoice, rwVars
<1>3. InHand(s)
    BY <1>2 DEF QuietInv, Settles, Settling
<1>4. /\ u[1] \in lines /\ u[1].field \in DOMAIN charges /\ u[2] = charges[u[1].field]
      /\ u = <<u[1], u[2]>>
    BY <1>3 DEF InHand, QuietInv, TypeOK
<1>5. \A l \in lines : l.id = u[1].id => l = u[1]
    BY <1>4 DEF QuietInv, Ids
<1>6. ASSUME NEW k \in lines'
      PROVE  \E l \in lines : k.field = l.field
    BY <1>1, <1>6, AmendedLine DEF QuietInv
<1>7. ASSUME NEW l \in lines, l # u[1]
      PROVE  l \in lines'
    BY <1>1, <1>5, <1>7 DEF Amended
<1>8. \E k \in lines' : k.field = u[1].field /\ k.amount = u[2]
    <2>1. u[1] \in Line
        BY <1>4 DEF QuietInv, TypeOK
    <2>2. [u[1] EXCEPT !.amount = u[2]] \in lines'
        BY <1>1, <1>4 DEF Amended
    <2>3. /\ [u[1] EXCEPT !.amount = u[2]].field = u[1].field
          /\ [u[1] EXCEPT !.amount = u[2]].amount = u[2]
        BY <2>1 DEF Line
    <2> QED BY <2>2, <2>3
<1>9. ASSUME NEW c \in DOMAIN charges, NEW l \in lines, l.field = c, l.amount = charges[c]
      PROVE  \E k \in lines' : k.field = c /\ k.amount = charges[c]
    BY <1>4, <1>7, <1>8, <1>9
<1>10. ASSUME Covered PROVE Covered'
    BY <1>2, <1>9, <1>10 DEF Covered
<1>11. ASSUME NoStray PROVE NoStray'
    BY <1>2, <1>6, <1>11 DEF NoStray
<1>12. clean' = 2 => Settled'
    BY <1>1, <1>10, <1>11 DEF QuietInv, Settles, Settled
<1>13. upd'[s] = upd[s] \ {u}
    BY <1>1 DEF QuietInv, TypeOK
<1>14. ASSUME NEW v \in upd'[s]
       PROVE  v[1] \in lines' /\ v[1].field \in DOMAIN charges /\ v[2] = charges[v[1].field]
    <2>1. /\ v[1] \in lines /\ v[1].field \in DOMAIN charges /\ v[2] = charges[v[1].field]
          /\ v = <<v[1], v[2]>> /\ v # u
        BY <1>3, <1>13, <1>14 DEF InHand, QuietInv, TypeOK
    <2>2. v[1] # u[1]
        BY <1>4, <2>1
    <2> QED BY <1>7, <2>1, <2>2
<1>15. ASSUME NEW c \in DOMAIN charges, charges[c] >= 0
       PROVE  \/ \E l \in lines' : l.field = c /\ l.amount = charges[c]
              \/ \E v \in upd'[s] : v[1].field = c
              \/ \E e \in add[s] : e.field = c
    <2>1. CASE \E l \in lines : l.field = c /\ l.amount = charges[c]
        BY <1>9, <2>1
    <2>2. CASE \E v \in upd[s] : v[1].field = c
        BY <1>4, <1>8, <1>13, <2>2
    <2>3. CASE \E e \in add[s] : e.field = c
        BY <2>3
    <2> QED BY <1>3, <1>15, <2>1, <2>2, <2>3 DEF InHand
<1>16. InHand(s)'
    BY <1>2, <1>3, <1>11, <1>14, <1>15 DEF InHand
<1> QED BY <1>2, <1>12, <1>16 DEF Settling

\* Adding lines of charges keeps QuickBooks settled.
LEMMA SettledGrows ==
    ASSUME UNCHANGED charges, lines \subseteq lines',
           \A k \in lines' \ lines : k.field \in DOMAIN charges
    PROVE  (NoStray => NoStray') /\ (Settled => Settled')
    BY DEF NoStray, Settled, Covered

LEMMA QuietInsertInvoice ==
    ASSUME QuietInv, NEW s \in Sessions, s \in quiet, s \in quiet', InsertInvoice(s)
    PROVE  Settling(s)' /\ (clean' = 2 => Settled')
<1>1. PICK e \in add[s] :
          /\ NewInvoice(e)
          /\ add' = [add EXCEPT ![s] = @ \ {e}]
          /\ UNCHANGED clean
    BY DEF InsertInvoice, Refused, Fault, Undisturbed
<1>2. pc[s] = "add" /\ UNCHANGED <<pc, charges, upd, disc>>
    BY DEF InsertInvoice, rwVars
<1>3. InHand(s)
    BY <1>2 DEF QuietInv, Settles, Settling
<1> DEFINE row == [id |-> nextId, inv |-> nextId, cust |-> e.cust,
                   date |-> DateOf[e.field], field |-> e.field, amount |-> e.amount]
<1>4. lines' = lines \cup {row}
    BY <1>1 DEF NewInvoice
<1>5. row.field = e.field /\ row.amount = e.amount
    OBVIOUS
<1> HIDE DEF row
<1>6. e.field \in DOMAIN charges /\ e.amount = charges[e.field]
    BY <1>3 DEF InHand
<1>7. (NoStray => NoStray') /\ (Settled => Settled')
    BY <1>2, <1>4, <1>5, <1>6, SettledGrows
<1>8. add'[s] = add[s] \ {e} /\ upd[s] = {}
    BY <1>1, <1>2 DEF QuietInv, TypeOK, ListsFit
<1>9. ASSUME NEW c \in DOMAIN charges, charges[c] >= 0
      PROVE  \/ \E l \in lines' : l.field = c /\ l.amount = charges[c]
             \/ \E d \in add'[s] : d.field = c
    <2>1. CASE \E l \in lines : l.field = c /\ l.amount = charges[c]
        BY <1>4, <2>1
    <2>2. CASE \E d \in add[s] : d.field = c
        BY <1>4, <1>5, <1>6, <1>8, <2>2
    <2> QED BY <1>3, <1>8, <1>9, <2>1, <2>2 DEF InHand
<1>10. InHand(s)'
    BY <1>2, <1>3, <1>7, <1>8, <1>9 DEF InHand
<1> QED BY <1>1, <1>2, <1>7, <1>10 DEF QuietInv, Settles, Settling

LEMMA QuietAddDiscount ==
    ASSUME QuietInv, NEW s \in Sessions, s \in quiet, s \in quiet', AddDiscount(s)
    PROVE  Settling(s)' /\ (clean' = 2 => Settled')
<1>1. PICK e \in disc[s] :
          \E hit \in Readable(Discounted(e)) \cup {{l} : l \in Discounted(e)} :
              /\ lines' = lines \cup {DiscountLine(e, l, hit) : l \in hit}
              /\ disc' = [disc EXCEPT ![s] = @ \ {e}] \/ disc' = [disc EXCEPT ![s] = {}]
              /\ UNCHANGED clean
    BY DEF AddDiscount, Fault, Undisturbed
<1>2. PICK hit : /\ lines' = lines \cup {DiscountLine(e, l, hit) : l \in hit}
                 /\ disc' = [disc EXCEPT ![s] = @ \ {e}] \/ disc' = [disc EXCEPT ![s] = {}]
                 /\ UNCHANGED clean
    BY <1>1
<1>3. pc[s] = "discount" /\ UNCHANGED <<pc, charges, upd, add>>
    BY DEF AddDiscount, rwVars
<1>4. InHand(s)
    BY <1>3 DEF QuietInv, Settles, Settling
<1>5. e.field \in DOMAIN charges /\ \A l \in hit : DiscountLine(e, l, hit).field = e.field
    BY <1>4 DEF InHand, DiscountLine
<1>6. (NoStray => NoStray') /\ (Settled => Settled')
    BY <1>2, <1>3, <1>5, SettledGrows
<1>7. disc'[s] \subseteq disc[s] /\ upd[s] = {} /\ add[s] = {}
    BY <1>2, <1>3 DEF QuietInv, TypeOK, ListsFit
<1>8. InHand(s)'
    BY <1>2, <1>3, <1>4, <1>6, <1>7 DEF InHand
<1> QED BY <1>2, <1>3, <1>6, <1>8 DEF QuietInv, Settles, Settling

LEMMA QuietDone ==
    ASSUME QuietInv, NEW s \in Sessions, s \in quiet, UpdateDone(s) \/ InsertDone(s)
    PROVE  Settling(s)' /\ (clean' = 2 => Settled')
<1>1. /\ pc[s] \in {"update", "add"} /\ pc'[s] \in {"add", "discount"}
      /\ UNCHANGED <<lines, charges, upd, add, disc, clean>>
    BY DEF UpdateDone, InsertDone, Goto, QuietInv, TypeOK, rwVars, qbVars, lists, history
<1>2. InHand(s) => InHand(s)'
    BY <1>1 DEF InHand, NoStray
<1>3. Settled' <=> Settled
    BY <1>1, SettledStays
<1> QED BY <1>1, <1>2, <1>3 DEF QuietInv, Settles, Settling

\* A quiet request that returns leaves QuickBooks settled, or it has emptied it.
LEMMA QuietReturn ==
    ASSUME QuietInv, NEW s \in Sessions, s \in quiet, Return(s)
    PROVE  /\ pc'[s] = "done"
           /\ clean' = 2 => Settled'
           /\ clean' >= 1 => Settled' \/ lines' = {}
<1>1. /\ pc[s] = "discount" /\ disc[s] = {} /\ UNCHANGED <<lines, charges>>
      /\ pc'[s] = "done" /\ clean' = Capped(clean + 1)
    BY DEF Return, Goto, QuietInv, TypeOK, rwVars, qbVars
<1>2. upd[s] = {} /\ add[s] = {}
    BY <1>1 DEF QuietInv, ListsFit
<1>3. Settled' <=> Settled
    BY <1>1, SettledStays
<1>4. CASE lines = {} /\ clean = 0
    BY <1>1, <1>4 DEF Capped
<1>5. CASE InHand(s)
    <2>1. Settled
        BY <1>2, <1>5 DEF InHand, Settled, Covered
    <2> QED BY <1>1, <1>3, <2>1
<1> QED BY <1>1, <1>4, <1>5 DEF QuietInv, Settles, Settling

LEMMA QuietStep ==
    ASSUME QuietInv, NEW s \in Sessions, s \in quiet, s \in quiet', Session(s)
    PROVE  /\ clean' = 2 => Settled'
           /\ \/ Settling(s)' /\ pc'[s] \notin Ended /\ (pc'[s] # "charges" => due'[s] = charges)
              \/ pc'[s] = "done" /\ (clean' >= 1 => Settled' \/ lines' = {})
<1>1. CASE Return(s)
    BY <1>1, QuietReturn
<1>2. CASE RetrieveCharge(s)
    BY <1>2, QuietRetrieveCharge DEF RetrieveCharge, Goto, Ended, QuietInv, TypeOK
<1>3. CASE ~Return(s) /\ ~RetrieveCharge(s)
    <2>1. ~Throw(s)
        BY DEF Throw, Refused
    <2>2. pc[s] \notin Ended \cup {"charges"} /\ pc'[s] \notin Ended /\ due'[s] = due[s]
        BY <1>3, <2>1
           DEF Session, RetrieveNoLine, RetrieveInvoice, DeleteInvoice, Reread, UpdateInvoice,
               UpdateDone, InsertInvoice, InsertDone, AddDiscount, Goto, Ended, QuietInv, TypeOK
    <2>3. due[s] = charges
        BY <2>2 DEF QuietInv, QuietAlone, Active
    <2>4. Settling(s)' /\ (clean' = 2 => Settled')
        BY <1>3, QuietRetrieveNoLine, QuietRetrieveInvoice, QuietDeleteInvoice, QuietReread,
           QuietUpdateInvoice, QuietInsertInvoice, QuietAddDiscount, QuietDone DEF Session
    <2> QED BY <2>2, <2>3, <2>4
<1> QED BY <1>1, <1>2, <1>3

LEMMA SettlesSession ==
    ASSUME QuietInv, TypeOK', NEW s \in Sessions, Session(s)
    PROVE  QuietAlone' /\ Settles'
<1>0. TypeOK
    BY DEF QuietInv
<1>1. /\ pc[s] \notin Ended /\ UNCHANGED <<charges, retired, linked>>
      /\ \A t \in Sessions \ {s} : pc'[t] = pc[t] /\ due'[t] = due[t]
    BY <1>0, SessionFrame DEF rwVars
<1>2. \A t \in quiet \ {s} : pc[t] \in Ended
    BY <1>0, <1>1 DEF QuietInv, QuietAlone, Active, Alone, TypeOK
<1>3. CASE s \notin quiet'
    <2>1. clean' = 0
        <3>1. CASE UNCHANGED quiet
            <4>1. clean = 0
                BY <1>0, <1>1, <1>3, <3>1 DEF QuietInv, QuietAlone, Active, TypeOK
            <4>2. Return(s) => clean' = 0
                BY <1>3, <3>1 DEF Return
            <4> QED BY <4>1, <4>2, SessionHistory
        <3>2. CASE ~UNCHANGED quiet
            BY <3>2, SessionHistory
        <3> QED BY <3>1, <3>2
    <2>2. quiet' \subseteq quiet \ {s}
        BY <1>3, SessionHistory
    <2>3. \A t \in quiet' : pc'[t] \in Ended
        BY <1>0, <1>1, <1>2, <2>2 DEF TypeOK
    <2> QED BY <2>1, <2>3, Disturbed
<1>4. CASE s \in quiet'
    <2>1. UNCHANGED quiet
        BY <1>4, SessionHistory
    <2>2. s \in quiet /\ \A t \in Sessions \ {s} : pc'[t] \in Ended
        BY <1>1, <1>4, <2>1 DEF QuietInv, QuietAlone, Active, Alone
    <2>3. /\ clean' = 2 => Settled'
          /\ \/ Settling(s)' /\ pc'[s] \notin Ended /\ (pc'[s] # "charges" => due'[s] = charges)
             \/ pc'[s] = "done" /\ (clean' >= 1 => Settled' \/ lines' = {})
        BY <1>4, <2>2, QuietStep
    <2>4. QuietAlone'
        BY <1>1, <1>4, <2>2, <2>3 DEF QuietAlone, Active, Alone, Ended
    <2>5. \A t \in Sessions : pc'[t] \in Ended => Settling(t)'
        BY DEF Settling, Ended
    <2>6. \A t \in quiet' : Settling(t)'
        BY <1>0, <2>1, <2>2, <2>3, <2>5 DEF Ended, TypeOK
    <2>7. clean' >= 1 /\ (\A t \in Sessions : pc'[t] \in Ended) => Settled' \/ lines' = {}
        BY <2>3
    <2> QED BY <2>3, <2>4, <2>6, <2>7 DEF Settles, Active
<1> QED BY <1>3, <1>4

LEMMA SettlesStep ==
    ASSUME QuietInv, [Next]_vars
    PROVE  QuietInv'
<1>0. TypeOK /\ Ids /\ ListsFit /\ QuietAlone /\ Settles
    BY DEF QuietInv
<1>1. TypeOK' /\ Ids' /\ ListsFit'
    BY <1>0, TypeStep, IdsStep, ListsFitStep
<1>2. CASE Users
    <2>1. quiet' = {} /\ clean' = 0
        BY <1>2 DEF Users, EditCharge, RemoveCharge, LinkFamily, BookkeeperInvoices, Edit
    <2> QED BY <1>1, <2>1, Disturbed DEF QuietInv
<1>3. ASSUME NEW s \in Sessions, Session(s)
      PROVE  QuietInv'
    BY <1>1, <1>3, SettlesSession DEF QuietInv
<1>4. ASSUME NEW s \in Sessions, Abort(s)
      PROVE  QuietInv'
    <2>1. clean' = 0 /\ quiet' = quiet \ {s} /\ pc[s] \notin Ended
        BY <1>4 DEF Abort, Fault
    <2>2. \A t \in quiet \ {s} : pc[t] \in Ended /\ pc'[t] = pc[t]
        BY <1>0, <1>4, <2>1 DEF QuietAlone, Active, Alone, Abort, Goto, TypeOK
    <2> QED BY <1>1, <2>1, <2>2, Disturbed DEF QuietInv
<1>5. ASSUME NEW s \in Sessions, Start(s)
      PROVE  QuietInv'
    <2>1. /\ pc'[s] = "charges" /\ \A t \in Sessions \ {s} : pc'[t] = pc[t]
          /\ pc[s] \in Ended /\ UNCHANGED <<charges, lines, due>>
        BY <1>0, <1>5 DEF Start, Goto, rwVars, qbVars, TypeOK
    <2>2. CASE ~Alone(s)
        <3>1. clean' = 0 /\ quiet' = {}
            BY <1>5, <2>2 DEF Start
        <3> QED BY <1>1, <3>1, Disturbed DEF QuietInv
    <2>3. CASE Alone(s)
        <3>1. UNCHANGED clean /\ quiet' = {s}
            BY <1>5, <2>3 DEF Start
        <3>2. \A t \in Sessions : pc[t] \in Ended
            BY <2>1, <2>3 DEF Alone
        <3>3. QuietAlone'
            BY <2>1, <3>1, <3>2 DEF QuietAlone, Active, Alone, Ended
        <3>4. Settled' <=> Settled
            BY <2>1, SettledStays
        <3>5. /\ clean >= 1 => Settled \/ lines = {}
              /\ clean = 2 => Settled
            BY <1>0, <3>2 DEF Settles, Active
        <3>6. Settling(s)'
            BY <2>1, <3>1, <3>4, <3>5 DEF Settling
        <3>7. ~(\A t \in Sessions : ~Active(t)')
            BY <2>1 DEF Active, Ended
        <3> QED BY <1>1, <3>1, <3>3, <3>4, <3>5, <3>6, <3>7 DEF QuietInv, Settles
    <2> QED BY <2>2, <2>3
<1>6. CASE UNCHANGED vars
    <2>1. /\ UNCHANGED <<charges, lines, pc, due, del, upd, add, disc, quiet, clean>>
        BY <1>6 DEF vars, rwVars, qbVars, lists, history
    <2>2. QuietAlone'
        BY <1>0, <2>1 DEF QuietAlone, Active, Alone
    <2>3. (Settled' <=> Settled) /\ (\A s \in Sessions : Active(s)' <=> Active(s))
        BY <2>1, SettledStays DEF Active
    <2>4. \A s \in quiet : Settling(s) => Settling(s)'
        BY <2>1, <2>3 DEF Settling, InHand, NoStray
    <2> QED BY <1>0, <1>1, <2>1, <2>2, <2>3, <2>4 DEF QuietInv, Settles
<1> QED BY <1>2, <1>3, <1>4, <1>5, <1>6 DEF Next

\* After two requests in a row that nothing disturbs, every charge is billed with its
\* amount and no other line is left, from whatever failures, edits and overlapping
\* requests left behind (InvoiceSync.java:101, 128-160).
THEOREM TwoQuietRequestsSettle == Spec => []TwoRunsSettle
<1>1. Init => QuietInv
    <2> SUFFICES ASSUME Init PROVE QuietInv
        OBVIOUS
    <2>1. ListsFit
        BY DEF Init, ListsFit
    <2>2. \A s \in Sessions : ~Active(s)
        BY DEF Init, Active, Ended
    <2>3. QuietAlone /\ Settles
        BY <2>2 DEF Init, QuietAlone, Settles
    <2> QED BY <2>1, <2>3, TypeInit DEF QuietInv
<1>2. QuietInv /\ [Next]_vars => QuietInv'
    BY SettlesStep
<1>3. QuietInv => TwoRunsSettle
    BY DEF QuietInv, Settles, Settled, NoStray, TwoRunsSettle
<1> QED BY <1>1, <1>2, <1>3, PTL DEF Spec
=============================================================================
