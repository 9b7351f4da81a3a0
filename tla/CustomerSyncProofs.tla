-------------------------- MODULE CustomerSyncProofs --------------------------
(***************************************************************************)
(* Proofs about CustomerSync, for any sets of sessions, administrators,    *)
(* families and names and any number of failures: type correctness, that   *)
(* a synchronised link is to the customer made for the family, and that    *)
(* the synchronisation implements FamilyLinks.  The last two need that no  *)
(* job bears a name (JobNames = {}): without it the run customer_jobs is a *)
(* counterexample.                                                         *)
(***************************************************************************)
EXTENDS CustomerSync, SequenceTheorems, FiniteSetTheorems, TLAPS

USE FamiliesAssumption

-----------------------------------------------------------------------------
(* The ids a name selects. *)

\* An ordering of a finite set is a sequence of its elements.
LEMMA OrderingIsSequence ==
    ASSUME NEW S, IsFiniteSet(S), NEW q \in Orderings(S)
    PROVE  /\ q \in Seq(S)
           /\ Len(q) = Cardinality(S)
<1>1. Cardinality(S) \in Nat
    BY FS_CardinalityType
<1>2. q \in [1..Cardinality(S) -> S]
    BY DEF Orderings
<1>3. q \in Seq(S)
    BY <1>1, <1>2, SeqDef
<1>4. DOMAIN q = 1..Len(q) /\ Len(q) \in Nat
    BY <1>3, LenProperties
<1>5. 1..Len(q) = 1..Cardinality(S)
    BY <1>2, <1>4
<1>6. Len(q) = Cardinality(S)
    BY <1>1, <1>4, <1>5
<1> QED BY <1>3, <1>6

\* The ids a name selects are indices of QuickBooks' customers.
LEMMA NamedAreCustomers ==
    ASSUME customers \in Seq(Customer), NEW n
    PROVE  /\ Named(n) \subseteq 1..Len(customers)
           /\ Named(n) \subseteq Nat
           /\ IsFiniteSet(Named(n))
<1>1. DOMAIN customers = 1..Len(customers) /\ Len(customers) \in Nat
    BY LenProperties
<1>2. Named(n) \subseteq 1..Len(customers)
    BY <1>1 DEF Named
<1>3. IsFiniteSet(1..Len(customers))
    BY <1>1, FS_Interval
<1> QED BY <1>1, <1>2, <1>3, FS_Subset

-----------------------------------------------------------------------------
(* Type correctness. *)

LEMMA TypeInit == Init => TypeOK
    BY DEF Init, TypeOK, Ended

LEMMA TypeSelectIds ==
    ASSUME TypeOK, NEW s \in Sessions, SelectIds(s)
    PROVE  TypeOK'
<1> DEFINE matches == Named(NameOf[new[s][at[s]]])
<1>1. matches \subseteq Nat /\ IsFiniteSet(matches)
    BY NamedAreCustomers DEF TypeOK
<1>2. PICK found \in Orderings(matches) : SelectsIds(s, found)
    BY DEF SelectIds
<1>3. found \in Seq(Nat)
    BY <1>1, OrderingIsSequence, SeqMonotonic
<1>4. \A n \in 0..Len(found) : SubSeq(found, 1, n) \in Seq(Nat)
    BY <1>3
<1>5. CASE SelectsAll(s, found)
    BY <1>3, <1>5 DEF SelectsAll, TypeOK, SelectIds, Goto, Healthy
<1>6. CASE SelectsSome(s, found)
    <2>1. PICK n \in 0..Len(found) :
              ids' = [ids EXCEPT ![s] = @ \o SubSeq(found, 1, n)]
        BY <1>6 DEF SelectsSome
    <2>2. ids' \in [Sessions -> Seq(Nat)]
        BY <1>4, <2>1 DEF TypeOK
    <2> QED BY <1>6, <2>2 DEF SelectsSome, TypeOK, SelectIds, Goto, Fault
<1> QED BY <1>2, <1>5, <1>6 DEF SelectsIds

LEMMA TypeStep == TypeOK /\ [Next]_vars => TypeOK'
<1> SUFFICES ASSUME TypeOK, [Next]_vars PROVE TypeOK'
    OBVIOUS
<1>1. ASSUME NEW s \in Sessions, Start(s) PROVE TypeOK'
    BY <1>1 DEF TypeOK, Start, Goto, Ended
<1>2. ASSUME NEW s \in Sessions, RetrieveFamily(s) PROVE TypeOK'
    BY <1>2 DEF TypeOK, RetrieveFamily, Goto, Healthy, Fault, Ended
<1>3. ASSUME NEW s \in Sessions, CheckMapping(s) PROVE TypeOK'
    <2>1. PICK f \in rest[s] :
              /\ rest' = [rest EXCEPT ![s] = @ \ {f}]
              /\ \/ Linked(f) /\ Healthy /\ UNCHANGED new
                 \/ /\ (~Linked(f) /\ Healthy) \/ Fault(s)
                    /\ new' = [new EXCEPT ![s] = Append(@, f)]
        BY <1>3 DEF CheckMapping
    <2>2. new' \in [Sessions -> Seq(Families)]
        <3>1. f \in Families
            BY <2>1 DEF TypeOK
        <3>2. CASE UNCHANGED new
            BY <3>2 DEF TypeOK
        <3>3. CASE new' = [new EXCEPT ![s] = Append(@, f)]
            BY <3>1, <3>3 DEF TypeOK
        <3> QED BY <2>1, <3>2, <3>3
    <2>3. rest' \in [Sessions -> SUBSET Families]
        BY <2>1 DEF TypeOK
    <2>4. failed' \subseteq Sessions /\ faults' \in 0..MaxFaults
        BY <2>1 DEF TypeOK, Healthy, Fault
    <2> QED BY <1>3, <2>2, <2>3, <2>4 DEF TypeOK, CheckMapping
<1>4. ASSUME NEW s \in Sessions, CheckDone(s) PROVE TypeOK'
    BY <1>4 DEF TypeOK, CheckDone, Goto, Ended
<1>5. ASSUME NEW s \in Sessions, InsertName(s) PROVE TypeOK'
    BY <1>5 DEF TypeOK, InsertName, AddCustomer, Customer, Goto, Ended
<1>6. ASSUME NEW s \in Sessions, InsertStops(s) PROVE TypeOK'
    <2>1. customers' \in Seq(Customer)
        <3>1. new[s][at[s]] \in Families
            BY <1>6 DEF TypeOK, InsertStops
        <3>2. CASE UNCHANGED customers
            BY <3>2 DEF TypeOK
        <3>3. CASE AddCustomer(new[s][at[s]])
            BY <3>1, <3>3 DEF TypeOK, AddCustomer, Customer
        <3> QED BY <1>6, <3>2, <3>3 DEF InsertStops
    <2> QED BY <1>6, <2>1 DEF TypeOK, InsertStops, Goto, Healthy, Fault, Ended
<1>7. ASSUME NEW s \in Sessions, InsertDone(s) PROVE TypeOK'
    BY <1>7 DEF TypeOK, InsertDone, Goto, Ended
<1>8. ASSUME NEW s \in Sessions, SelectIds(s) PROVE TypeOK'
    BY <1>8, TypeSelectIds
<1>9. ASSUME NEW s \in Sessions, UpdateLog(s) PROVE TypeOK'
    BY <1>9 DEF TypeOK, UpdateLog, Goto, Healthy, Fault, Ended
<1>10. ASSUME NEW s \in Sessions, InsertMapping(s) PROVE TypeOK'
    BY <1>10 DEF TypeOK, InsertMapping, PairsRow, AddRow, Row
<1>11. ASSUME NEW s \in Sessions, Return(s) PROVE TypeOK'
    <2>1. mapping' \subseteq Row
        <3>1. CASE UNCHANGED mapping
            BY <3>1 DEF TypeOK
        <3>2. CASE PairsRow(s)
            BY <3>2 DEF TypeOK, PairsRow, AddRow, Row
        <3> QED BY <1>11, <3>1, <3>2 DEF Return
    <2> QED BY <1>11, <2>1 DEF TypeOK, Return, Leave, Goto, Healthy, Fault, Ended
<1>12. ASSUME NEW s \in Sessions, MissingId(s) PROVE TypeOK'
    BY <1>12 DEF TypeOK, MissingId, Leave, Goto, Ended
<1>13. ASSUME NEW s \in Sessions, Abort(s) PROVE TypeOK'
    BY <1>13 DEF TypeOK, Abort, Leave, Goto, Fault, Ended
<1>14. ASSUME NEW a \in Admins, OpenPage(a) PROVE TypeOK'
    BY <1>14, LenProperties DEF TypeOK, OpenPage, localVars
<1>15. ASSUME NEW a \in Admins, MapCustomer(a) PROVE TypeOK'
    BY <1>15 DEF TypeOK, MapCustomer, AddRow, Row, localVars
<1>16. ASSUME NEW f \in Families, NewFamily(f) PROVE TypeOK'
    BY <1>16 DEF TypeOK, NewFamily, localVars
<1>17. ASSUME NEW n \in Names, NEW job \in BOOLEAN, BookkeeperAdds(n, job) PROVE TypeOK'
    BY <1>17 DEF TypeOK, BookkeeperAdds, Customer, localVars
<1>18. ASSUME UNCHANGED vars PROVE TypeOK'
    BY <1>18 DEF TypeOK, vars
<1> QED
    BY <1>1, <1>2, <1>3, <1>4, <1>5, <1>6, <1>7, <1>8, <1>9, <1>10, <1>11, <1>12,
       <1>13, <1>14, <1>15, <1>16, <1>17, <1>18 DEF Next, Session

\* Every variable keeps its type: in particular no session ever uses an index
\* below the first element of its lists.
THEOREM TypeCorrect == Spec => []TypeOK
<1> QED BY TypeInit, TypeStep, PTL DEF Spec

-----------------------------------------------------------------------------
(* The customers QuickBooks holds. *)

\* A step leaves the customers alone or appends one.
LEMMA CustomersStep ==
    ASSUME TypeOK, [Next]_vars
    PROVE  \/ UNCHANGED customers
           \/ \E f \in Families : AddCustomer(f)
           \/ \E n \in Names, job \in BOOLEAN : BookkeeperAdds(n, job)
<1>1. ASSUME NEW s \in Sessions, Start(s) \/ Session(s) \/ Abort(s)
      PROVE  UNCHANGED customers \/ \E f \in Families : AddCustomer(f)
    <2>1. CASE InsertName(s)
        BY <2>1 DEF InsertName, TypeOK
    <2>2. CASE InsertStops(s)
        BY <2>2 DEF InsertStops, TypeOK
    <2>3. CASE Start(s) \/ RetrieveFamily(s) \/ CheckMapping(s) \/ CheckDone(s)
               \/ InsertDone(s) \/ SelectIds(s) \/ UpdateLog(s)
        BY <2>3 DEF Start, RetrieveFamily, CheckMapping, CheckDone, InsertDone,
                    SelectIds, UpdateLog
    <2>4. CASE InsertMapping(s) \/ Return(s) \/ MissingId(s) \/ Abort(s)
        BY <2>4 DEF InsertMapping, Return, MissingId, Abort
    <2> QED BY <1>1, <2>1, <2>2, <2>3, <2>4 DEF Session
<1>2. ASSUME NEW a \in Admins, OpenPage(a) \/ MapCustomer(a)
      PROVE  UNCHANGED customers
    BY <1>2 DEF OpenPage, MapCustomer
<1>3. ASSUME NEW f \in Families, NewFamily(f) PROVE UNCHANGED customers
    BY <1>3 DEF NewFamily
<1>4. CASE UNCHANGED vars
    BY <1>4 DEF vars
<1> QED BY <1>1, <1>2, <1>3, <1>4 DEF Next

\* What QuickBooks appends is a customer whose name was free, where no job
\* bears a name.
LEMMA CustomersAppend ==
    ASSUME JobNames = {}, TypeOK, [Next]_vars, customers' # customers
    PROVE  \E n \in Names, f \in Families \cup {None} :
              /\ ~NameTaken(n)
              /\ f # None => n = NameOf[f]
              /\ customers' = Append(customers, [name |-> n, job |-> FALSE, madeFor |-> f])
<1>1. CASE \E f \in Families : AddCustomer(f)
    BY <1>1 DEF AddCustomer
<1>2. CASE \E n \in Names, job \in BOOLEAN : BookkeeperAdds(n, job)
    BY <1>2 DEF BookkeeperAdds
<1> QED BY <1>1, <1>2, CustomersStep

\* A customer is never withdrawn, renamed or given another ID.
LEMMA CustomersGrow ==
    ASSUME JobNames = {}, TypeOK, [Next]_vars
    PROVE  \A c \in DOMAIN customers :
              c \in DOMAIN customers' /\ customers'[c] = customers[c]
<1>1. CASE customers' = customers
    BY <1>1
<1>2. CASE customers' # customers
    <2>1. PICK n \in Names, f \in Families \cup {None} :
              customers' = Append(customers, [name |-> n, job |-> FALSE, madeFor |-> f])
        BY <1>2, CustomersAppend
    <2>2. [name |-> n, job |-> FALSE, madeFor |-> f] \in Customer
        BY DEF Customer
    <2> QED BY <2>1, <2>2 DEF TypeOK
<1> QED BY <1>1, <1>2

LEMMA NamesIdentifyStep ==
    ASSUME JobNames = {}, TypeOK, NamesIdentify, [Next]_vars
    PROVE  NamesIdentify'
<1>1. CASE customers' = customers
    BY <1>1 DEF NamesIdentify
<1>2. CASE customers' # customers
    <2>1. PICK n \in Names, f \in Families \cup {None} :
              /\ ~NameTaken(n)
              /\ f # None => n = NameOf[f]
              /\ customers' = Append(customers, [name |-> n, job |-> FALSE, madeFor |-> f])
        BY <1>2, CustomersAppend
    <2> DEFINE added == [name |-> n, job |-> FALSE, madeFor |-> f]
    <2>2. added \in Customer
        BY DEF Customer
    <2>3. /\ DOMAIN customers = 1..Len(customers)
          /\ DOMAIN customers' = 1..(Len(customers) + 1)
          /\ customers'[Len(customers) + 1] = added
          /\ \A c \in 1..Len(customers) : customers'[c] = customers[c]
          /\ Len(customers) \in Nat
        BY <2>1, <2>2 DEF TypeOK
    <2>4. \A c \in DOMAIN customers : customers[c].name # n
        BY <2>1 DEF NameTaken, NamesIdentify
    <2>5. ASSUME NEW c \in DOMAIN customers'
          PROVE  /\ ~customers'[c].job
                 /\ customers'[c].madeFor # None
                        => customers'[c].name = NameOf[customers'[c].madeFor]
        <3>1. CASE c \in 1..Len(customers)
            BY <2>3, <3>1 DEF NamesIdentify
        <3>2. CASE c = Len(customers) + 1
            BY <2>1, <2>3, <3>2
        <3> QED BY <2>3, <3>1, <3>2
    <2>6. ASSUME NEW c \in DOMAIN customers', NEW d \in DOMAIN customers',
                 customers'[c].name = customers'[d].name
          PROVE  c = d
        <3>1. CASE c \in 1..Len(customers) /\ d \in 1..Len(customers)
            BY <2>3, <2>6, <3>1 DEF NamesIdentify
        <3>2. CASE c = Len(customers) + 1 \/ d = Len(customers) + 1
            BY <2>3, <2>4, <2>6, <3>2
        <3> QED BY <2>3, <3>1, <3>2
    <2> QED BY <2>5, <2>6 DEF NamesIdentify
<1> QED BY <1>1, <1>2

-----------------------------------------------------------------------------
(* The lists of a session. *)

SessionInv(s) == IdsAligned(s) /\ LoopAligned(s)

\* A session that does not move keeps its invariant while customers are added.
LEMMA SessionInvKept ==
    ASSUME JobNames = {}, TypeOK, [Next]_vars, NEW s \in Sessions, SessionInv(s),
           pc'[s] = pc[s], ids'[s] = ids[s], new'[s] = new[s], at'[s] = at[s]
    PROVE  SessionInv(s)'
<1>1. \A c \in DOMAIN customers :
          c \in DOMAIN customers' /\ customers'[c] = customers[c]
    BY CustomersGrow
<1>2. IdsAligned(s)'
    BY <1>1 DEF SessionInv, IdsAligned
<1>3. LoopAligned(s)'
    BY <1>1 DEF SessionInv, LoopAligned
<1> QED BY <1>2, <1>3 DEF SessionInv

\* A session with no ids that is before or after its loop over newcustomer.
LEMMA SessionInvEmpty ==
    ASSUME NEW s \in Sessions, ids'[s] = <<>>,
           pc'[s] \in Ended \cup {"retrieve", "check"}
    PROVE  SessionInv(s)'
    BY DEF SessionInv, IdsAligned, LoopAligned, Ended

\* Where names identify customers, the name of the family at hand selects the
\* one customer just made for it.
LEMMA SelectsOne ==
    ASSUME TypeOK, NamesIdentify, NEW s \in Sessions, SessionInv(s), pc[s] = "select",
           NEW found \in Orderings(Named(NameOf[new[s][at[s]]]))
    PROVE  /\ found \in Seq(Nat)
           /\ Len(found) = 1
           /\ found[1] \in DOMAIN customers
           /\ customers[found[1]].madeFor = new[s][at[s]]
<1> DEFINE n == NameOf[new[s][at[s]]]
<1>1. PICK c \in DOMAIN customers :
          customers[c].name = n /\ customers[c].madeFor = new[s][at[s]]
    BY DEF SessionInv, LoopAligned
<1>2. Named(n) = {c}
    BY <1>1 DEF Named, NamesIdentify
<1>3. Cardinality(Named(n)) = 1 /\ IsFiniteSet(Named(n))
    BY <1>2, FS_Singleton
<1>4. found \in Seq(Named(n)) /\ Len(found) = 1
    BY <1>3, OrderingIsSequence
<1>5. Named(n) \subseteq Nat
    BY NamedAreCustomers DEF TypeOK
<1>6. found \in Seq(Nat)
    BY <1>4, <1>5, SeqMonotonic
<1>7. found[1] = c
    BY <1>2, <1>4, ElementOfSeq
<1> QED BY <1>1, <1>4, <1>6, <1>7

LEMMA SelectIdsKeeps ==
    ASSUME TypeOK, NamesIdentify, NEW s \in Sessions, SessionInv(s), SelectIds(s)
    PROVE  SessionInv(s)'
<1>1. PICK found \in Orderings(Named(NameOf[new[s][at[s]]])) : SelectsIds(s, found)
    BY DEF SelectIds
<1>2. /\ found \in Seq(Nat)
      /\ Len(found) = 1
      /\ found[1] \in DOMAIN customers
      /\ customers[found[1]].madeFor = new[s][at[s]]
    BY SelectsOne DEF SelectIds
<1>3. /\ at[s] <= Len(new[s])
      /\ Len(ids[s]) = at[s] - 1
    BY DEF SelectIds, SessionInv, LoopAligned
<1>4. customers' = customers /\ new' = new
    BY DEF SelectIds
<1>5. ids[s] \in Seq(Nat) /\ at[s] \in Nat \ {0} /\ Len(new[s]) \in Nat
    BY DEF TypeOK
<1>6. ASSUME NEW q \in Seq(Nat), ids'[s] = ids[s] \o q, Len(q) \in {0, 1},
             Len(q) = 1 => q[1] = found[1]
      PROVE  IdsAligned(s)' /\ Len(ids'[s]) = Len(ids[s]) + Len(q)
    <2>1. Len(ids'[s]) = Len(ids[s]) + Len(q)
        BY <1>5, <1>6
    <2>2. ASSUME NEW k \in 1..Len(ids'[s])
          PROVE  /\ k <= Len(new[s])
                 /\ ids'[s][k] \in DOMAIN customers
                 /\ customers[ids'[s][k]].madeFor = new[s][k]
        <3>1. CASE k \in 1..Len(ids[s])
            <4>1. ids'[s][k] = ids[s][k]
                BY <1>5, <1>6, <3>1
            <4> QED BY <3>1, <4>1 DEF SessionInv, IdsAligned
        <3>2. CASE k = Len(ids[s]) + 1 /\ Len(q) = 1
            <4>1. ids'[s][k] = found[1]
                BY <1>5, <1>6, <3>2
            <4> QED BY <1>2, <1>3, <1>5, <3>2, <4>1
        <3>3. Len(ids[s]) \in Nat
            BY <1>5
        <3>4. k \in 1..Len(ids[s]) \/ (k = Len(ids[s]) + 1 /\ Len(q) = 1)
            <4>1. k \in 1..(Len(ids[s]) + Len(q))
                BY <2>1, <2>2
            <4>2. Len(q) \in {0, 1}
                BY <1>6
            <4> DEFINE m == Len(ids[s])  l == Len(q)
            <4>3. m \in Nat /\ l \in {0, 1} /\ k \in 1..(m + l)
                BY <3>3, <4>1, <4>2
            <4> HIDE DEF m, l
            <4>4. k \in 1..m \/ (k = m + 1 /\ l = 1)
                BY <4>3
            <4> QED BY <4>4 DEF m, l
        <3> QED BY <3>1, <3>2, <3>4
    <2> QED BY <1>4, <2>1, <2>2 DEF IdsAligned
<1>7. CASE SelectsAll(s, found)
    <2>1. ids'[s] = ids[s] \o found /\ at'[s] = at[s] + 1 /\ pc'[s] = "insert"
        BY <1>7 DEF SelectsAll, Goto, TypeOK
    <2>2. IdsAligned(s)' /\ Len(ids'[s]) = Len(ids[s]) + 1
        BY <1>2, <1>6, <2>1
    <2> QED BY <1>3, <1>5, <2>1, <2>2 DEF SessionInv, LoopAligned, Ended
<1>8. CASE SelectsSome(s, found)
    <2>1. PICK n \in 0..Len(found) :
              ids' = [ids EXCEPT ![s] = @ \o SubSeq(found, 1, n)]
        BY <1>8 DEF SelectsSome
    <2> DEFINE q == SubSeq(found, 1, n)
    <2>2. q \in Seq(Nat) /\ Len(q) \in {0, 1} /\ (Len(q) = 1 => q[1] = found[1])
        <3>1. CASE n = 0
            BY <1>2, <3>1, SubSeqEmpty, EmptySeq
        <3>2. CASE n = 1
            <4>1. SubSeq(found, 1, Len(found)) = found
                BY <1>2, SubSeqFull
            <4>2. q = found
                BY <1>2, <3>2, <4>1
            <4> HIDE DEF q
            <4> QED BY <1>2, <4>2
        <3> QED BY <1>2, <3>1, <3>2
    <2>3. ids'[s] = ids[s] \o q /\ pc'[s] = "log"
        BY <1>8, <2>1 DEF SelectsSome, Goto, TypeOK
    <2>4. IdsAligned(s)'
        <3> HIDE DEF q
        <3> QED BY <1>6, <2>2, <2>3
    <2> QED BY <2>3, <2>4 DEF SessionInv, LoopAligned, Ended
<1> QED BY <1>1, <1>7, <1>8 DEF SelectsIds

\* A step of a session keeps that session's invariant.
LEMMA OwnStepKeeps ==
    ASSUME JobNames = {}, TypeOK, NamesIdentify, [Next]_vars,
           NEW s \in Sessions, SessionInv(s), Start(s) \/ Session(s) \/ Abort(s)
    PROVE  SessionInv(s)'
<1>1. CASE Start(s)
    BY <1>1, SessionInvEmpty DEF Start, Goto, TypeOK, SessionInv, LoopAligned
<1>2. CASE RetrieveFamily(s)
    BY <1>2, SessionInvEmpty DEF RetrieveFamily, Goto, TypeOK, SessionInv, LoopAligned
<1>3. CASE CheckMapping(s)
    BY <1>3, SessionInvEmpty DEF CheckMapping, TypeOK, SessionInv, LoopAligned
<1>4. CASE CheckDone(s)
    <2>1. ids'[s] = <<>> /\ at'[s] = 1 /\ pc'[s] = "insert"
        BY <1>4 DEF CheckDone, Goto, TypeOK, SessionInv, LoopAligned
    <2> QED BY <2>1 DEF SessionInv, IdsAligned, LoopAligned, Ended
<1>5. CASE InsertName(s)
    <2>1. /\ pc'[s] = "select" /\ pc[s] = "insert"
          /\ ids' = ids /\ new' = new /\ at' = at
          /\ at[s] <= Len(new[s])
        BY <1>5 DEF InsertName, Goto, TypeOK
    <2> DEFINE f == new[s][at[s]]
    <2>2. f \in Families
        BY <1>5 DEF InsertName, TypeOK
    <2> DEFINE added == [name |-> NameOf[f], job |-> FALSE, madeFor |-> f]
    <2>3. customers' = Append(customers, added)
        BY <1>5 DEF InsertName, AddCustomer
    <2>4. added \in Customer
        BY <2>2 DEF Customer
    <2>5. /\ Len(customers) + 1 \in DOMAIN customers'
          /\ customers'[Len(customers) + 1] = added
        <3> HIDE DEF added
        <3> QED BY <2>3, <2>4 DEF TypeOK
    <2>6. \E c \in DOMAIN customers' :
              customers'[c].name = NameOf[f] /\ customers'[c].madeFor = f
        BY <2>5
    <2>7. \A c \in DOMAIN customers :
              c \in DOMAIN customers' /\ customers'[c] = customers[c]
        BY CustomersGrow
    <2>8. IdsAligned(s)'
        BY <2>1, <2>7 DEF SessionInv, IdsAligned
    <2> QED BY <2>1, <2>6, <2>8 DEF SessionInv, LoopAligned, Ended
<1>6. CASE InsertStops(s)
    <2>1. pc'[s] = "log" /\ ids' = ids /\ new' = new /\ at' = at
        BY <1>6 DEF InsertStops, Goto, TypeOK
    <2>2. \A c \in DOMAIN customers :
              c \in DOMAIN customers' /\ customers'[c] = customers[c]
        BY CustomersGrow
    <2> QED BY <2>1, <2>2 DEF SessionInv, IdsAligned, LoopAligned, Ended
<1>7. CASE InsertDone(s)
    <2>1. pc'[s] = "log" /\ ids' = ids /\ new' = new /\ customers' = customers
        BY <1>7 DEF InsertDone, Goto, TypeOK
    <2> QED BY <2>1 DEF SessionInv, IdsAligned, LoopAligned, Ended
<1>8. CASE SelectIds(s)
    BY <1>8, SelectIdsKeeps
<1>9. CASE UpdateLog(s)
    <2>1. pc'[s] = "map" /\ ids' = ids /\ new' = new /\ customers' = customers
        BY <1>9 DEF UpdateLog, Goto, TypeOK
    <2> QED BY <2>1 DEF SessionInv, IdsAligned, LoopAligned, Ended
<1>10. CASE InsertMapping(s)
    <2>1. pc'[s] = "map" /\ ids' = ids /\ new' = new /\ customers' = customers
        BY <1>10 DEF InsertMapping, TypeOK
    <2> QED BY <2>1 DEF SessionInv, IdsAligned, LoopAligned, Ended
<1>11. CASE Return(s)
    BY <1>11, SessionInvEmpty DEF Return, Leave, Goto, TypeOK, Ended
<1>12. CASE MissingId(s)
    BY <1>12, SessionInvEmpty DEF MissingId, Leave, Goto, TypeOK, Ended
<1>13. CASE Abort(s)
    BY <1>13, SessionInvEmpty DEF Abort, Leave, Goto, TypeOK, Ended
<1> QED BY <1>1, <1>2, <1>3, <1>4, <1>5, <1>6, <1>7, <1>8, <1>9, <1>10, <1>11,
           <1>12, <1>13 DEF Session

\* A step of one session leaves the lists of the others alone.
LEMMA OtherSessionsRest ==
    ASSUME TypeOK, NEW s \in Sessions, NEW t \in Sessions, s # t,
           Start(s) \/ Session(s) \/ Abort(s)
    PROVE  pc'[t] = pc[t] /\ ids'[t] = ids[t] /\ new'[t] = new[t] /\ at'[t] = at[t]
<1>1. CASE Start(s) \/ RetrieveFamily(s) \/ CheckDone(s)
    BY <1>1 DEF Start, RetrieveFamily, CheckDone, Goto, TypeOK
<1>2. CASE CheckMapping(s)
    BY <1>2 DEF CheckMapping, TypeOK
<1>3. CASE InsertName(s) \/ InsertStops(s) \/ InsertDone(s) \/ UpdateLog(s)
    BY <1>3 DEF InsertName, InsertStops, InsertDone, UpdateLog, Goto, TypeOK
<1>4. CASE SelectIds(s)
    BY <1>4 DEF SelectIds, SelectsIds, SelectsAll, SelectsSome, Goto, TypeOK
<1>5. CASE InsertMapping(s) \/ Return(s) \/ MissingId(s) \/ Abort(s)
    BY <1>5 DEF InsertMapping, Return, MissingId, Abort, Leave, Goto, TypeOK
<1> QED BY <1>1, <1>2, <1>3, <1>4, <1>5 DEF Session

LEMMA SessionsStep ==
    ASSUME JobNames = {}, TypeOK, NamesIdentify, [Next]_vars,
           \A s \in Sessions : SessionInv(s)
    PROVE  \A s \in Sessions : SessionInv(s)'
<1> SUFFICES ASSUME NEW t \in Sessions PROVE SessionInv(t)'
    OBVIOUS
<1>1. ASSUME NEW s \in Sessions, Start(s) \/ Session(s) \/ Abort(s)
      PROVE  SessionInv(t)'
    BY <1>1, OwnStepKeeps, OtherSessionsRest, SessionInvKept
<1>2. ASSUME NEW a \in Admins, OpenPage(a) \/ MapCustomer(a) PROVE SessionInv(t)'
    BY <1>2, SessionInvKept DEF OpenPage, MapCustomer, localVars
<1>3. ASSUME NEW f \in Families, NewFamily(f) PROVE SessionInv(t)'
    BY <1>3, SessionInvKept DEF NewFamily, localVars
<1>4. ASSUME NEW n \in Names, NEW job \in BOOLEAN, BookkeeperAdds(n, job)
      PROVE  SessionInv(t)'
    BY <1>4, SessionInvKept DEF BookkeeperAdds, localVars
<1>5. CASE UNCHANGED vars
    BY <1>5, SessionInvKept DEF vars
<1> QED BY <1>1, <1>2, <1>3, <1>4, <1>5 DEF Next

-----------------------------------------------------------------------------
(* The rows. *)

\* A row a step adds to the mapping comes from the administrator's page or
\* pairs a new family of a session with the id at the same position.
LEMMA RowsStep ==
    ASSUME TypeOK, [Next]_vars
    PROVE  \/ mapping' = mapping
           \/ /\ \E r \in Row : r.by = "manual" /\ mapping' = mapping \cup {r}
              /\ UNCHANGED customers
           \/ \E s \in Sessions : PairsRow(s) /\ UNCHANGED customers
<1>1. ASSUME NEW s \in Sessions, Start(s) \/ Session(s) \/ Abort(s)
      PROVE  mapping' = mapping \/ (PairsRow(s) /\ UNCHANGED customers)
    <2>1. CASE Start(s) \/ RetrieveFamily(s) \/ CheckMapping(s) \/ CheckDone(s)
               \/ InsertDone(s) \/ SelectIds(s) \/ UpdateLog(s)
        BY <2>1 DEF Start, RetrieveFamily, CheckMapping, CheckDone, InsertDone,
                    SelectIds, UpdateLog
    <2>2. CASE InsertName(s) \/ InsertStops(s) \/ MissingId(s) \/ Abort(s)
        BY <2>2 DEF InsertName, InsertStops, MissingId, Abort
    <2>3. CASE InsertMapping(s) \/ Return(s)
        BY <2>3 DEF InsertMapping, Return
    <2> QED BY <1>1, <2>1, <2>2, <2>3 DEF Session
<1>2. ASSUME NEW a \in Admins, MapCustomer(a)
      PROVE  /\ \E r \in Row : r.by = "manual" /\ mapping' = mapping \cup {r}
             /\ UNCHANGED customers
    <2>1. PICK f \in page[a].families, c \in page[a].customers :
              mapping' = mapping \cup {[family |-> f, customer |-> c, by |-> "manual"]}
        BY <1>2 DEF MapCustomer, AddRow
    <2>2. f \in Families /\ c \in Nat
        BY DEF TypeOK
    <2> QED BY <1>2, <2>1, <2>2 DEF Row, MapCustomer
<1>3. ASSUME NEW a \in Admins, OpenPage(a) PROVE mapping' = mapping
    BY <1>3 DEF OpenPage
<1>4. ASSUME NEW f \in Families, NewFamily(f) PROVE mapping' = mapping
    BY <1>4 DEF NewFamily
<1>5. ASSUME NEW n \in Names, NEW job \in BOOLEAN, BookkeeperAdds(n, job)
      PROVE  mapping' = mapping
    BY <1>5 DEF BookkeeperAdds
<1>6. CASE UNCHANGED vars
    BY <1>6 DEF vars
<1> QED BY <1>1, <1>2, <1>3, <1>4, <1>5, <1>6 DEF Next

\* The row a session pairs is to the customer made for its family.
LEMMA PairedRow ==
    ASSUME TypeOK, NEW s \in Sessions, SessionInv(s), PairsRow(s)
    PROVE  \E f \in Families, c \in DOMAIN customers :
              /\ customers[c].madeFor = f
              /\ mapping' = mapping \cup {[family |-> f, customer |-> c, by |-> "sync"]}
<1> DEFINE f == new[s][at[s]]
           c == ids[s][at[s]]
<1>1. at[s] \in 1..Len(ids[s]) /\ at[s] \in 1..Len(new[s])
    BY DEF PairsRow, TypeOK
<1>2. f \in Families
    BY <1>1 DEF TypeOK
<1>3. c \in DOMAIN customers /\ customers[c].madeFor = f
    BY <1>1 DEF SessionInv, IdsAligned
<1> QED BY <1>2, <1>3 DEF PairsRow, AddRow

LEMMA LinksStep ==
    ASSUME JobNames = {}, TypeOK, [Next]_vars, LinksCreatedCustomer,
           \A s \in Sessions : SessionInv(s)
    PROVE  LinksCreatedCustomer'
<1>1. \A c \in DOMAIN customers :
          c \in DOMAIN customers' /\ customers'[c] = customers[c]
    BY CustomersGrow
<1>2. CASE mapping' = mapping
    BY <1>1, <1>2 DEF LinksCreatedCustomer, SyncRows
<1>3. CASE \E r \in Row : r.by = "manual" /\ mapping' = mapping \cup {r}
    BY <1>1, <1>3 DEF LinksCreatedCustomer, SyncRows
<1>4. ASSUME NEW s \in Sessions, PairsRow(s), UNCHANGED customers
      PROVE  LinksCreatedCustomer'
    BY <1>4, PairedRow DEF LinksCreatedCustomer, SyncRows
<1> QED BY <1>2, <1>3, <1>4, RowsStep

-----------------------------------------------------------------------------
(* The invariant. *)

LEMMA SyncInvInit == Init => SyncInv
    BY DEF Init, SyncInv, NamesIdentify, IdsAligned, LoopAligned,
           LinksCreatedCustomer, SyncRows, Ended

LEMMA SyncInvStep ==
    ASSUME JobNames = {}
    PROVE  TypeOK /\ SyncInv /\ [Next]_vars => SyncInv'
<1> SUFFICES ASSUME TypeOK, SyncInv, [Next]_vars PROVE SyncInv'
    OBVIOUS
<1>1. NamesIdentify /\ LinksCreatedCustomer /\ \A s \in Sessions : SessionInv(s)
    BY DEF SyncInv, SessionInv
<1>2. NamesIdentify'
    BY <1>1, NamesIdentifyStep
<1>3. \A s \in Sessions : SessionInv(s)'
    BY <1>1, SessionsStep
<1>4. LinksCreatedCustomer'
    BY <1>1, LinksStep
<1> QED BY <1>2, <1>3, <1>4 DEF SyncInv, SessionInv

LEMMA SyncInvHolds ==
    ASSUME JobNames = {}
    PROVE  Spec => [](TypeOK /\ SyncInv)
<1>1. Init => TypeOK /\ SyncInv
    BY TypeInit, SyncInvInit
<1>2. TypeOK /\ SyncInv /\ [Next]_vars => (TypeOK /\ SyncInv)'
    BY TypeStep, SyncInvStep
<1> QED BY <1>1, <1>2, PTL DEF Spec

\* However many sessions overlap, whatever calls fail and whatever is linked by
\* hand, a family the synchronisation links is linked to the customer that was
\* inserted for it, provided no job bears a customer's name.
THEOREM SyncLinksCreatedCustomer ==
    ASSUME JobNames = {}
    PROVE  Spec => []LinksCreatedCustomer
<1>1. Spec => [](TypeOK /\ SyncInv)
    BY SyncInvHolds
<1>2. TypeOK /\ SyncInv => LinksCreatedCustomer
    BY DEF SyncInv
<1> QED BY <1>1, <1>2, PTL

\* What makes that hold, SyncInv, is an invariant in its own right: the lists of
\* ids and of families of every session stay aligned.
THEOREM SyncInvariant ==
    ASSUME JobNames = {}
    PROVE  Spec => []SyncInv
<1>1. Spec => [](TypeOK /\ SyncInv)
    BY SyncInvHolds
<1> QED BY <1>1, PTL

-----------------------------------------------------------------------------
(* A request that returns has linked what it read.  No assumption on jobs: *)
(* the rows count here, not whom they are to.                              *)

\* Where the families go that a session has read, as long as no call of it failed.
Accounted(s) ==
    s \notin failed /\ pc[s] \in {"check", "insert", "select", "log", "map"} =>
        /\ \A f \in seen[s] :
              \/ f \in rest[s]
              \/ Linked(f)
              \/ \E i \in 1..Len(new[s]) : new[s][i] = f
        /\ pc[s] # "check" => rest[s] = {}
        /\ pc[s] = "map" => \A i \in 1..Len(new[s]) : i < at[s] => Linked(new[s][i])

ReturnLinked(s) == pc[s] = "done" /\ s \notin failed => \A f \in seen[s] : Linked(f)

LEMMA LinksLast ==
    ASSUME TypeOK, [Next]_vars, NEW f, Linked(f)
    PROVE  Linked(f)'
<1>1. mapping \subseteq mapping'
    BY RowsStep DEF PairsRow, AddRow
<1> QED BY <1>1 DEF Linked

LEMMA AccountedKept ==
    ASSUME TypeOK, [Next]_vars, NEW s \in Sessions, Accounted(s), ReturnLinked(s),
           pc'[s] = pc[s], rest'[s] = rest[s], new'[s] = new[s], at'[s] = at[s],
           seen'[s] = seen[s], s \in failed' <=> s \in failed
    PROVE  Accounted(s)' /\ ReturnLinked(s)'
<1>1. \A f : Linked(f) => Linked(f)'
    BY LinksLast
<1> QED BY <1>1 DEF Accounted, ReturnLinked

\* A session that has failed, or is over, or starts, claims nothing.
LEMMA AccountedIdle ==
    ASSUME NEW s \in Sessions, s \in failed' \/ pc'[s] \in {"aborted", "retrieve"}
    PROVE  Accounted(s)' /\ ReturnLinked(s)'
    BY DEF Accounted, ReturnLinked

LEMMA CheckMappingAccounts ==
    ASSUME TypeOK, [Next]_vars, NEW s \in Sessions, Accounted(s), CheckMapping(s)
    PROVE  Accounted(s)' /\ ReturnLinked(s)'
<1>1. PICK f \in rest[s] :
          /\ rest' = [rest EXCEPT ![s] = @ \ {f}]
          /\ \/ Linked(f) /\ Healthy /\ UNCHANGED new
             \/ /\ (~Linked(f) /\ Healthy) \/ Fault(s)
                /\ new' = [new EXCEPT ![s] = Append(@, f)]
    BY DEF CheckMapping
<1>2. /\ pc' = pc /\ seen' = seen /\ pc[s] = "check" /\ mapping' = mapping
      /\ rest'[s] = rest[s] \ {f} /\ f \in Families
    BY <1>1 DEF CheckMapping, TypeOK
<1>3. \A g : Linked(g)' <=> Linked(g)
    BY <1>2 DEF Linked
<1>4. CASE Fault(s)
    BY <1>4, AccountedIdle DEF Fault
<1>5. CASE Healthy /\ Linked(f) /\ UNCHANGED new
    BY <1>2, <1>3, <1>5 DEF Accounted, ReturnLinked, Healthy
<1>6. CASE Healthy /\ new' = [new EXCEPT ![s] = Append(@, f)]
    <2>1. new[s] \in Seq(Families) /\ new'[s] = Append(new[s], f)
        BY <1>6 DEF TypeOK
    <2>2. /\ Len(new'[s]) = Len(new[s]) + 1
          /\ new'[s][Len(new[s]) + 1] = f
          /\ \A i \in 1..Len(new[s]) : new'[s][i] = new[s][i]
          /\ Len(new[s]) \in Nat
        BY <1>2, <2>1
    <2>3. ASSUME s \notin failed, NEW g \in seen[s], g \notin rest'[s], ~Linked(g)
          PROVE  \E i \in 1..Len(new'[s]) : new'[s][i] = g
        <3>1. CASE g = f
            BY <2>2, <3>1
        <3>2. CASE g # f
            <4>1. PICK i \in 1..Len(new[s]) : new[s][i] = g
                BY <1>2, <1>6, <2>3, <3>2 DEF Accounted, Healthy
            <4> QED BY <2>2, <4>1
        <3> QED BY <3>1, <3>2
    <2> QED BY <1>2, <1>3, <1>6, <2>3 DEF Accounted, ReturnLinked, Healthy
<1> QED BY <1>1, <1>4, <1>5, <1>6

LEMMA InsertMappingAccounts ==
    ASSUME TypeOK, [Next]_vars, NEW s \in Sessions, Accounted(s), InsertMapping(s)
    PROVE  Accounted(s)' /\ ReturnLinked(s)'
<1>1. /\ pc' = pc /\ seen' = seen /\ rest' = rest /\ new' = new /\ failed' = failed
      /\ pc[s] = "map" /\ at'[s] = at[s] + 1 /\ at[s] \in Nat
    BY DEF InsertMapping, TypeOK
<1>2. \A f : Linked(f) => Linked(f)'
    BY LinksLast
<1>3. ASSUME NEW f, f = new[s][at[s]] PROVE Linked(f)'
    <2> DEFINE row == [family |-> f, customer |-> ids[s][at[s]], by |-> "sync"]
    <2>1. row \in mapping'
        BY <1>3 DEF InsertMapping, PairsRow, AddRow
    <2>2. row.family = f
        OBVIOUS
    <2> QED BY <2>1, <2>2 DEF Linked
<1>4. ASSUME s \notin failed, NEW i \in 1..Len(new[s]), i < at[s] + 1,
             NEW f, f = new[s][i]
      PROVE  Linked(f)'
    <2>1. CASE i = at[s]
        BY <1>3, <1>4, <2>1
    <2>2. CASE i < at[s]
        BY <1>1, <1>2, <1>4, <2>2 DEF Accounted
    <2> QED BY <1>1, <1>4, <2>1, <2>2
<1> QED BY <1>1, <1>2, <1>4 DEF Accounted, ReturnLinked

LEMMA ReturnAccounts ==
    ASSUME TypeOK, [Next]_vars, NEW s \in Sessions, Accounted(s), Return(s)
    PROVE  Accounted(s)' /\ ReturnLinked(s)'
<1>1. pc[s] = "map" /\ pc'[s] = "done" /\ seen' = seen
    BY DEF Return, Leave, Goto, TypeOK
<1>2. CASE Fault(s)
    BY <1>2, AccountedIdle DEF Fault
<1>3. CASE at[s] > Len(new[s]) /\ Healthy /\ UNCHANGED mapping
    <2>1. at[s] \in Nat /\ Len(new[s]) \in Nat
        BY DEF TypeOK
    <2>2. ASSUME s \notin failed, NEW f \in seen[s] PROVE Linked(f)
        BY <1>1, <1>3, <2>1, <2>2 DEF Accounted
    <2>3. \A f : Linked(f) => Linked(f)'
        BY LinksLast
    <2> QED BY <1>1, <1>3, <2>2, <2>3 DEF Accounted, ReturnLinked, Healthy
<1> QED BY <1>2, <1>3 DEF Return

LEMMA OwnStepAccounts ==
    ASSUME TypeOK, [Next]_vars, NEW s \in Sessions, Accounted(s), ReturnLinked(s),
           Start(s) \/ Session(s) \/ Abort(s)
    PROVE  Accounted(s)' /\ ReturnLinked(s)'
<1> USE LinksLast
<1>1. CASE Start(s)
    BY <1>1, AccountedIdle DEF Start, Goto, TypeOK
<1>2. CASE RetrieveFamily(s)
    <2>1. pc'[s] = "check" /\ rest'[s] = seen'[s]
        BY <1>2 DEF RetrieveFamily, Goto, TypeOK
    <2> QED BY <2>1 DEF Accounted, ReturnLinked
<1>3. CASE CheckMapping(s)
    BY <1>3, CheckMappingAccounts
<1>4. CASE CheckDone(s)
    <2>1. /\ pc[s] = "check" /\ pc'[s] = "insert" /\ rest[s] = {}
          /\ rest' = rest /\ new' = new /\ seen' = seen /\ failed' = failed
        BY <1>4 DEF CheckDone, Goto, TypeOK
    <2> QED BY <2>1 DEF Accounted, ReturnLinked
<1>5. CASE InsertName(s) \/ InsertStops(s) \/ InsertDone(s)
    <2>1. /\ pc[s] = "insert" /\ pc'[s] \in {"select", "log"}
          /\ rest' = rest /\ new' = new /\ seen' = seen
          /\ failed' = failed \/ failed' = failed \cup {s}
        BY <1>5 DEF InsertName, InsertStops, InsertDone, Goto, Healthy, Fault, TypeOK
    <2> QED BY <2>1 DEF Accounted, ReturnLinked
<1>6. CASE SelectIds(s)
    <2>1. /\ pc[s] = "select" /\ pc'[s] \in {"insert", "log"}
          /\ rest' = rest /\ new' = new /\ seen' = seen
          /\ failed' = failed \/ failed' = failed \cup {s}
        BY <1>6 DEF SelectIds, SelectsIds, SelectsAll, SelectsSome, Goto, Healthy, Fault,
                    TypeOK
    <2> QED BY <2>1 DEF Accounted, ReturnLinked
<1>7. CASE UpdateLog(s)
    <2>1. /\ pc[s] = "log" /\ pc'[s] = "map" /\ at'[s] = 1
          /\ rest' = rest /\ new' = new /\ seen' = seen
          /\ failed' = failed \/ failed' = failed \cup {s}
        BY <1>7 DEF UpdateLog, Goto, Healthy, Fault, TypeOK
    <2> QED BY <2>1 DEF Accounted, ReturnLinked
<1>8. CASE InsertMapping(s)
    BY <1>8, InsertMappingAccounts DEF ReturnLinked
<1>9. CASE Return(s)
    BY <1>9, ReturnAccounts
<1>10. CASE MissingId(s) \/ Abort(s)
    BY <1>10, AccountedIdle DEF MissingId, Abort, Leave, Goto, TypeOK
<1> QED BY <1>1, <1>2, <1>3, <1>4, <1>5, <1>6, <1>7, <1>8, <1>9, <1>10 DEF Session

\* A step of one session is nothing to what another has read, listed and failed.
LEMMA OtherSessionsAccount ==
    ASSUME TypeOK, NEW s \in Sessions, NEW t \in Sessions, s # t,
           Start(s) \/ Session(s) \/ Abort(s)
    PROVE  /\ rest'[t] = rest[t] /\ seen'[t] = seen[t]
           /\ t \in failed' <=> t \in failed
<1> USE DEF TypeOK, Healthy, Fault
<1>1. CASE Start(s) \/ RetrieveFamily(s) \/ CheckDone(s)
    BY <1>1 DEF Start, RetrieveFamily, CheckDone
<1>2. CASE CheckMapping(s)
    BY <1>2 DEF CheckMapping
<1>3. CASE InsertName(s) \/ InsertStops(s) \/ InsertDone(s) \/ UpdateLog(s)
    BY <1>3 DEF InsertName, InsertStops, InsertDone, UpdateLog
<1>4. CASE SelectIds(s)
    BY <1>4 DEF SelectIds, SelectsIds, SelectsAll, SelectsSome
<1>5. CASE InsertMapping(s) \/ Return(s) \/ MissingId(s) \/ Abort(s)
    BY <1>5 DEF InsertMapping, Return, MissingId, Abort, Leave
<1> QED BY <1>1, <1>2, <1>3, <1>4, <1>5 DEF Session

LEMMA AccountedStep ==
    ASSUME TypeOK, [Next]_vars, \A s \in Sessions : Accounted(s) /\ ReturnLinked(s)
    PROVE  \A s \in Sessions : (Accounted(s) /\ ReturnLinked(s))'
<1> SUFFICES ASSUME NEW t \in Sessions PROVE (Accounted(t) /\ ReturnLinked(t))'
    OBVIOUS
<1>1. ASSUME NEW s \in Sessions, Start(s) \/ Session(s) \/ Abort(s)
      PROVE  (Accounted(t) /\ ReturnLinked(t))'
    <2>1. CASE s = t
        BY <1>1, <2>1, OwnStepAccounts
    <2>2. CASE s # t
        BY <1>1, <2>2, OtherSessionsRest, OtherSessionsAccount, AccountedKept
    <2> QED BY <2>1, <2>2
<1>2. ASSUME NEW a \in Admins, OpenPage(a) \/ MapCustomer(a)
      PROVE  (Accounted(t) /\ ReturnLinked(t))'
    BY <1>2, AccountedKept DEF OpenPage, MapCustomer, localVars
<1>3. ASSUME NEW f \in Families, NewFamily(f) PROVE (Accounted(t) /\ ReturnLinked(t))'
    BY <1>3, AccountedKept DEF NewFamily, localVars
<1>4. ASSUME NEW n \in Names, NEW job \in BOOLEAN, BookkeeperAdds(n, job)
      PROVE  (Accounted(t) /\ ReturnLinked(t))'
    BY <1>4, AccountedKept DEF BookkeeperAdds, localVars
<1>5. CASE UNCHANGED vars
    BY <1>5, AccountedKept DEF vars
<1> QED BY <1>1, <1>2, <1>3, <1>4, <1>5 DEF Next

\* customersync that returns and has met no failed call has left none of the
\* families it read without a link, whatever other sessions have inserted, selected
\* and mapped meanwhile (InsertCustomer.java:41, Homepage.java:389).
THEOREM ReturnLinksAll == Spec => []ReturnMeansLinked
<1> DEFINE Inv == TypeOK /\ \A s \in Sessions : Accounted(s) /\ ReturnLinked(s)
<1>1. Init => Inv
    BY TypeInit DEF Init, Accounted, ReturnLinked
<1>2. Inv /\ [Next]_vars => Inv'
    BY TypeStep, AccountedStep
<1>3. Inv => ReturnMeansLinked
    BY DEF ReturnMeansLinked, ReturnLinked
<1> QED BY <1>1, <1>2, <1>3, PTL DEF Spec

-----------------------------------------------------------------------------
(* Refinement. *)

CreatedPairs ==
    {<<customers[c].madeFor, c>> : c \in {d \in DOMAIN customers : customers[d].madeFor # None}}

LinkPairs == {<<r.family, r.customer>> : r \in SyncRows}

LEMMA CreateRefines ==
    ASSUME JobNames = {}, TypeOK, NamesIdentify, [Next]_vars,
           customers' # customers, mapping' = mapping
    PROVE  [Links!Next]_(Links!vars)
<1>1. PICK n \in Names, f \in Families \cup {None} :
          /\ ~NameTaken(n)
          /\ f # None => n = NameOf[f]
          /\ customers' = Append(customers, [name |-> n, job |-> FALSE, madeFor |-> f])
    BY CustomersAppend
<1> DEFINE added == [name |-> n, job |-> FALSE, madeFor |-> f]
           id == Len(customers) + 1
<1>2. /\ DOMAIN customers = 1..Len(customers)
      /\ DOMAIN customers' = 1..id
      /\ customers'[id] = added
      /\ \A c \in DOMAIN customers : customers'[c] = customers[c]
      /\ Len(customers) \in Nat
    <2>1. added \in Customer
        BY DEF Customer
    <2> HIDE DEF added
    <2> QED BY <1>1, <2>1 DEF TypeOK, added
<1>3. LinkPairs' = LinkPairs
    BY DEF LinkPairs, SyncRows
<1>4. CreatedPairs' = CreatedPairs \cup (IF f = None THEN {} ELSE {<<f, id>>})
    <2>1. added.madeFor = f
        OBVIOUS
    <2> HIDE DEF added
    <2> QED BY <1>2, <2>1 DEF CreatedPairs
<1>5. CASE f = None
    <2>1. CreatedPairs' = CreatedPairs
        BY <1>4, <1>5
    <2> QED BY <1>3, <2>1 DEF Links!vars, CreatedPairs, LinkPairs
<1>6. CASE f # None
    <2>1. CreatedPairs' = CreatedPairs \cup {<<f, id>>}
        BY <1>4, <1>6
    <2>2. ASSUME NEW q \in CreatedPairs PROVE q[1] # f /\ q[2] # id
        <3>1. PICK c \in DOMAIN customers :
                  customers[c].madeFor # None /\ q = <<customers[c].madeFor, c>>
            BY DEF CreatedPairs
        <3>2. customers[c].name # n
            BY <1>1, <3>1 DEF NameTaken, NamesIdentify
        <3>3. customers[c].madeFor # f
            BY <1>1, <1>6, <3>1, <3>2 DEF NamesIdentify
        <3>4. c # id
            BY <1>2
        <3> QED BY <3>1, <3>3, <3>4
    <2>3. <<f, id>> \in CreatedPairs' \ CreatedPairs
        BY <2>1, <2>2
    <2>4. Links!Create
        BY <1>3, <2>1, <2>2, <2>3 DEF Links!Create, CreatedPairs, LinkPairs
    <2> QED BY <2>4 DEF Links!Next
<1> QED BY <1>5, <1>6

LEMMA LinkRefines ==
    ASSUME TypeOK, customers' = customers, NEW s \in Sessions, SessionInv(s), PairsRow(s)
    PROVE  [Links!Next]_(Links!vars)
<1>1. PICK f \in Families, c \in DOMAIN customers :
          /\ customers[c].madeFor = f
          /\ mapping' = mapping \cup {[family |-> f, customer |-> c, by |-> "sync"]}
    BY PairedRow
<1>2. CreatedPairs' = CreatedPairs
    BY DEF CreatedPairs
<1>3. <<f, c>> \in CreatedPairs
    BY <1>1 DEF CreatedPairs
<1>4. LinkPairs' = LinkPairs \cup {<<f, c>>}
    <2> DEFINE r == [family |-> f, customer |-> c, by |-> "sync"]
    <2>1. r.by = "sync" /\ r.family = f /\ r.customer = c
        OBVIOUS
    <2>2. mapping' = mapping \cup {r}
        BY <1>1
    <2> HIDE DEF r
    <2>3. SyncRows' = SyncRows \cup {r}
        BY <2>1, <2>2 DEF SyncRows
    <2> QED BY <2>1, <2>3 DEF LinkPairs
<1>5. CASE <<f, c>> \in LinkPairs
    <2>1. LinkPairs' = LinkPairs
        BY <1>4, <1>5
    <2> QED BY <1>2, <2>1 DEF Links!vars, CreatedPairs, LinkPairs
<1>6. CASE <<f, c>> \notin LinkPairs
    <2>1. <<f, c>> \in CreatedPairs \ LinkPairs
        BY <1>3, <1>6
    <2>2. Links!Link
        BY <1>2, <1>4, <2>1 DEF Links!Link, CreatedPairs, LinkPairs
    <2> QED BY <2>2 DEF Links!Next
<1> QED BY <1>5, <1>6

LEMMA StepRefines ==
    ASSUME JobNames = {}
    PROVE  TypeOK /\ SyncInv /\ [Next]_vars => [Links!Next]_(Links!vars)
<1> SUFFICES ASSUME TypeOK, SyncInv, [Next]_vars PROVE [Links!Next]_(Links!vars)
    OBVIOUS
<1>1. NamesIdentify /\ \A s \in Sessions : SessionInv(s)
    BY DEF SyncInv, SessionInv
<1>2. CASE mapping' = mapping /\ customers' # customers
    BY <1>1, <1>2, CreateRefines
<1>3. CASE mapping' = mapping /\ customers' = customers
    BY <1>3 DEF Links!vars, SyncRows
<1>4. CASE /\ \E r \in Row : r.by = "manual" /\ mapping' = mapping \cup {r}
           /\ UNCHANGED customers
    <2>1. SyncRows' = SyncRows
        BY <1>4 DEF SyncRows
    <2> QED BY <1>4, <2>1 DEF Links!vars
<1>5. ASSUME NEW s \in Sessions, PairsRow(s), UNCHANGED customers
      PROVE  [Links!Next]_(Links!vars)
    BY <1>1, <1>5, LinkRefines
<1> QED BY <1>2, <1>3, <1>4, <1>5, RowsStep

\* The synchronisation implements FamilyLinks where no job bears a name: each
\* family gets at most one customer made for it, and no link but to that one.
THEOREM SyncImplementsFamilyLinks ==
    ASSUME JobNames = {}
    PROVE  Spec => ImplementsFamilyLinks
<1>1. Init => Links!Init
    BY DEF Init, Links!Init, SyncRows
<1>2. TypeOK /\ SyncInv /\ [Next]_vars => [Links!Next]_(Links!vars)
    BY StepRefines
<1>3. Spec => [](TypeOK /\ SyncInv)
    BY SyncInvHolds
<1> QED BY <1>1, <1>2, <1>3, PTL DEF Spec, ImplementsFamilyLinks, Links!Spec

\* What FamilyLinks promises keeps links one-to-one: customers are made one-to-one
\* and only such pairs are linked.
LinksInv ==
    /\ \A p, q \in CreatedPairs : (p[1] = q[1]) <=> (p[2] = q[2])
    /\ LinkPairs \subseteq CreatedPairs

LEMMA LinksAreOneToOne == Links!Spec => []Links!OneToOne
<1>1. Links!Init => LinksInv
    BY DEF Links!Init, LinksInv, CreatedPairs, LinkPairs
<1>2. LinksInv /\ [Links!Next]_(Links!vars) => LinksInv'
    <2> SUFFICES ASSUME LinksInv, [Links!Next]_(Links!vars) PROVE LinksInv'
        OBVIOUS
    <2>1. CASE Links!Create
        <3>1. PICK p \in CreatedPairs' \ CreatedPairs :
                  /\ \A q \in CreatedPairs : q[1] # p[1] /\ q[2] # p[2]
                  /\ CreatedPairs' = CreatedPairs \cup {p}
            BY <2>1 DEF Links!Create, CreatedPairs
        <3>2. LinkPairs' = LinkPairs
            BY <2>1 DEF Links!Create, LinkPairs
        <3> QED BY <3>1, <3>2 DEF LinksInv
    <2>2. CASE Links!Link
        <3>1. PICK p \in CreatedPairs \ LinkPairs : LinkPairs' = LinkPairs \cup {p}
            BY <2>2 DEF Links!Link, CreatedPairs, LinkPairs
        <3>2. CreatedPairs' = CreatedPairs
            BY <2>2 DEF Links!Link, CreatedPairs
        <3> QED BY <3>1, <3>2 DEF LinksInv
    <2>3. CASE UNCHANGED Links!vars
        <3>1. CreatedPairs' = CreatedPairs /\ LinkPairs' = LinkPairs
            BY <2>3 DEF Links!vars, CreatedPairs, LinkPairs
        <3> QED BY <3>1 DEF LinksInv
    <2> QED BY <2>1, <2>2, <2>3 DEF Links!Next
<1>3. LinksInv => Links!OneToOne
    BY DEF LinksInv, Links!OneToOne, CreatedPairs, LinkPairs
<1> QED BY <1>1, <1>2, <1>3, PTL DEF Links!Spec

\* So the synchronisation never links a family to two customers it made or a customer
\* it made to two families (updatemapping, MappingTable.java:52), where no job bears a name.
THEOREM SyncLinksOneToOne ==
    ASSUME JobNames = {}
    PROVE  Spec => []Links!OneToOne
<1>1. Spec => Links!Spec
    BY SyncImplementsFamilyLinks DEF ImplementsFamilyLinks
<1> QED BY <1>1, LinksAreOneToOne, PTL
=============================================================================
