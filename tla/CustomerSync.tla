---------------------------- MODULE CustomerSync ----------------------------
(***************************************************************************)
(* quickbooksync.CustomerSync and what it calls: every RenWeb family that  *)
(* has no row in CUSTOMERMAPPING gets a QuickBooks customer and a row.     *)
(* Each HTTP request (Homepage.custsync, Homepage.runsync) runs the code   *)
(* in a thread of its own and nothing serialises the requests, so Sessions *)
(* is a set of threads whose database calls interleave.  Every call is a   *)
(* step; a call may fail.  An SQLException is caught inside the helper,    *)
(* which returns what it has; any other exception leaves customersync.     *)
(*                                                                         *)
(* An administrator may link families by hand (mapcusts.Map) from a page   *)
(* that listed the unlinked families and customers earlier.                *)
(***************************************************************************)
EXTENDS Naturals, Sequences, FiniteSets

CONSTANTS
    Sessions,      \* threads that run customersync
    Admins,        \* administrators with the mapping page
    Families,      \* families RenWeb may hold
    Names,         \* customer names
    NameOf,        \* FamilyName of a family
    ForeignNames,  \* names the bookkeeper may give to customers of her own
    JobNames,      \* names the bookkeeper may give to jobs (sub-customers)
    MaxForeign,    \* bound: customers in QuickBooks when the bookkeeper adds one
    MaxFaults,     \* bound: failed calls and lost threads
    None           \* no family

ASSUME FamiliesAssumption ==
    /\ NameOf \in [Families -> Names]
    /\ None \notin Families
    /\ ForeignNames \subseteq Names
    /\ JobNames \subseteq Names
    /\ MaxForeign \in Nat
    /\ MaxFaults \in Nat

VARIABLES
    rwFamilies,  \* RenWeb's FamilyConfig
    customers,   \* QuickBooks Customers in order of creation; the ID is the index
    mapping,     \* CUSTOMERMAPPING rows and who wrote them
    custlog,     \* families custlog says a customer was added for
    pc,          \* where a session is
    rest,        \* allfamily: families still to compare
    new,         \* newcustomer: families found unlinked, in order
    ids,         \* custids
    at,          \* index of the loop over newcustomer
    seen,        \* history: the families the session read
    failed,      \* history: sessions in which a call has failed
    page,        \* what an administrator's page lists
    faults       \* calls that have failed so far

qbVars == <<customers>>
eduVars == <<mapping, custlog>>
localVars == <<rest, new, ids, at, seen>>
vars == <<rwFamilies, customers, mapping, custlog, pc, rest, new, ids, at,
          seen, failed, page, faults>>

Ended == {"idle", "done", "aborted"}

Customer == [name : Names, job : BOOLEAN, madeFor : Families \cup {None}]
Row == [family : Families, customer : Nat, by : {"sync", "manual"}]

Linked(f) == \E r \in mapping : r.family = f
CustomerLinked(c) == \E r \in mapping : r.customer = c

\* QuickBooks refuses a second customer of a name at the same level.
NameTaken(n) ==
    \E c \in DOMAIN customers : customers[c].name = n /\ ~customers[c].job

Named(n) == {c \in DOMAIN customers : customers[c].name = n}

\* The rows of a result set come in any order.
Orderings(S) ==
    {q \in [1..Cardinality(S) -> S] : \A i, j \in DOMAIN q : i # j => q[i] # q[j]}

Init ==
    /\ rwFamilies \in SUBSET Families
    /\ customers = <<>>
    /\ mapping = {}
    /\ custlog = {}
    /\ pc = [s \in Sessions |-> "idle"]
    /\ rest = [s \in Sessions |-> {}]
    /\ new = [s \in Sessions |-> <<>>]
    /\ ids = [s \in Sessions |-> <<>>]
    /\ at = [s \in Sessions |-> 1]
    /\ seen = [s \in Sessions |-> {}]
    /\ failed = {}
    /\ page = [a \in Admins |-> [families |-> {}, customers |-> {}]]
    /\ faults = 0

-----------------------------------------------------------------------------
(* Steps shared by the actions of a session. *)

Goto(s, l) == pc' = [pc EXCEPT ![s] = l]

Healthy == UNCHANGED <<failed, faults>>

Fault(s) ==
    /\ faults < MaxFaults
    /\ faults' = faults + 1
    /\ failed' = failed \cup {s}

\* customersync is left: its lists are gone.
Leave(s, outcome) ==
    /\ Goto(s, outcome)
    /\ rest' = [rest EXCEPT ![s] = {}]
    /\ new' = [new EXCEPT ![s] = <<>>]
    /\ ids' = [ids EXCEPT ![s] = <<>>]
    /\ at' = [at EXCEPT ![s] = 1]

-----------------------------------------------------------------------------
(* A session. *)

Start(s) ==
    /\ pc[s] \in Ended
    /\ Goto(s, "retrieve")
    /\ seen' = [seen EXCEPT ![s] = {}]
    /\ failed' = failed \ {s}
    /\ UNCHANGED <<rwFamilies, customers, mapping, custlog, rest, new, ids, at,
                   page, faults>>

\* A failing read leaves the families fetched before the failure.  The
\* customers read next are never used.
RetrieveFamily(s) ==
    /\ pc[s] = "retrieve"
    /\ \E got \in SUBSET rwFamilies :
          /\ \/ got = rwFamilies /\ Healthy
             \/ Fault(s)
          /\ rest' = [rest EXCEPT ![s] = got]
          /\ seen' = [seen EXCEPT ![s] = got]
    /\ Goto(s, "check")
    /\ UNCHANGED <<rwFamilies, customers, mapping, custlog, new, ids, at, page>>

\* checkmappingrw answers null for an unlinked family and for a failed query.
CheckMapping(s) ==
    /\ pc[s] = "check"
    /\ \E f \in rest[s] :
          /\ rest' = [rest EXCEPT ![s] = @ \ {f}]
          /\ \/ Linked(f) /\ Healthy /\ UNCHANGED new
             \/ /\ (~Linked(f) /\ Healthy) \/ Fault(s)
                /\ new' = [new EXCEPT ![s] = Append(@, f)]
    /\ UNCHANGED <<rwFamilies, customers, mapping, custlog, pc, ids, at, seen, page>>

\* (Mutant: the loop over newcustomer starts before its first element.)
CheckDoneFromZero(s) ==
    /\ pc[s] = "check"
    /\ rest[s] = {}
    /\ Goto(s, "insert")
    /\ at' = [at EXCEPT ![s] = 0]
    /\ UNCHANGED <<rwFamilies, customers, mapping, custlog, rest, new, ids, seen,
                   failed, page, faults>>

CheckDone(s) ==
    /\ pc[s] = "check"
    /\ rest[s] = {}
    /\ Goto(s, "insert")
    /\ at' = [at EXCEPT ![s] = 1]
    /\ UNCHANGED <<rwFamilies, customers, mapping, custlog, rest, new, ids, seen,
                   failed, page, faults>>

AddCustomer(f) ==
    /\ ~NameTaken(NameOf[f])
    /\ customers' = Append(customers,
                           [name |-> NameOf[f], job |-> FALSE, madeFor |-> f])

InsertName(s) ==
    /\ pc[s] = "insert"
    /\ at[s] <= Len(new[s])
    /\ AddCustomer(new[s][at[s]])
    /\ Goto(s, "select")
    /\ UNCHANGED <<rwFamilies, mapping, custlog, rest, new, ids, at, seen, failed,
                   page, faults>>

\* (Mutants: a refused name is passed over; the ids of its customer are taken.)
InsertSkips(s) ==
    /\ pc[s] = "insert"
    /\ at[s] <= Len(new[s])
    /\ NameTaken(NameOf[new[s][at[s]]])
    /\ at' = [at EXCEPT ![s] = @ + 1]
    /\ UNCHANGED <<rwFamilies, customers, mapping, custlog, pc, rest, new, ids, seen,
                   failed, page, faults>>

InsertAdopts(s) ==
    /\ pc[s] = "insert"
    /\ at[s] <= Len(new[s])
    /\ NameTaken(NameOf[new[s][at[s]]])
    /\ Goto(s, "select")
    /\ UNCHANGED <<rwFamilies, customers, mapping, custlog, rest, new, ids, at, seen,
                   failed, page, faults>>

\* The loop over the new customers ends at the first SQLException: a name
\* QuickBooks refuses, or a failed call whose insert may have been made.
InsertStops(s) ==
    /\ pc[s] = "insert"
    /\ at[s] <= Len(new[s])
    /\ \/ NameTaken(NameOf[new[s][at[s]]]) /\ Healthy /\ UNCHANGED customers
       \/ Fault(s) /\ (UNCHANGED customers \/ AddCustomer(new[s][at[s]]))
    /\ Goto(s, "log")
    /\ UNCHANGED <<rwFamilies, mapping, custlog, rest, new, ids, at, seen, page>>

InsertDone(s) ==
    /\ pc[s] = "insert"
    /\ at[s] > Len(new[s])
    /\ Goto(s, "log")
    /\ UNCHANGED <<rwFamilies, customers, mapping, custlog, rest, new, ids, at,
                   seen, failed, page, faults>>

\* Every ID that the name selects is added; a failure keeps those fetched.
SelectsAll(s, found) ==
    /\ ids' = [ids EXCEPT ![s] = @ \o found]
    /\ at' = [at EXCEPT ![s] = @ + 1]
    /\ Goto(s, "insert")
    /\ Healthy

SelectsSome(s, found) ==
    /\ Fault(s)
    /\ \E n \in 0..Len(found) :
          ids' = [ids EXCEPT ![s] = @ \o SubSeq(found, 1, n)]
    /\ Goto(s, "log")
    /\ UNCHANGED at

SelectsIds(s, found) == SelectsAll(s, found) \/ SelectsSome(s, found)

SelectIds(s) ==
    /\ pc[s] = "select"
    /\ \E found \in Orderings(Named(NameOf[new[s][at[s]]])) : SelectsIds(s, found)
    /\ UNCHANGED <<rwFamilies, customers, mapping, custlog, rest, new, seen, page>>

\* Every family found unlinked is logged as an addition.
UpdateLog(s) ==
    /\ pc[s] = "log"
    /\ \E n \in 0..Len(new[s]) :
          /\ (n = Len(new[s]) /\ Healthy) \/ Fault(s)
          /\ custlog' = custlog \cup {new[s][i] : i \in 1..n}
    /\ Goto(s, "map")
    /\ at' = [at EXCEPT ![s] = 1]
    /\ UNCHANGED <<rwFamilies, customers, mapping, rest, new, ids, seen, page>>

AddRow(f, c, who) ==
    mapping' = mapping \cup {[family |-> f, customer |-> c, by |-> who]}

\* Family and id are paired by position.
PairsRow(s) ==
    /\ at[s] <= Len(new[s])
    /\ at[s] <= Len(ids[s])
    /\ AddRow(new[s][at[s]], ids[s][at[s]], "sync")

InsertMapping(s) ==
    /\ pc[s] = "map"
    /\ PairsRow(s)
    /\ at' = [at EXCEPT ![s] = @ + 1]
    /\ UNCHANGED <<rwFamilies, customers, custlog, pc, rest, new, ids, seen,
                   failed, page, faults>>

\* customersync returns: all rows are in, or an SQLException ended the loop
\* before or after the row it was at.
Return(s) ==
    /\ pc[s] = "map"
    /\ \/ at[s] > Len(new[s]) /\ Healthy /\ UNCHANGED mapping
       \/ Fault(s) /\ (UNCHANGED mapping \/ PairsRow(s))
    /\ Leave(s, "done")
    /\ UNCHANGED <<rwFamilies, customers, custlog, seen, page>>

\* (Mutants: the missing id is passed over in silence; it is looked for before
\* the first row is written.)
MissingIdSilent(s) ==
    /\ pc[s] = "map"
    /\ at[s] <= Len(new[s])
    /\ at[s] > Len(ids[s])
    /\ Leave(s, "done")
    /\ UNCHANGED <<rwFamilies, customers, mapping, custlog, seen, failed, page, faults>>

MissingIdFirst(s) ==
    /\ pc[s] = "map"
    /\ Len(ids[s]) < Len(new[s])
    /\ Leave(s, "aborted")
    /\ UNCHANGED <<rwFamilies, customers, mapping, custlog, seen, failed, page, faults>>

\* ids.get(i) past the end: IndexOutOfBoundsException, caught by nobody.
MissingId(s) ==
    /\ pc[s] = "map"
    /\ at[s] <= Len(new[s])
    /\ at[s] > Len(ids[s])
    /\ Leave(s, "aborted")
    /\ UNCHANGED <<rwFamilies, customers, mapping, custlog, seen, failed, page, faults>>

\* A connection that could not be opened is a null statement, and the first
\* use of it a NullPointerException; or the server stops.
Abort(s) ==
    /\ pc[s] \notin Ended
    /\ Fault(s)
    /\ Leave(s, "aborted")
    /\ UNCHANGED <<rwFamilies, customers, mapping, custlog, seen, page>>

Session(s) ==
    \/ RetrieveFamily(s) \/ CheckMapping(s) \/ CheckDone(s)
    \/ InsertName(s) \/ InsertStops(s) \/ InsertDone(s) \/ SelectIds(s)
    \/ UpdateLog(s) \/ InsertMapping(s) \/ Return(s) \/ MissingId(s)

-----------------------------------------------------------------------------
(* The administrator's page, and the users of RenWeb and QuickBooks. *)

\* Getcusts lists what has no row; a failed check lists the item all the same.
OpenPage(a) ==
    /\ \E fs \in SUBSET rwFamilies, cs \in SUBSET DOMAIN customers :
          LET free == [families |-> {f \in rwFamilies : ~Linked(f)},
                       customers |-> {c \in DOMAIN customers : ~CustomerLinked(c)}]
          IN  /\ free.families \subseteq fs
              /\ free.customers \subseteq cs
              /\ \/ /\ fs = free.families /\ cs = free.customers
                    /\ UNCHANGED faults
                 \/ /\ faults < MaxFaults
                    /\ faults' = faults + 1
              /\ page' = [page EXCEPT ![a] = [families |-> fs, customers |-> cs]]
    /\ UNCHANGED <<rwFamilies, customers, mapping, custlog, pc, localVars, failed>>

\* The pair is inserted as the page listed it; nothing is checked again.
MapCustomer(a) ==
    /\ \E f \in page[a].families, c \in page[a].customers : AddRow(f, c, "manual")
    /\ UNCHANGED <<rwFamilies, customers, custlog, pc, localVars, failed, page, faults>>

NewFamily(f) ==
    /\ f \notin rwFamilies
    /\ rwFamilies' = rwFamilies \cup {f}
    /\ UNCHANGED <<customers, mapping, custlog, pc, localVars, failed, page, faults>>

BookkeeperAdds(n, job) ==
    /\ Len(customers) < MaxForeign
    /\ IF job THEN n \in JobNames ELSE n \in ForeignNames /\ ~NameTaken(n)
    /\ customers' = Append(customers, [name |-> n, job |-> job, madeFor |-> None])
    /\ UNCHANGED <<rwFamilies, mapping, custlog, pc, localVars, failed, page, faults>>

Next ==
    \/ \E s \in Sessions : Start(s) \/ Session(s) \/ Abort(s)
    \/ \E a \in Admins : OpenPage(a) \/ MapCustomer(a)
    \/ \E f \in Families : NewFamily(f)
    \/ \E n \in Names, job \in BOOLEAN : BookkeeperAdds(n, job)

Spec == Init /\ [][Next]_vars

\* A request that is being served gets processor time; that users come, that
\* calls fail or that a thread is lost is never certain.
FairSpec == Spec /\ \A s \in Sessions : WF_vars(Session(s))
-----------------------------------------------------------------------------
(* Properties. *)

TypeOK ==
    /\ rwFamilies \subseteq Families
    /\ customers \in Seq(Customer)
    /\ mapping \subseteq Row
    /\ custlog \subseteq Families
    /\ pc \in [Sessions -> Ended \cup {"retrieve", "check", "insert", "select",
                                       "log", "map"}]
    /\ rest \in [Sessions -> SUBSET Families]
    /\ new \in [Sessions -> Seq(Families)]
    /\ ids \in [Sessions -> Seq(Nat)]
    /\ at \in [Sessions -> Nat \ {0}]
    /\ seen \in [Sessions -> SUBSET Families]
    /\ failed \subseteq Sessions
    /\ page \in [Admins -> [families : SUBSET Families, customers : SUBSET Nat]]
    /\ faults \in 0..MaxFaults

SyncRows == {r \in mapping : r.by = "sync"}

\* The synchronisation links a family only to the customer it created for that
\* very family, whatever other sessions, administrators and bookkeepers do and
\* whichever calls fail: CustomerSync.java:70 says the ids that updatemapping
\* pairs with the families by position are those "created by QB".
LinksCreatedCustomer ==
    \A r \in SyncRows :
        /\ r.customer \in DOMAIN customers
        /\ customers[r.customer].madeFor = r.family

\* The inductive strengthening of LinksCreatedCustomer where no job bears a
\* name: names tell customers apart, ...
NamesIdentify ==
    /\ \A c \in DOMAIN customers :
          /\ ~customers[c].job
          /\ customers[c].madeFor # None
                 => customers[c].name = NameOf[customers[c].madeFor]
    /\ \A c, d \in DOMAIN customers :
          customers[c].name = customers[d].name => c = d

\* ... the k-th id of a session is the customer made for its k-th new family, ...
IdsAligned(s) ==
    \A k \in 1..Len(ids[s]) :
        /\ k <= Len(new[s])
        /\ ids[s][k] \in DOMAIN customers
        /\ customers[ids[s][k]].madeFor = new[s][k]

\* ... and the loop over the new families has an id for each it has passed.
LoopAligned(s) ==
    /\ pc[s] \in Ended \cup {"retrieve", "check"} => ids[s] = <<>>
    /\ pc[s] = "insert" => Len(ids[s]) = at[s] - 1
    /\ pc[s] = "select" =>
          /\ at[s] <= Len(new[s])
          /\ Len(ids[s]) = at[s] - 1
          /\ \E c \in DOMAIN customers :
                /\ customers[c].name = NameOf[new[s][at[s]]]
                /\ customers[c].madeFor = new[s][at[s]]

SyncInv ==
    /\ NamesIdentify
    /\ \A s \in Sessions : IdsAligned(s) /\ LoopAligned(s)
    /\ LinksCreatedCustomer

\* customersync that returns without having met a failed call has left no
\* family it read unlinked: InsertCustomer giving up on a refused name must not
\* end in the "synchronized" page (Homepage.java:389).
ReturnMeansLinked ==
    \A s \in Sessions :
        pc[s] = "done" /\ s \notin failed => \A f \in seen[s] : Linked(f)

\* What CustomerSync promises of links: FamilyLinks, of the rows it wrote.
Links == INSTANCE FamilyLinks WITH
    created <- {<<customers[c].madeFor, c>> :
                   c \in {d \in DOMAIN customers : customers[d].madeFor # None}},
    links <- {<<r.family, r.customer>> : r \in SyncRows}

ImplementsFamilyLinks == Links!Spec

\* With nothing failing and no customer but those made here, sessions that
\* overlap strand no family: as long as synchronisation is asked for again and
\* again no family stays without a link, though a session that meets a name another
\* session has just inserted gives up (InsertCustomer.java:41, MappingTable.java:52)
\* and an administrator links customers from an old page.
EveryFamilyLinked ==
    (\E s \in Sessions : []<>(pc[s] = "retrieve"))
        => \A f \in Families : []<>(f \in rwFamilies => Linked(f))
=============================================================================
