--------------------------- MODULE ConnectionPool ---------------------------
(***************************************************************************)
(* The two connection pools, PoolC3P0_Local and PoolC3P0_RenWeb, and the   *)
(* requests that take connections from them.  A handler takes one or two   *)
(* connections and, while it holds them, calls helpers (ActivityLog.log,   *)
(* Students.getStudents, cleanProgress, getRecords, compareandupdate) that *)
(* take another.  No time limit is set: who finds a pool exhausted waits   *)
(* until a connection is closed (setMaxPoolSize(100) and nothing else).    *)
(* A connection that is not closed never comes back.                       *)
(*                                                                         *)
(* getInstance makes a pool when it finds none and is not synchronised: a  *)
(* pool is known here by its database and the request that made it.        *)
(***************************************************************************)
EXTENDS Naturals, FiniteSets

CONSTANTS
    Requests,    \* threads of the server
    Slots,       \* the connections of one pool
    Kinds,       \* the handlers of an instance
    None,
    MaxRuns,     \* bound: requests ever made
    MaxFaults    \* bound: exceptions

Databases == {"Local", "RenWeb"}

\* first, second: the databases a handler connects to; nested: the connections that
\* helpers take meanwhile, the last one first; calls: how many of them it comes to;
\* tidy: whether connections are closed in a finally block; next: what goes on once
\* they are closed.  An exception in a helper skips what the helper would take after it.
Takes(first, second, nested, calls, tidy, next) ==
    [first |-> first, second |-> second, nested |-> nested, calls |-> calls,
     tidy |-> tidy, next |-> next]
Helper(on, tidy, skips) == [on |-> on, tidy |-> tidy, skips |-> skips]

Log == Helper("Local", FALSE, 0)     \* so are cleanProgress and compareandupdate
Name == Helper("RenWeb", FALSE, 0)   \* getStudents, fetchName

\* loadRecords calls fetchName, and getRecords, which takes one of each.
OfRecords == <<Helper("RenWeb", TRUE, 0), Helper("Local", TRUE, 1), Name>>

Handlers ==
    [start           |-> Takes("RenWeb", "Local", <<Name>>, {1}, FALSE, "end"),
     startIdea       |-> Takes("Local", "RenWeb", <<Name>>, {1}, FALSE, "end"),
     getLessons      |-> Takes("RenWeb", "Local", <<>>, {0}, FALSE, "end"),
     deleteLesson    |-> Takes("Local", None, <<Log>>, {0, 1}, TRUE, "end"),
     compartirLesson |-> Takes("Local", None, <<>>, {0}, TRUE, "end"),
     newlesson       |-> Takes("Local", None, <<Log>>, {1}, FALSE, "end"),
     updatelesson    |-> Takes("Local", None, <<Log, Log>>, {2}, FALSE, "end"),
     saveRecords     |-> Takes("Local", None, <<Log, Log>>, {0, 1, 2}, TRUE, "end"),
     editObjective   |-> Takes("Local", None, <<Log>>, {1}, TRUE, "end"),
     loadRecords     |-> Takes("Local", None, OfRecords, {3}, TRUE, "instructors"),
     instructors     |-> Takes("RenWeb", None, <<>>, {0}, TRUE, "end")]

ASSUME PoolAssumption ==
    /\ IsFiniteSet(Requests) /\ IsFiniteSet(Slots)
    /\ Kinds \subseteq DOMAIN Handlers
    /\ None \notin Databases /\ None \notin Databases \X Requests
    /\ None \notin (Databases \X Requests) \X Slots
    /\ MaxRuns \in Nat /\ MaxFaults \in Nat

Pools == Databases \X Requests
Connections == Pools \X Slots

VARIABLES
    datasource,           \* the static field of each pool class
    made,                 \* pools made
    idle,                 \* connections in their pool
    lost,                 \* connections nobody will close
    pc, kind, calls,      \* where a request is, its handler, and helper calls to come
    pool,                 \* the pool getInstance gave it
    con,                  \* the connections it holds: the first, the second, the helper's
    runs, faults

request == <<kind, calls>>
vars == <<datasource, made, idle, lost, pc, request, pool, con, runs, faults>>

Of(r) == Handlers[kind[r]]
Active(r) == pc[r] # "rest"
Asking == {"first", "second", "nested"}
Wanted(r) == IF pc[r] = "first" THEN Of(r).first
             ELSE IF pc[r] = "second" THEN Of(r).second ELSE Of(r).nested[calls[r]].on

Init ==
    /\ datasource = [d \in Databases |-> None]
    /\ made = {} /\ idle = {} /\ lost = {}
    /\ pc = [r \in Requests |-> "rest"]
    /\ kind = [r \in Requests |-> "start"]
    /\ calls = [r \in Requests |-> 0]
    /\ pool = [r \in Requests |-> None]
    /\ con = [r \in Requests |-> [i \in 1..3 |-> None]]
    /\ runs = 0 /\ faults = 0

Goto(r, at) == pc' = [pc EXCEPT ![r] = at]

Arrive(r) ==
    /\ pc[r] = "rest" /\ runs < MaxRuns
    /\ runs' = runs + 1
    /\ \E k \in Kinds : \E n \in Handlers[k].calls :
          /\ kind' = [kind EXCEPT ![r] = k]
          /\ calls' = [calls EXCEPT ![r] = n]
    /\ Goto(r, "first")
    /\ UNCHANGED <<datasource, made, idle, lost, pool, con, faults>>

\* getInstance reads the static field ...
Look(r) ==
    /\ pc[r] \in Asking /\ pool[r] = None
    /\ pool' = [pool EXCEPT ![r] = IF datasource[Wanted(r)] = None
                                   THEN <<Wanted(r), r>> ELSE datasource[Wanted(r)]]
    /\ UNCHANGED <<datasource, made, idle, lost, pc, request, con, runs, faults>>

\* ... and having found it empty assigns it, whatever it holds by now, and reads it again.
Make(r) ==
    /\ pc[r] \in Asking /\ pool[r] # None /\ pool[r] \notin made
    /\ datasource' = [datasource EXCEPT ![Wanted(r)] = pool[r]]
    /\ made' = made \cup {pool[r]}
    /\ idle' = idle \cup ({pool[r]} \X Slots)
    /\ pool' = [pool EXCEPT ![r] = None]
    /\ UNCHANGED <<lost, pc, request, con, runs, faults>>

-----------------------------------------------------------------------------
(* getConnection waits for an idle connection; which one does not matter.  *)

IdleIn(p) == {c \in {p} \X Slots : c \in idle}
Ready(r) == pool[r] \in made /\ IdleIn(pool[r]) # {}
Waiting(r) == pc[r] \in Asking /\ pool[r] \in made /\ IdleIn(pool[r]) = {}
Any(p) == CHOOSE c \in IdleIn(p) : TRUE

Connect(r) ==
    /\ idle' = idle \ {Any(pool[r])}
    /\ pool' = [pool EXCEPT ![r] = None]

TakeFirst(r) ==
    /\ pc[r] = "first" /\ Ready(r)
    /\ con' = [con EXCEPT ![r][1] = Any(pool[r])]
    /\ Connect(r)
    /\ Goto(r, IF Of(r).second = None THEN "body" ELSE "second")
    /\ UNCHANGED <<datasource, made, lost, request, runs, faults>>

TakeSecond(r) ==
    /\ pc[r] = "second" /\ Ready(r)
    /\ con' = [con EXCEPT ![r][2] = Any(pool[r])]
    /\ Connect(r)
    /\ Goto(r, "body")
    /\ UNCHANGED <<datasource, made, lost, request, runs, faults>>

TakeNested(r) ==
    /\ pc[r] = "nested" /\ Ready(r)
    /\ con' = [con EXCEPT ![r][3] = Any(pool[r])]
    /\ Connect(r)
    /\ Goto(r, "inside")
    /\ UNCHANGED <<datasource, made, lost, request, runs, faults>>

Proceed(r) ==
    /\ pc[r] = "body"
    /\ Goto(r, IF calls[r] > 0 THEN "nested" ELSE "close")
    /\ UNCHANGED <<datasource, made, idle, lost, request, pool, con, runs, faults>>

\* (Mutant: the helper returns without closing.)
LeaveOpen(r) ==
    /\ pc[r] = "inside"
    /\ con' = [con EXCEPT ![r][3] = None]
    /\ calls' = [calls EXCEPT ![r] = @ - 1]
    /\ Goto(r, "body")
    /\ UNCHANGED <<datasource, made, idle, lost, kind, pool, runs, faults>>

CloseNested(r) ==
    /\ pc[r] = "inside"
    /\ idle' = idle \cup {con[r][3]}
    /\ con' = [con EXCEPT ![r][3] = None]
    /\ calls' = [calls EXCEPT ![r] = @ - 1]
    /\ Goto(r, "body")
    /\ UNCHANGED <<datasource, made, lost, kind, pool, runs, faults>>

\* Which of the two is closed first differs.
CloseFirst(r) ==
    /\ pc[r] = "close" /\ con[r][1] # None
    /\ idle' = idle \cup {con[r][1]}
    /\ con' = [con EXCEPT ![r][1] = None]
    /\ UNCHANGED <<datasource, made, lost, pc, request, pool, runs, faults>>

CloseSecond(r) ==
    /\ pc[r] = "close" /\ con[r][2] # None
    /\ idle' = idle \cup {con[r][2]}
    /\ con' = [con EXCEPT ![r][2] = None]
    /\ UNCHANGED <<datasource, made, lost, pc, request, pool, runs, faults>>

Finish(r) ==
    /\ pc[r] = "close" /\ con[r][1] = None /\ con[r][2] = None
    /\ IF Of(r).next = "end"
       THEN Goto(r, "rest") /\ UNCHANGED kind
       ELSE Goto(r, "first") /\ kind' = [kind EXCEPT ![r] = Of(r).next]
    /\ UNCHANGED <<datasource, made, idle, lost, calls, pool, con, runs, faults>>

-----------------------------------------------------------------------------
(* Exceptions. *)

GiveUp(held, tidy) ==
    IF tidy THEN idle' = idle \cup held /\ UNCHANGED lost
    ELSE lost' = lost \cup held /\ UNCHANGED idle

\* (Mutant: the call after it is skipped as well.)
FailSkipping(r) ==
    /\ pc[r] \in {"nested", "inside"} /\ faults < MaxFaults
    /\ faults' = faults + 1
    /\ LET helper == Of(r).nested[calls[r]]
       IN  /\ GiveUp({con[r][3]} \ {None}, helper.tidy)
           /\ calls' = [calls EXCEPT ![r] = @ - 2 - helper.skips]
    /\ con' = [con EXCEPT ![r][3] = None]
    /\ pool' = [pool EXCEPT ![r] = None]
    /\ Goto(r, "body")
    /\ UNCHANGED <<datasource, made, kind, runs>>

\* A helper catches its own exceptions, and its caller goes on.
FailInside(r) ==
    /\ pc[r] \in {"nested", "inside"} /\ faults < MaxFaults
    /\ faults' = faults + 1
    /\ LET helper == Of(r).nested[calls[r]]
       IN  /\ GiveUp({con[r][3]} \ {None}, helper.tidy)
           /\ calls' = [calls EXCEPT ![r] = @ - 1 - helper.skips]
    /\ con' = [con EXCEPT ![r][3] = None]
    /\ pool' = [pool EXCEPT ![r] = None]
    /\ Goto(r, "body")
    /\ UNCHANGED <<datasource, made, kind, runs>>

\* (Mutant: the helper's exception ends the handler too.)
FailThrough(r) ==
    /\ pc[r] \in {"first", "second", "body", "close", "nested", "inside"} /\ faults < MaxFaults
    /\ faults' = faults + 1
    /\ GiveUp({con[r][1], con[r][2], con[r][3]} \ {None}, Of(r).tidy)
    /\ con' = [con EXCEPT ![r] = [i \in 1..3 |-> None]]
    /\ pool' = [pool EXCEPT ![r] = None]
    /\ Goto(r, "rest")
    /\ UNCHANGED <<datasource, made, request, runs>>

FailOutside(r) ==
    /\ pc[r] \in {"first", "second", "body", "close"} /\ faults < MaxFaults
    /\ faults' = faults + 1
    /\ GiveUp({con[r][1], con[r][2]} \ {None}, Of(r).tidy)
    /\ con' = [con EXCEPT ![r] = [i \in 1..3 |-> None]]
    /\ pool' = [pool EXCEPT ![r] = None]
    /\ Goto(r, "rest")
    /\ UNCHANGED <<datasource, made, request, runs>>

Work(r) ==
    \/ Look(r) \/ Make(r) \/ TakeFirst(r) \/ TakeSecond(r) \/ TakeNested(r) \/ Proceed(r)
    \/ CloseNested(r) \/ CloseFirst(r) \/ CloseSecond(r) \/ Finish(r)

Next == \E r \in Requests : Arrive(r) \/ Work(r) \/ FailInside(r) \/ FailOutside(r)

Spec == Init /\ [][Next]_vars

\* A thread that can run does; who gets a connection that comes free is not settled.
FairSpec == Spec /\ \A r \in Requests : WF_vars(Work(r))

-----------------------------------------------------------------------------
(* Properties. *)

TypeOK ==
    /\ datasource \in [Databases -> Pools \cup {None}]
    /\ made \subseteq Pools
    /\ idle \subseteq Connections /\ lost \subseteq Connections
    /\ pc \in [Requests -> {"rest", "first", "second", "body", "nested", "inside", "close"}]
    /\ kind \in [Requests -> DOMAIN Handlers]
    /\ calls \in [Requests -> 0..3]
    /\ pool \in [Requests -> Pools \cup {None}]
    /\ con \in [Requests -> [1..3 -> Connections \cup {None}]]
    /\ runs \in 0..MaxRuns /\ faults \in 0..MaxFaults

\* A connection is in its pool, lost, or in one variable of one request: none is closed
\* twice, used by two requests, or forgotten other than by an exception.
OnePlace ==
    /\ idle \cap lost = {}
    /\ \A r \in Requests, i \in 1..3 :
          con[r][i] # None =>
             /\ con[r][i] \notin idle \cup lost
             /\ \A q \in Requests, j \in 1..3 : con[q][j] = con[r][i] => q = r /\ j = i
    /\ \A c \in Connections :
          c[1] \in made <=>
             c \in idle \cup lost \/ \E r \in Requests, i \in 1..3 : con[r][i] = c

LostOf(p) == {s \in Slots : <<p, s>> \in lost}
Busy == {r \in Requests : Active(r)}

\* An exception costs a pool at most one connection, however many the handler and its
\* helper hold (CreateLessonControlador.java:128, LessonsListControlador.java:393).
LeakBound == \A p \in Pools : Cardinality(LostOf(p)) <= faults

Roomy == \A p \in Pools : Cardinality(LostOf(p)) + Cardinality(Busy) < Cardinality(Slots)

Stuck == Busy # {} /\ \A r \in Busy : Waiting(r)

\* Handlers hold connections of one pool while they wait for the other, in both orders
\* (CreateLessonControlador.java:72 and :150), or for another of the same
\* (LessonsListControlador.java:476).  They can all come to wait for each other, but only
\* when the requests under way and the connections lost are as many as a pool has.
NeverStuck == Roomy => ~Stuck

\* While there is room every request comes to an end.
EveryRequestEnds ==
    []Roomy => \A r \in Requests : []<>~Active(r)
=============================================================================
