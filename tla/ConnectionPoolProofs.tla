------------------------ MODULE ConnectionPoolProofs ------------------------
(* Proofs about ConnectionPool. *)
EXTENDS ConnectionPool, FiniteSetTheorems, TLAPS

\* The helper calls a handler has left are on a database, and an exception in one
\* skips no more than are left.
Calls(nested, n) ==
    \A i \in 1..n : /\ nested[i].on \in Databases
                    /\ nested[i].skips \in Nat
                    /\ nested[i].skips < i

LEMMA HelperCalls ==
    /\ \A nested : Calls(nested, 0)
    /\ Calls(<<Log>>, 1) /\ Calls(<<Name>>, 1)
    /\ Calls(<<Log, Log>>, 1) /\ Calls(<<Log, Log>>, 2)
    /\ Calls(OfRecords, 3)
<1>1. /\ Log.on = "Local" /\ Log.skips = 0
      /\ Name.on = "RenWeb" /\ Name.skips = 0
  BY DEF Log, Name, Helper
<1>2. \A i \in 1..1 : i = 1
  OBVIOUS
<1>3. \A i \in 1..2 : i = 1 \/ i = 2
  OBVIOUS
<1>4. \A i \in 1..3 : i = 1 \/ i = 2 \/ i = 3
  OBVIOUS
<1>5. \A nested : Calls(nested, 0)
  BY DEF Calls
<1>6. Calls(<<Log>>, 1) /\ Calls(<<Name>>, 1)
  BY <1>1, <1>2 DEF Calls, Databases
<1>7. Calls(<<Log, Log>>, 1) /\ Calls(<<Log, Log>>, 2)
  BY <1>1, <1>2, <1>3 DEF Calls, Databases
<1>8. Calls(OfRecords, 3)
  <2>1. /\ OfRecords[1].on = "RenWeb" /\ OfRecords[1].skips = 0
        /\ OfRecords[2].on = "Local" /\ OfRecords[2].skips = 1
        /\ OfRecords[3].on = "RenWeb" /\ OfRecords[3].skips = 0
    BY <1>1 DEF OfRecords, Helper
  <2> QED
    BY <1>4, <2>1 DEF Calls, Databases
<1> QED
  BY <1>5, <1>6, <1>7, <1>8

\* What the proofs use of the table of handlers.
Shape(h) ==
    /\ h.first \in Databases
    /\ h.second \in Databases \cup {None}
    /\ h.second # h.first
    /\ h.calls \subseteq 0..3
    /\ \A n \in h.calls : Calls(h.nested, n)

LEMMA HandlerShape ==
    ASSUME NEW k \in DOMAIN Handlers
    PROVE  /\ Shape(Handlers[k])
           /\ Handlers[k].next # "end" => Handlers[k].next \in DOMAIN Handlers
<1> USE HelperCalls, PoolAssumption DEF Shape, Takes, Databases
<1>1. Shape(Handlers.start)
  BY DEF Handlers
<1>2. Shape(Handlers.startIdea)
  BY DEF Handlers
<1>3. Shape(Handlers.getLessons)
  BY DEF Handlers
<1>4. Shape(Handlers.deleteLesson)
  BY DEF Handlers
<1>5. Shape(Handlers.compartirLesson)
  BY DEF Handlers
<1>6. Shape(Handlers.newlesson)
  BY DEF Handlers
<1>7. Shape(Handlers.updatelesson)
  BY DEF Handlers
<1>8. Shape(Handlers.saveRecords)
  BY DEF Handlers
<1>9. Shape(Handlers.editObjective)
  BY DEF Handlers
<1>10. Shape(Handlers.loadRecords)
  BY DEF Handlers
<1>11. Shape(Handlers.instructors)
  BY DEF Handlers
<1>12. Handlers[k].next # "end" => Handlers[k].next \in DOMAIN Handlers
  BY DEF Handlers
<1> QED
  <2> HIDE DEF Shape, Takes
  <2> QED
    BY <1>1, <1>2, <1>3, <1>4, <1>5, <1>6, <1>7,
       <1>8, <1>9, <1>10, <1>11, <1>12 DEF Handlers

\* What a request's variables say of where it is: the connections it holds are of
\* the databases its handler names, and of different ones while it waits.
Local(r) ==
    /\ con[r][3] # None <=> pc[r] = "inside"
    /\ con[r][1] # None => con[r][1][1][1] = Of(r).first
    /\ con[r][2] # None => con[r][2][1][1] = Of(r).second
    /\ pc[r] \in {"rest", "first"} => con[r][1] = None /\ con[r][2] = None
    /\ pc[r] = "second" => con[r][2] = None /\ Of(r).second # None
    /\ pool[r] # None => pc[r] \in Asking /\ pool[r][1] = Wanted(r)
    /\ Calls(Of(r).nested, calls[r])
    /\ pc[r] \in {"nested", "inside"} => calls[r] > 0
    /\ pc[r] = "close" => calls[r] = 0

\* The static field of a pool class holds a pool of its own database.
Homes == \A d \in Databases : datasource[d] # None => datasource[d][1] = d

Locals == Homes /\ \A r \in Requests : Local(r)

LEMMA WantedKnown ==
    ASSUME TypeOK, Locals, NEW r \in Requests, pc[r] \in Asking
    PROVE  Wanted(r) \in Databases
<1>1. Shape(Of(r))
  BY HandlerShape DEF TypeOK, Of
<1>2. CASE pc[r] = "nested"
  <2>1. calls[r] \in 1..calls[r]
    BY <1>2 DEF Locals, Local, TypeOK
  <2> QED
    BY <1>2, <2>1 DEF Locals, Local, Calls, Wanted
<1>3. CASE pc[r] # "nested"
  BY <1>1, <1>3 DEF Locals, Local, Shape, Wanted, Asking
<1> QED
  BY <1>2, <1>3

\* The calls left after a helper has returned or failed.
LEMMA CallsLeft ==
    ASSUME TypeOK, Locals, NEW r \in Requests, pc[r] \in {"nested", "inside"}
    PROVE  LET skips == Of(r).nested[calls[r]].skips
           IN  /\ calls[r] - 1 \in 0..3 /\ Calls(Of(r).nested, calls[r] - 1)
               /\ calls[r] - 1 - skips \in 0..3 /\ Calls(Of(r).nested, calls[r] - 1 - skips)
<1> DEFINE n == calls[r]
           skips == Of(r).nested[n].skips
<1>1. n \in 1..3 /\ Calls(Of(r).nested, n)
  BY DEF TypeOK, Locals, Local
<1>2. skips \in Nat /\ skips < n
  BY <1>1 DEF Calls
<1> HIDE DEF skips
<1>3. n - 1 \in 0..3 /\ n - 1 - skips \in 0..3
  BY <1>1, <1>2
<1>4. \A i \in 1..(n - 1) : i \in 1..n
  BY <1>1
<1>5. \A i \in 1..(n - 1 - skips) : i \in 1..n
  BY <1>1, <1>2
<1>6. Calls(Of(r).nested, n - 1) /\ Calls(Of(r).nested, n - 1 - skips)
  BY <1>1, <1>4, <1>5 DEF Calls
<1> QED
  BY <1>3, <1>6 DEF skips

LEMMA AnyIsIdle ==
    ASSUME TypeOK, NEW r \in Requests, Ready(r)
    PROVE  /\ pool[r] \in Pools
           /\ Any(pool[r]) \in idle
           /\ Any(pool[r]) \in Connections
           /\ Any(pool[r])[1] = pool[r]
<1>1. pool[r] \in Pools
  BY DEF TypeOK, Ready
<1>2. Any(pool[r]) \in IdleIn(pool[r])
  BY DEF Ready, Any
<1> QED
  BY <1>1, <1>2 DEF IdleIn, Connections

LEMMA TypeInit == Init => TypeOK
  BY PoolAssumption DEF Init, TypeOK, Handlers

LEMMA TypeStep == TypeOK /\ Locals /\ [Next]_vars => TypeOK'
<1> SUFFICES ASSUME TypeOK, Locals, [Next]_vars
             PROVE  TypeOK'
  OBVIOUS
<1> USE DEF TypeOK, request, Goto
<1>1. CASE UNCHANGED vars
  BY <1>1 DEF vars
<1>2. ASSUME NEW r \in Requests, Arrive(r)
      PROVE  TypeOK'
  BY <1>2, HandlerShape, PoolAssumption DEF Arrive, Shape
<1>3. ASSUME NEW r \in Requests, Look(r)
      PROVE  TypeOK'
  <2>1. Wanted(r) \in Databases
    BY <1>3, WantedKnown DEF Look
  <2> QED
    BY <1>3, <2>1 DEF Look, Pools
<1>4. ASSUME NEW r \in Requests, Make(r)
      PROVE  TypeOK'
  <2>1. Wanted(r) \in Databases
    BY <1>4, WantedKnown DEF Make
  <2> QED
    BY <1>4, <2>1 DEF Make, Connections
<1>5. ASSUME NEW r \in Requests, TakeFirst(r) \/ TakeSecond(r) \/ TakeNested(r)
      PROVE  TypeOK'
  <2>1. Any(pool[r]) \in Connections
    BY <1>5, AnyIsIdle DEF TakeFirst, TakeSecond, TakeNested
  <2>2. PICK i \in 1..3 : con' = [con EXCEPT ![r][i] = Any(pool[r])]
    BY <1>5 DEF TakeFirst, TakeSecond, TakeNested
  <2>3. con' \in [Requests -> [1..3 -> Connections \cup {None}]]
    BY <2>1, <2>2
  <2> QED
    BY <1>5, <2>3 DEF TakeFirst, TakeSecond, TakeNested, Connect
<1>6. ASSUME NEW r \in Requests, Proceed(r)
      PROVE  TypeOK'
  BY <1>6 DEF Proceed
<1>7. ASSUME NEW r \in Requests, CloseNested(r)
      PROVE  TypeOK'
  <2>1. calls[r] - 1 \in 0..3
    BY <1>7, CallsLeft DEF CloseNested
  <2>2. con[r][3] # None
    BY <1>7 DEF CloseNested, Locals, Local
  <2> QED
    BY <1>7, <2>1, <2>2 DEF CloseNested
<1>8. ASSUME NEW r \in Requests, CloseFirst(r) \/ CloseSecond(r)
      PROVE  TypeOK'
  <2>1. PICK i \in 1..3 : /\ con[r][i] # None
                         /\ idle' = idle \cup {con[r][i]}
                         /\ con' = [con EXCEPT ![r][i] = None]
    BY <1>8 DEF CloseFirst, CloseSecond
  <2>2. con[r][i] \in Connections
    BY <2>1
  <2>3. con' \in [Requests -> [1..3 -> Connections \cup {None}]]
    BY <2>1
  <2>4. idle' \subseteq Connections
    BY <2>1, <2>2
  <2>5. UNCHANGED <<datasource, made, lost, pc, request, pool, runs, faults>>
    BY <1>8 DEF CloseFirst, CloseSecond
  <2> QED
    BY <2>3, <2>4, <2>5
<1>9. ASSUME NEW r \in Requests, Finish(r)
      PROVE  TypeOK'
  BY <1>9, HandlerShape DEF Finish, Of
<1>10. ASSUME NEW r \in Requests, FailInside(r)
       PROVE  TypeOK'
  <2>1. calls[r] - 1 - Of(r).nested[calls[r]].skips \in 0..3
    BY <1>10, CallsLeft DEF FailInside
  <2>2. calls' \in [Requests -> 0..3]
    BY <1>10, <2>1 DEF FailInside
  <2> QED
    BY <1>10, <2>2, PoolAssumption DEF FailInside, GiveUp
<1>11. ASSUME NEW r \in Requests, FailOutside(r)
       PROVE  TypeOK'
  BY <1>11, PoolAssumption DEF FailOutside, GiveUp
<1> QED
  BY <1>1, <1>2, <1>3, <1>4, <1>5, <1>6, <1>7, <1>8, <1>9, <1>10, <1>11 DEF Next, Work

LEMMA LocalInit == Init => Locals
  BY HelperCalls DEF Init, Locals, Homes, Local, Asking

LEMMA HomesStep == TypeOK /\ Locals /\ [Next]_vars => Homes'
<1> SUFFICES ASSUME TypeOK, Locals, [Next]_vars
             PROVE  Homes'
  OBVIOUS
<1>1. ASSUME NEW r \in Requests, Make(r)
      PROVE  Homes'
  <2>1. Wanted(r) \in Databases
    BY <1>1, WantedKnown DEF Make
  <2>2. pool[r][1] = Wanted(r)
    BY <1>1 DEF Make, Locals, Local
  <2> QED
    BY <1>1, <2>1, <2>2 DEF Make, Locals, Homes, TypeOK
<1>2. CASE UNCHANGED datasource
  BY <1>2 DEF Locals, Homes
<1> QED
  BY <1>1, <1>2 DEF Next, Work, vars, Arrive, Look, TakeFirst, TakeSecond, TakeNested, Proceed,
     CloseNested, CloseFirst, CloseSecond, Finish, FailInside, FailOutside

LEMMA LocalStep == TypeOK /\ Locals /\ [Next]_vars => Locals'
<1> SUFFICES ASSUME TypeOK, Locals, [Next]_vars, NEW q \in Requests
             PROVE  Local(q)'
  BY HomesStep DEF Locals
<1> Homes /\ Local(q)
  BY DEF Locals
<1> USE DEF TypeOK, Local, Homes, request, Goto, Of, Asking, Wanted
<1>1. CASE UNCHANGED vars
  BY <1>1 DEF vars
<1>2. ASSUME NEW r \in Requests, Arrive(r)
      PROVE  Local(q)'
  BY <1>2, HandlerShape, PoolAssumption DEF Arrive, Shape
<1>3. ASSUME NEW r \in Requests, Look(r)
      PROVE  Local(q)'
  <2>1. Wanted(r) \in Databases
    BY <1>3, WantedKnown DEF Look
  <2> QED
    BY <1>3, <2>1 DEF Look
<1>4. ASSUME NEW r \in Requests, Make(r)
      PROVE  Local(q)'
  <2>1. Wanted(r) \in Databases
    BY <1>4, WantedKnown DEF Make
  <2> QED
    BY <1>4, <2>1 DEF Make
<1>5. ASSUME NEW r \in Requests, TakeFirst(r) \/ TakeSecond(r) \/ TakeNested(r)
      PROVE  Local(q)'
  <2>1. /\ Any(pool[r]) \in Connections
        /\ Any(pool[r])[1] = pool[r]
        /\ pool[r] # None
    BY <1>5, AnyIsIdle, PoolAssumption DEF TakeFirst, TakeSecond, TakeNested, Pools
  <2>2. Any(pool[r]) # None
    BY <2>1, PoolAssumption DEF Connections, Pools
  <2>3. pool[r][1] = Wanted(r)
    BY <1>5, <2>1 DEF TakeFirst, TakeSecond, TakeNested, Locals
  <2>4. CASE TakeFirst(r)
    BY <2>1, <2>2, <2>3, <2>4 DEF TakeFirst, Connect
  <2>5. CASE TakeSecond(r)
    BY <2>1, <2>2, <2>3, <2>5 DEF TakeSecond, Connect
  <2>6. CASE TakeNested(r)
    BY <2>1, <2>2, <2>3, <2>6 DEF TakeNested, Connect
  <2> QED
    BY <1>5, <2>4, <2>5, <2>6
<1>6. ASSUME NEW r \in Requests, Proceed(r)
      PROVE  Local(q)'
  BY <1>6 DEF Proceed
<1>7. ASSUME NEW r \in Requests, CloseNested(r)
      PROVE  Local(q)'
  <2>1. Calls(Of(r).nested, calls[r] - 1) /\ calls[r] - 1 \in 0..3
    BY <1>7, CallsLeft DEF CloseNested
  <2> QED
    BY <1>7, <2>1 DEF CloseNested
<1>8. ASSUME NEW r \in Requests, CloseFirst(r) \/ CloseSecond(r)
      PROVE  Local(q)'
  BY <1>8 DEF CloseFirst, CloseSecond
<1>9. ASSUME NEW r \in Requests, Finish(r)
      PROVE  Local(q)'
  BY <1>9, HelperCalls DEF Finish
<1>10. ASSUME NEW r \in Requests, FailInside(r)
       PROVE  Local(q)'
  <2> DEFINE n == calls[r] - 1 - Of(r).nested[calls[r]].skips
  <2>1. Calls(Of(r).nested, n) /\ n \in 0..3
    BY <1>10, CallsLeft DEF FailInside
  <2>2. /\ calls' = [calls EXCEPT ![r] = n]
        /\ pc' = [pc EXCEPT ![r] = "body"]
        /\ con' = [con EXCEPT ![r][3] = None]
        /\ pool' = [pool EXCEPT ![r] = None]
        /\ UNCHANGED <<datasource, kind>>
    BY <1>10 DEF FailInside
  <2> HIDE DEF n
  <2>3. CASE q = r
    BY <1>10, <2>1, <2>2, <2>3 DEF FailInside
  <2>4. CASE q # r
    BY <2>2, <2>4
  <2> QED
    BY <2>3, <2>4
<1>11. ASSUME NEW r \in Requests, FailOutside(r)
       PROVE  Local(q)'
  BY <1>11 DEF FailOutside
<1> QED
  BY <1>1, <1>2, <1>3, <1>4, <1>5, <1>6, <1>7, <1>8, <1>9, <1>10, <1>11 DEF Next, Work

LEMMA PlaceInit == Init => OnePlace
<1> SUFFICES ASSUME Init
             PROVE  OnePlace
  OBVIOUS
<1>1. \A r \in Requests, i \in 1..3 : con[r][i] = None
  BY DEF Init
<1>2. \A c \in Connections : c # None
  BY PoolAssumption DEF Connections, Pools
<1> QED
  BY <1>1, <1>2 DEF Init, OnePlace

\* A request lets go of connections it holds, and they go to their pool or are lost.
HeldAt(r, I) == {con[r][i] : i \in I} \ {None}

LEMMA LettingGo ==
    ASSUME TypeOK, OnePlace, NEW r \in Requests, NEW I \in SUBSET (1..3),
           \A q \in Requests, j \in 1..3 :
              con'[q][j] = IF q = r /\ j \in I THEN None ELSE con[q][j],
           \/ idle' = idle \cup HeldAt(r, I) /\ lost' = lost
           \/ lost' = lost \cup HeldAt(r, I) /\ idle' = idle,
           made' = made
    PROVE  OnePlace'
<1>1. \A c \in HeldAt(r, I) : c \notin idle \cup lost /\ \E i \in I : con[r][i] = c /\ c # None
  BY DEF OnePlace, HeldAt
<1>2. (idle \cap lost = {})'
  BY <1>1 DEF OnePlace
<1>3. ASSUME NEW q \in Requests, NEW j \in 1..3, con'[q][j] # None
      PROVE  /\ con'[q][j] = con[q][j]
             /\ con'[q][j] \notin (idle \cup lost)'
             /\ \A t \in Requests, k \in 1..3 : con'[t][k] = con'[q][j] => t = q /\ k = j
  <2>1. con'[q][j] = con[q][j] /\ ~(q = r /\ j \in I)
    BY <1>3
  <2>2. con[q][j] \notin HeldAt(r, I)
    BY <1>1, <1>3, <2>1 DEF OnePlace
  <2> QED
    BY <1>3, <2>1, <2>2 DEF OnePlace
<1>4. ASSUME NEW c \in Connections
      PROVE  c[1] \in made' <=>
                c \in (idle \cup lost)' \/ \E q \in Requests, j \in 1..3 : con'[q][j] = c
  <2>1. c # None
    BY PoolAssumption DEF Connections, Pools
  <2>2. (\E q \in Requests, j \in 1..3 : con[q][j] = c) <=>
           c \in HeldAt(r, I) \/ \E q \in Requests, j \in 1..3 : con'[q][j] = c
    BY <1>1, <1>3, <2>1 DEF HeldAt
  <2>3. c \in (idle \cup lost)' <=> c \in (idle \cup lost) \cup HeldAt(r, I)
    OBVIOUS
  <2> QED
    BY <2>2, <2>3 DEF OnePlace
<1> QED
  BY <1>2, <1>3, <1>4 DEF OnePlace

\* A request puts an idle connection where it held none.
LEMMA Taking ==
    ASSUME TypeOK, OnePlace, NEW r \in Requests, NEW i \in 1..3, NEW x \in idle,
           con[r][i] = None,
           \A q \in Requests, j \in 1..3 :
              con'[q][j] = IF q = r /\ j = i THEN x ELSE con[q][j],
           idle' = idle \ {x}, lost' = lost, made' = made
    PROVE  OnePlace'
<1>1. x # None /\ x \notin lost /\ \A q \in Requests, j \in 1..3 : con[q][j] # x
  BY PoolAssumption DEF TypeOK, OnePlace, Connections, Pools
<1>2. (idle \cap lost = {})'
  BY DEF OnePlace
<1>3. ASSUME NEW q \in Requests, NEW j \in 1..3, con'[q][j] # None
      PROVE  /\ con'[q][j] \notin (idle \cup lost)'
             /\ \A t \in Requests, k \in 1..3 : con'[t][k] = con'[q][j] => t = q /\ k = j
  <2>1. CASE q = r /\ j = i
    BY <1>1, <2>1
  <2>2. CASE ~(q = r /\ j = i)
    BY <1>1, <1>3, <2>2 DEF OnePlace
  <2> QED
    BY <2>1, <2>2
<1>4. ASSUME NEW c \in Connections
      PROVE  c[1] \in made' <=>
                c \in (idle \cup lost)' \/ \E q \in Requests, j \in 1..3 : con'[q][j] = c
  <2>1. c # None
    BY PoolAssumption DEF Connections, Pools
  <2>2. (\E q \in Requests, j \in 1..3 : con'[q][j] = c) <=>
           c = x \/ \E q \in Requests, j \in 1..3 : con[q][j] = c
    BY <2>1
  <2> QED
    BY <2>2 DEF OnePlace
<1> QED
  BY <1>2, <1>3, <1>4 DEF OnePlace

LEMMA PlaceStep == TypeOK /\ Locals /\ OnePlace /\ [Next]_vars => OnePlace'
<1> SUFFICES ASSUME TypeOK, Locals, OnePlace, [Next]_vars
             PROVE  OnePlace'
  OBVIOUS
<1>1. CASE UNCHANGED <<made, idle, lost, con>>
  BY <1>1 DEF OnePlace
<1>2. ASSUME NEW r \in Requests, Make(r)
      PROVE  OnePlace'
  <2>1. pool[r] \in Pools /\ pool[r] \notin made
    BY <1>2 DEF Make, TypeOK
  <2>2. /\ idle' = idle \cup ({pool[r]} \X Slots) /\ made' = made \cup {pool[r]}
        /\ lost' = lost /\ con' = con
    BY <1>2 DEF Make
  <2>3. \A c \in {pool[r]} \X Slots :
           /\ c \in Connections /\ c[1] = pool[r] /\ c # None
           /\ c \notin idle \cup lost /\ \A q \in Requests, j \in 1..3 : con[q][j] # c
    BY <2>1, PoolAssumption DEF OnePlace, Connections, Pools
  <2>4. (idle \cap lost = {})'
    BY <2>2, <2>3 DEF OnePlace
  <2>5. ASSUME NEW q \in Requests, NEW j \in 1..3, con[q][j] # None
        PROVE  con[q][j] \notin idle' \cup lost'
    BY <2>2, <2>3, <2>5 DEF OnePlace
  <2>6. ASSUME NEW c \in Connections
        PROVE  c[1] \in made' <=>
                  c \in (idle \cup lost)' \/ \E q \in Requests, j \in 1..3 : con[q][j] = c
    <3>1. c[1] = pool[r] => c \in {pool[r]} \X Slots
      BY DEF Connections
    <3> QED
      BY <2>2, <2>3, <3>1 DEF OnePlace
  <2> QED
    BY <2>2, <2>4, <2>5, <2>6 DEF OnePlace
<1>3. ASSUME NEW r \in Requests, TakeFirst(r) \/ TakeSecond(r) \/ TakeNested(r)
      PROVE  OnePlace'
  <2>1. Any(pool[r]) \in idle
    BY <1>3, AnyIsIdle DEF TakeFirst, TakeSecond, TakeNested
  <2>2. PICK i \in 1..3 :
           /\ con[r][i] = None
           /\ con' = [con EXCEPT ![r][i] = Any(pool[r])]
           /\ idle' = idle \ {Any(pool[r])} /\ lost' = lost /\ made' = made
    BY <1>3 DEF TakeFirst, TakeSecond, TakeNested, Connect, Locals, Local
  <2> QED
    BY <2>1, <2>2, Taking DEF TypeOK
<1>4. ASSUME NEW r \in Requests, CloseNested(r) \/ CloseFirst(r) \/ CloseSecond(r)
      PROVE  OnePlace'
  <2>1. PICK i \in 1..3 :
           /\ con[r][i] # None
           /\ con' = [con EXCEPT ![r][i] = None]
           /\ idle' = idle \cup {con[r][i]} /\ lost' = lost /\ made' = made
    BY <1>4 DEF CloseNested, CloseFirst, CloseSecond, Locals, Local
  <2>2. {con[r][i]} = HeldAt(r, {i})
    BY <2>1 DEF HeldAt
  <2>3. \A q \in Requests, j \in 1..3 :
           con'[q][j] = IF q = r /\ j \in {i} THEN None ELSE con[q][j]
    BY <2>1 DEF TypeOK
  <2>4. {i} \in SUBSET (1..3)
    OBVIOUS
  <2> QED
    BY <2>1, <2>2, <2>3, <2>4, LettingGo
<1>5. ASSUME NEW r \in Requests, FailInside(r)
      PROVE  OnePlace'
  <2>1. {con[r][3]} \ {None} = HeldAt(r, {3})
    BY DEF HeldAt
  <2>2. /\ \/ idle' = idle \cup HeldAt(r, {3}) /\ lost' = lost
           \/ lost' = lost \cup HeldAt(r, {3}) /\ idle' = idle
        /\ made' = made
    BY <1>5, <2>1 DEF FailInside, GiveUp
  <2>3. \A q \in Requests, j \in 1..3 :
           con'[q][j] = IF q = r /\ j \in {3} THEN None ELSE con[q][j]
    BY <1>5 DEF FailInside, TypeOK
  <2>4. {3} \in SUBSET (1..3)
    OBVIOUS
  <2> QED
    BY <2>2, <2>3, <2>4, LettingGo
<1>6. ASSUME NEW r \in Requests, FailOutside(r)
      PROVE  OnePlace'
  <2>1. {con[r][1], con[r][2]} \ {None} = HeldAt(r, {1, 2})
    BY DEF HeldAt
  <2>2. /\ \/ idle' = idle \cup HeldAt(r, {1, 2}) /\ lost' = lost
           \/ lost' = lost \cup HeldAt(r, {1, 2}) /\ idle' = idle
        /\ made' = made
    BY <1>6, <2>1 DEF FailOutside, GiveUp
  <2>3. con[r][3] = None
    BY <1>6 DEF FailOutside, Locals, Local
  <2>4. \A q \in Requests, j \in 1..3 :
           con'[q][j] = IF q = r /\ j \in {1, 2} THEN None ELSE con[q][j]
    BY <1>6, <2>3 DEF FailOutside, TypeOK
  <2>5. {1, 2} \in SUBSET (1..3)
    OBVIOUS
  <2> QED
    BY <2>2, <2>4, <2>5, LettingGo
<1> QED
  BY <1>1, <1>2, <1>3, <1>4, <1>5, <1>6
     DEF Next, Work, vars, Arrive, Look, Proceed, Finish

-----------------------------------------------------------------------------
\* An exception loses one connection of a pool at most: the two that a handler has
\* are of different databases.

LEMMA LostOne ==
    ASSUME NEW S, NEW T, IsFiniteSet(S), NEW x, T \subseteq S \cup {x}
    PROVE  IsFiniteSet(T) /\ Cardinality(T) <= Cardinality(S) + 1
<1>1. /\ IsFiniteSet(S \cup {x})
      /\ Cardinality(S \cup {x}) <= Cardinality(S) + 1
  <2>1. Cardinality(S) \in Nat
    BY FS_CardinalityType
  <2>2. /\ IsFiniteSet(S \cup {x})
        /\ Cardinality(S \cup {x}) = IF x \in S THEN Cardinality(S) ELSE Cardinality(S) + 1
    BY FS_AddElement
  <2> QED
    BY <2>1, <2>2
<1>2. IsFiniteSet(T) /\ Cardinality(T) <= Cardinality(S \cup {x})
  BY <1>1, FS_Subset
<1> QED
  BY <1>1, <1>2, FS_CardinalityType

LEMMA LostFinite ==
    ASSUME NEW p
    PROVE  IsFiniteSet(LostOf(p))
  BY PoolAssumption, FS_Subset DEF LostOf

LEMMA LeakStep ==
    TypeOK /\ Locals /\ LeakBound /\ [Next]_vars => LeakBound'
<1> SUFFICES ASSUME TypeOK, Locals, LeakBound, [Next]_vars, NEW p \in Pools
             PROVE  Cardinality(LostOf(p)') <= faults'
  BY DEF LeakBound
<1>1. /\ Cardinality(LostOf(p)) <= faults /\ Cardinality(LostOf(p)) \in Nat
      /\ faults \in Nat
  BY LostFinite, FS_CardinalityType DEF LeakBound, TypeOK
<1>2. CASE UNCHANGED <<lost, faults>>
  BY <1>1, <1>2 DEF LostOf
<1>3. ASSUME NEW x, LostOf(p)' \subseteq LostOf(p) \cup {x}, faults' = faults + 1
      PROVE  Cardinality(LostOf(p)') <= faults'
  <2>1. Cardinality(LostOf(p)') <= Cardinality(LostOf(p)) + 1 /\ IsFiniteSet(LostOf(p)')
    BY <1>3, LostFinite, LostOne
  <2>2. Cardinality(LostOf(p)') \in Nat
    BY <2>1, FS_CardinalityType
  <2> QED
    BY <1>1, <1>3, <2>1, <2>2
<1>4. ASSUME NEW r \in Requests, FailInside(r)
      PROVE  Cardinality(LostOf(p)') <= faults'
  <2>1. lost' \subseteq lost \cup {con[r][3]} /\ faults' = faults + 1
    BY <1>4 DEF FailInside, GiveUp
  <2>2. LostOf(p)' \subseteq LostOf(p) \cup {con[r][3][2]}
    BY <2>1 DEF LostOf
  <2> QED
    BY <1>3, <2>1, <2>2
<1>5. ASSUME NEW r \in Requests, FailOutside(r)
      PROVE  Cardinality(LostOf(p)') <= faults'
  <2>1. lost' \subseteq lost \cup ({con[r][1], con[r][2]} \ {None}) /\ faults' = faults + 1
    BY <1>5 DEF FailOutside, GiveUp
  <2>2. Of(r).second # Of(r).first
    BY HandlerShape DEF Of, TypeOK, Shape
  <2>3. CASE con[r][1] # None /\ con[r][1][1] = p
    <3>1. ~(con[r][2] # None /\ con[r][2][1] = p)
      BY <2>2, <2>3 DEF Locals, Local
    <3>2. LostOf(p)' \subseteq LostOf(p) \cup {con[r][1][2]}
      BY <2>1, <3>1 DEF LostOf
    <3> QED
      BY <1>3, <2>1, <3>2
  <2>4. CASE ~(con[r][1] # None /\ con[r][1][1] = p)
    <3>1. LostOf(p)' \subseteq LostOf(p) \cup {con[r][2][2]}
      BY <2>1, <2>4 DEF LostOf
    <3> QED
      BY <1>3, <2>1, <3>1
  <2> QED
    BY <2>3, <2>4
<1> QED
  BY <1>2, <1>4, <1>5
     DEF Next, Work, vars, Arrive, Look, Make, TakeFirst, TakeSecond, TakeNested, Proceed,
         CloseNested, CloseFirst, CloseSecond, Finish

-----------------------------------------------------------------------------
\* If every request under way waits, the pool that one of them waits for is exhausted;
\* each of its connections is lost or held by a request, and none holds two of them: so
\* there are as many requests under way as there are connections left.

LEMMA WaitersHoldOne ==
    ASSUME TypeOK, Locals, NEW q \in Requests, Waiting(q),
           NEW i \in 1..3, NEW j \in 1..3,
           con[q][i] # None, con[q][j] # None, con[q][i][1] = con[q][j][1]
    PROVE  i = j
<1>1. Of(q).second # Of(q).first
  BY HandlerShape DEF Of, TypeOK, Shape
<1>2. i # 3 /\ j # 3
  BY DEF Locals, Local, Waiting, Asking
<1> QED
  BY <1>1, <1>2 DEF Locals, Local

LEMMA RoomForOne ==
    TypeOK /\ Locals /\ OnePlace => NeverStuck
<1> SUFFICES ASSUME TypeOK, Locals, OnePlace, Roomy, Stuck
             PROVE  FALSE
  BY DEF NeverStuck
<1>1. PICK r \in Busy : Waiting(r)
  BY DEF Stuck
<1> DEFINE p == pool[r]
           Left == Slots \ LostOf(p)
           Holds(q, s) == \E i \in 1..3 : con[q][i] = <<p, s>>
<1>2. p \in Pools /\ p \in made /\ IdleIn(p) = {} /\ r \in Requests
  BY <1>1 DEF Waiting, TypeOK, Busy
<1>3. ASSUME NEW s \in Left
      PROVE  \E q \in Busy : Holds(q, s)
  <2>1. <<p, s>> \in Connections /\ <<p, s>> # None
    BY <1>2, PoolAssumption DEF Connections, Pools
  <2>2. <<p, s>> \notin idle /\ <<p, s>> \notin lost
    BY <1>2 DEF IdleIn, LostOf
  <2>3. PICK q \in Requests, i \in 1..3 : con[q][i] = <<p, s>>
    BY <1>2, <2>1, <2>2 DEF OnePlace
  <2>4. q \in Busy
    BY <2>1, <2>3 DEF Busy, Active, Locals, Local
  <2> QED
    BY <2>3, <2>4
<1> DEFINE holder == [s \in Left |-> CHOOSE q \in Busy : Holds(q, s)]
<1>4. \A s \in Left : holder[s] \in Busy /\ Holds(holder[s], s)
  BY <1>3
<1>5. holder \in [Left -> Busy]
  BY <1>4
<1>6. ASSUME NEW s \in Left, NEW t \in Left, holder[s] = holder[t]
      PROVE  s = t
  <2>1. PICK q \in Busy : q = holder[s] /\ Holds(q, s) /\ Holds(q, t)
    BY <1>4, <1>6
  <2>2. Waiting(q) /\ q \in Requests
    BY DEF Stuck, Busy
  <2>3. PICK i \in 1..3, j \in 1..3 : con[q][i] = <<p, s>> /\ con[q][j] = <<p, t>>
    BY <2>1
  <2>4. <<p, s>> # None /\ <<p, t>> # None
    BY <1>2, PoolAssumption DEF Pools
  <2>5. /\ con[q][i] # None /\ con[q][j] # None
        /\ con[q][i][1] = con[q][j][1]
    BY <2>3, <2>4
  <2>6. i = j
    BY <2>2, <2>5, WaitersHoldOne
  <2> QED
    BY <2>3, <2>6
<1>7. IsFiniteSet(Left) /\ IsFiniteSet(Busy) /\ IsFiniteSet(Slots)
  BY PoolAssumption, FS_Difference, FS_Subset DEF Busy
<1>8. Cardinality(Left) <= Cardinality(Busy)
  <2> SUFFICES ASSUME Cardinality(Busy) < Cardinality(Left)
               PROVE  FALSE
    BY <1>7, FS_CardinalityType
  <2> HIDE DEF holder, Left
  <2> QED
    BY <1>5, <1>6, <1>7, FS_PigeonHole
<1>9. Cardinality(Left) = Cardinality(Slots) - Cardinality(LostOf(p))
  <2>1. Slots \cap LostOf(p) = LostOf(p)
    BY DEF LostOf
  <2> QED
    BY <1>7, <2>1, FS_Difference
<1>10. Cardinality(LostOf(p)) + Cardinality(Busy) < Cardinality(Slots)
  BY <1>2 DEF Roomy
<1> QED
  BY <1>7, <1>8, <1>9, <1>10, LostFinite, FS_CardinalityType

-----------------------------------------------------------------------------
\* Every variable keeps its type.
THEOREM PoolTypeCorrect == Spec => []TypeOK
<1>1. Init => TypeOK /\ Locals
  BY TypeInit, LocalInit
<1>2. TypeOK /\ Locals /\ [Next]_vars => (TypeOK /\ Locals)'
  BY TypeStep, LocalStep
<1> QED
  BY <1>1, <1>2, PTL DEF Spec

LEMMA LocalsHold == Spec => [](TypeOK /\ Locals)
<1>1. Init => TypeOK /\ Locals
  BY TypeInit, LocalInit
<1>2. TypeOK /\ Locals /\ [Next]_vars => (TypeOK /\ Locals)'
  BY TypeStep, LocalStep
<1> QED
  BY <1>1, <1>2, PTL DEF Spec

\* However many requests there are and whatever the handlers do, a connection is in its
\* pool, lost to an exception, or in one variable of one request.
THEOREM ConnectionsInOnePlace == Spec => []OnePlace
  BY LocalsHold, PlaceInit, PlaceStep, PTL DEF Spec

\* A pool loses at most one connection to an exception.
THEOREM LeaksAreBounded == Spec => []LeakBound
<1>1. Init => LeakBound
  BY FS_EmptySet, PoolAssumption DEF Init, LeakBound, LostOf
<1> QED
  BY <1>1, LocalsHold, LeakStep, PTL DEF Spec

\* The handlers never all wait for each other while fewer requests are under way than a
\* pool has connections left, for any size of the pools and any number of requests.
THEOREM RoomPreventsDeadlock == Spec => []NeverStuck
  BY LocalsHold, ConnectionsInOnePlace, RoomForOne, PTL
=============================================================================
