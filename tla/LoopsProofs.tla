------------------------------ MODULE LoopsProofs ------------------------------
(***************************************************************************)
(* Proofs about the loops over unordered rows, for result sets of any      *)
(* size: what each loop computes, and that the order-free definitions the  *)
(* other models use - Outcomes, InvoicesOf, Deletions - are exact.         *)
(*                                                                         *)
(* Both need induction.  The library states its induction theorems for an  *)
(* operator, but also that < is well founded on Nat and that a             *)
(* well-founded relation has minimal elements, which are facts about sets. *)
(* The induction used here is over the set of the numbers for which a      *)
(* statement holds.                                                        *)
(***************************************************************************)
EXTENDS Loops, FiniteSetTheorems, FunctionTheorems, SequenceTheorems, TLAPS

-----------------------------------------------------------------------------
(* Induction and recursion. *)

LEMMA Least ==
    ASSUME NEW S \in SUBSET Nat, S # {}
    PROVE  \E n \in S : \A m \in S : n <= m
<1> DEFINE R == OpToRel(<, Nat)
<1>1. IsWellFoundedOn(R, Nat)
    BY NatLessThanWellFounded
<1>2. \A m, n \in Nat : m < n => <<m, n>> \in R
    BY DEF OpToRel
<1> HIDE DEF R
<1>3. PICK n \in S : \A m \in S : ~(<<m, n>> \in R)
    BY <1>1, WFMin
<1>4. \A m \in S : m \in Nat /\ n \in Nat /\ ~(m < n)
    BY <1>2, <1>3
<1> QED BY <1>4

\* A set with 0 and with every successor holds every number.
LEMMA Induction ==
    ASSUME NEW S, 0 \in S, \A n \in Nat : n \in S => n + 1 \in S
    PROVE  \A n \in Nat : n \in S
<1> SUFFICES ASSUME Nat \ S # {} PROVE FALSE
    OBVIOUS
<1>1. PICK n \in Nat \ S : \A m \in Nat \ S : n <= m
    BY Least
<1>2. n # 0 /\ n - 1 \in Nat /\ n - 1 < n
    BY <1>1
<1> QED BY <1>1, <1>2

\* A loop of n rounds over states S: what each round makes of the state, and the
\* states it goes through from f0.
Rounds(n, S) == [1..n -> [S -> S]]
Goes(g, f0, n, F, S) ==
    g \in [0..n -> S] /\ g[0] = f0 /\ \A i \in 1..n : g[i] = F[i][g[i - 1]]

LEMMA Recursion ==
    ASSUME NEW S, NEW f0 \in S, NEW n \in Nat, NEW F \in Rounds(n, S)
    PROVE  \E g : Goes(g, f0, n, F, S)
<1>0. F \in [1..n -> [S -> S]]
    BY DEF Rounds
<1> DEFINE Good(k, g) == g[0] = f0 /\ \A i \in 1..k : g[i] = F[i][g[i - 1]]
           T == {k \in Nat : k <= n => \E g \in [0..k -> S] : Good(k, g)}
<1>1. 0 \in T
    <2>1. [i \in 0..0 |-> f0] \in [0..0 -> S] /\ Good(0, [i \in 0..0 |-> f0])
        OBVIOUS
    <2> QED BY <2>1
<1>2. ASSUME NEW k \in Nat, k \in T PROVE k + 1 \in T
    <2> SUFFICES ASSUME k + 1 <= n PROVE \E g \in [0..k + 1 -> S] : Good(k + 1, g)
        OBVIOUS
    <2>1. PICK g \in [0..k -> S] : Good(k, g)
        BY <1>2
    <2> DEFINE h == [i \in 0..k + 1 |-> IF i <= k THEN g[i] ELSE F[k + 1][g[k]]]
    <2>2. F[k + 1][g[k]] \in S
        BY <1>0, <2>1
    <2>3. h \in [0..k + 1 -> S]
        BY <2>1, <2>2
    <2>4. \A i \in 1..k + 1 : h[i] = F[i][h[i - 1]]
        <3> SUFFICES ASSUME NEW i \in 1..k + 1 PROVE h[i] = F[i][h[i - 1]]
            OBVIOUS
        <3>1. CASE i <= k
            BY <2>1, <3>1
        <3>2. CASE i = k + 1
            <4>1. h[k + 1] = F[k + 1][g[k]] /\ h[k] = g[k] /\ k + 1 - 1 = k
                OBVIOUS
            <4> HIDE DEF h
            <4> QED BY <3>2, <4>1
        <3> QED BY <3>1, <3>2
    <2>5. h[0] = f0
        BY <2>1
    <2> QED BY <2>3, <2>4, <2>5
<1> HIDE DEF T
<1>3. n \in T
    BY <1>1, <1>2, Induction
<1> QED BY <1>3 DEF T, Goes

-----------------------------------------------------------------------------
(* Rows in any order. *)

\* Each element of a finite set has one place in an arrangement of the set.
LEMMA Places ==
    ASSUME NEW S, IsFiniteSet(S), NEW q \in Arrangements(S)
    PROVE  /\ q \in Seq(S) /\ Len(q) = Cardinality(S) /\ Len(q) \in Nat
           /\ DOMAIN q = 1..Len(q)
           /\ \A i \in 1..Len(q) : q[i] \in S
           /\ \A i, j \in 1..Len(q) : q[i] = q[j] => i = j
           /\ \A s \in S : \E i \in 1..Len(q) : q[i] = s
<1> DEFINE n == Cardinality(S)
<1>1. n \in Nat
    BY FS_CardinalityType
<1> HIDE DEF n
<1>2. q \in [1..n -> S] /\ \A i, j \in 1..n : q[i] = q[j] => i = j
    BY DEF Arrangements, n
<1>3. q \in Seq(S) /\ Len(q) = n
    BY <1>1, <1>2
<1>4. q \in Injection(1..n, S)
    BY <1>2, Fun_IsInj
<1>5. IsFiniteSet(1..n) /\ Cardinality(1..n) = n
    BY <1>1, FS_Interval
<1>6. q \in Surjection(1..n, S)
    BY <1>4, <1>5, FS_Injection DEF n
<1>7. \A s \in S : \E i \in 1..n : q[i] = s
    BY <1>6 DEF Surjection
<1> QED BY <1>1, <1>2, <1>3, <1>7 DEF n

\* Conversely, a sequence with each element once is an arrangement.
LEMMA IsArrangement ==
    ASSUME NEW S, NEW n \in Nat, NEW q \in [1..n -> S],
           \A i, j \in 1..n : q[i] = q[j] => i = j,
           \A s \in S : \E i \in 1..n : q[i] = s
    PROVE  q \in Arrangements(S) /\ IsFiniteSet(S) /\ Cardinality(S) = n
<1>1. q \in Bijection(1..n, S)
    BY Fun_IsBij
<1>2. ExistsBijection(1..n, S)
    BY <1>1, Fun_ExistsBij
<1>3. IsFiniteSet(1..n) /\ Cardinality(1..n) = n
    BY FS_Interval
<1>4. IsFiniteSet(S) /\ Cardinality(S) = n
    BY <1>2, <1>3, FS_Bijection
<1> QED BY <1>4 DEF Arrangements

LEMMA SomeArrangement ==
    ASSUME NEW S, IsFiniteSet(S)
    PROVE  \E q : q \in Arrangements(S)
<1> DEFINE n == Cardinality(S)
<1>1. n \in Nat /\ ExistsBijection(1..n, S)
    BY FS_CardinalityType
<1>2. PICK q : q \in Bijection(1..n, S)
    BY <1>1, Fun_ExistsBij
<1>3. q \in [1..n -> S] /\ \A i, j \in 1..n : q[i] = q[j] => i = j
    BY <1>2, Fun_BijectionProperties
<1>4. \A i, j \in DOMAIN q : i # j => q[i] # q[j]
    BY <1>3
<1> QED BY <1>3, <1>4 DEF Arrangements

\* There is an arrangement in the order of any key.
LEMMA Sorted ==
    ASSUME NEW S, IsFiniteSet(S), NEW key \in [S -> Nat]
    PROVE  \E q \in Arrangements(S) :
               \A i, j \in 1..Len(q) : key[q[i]] < key[q[j]] => i < j
<1> DEFINE Fine(q, k) == \A i, j \in 1..Len(q) : k[q[i]] < k[q[j]] => i < j
           T == {n \in Nat : \A A : IsFiniteSet(A) /\ Cardinality(A) = n =>
                    \A k \in [A -> Nat] : \E q \in Arrangements(A) : Fine(q, k)}
<1>1. 0 \in T
    <2> SUFFICES ASSUME NEW A, IsFiniteSet(A), Cardinality(A) = 0, NEW k \in [A -> Nat]
                 PROVE  \E q \in Arrangements(A) : Fine(q, k)
        OBVIOUS
    <2>1. PICK q : q \in Arrangements(A)
        BY SomeArrangement
    <2>2. Len(q) = 0
        BY <2>1, Places
    <2> QED BY <2>1, <2>2
<1>2. ASSUME NEW n \in Nat, n \in T PROVE n + 1 \in T
    <2> SUFFICES ASSUME NEW A, IsFiniteSet(A), Cardinality(A) = n + 1, NEW k \in [A -> Nat]
                 PROVE  \E q \in Arrangements(A) : Fine(q, k)
        OBVIOUS
    <2> DEFINE Keys == {k[x] : x \in A}
    <2>1. A # {}
        BY FS_EmptySet
    <2>2. Keys \in SUBSET Nat /\ Keys # {}
        BY <2>1
    <2>3. PICK least \in Keys : \A m \in Keys : least <= m
        <3> HIDE DEF Keys
        <3> QED BY <2>2, Least
    <2>4. PICK x \in A : \A y \in A : k[x] <= k[y]
        BY <2>3
    <2> DEFINE B == A \ {x}
               h == [y \in B |-> k[y]]
    <2>5. IsFiniteSet(B) /\ Cardinality(B) = n
        <3>1. IsFiniteSet(A \ {x}) /\ Cardinality(A \ {x}) = Cardinality(A) - 1
            BY FS_RemoveElement
        <3> QED BY <3>1
    <2>6. h \in [B -> Nat]
        OBVIOUS
    <2>7. PICK p \in Arrangements(B) : Fine(p, h)
        <3> HIDE DEF B, h, Fine
        <3> QED BY <1>2, <2>5, <2>6
    <2>8. /\ Len(p) = n
          /\ \A i \in 1..n : p[i] \in B
          /\ \A i, j \in 1..n : p[i] = p[j] => i = j
          /\ \A y \in B : \E i \in 1..n : p[i] = y
        <3> HIDE DEF B
        <3> QED BY <2>5, Places
    <2> DEFINE q == [i \in 1..n + 1 |-> IF i = 1 THEN x ELSE p[i - 1]]
    <2>9. q[1] = x /\ \A i \in 1..n + 1 : i # 1 => i - 1 \in 1..n /\ q[i] = p[i - 1]
        OBVIOUS
    <2>10. q \in [1..n + 1 -> A] /\ \A i \in 1..n + 1 : i # 1 => q[i] \in B
        BY <2>8
    <2>11. n + 1 \in Nat /\ Len(q) = n + 1
        OBVIOUS
    <2> HIDE DEF q
    <2>12. ASSUME NEW i \in 1..n + 1, NEW j \in 1..n + 1, q[i] = q[j] PROVE i = j
        <3>1. CASE i = 1 \/ j = 1
            BY <2>9, <2>10, <2>12, <3>1
        <3>2. CASE i # 1 /\ j # 1
            BY <2>8, <2>9, <2>12, <3>2
        <3> QED BY <3>1, <3>2
    <2>13. ASSUME NEW y \in A PROVE \E i \in 1..n + 1 : q[i] = y
        <3>1. CASE y = x
            BY <2>9, <3>1
        <3>2. CASE y # x
            <4>1. PICK i \in 1..n : p[i] = y
                BY <2>8, <3>2
            <4>2. i + 1 \in 1..n + 1 /\ i + 1 # 1 /\ i + 1 - 1 = i
                OBVIOUS
            <4> QED BY <2>9, <4>1, <4>2
        <3> QED BY <3>1, <3>2
    <2>14. q \in Arrangements(A)
        BY <2>10, <2>11, <2>12, <2>13, IsArrangement
    <2>15. ASSUME NEW i \in 1..n + 1, NEW j \in 1..n + 1, k[q[i]] < k[q[j]] PROVE i < j
        <3>1. CASE i = 1
            <4>1. j # 1
                BY <2>9, <2>15, <3>1
            <4> QED BY <3>1, <4>1
        <3>2. CASE j = 1
            <4>1. k[x] <= k[q[i]] /\ k[q[j]] = k[x]
                BY <2>4, <2>9, <2>10, <3>2
            <4>2. k[x] \in Nat /\ k[q[i]] \in Nat
                BY <2>10
            <4> QED BY <2>15, <4>1, <4>2
        <3>3. CASE i # 1 /\ j # 1
            <4>1. /\ i - 1 \in 1..n /\ q[i] = p[i - 1]
                  /\ j - 1 \in 1..n /\ q[j] = p[j - 1]
                BY <2>9, <3>3
            <4>2. h[p[i - 1]] < h[p[j - 1]]
                BY <2>8, <2>15, <4>1
            <4>3. i - 1 < j - 1
                BY <2>7, <2>8, <4>1, <4>2
            <4> QED BY <4>3
        <3> QED BY <3>1, <3>2, <3>3
    <2> QED BY <2>11, <2>14, <2>15
<1> HIDE DEF T
<1>3. Cardinality(S) \in Nat
    BY FS_CardinalityType
<1>4. Cardinality(S) \in T
    BY <1>1, <1>2, <1>3, Induction
<1> QED BY <1>4 DEF T

-----------------------------------------------------------------------------
(* Step.compareandupdate. *)

\* The rows deleted are those before the first that is on the page.
LEMMA DeletedLoop ==
    ASSUME NEW S, NEW old \in Seq(S), NEW kept
    PROVE  Edit!Deleted(old, kept) =
               {old[i] : i \in {j \in 1..Len(old) : \A k \in 1..j : old[k] \notin kept}}
<1> DEFINE n == Len(old)
           R == [found : BOOLEAN, gone : SUBSET S]
           f0 == [found |-> FALSE, gone |-> {}]
           Round(i, r) == LET found == Edit!Carried(r.found) \/ old[i] \in kept
                          IN  [found |-> found,
                               gone |-> r.gone \cup (IF found THEN {} ELSE {old[i]})]
           F == [i \in 1..n |-> [r \in R |-> Round(i, r)]]
           IsRun(g) == g = [i \in 0..n |-> IF i = 0 THEN f0 ELSE Round(i, g[i - 1])]
           run == CHOOSE g : IsRun(g)
<1>1. n \in Nat /\ \A i \in 1..n : old[i] \in S
    BY LenProperties
<1>2. \A i \in 1..n, r \in R : Round(i, r) \in R
    BY <1>1 DEF Edit!Carried
<1>3. f0 \in R
    OBVIOUS
<1>4. \A i \in 1..n, r \in R : F[i][r] = Round(i, r)
    OBVIOUS
<1>5. F \in Rounds(n, R)
    <2> HIDE DEF n, R, Round
    <2> QED BY <1>2 DEF Rounds
<1>6. \E g : Goes(g, f0, n, F, R)
    <2> HIDE DEF n, R, F, f0
    <2> QED BY <1>1, <1>3, <1>5, Recursion
<1>7. PICK g : /\ g \in [0..n -> R] /\ g[0] = f0
               /\ \A i \in 1..n : g[i] = F[i][g[i - 1]]
    BY <1>6 DEF Goes
<1> HIDE DEF F, R, f0, Round, n
<1>8. \A i \in 1..n : g[i - 1] \in R /\ g[i] = Round(i, g[i - 1])
    BY <1>1, <1>4, <1>7
<1>9. IsRun(g)
    BY <1>1, <1>7, <1>8
<1>10. IsRun(run)
    <2> HIDE DEF IsRun
    <2> QED BY <1>9
<1>11. Edit!Deleted(old, kept) = run[n].gone
    BY DEF Edit!Deleted, Round, n, f0
<1>12. run[0] = f0 /\ \A i \in 1..n : run[i] = Round(i, run[i - 1])
    <2> HIDE DEF run
    <2> QED BY <1>1, <1>10
<1> HIDE DEF run, IsRun
<1> DEFINE Upto(i) == {old[j] : j \in {k \in 1..i : \A m \in 1..k : old[m] \notin kept}}
           Found(i) == \E j \in 1..i : old[j] \in kept
           T == {i \in Nat : i <= n => run[i].gone = Upto(i) /\ (run[i].found <=> Found(i))}
<1>13. 0 \in T
    BY <1>12 DEF f0
<1>14. ASSUME NEW i \in Nat, i \in T PROVE i + 1 \in T
    <2> SUFFICES ASSUME i + 1 <= n
                 PROVE  run[i + 1].gone = Upto(i + 1) /\ (run[i + 1].found <=> Found(i + 1))
        OBVIOUS
    <2>1. run[i].gone = Upto(i) /\ (run[i].found <=> Found(i))
        BY <1>1, <1>14
    <2>2. i + 1 \in 1..n /\ i + 1 - 1 = i
        BY <1>1
    <2>3. run[i + 1] = Round(i + 1, run[i])
        BY <1>12, <2>2
    <2> DEFINE found == run[i].found \/ old[i + 1] \in kept
    <2>4. /\ run[i + 1].found = found
          /\ run[i + 1].gone = run[i].gone \cup (IF found THEN {} ELSE {old[i + 1]})
        BY <2>3 DEF Round, Edit!Carried
    <2>5. found <=> Found(i + 1)
        BY <2>1
    <2>6. Upto(i + 1) = Upto(i) \cup (IF found THEN {} ELSE {old[i + 1]})
        BY <2>5
    <2> QED BY <2>1, <2>4, <2>5, <2>6
<1> HIDE DEF T
<1>15. n \in T
    BY <1>1, <1>13, <1>14, Induction
<1> QED BY <1>1, <1>11, <1>15 DEF T, n

\* Deletions is exact for every finite set of steps.
LEMMA DeletionsOf ==
    ASSUME NEW old, IsFiniteSet(old), NEW kept
    PROVE  Edit!Deletions(old, kept) =
               {Edit!Deleted(rows, kept) : rows \in Arrangements(old)}
<1> DEFINE Gone(rows) == {rows[i] : i \in {j \in 1..Len(rows) : \A k \in 1..j : rows[k] \notin kept}}
<1>1. ASSUME NEW rows \in Arrangements(old)
      PROVE  Edit!Deleted(rows, kept) = Gone(rows)
    <2>1. rows \in Seq(old)
        BY Places
    <2> QED BY <2>1, DeletedLoop
<1>2. ASSUME NEW rows \in Arrangements(old)
      PROVE  Edit!Deleted(rows, kept) \in Edit!Deletions(old, kept)
    <2>1. /\ Len(rows) \in Nat
          /\ \A i \in 1..Len(rows) : rows[i] \in old
          /\ \A s \in old : \E i \in 1..Len(rows) : rows[i] = s
        BY Places
    <2>2. Gone(rows) \subseteq old \ kept
        BY <2>1
    <2>3. CASE old \cap kept = {}
        <3>1. Gone(rows) = old
            BY <2>1, <2>3
        <3> QED BY <1>1, <2>3, <3>1 DEF Edit!Deletions
    <2>4. CASE old \cap kept # {}
        BY <1>1, <2>2, <2>4 DEF Edit!Deletions, Edit!Removed
    <2> QED BY <2>3, <2>4
<1>3. ASSUME NEW gone \in Edit!Deletions(old, kept)
      PROVE  \E rows \in Arrangements(old) : gone = Edit!Deleted(rows, kept)
    <2>1. CASE old \cap kept = {}
        <3>1. PICK rows \in Arrangements(old) : TRUE
            BY SomeArrangement
        <3>2. Edit!Deleted(rows, kept) \in Edit!Deletions(old, kept)
            BY <1>2
        <3> QED BY <1>3, <2>1, <3>2 DEF Edit!Deletions
    <2>2. CASE old \cap kept # {}
        <3>1. PICK x \in old : x \in kept
            BY <2>2
        <3>2. gone \subseteq old \ kept
            BY <1>3, <2>2 DEF Edit!Deletions, Edit!Removed
        <3> DEFINE key == [s \in old |-> IF s \in gone THEN 0 ELSE IF s = x THEN 1 ELSE 2]
        <3>3. key \in [old -> Nat]
            OBVIOUS
        <3>4. PICK rows \in Arrangements(old) :
                  \A i, j \in 1..Len(rows) : key[rows[i]] < key[rows[j]] => i < j
            <4> HIDE DEF key
            <4> QED BY <3>3, Sorted
        <3>5. /\ Len(rows) \in Nat
              /\ \A i \in 1..Len(rows) : rows[i] \in old
              /\ \A s \in old : \E i \in 1..Len(rows) : rows[i] = s
            BY Places
        <3>a. /\ \A s \in old : s \in gone => key[s] = 0
              /\ \A s \in old : s \notin gone => key[s] > 0
              /\ \A s \in old : s \notin gone /\ s # x => key[s] > 1
              /\ key[x] = 1
            BY <3>1, <3>2
        <3> HIDE DEF key
        <3>6. \A i, j \in 1..Len(rows) : rows[i] \in gone /\ rows[j] \notin gone => i < j
            BY <3>4, <3>5, <3>a
        <3>7. \A i, j \in 1..Len(rows) :
                  rows[i] = x /\ rows[j] \notin gone /\ rows[j] # x => i < j
            BY <3>4, <3>5, <3>a
        <3>8. PICK at \in 1..Len(rows) : rows[at] = x
            BY <3>5
        <3>9. Gone(rows) \subseteq gone
            <4> SUFFICES ASSUME NEW i \in 1..Len(rows), \A k \in 1..i : rows[k] \notin kept
                         PROVE  rows[i] \in gone
                OBVIOUS
            <4>1. ~(at <= i)
                BY <3>1, <3>8
            <4> QED BY <3>1, <3>5, <3>7, <3>8, <4>1
        <3>10. gone \subseteq Gone(rows)
            <4> SUFFICES ASSUME NEW s \in gone PROVE s \in Gone(rows)
                OBVIOUS
            <4>1. PICK i \in 1..Len(rows) : rows[i] = s
                BY <3>2, <3>5
            <4>2. ASSUME NEW k \in 1..i PROVE rows[k] \in gone
                BY <3>5, <3>6, <4>1
            <4> QED BY <3>2, <4>1, <4>2
        <3> QED BY <1>1, <3>9, <3>10
    <2> QED BY <2>1, <2>2
<1> QED BY <1>2, <1>3

-----------------------------------------------------------------------------
(* InvoiceSync.invoicesync: one charge against the lines. *)

\* The lines at which the loop over the lines ends for a charge.
Bad(l) == l.field \in {Null, Unreadable}
Ends(c, l) == l.field = c \/ Bad(l)

\* What the loop comes to from line i on: it ends at the first such line, and
\* compareresult tells whether it has passed a line of another charge.
Scanned(c, ls, i, flag, r) ==
    /\ r.missed \in BOOLEAN
    /\ \/ \E j \in i..Len(ls) :
             /\ Ends(c, ls[j]) /\ \A k \in i..j - 1 : ~Ends(c, ls[k])
             /\ r.at = IF Bad(ls[j]) THEN 0 ELSE j
             /\ r.missed <=> flag \/ \E k \in i..j - 1 : ls[k].field # Zero
             /\ r.thrown <=> Bad(ls[j])
       \/ /\ \A j \in i..Len(ls) : ~Ends(c, ls[j])
          /\ r.at = 0
          /\ r.missed <=> flag \/ \E k \in i..Len(ls) : ls[k].field # Zero
          /\ ~r.thrown

LEMMA FieldsDiffer == Null # Unreadable /\ Null # Zero /\ Unreadable # Zero
<1>1. \A x, y : IsFiniteSet({x, y}) /\ Cardinality({x, y}) <= 2
    <2> SUFFICES ASSUME NEW x, NEW y PROVE IsFiniteSet({x, y}) /\ Cardinality({x, y}) <= 2
        OBVIOUS
    <2>1. IsFiniteSet({x}) /\ Cardinality({x}) = 1
        BY FS_Singleton
    <2>2. /\ IsFiniteSet({x} \cup {y})
          /\ Cardinality({x} \cup {y}) = IF y \in {x} THEN Cardinality({x}) ELSE Cardinality({x}) + 1
        BY <2>1, FS_AddElement
    <2>3. {x} \cup {y} = {x, y}
        OBVIOUS
    <2> QED BY <2>1, <2>2, <2>3
<1>2. Cardinality({Null, Unreadable, Zero}) = 3
    BY FieldsAssumption
<1>3. ASSUME Null = Unreadable PROVE FALSE
    <2>1. {Null, Unreadable, Zero} = {Null, Zero}
        BY <1>3
    <2>2. Cardinality({Null, Zero}) = 3
        BY <1>2, <2>1
    <2>3. Cardinality({Null, Zero}) <= 2
        BY <1>1
    <2> QED BY <2>2, <2>3
<1>4. ASSUME Null = Zero PROVE FALSE
    <2>1. {Null, Unreadable, Zero} = {Null, Unreadable}
        BY <1>4
    <2>2. Cardinality({Null, Unreadable}) = 3
        BY <1>2, <2>1
    <2>3. Cardinality({Null, Unreadable}) <= 2
        BY <1>1
    <2> QED BY <2>2, <2>3
<1>5. ASSUME Unreadable = Zero PROVE FALSE
    <2>1. {Null, Unreadable, Zero} = {Null, Unreadable}
        BY <1>5
    <2>2. Cardinality({Null, Unreadable}) = 3
        BY <1>2, <2>1
    <2>3. Cardinality({Null, Unreadable}) <= 2
        BY <1>1
    <2> QED BY <2>2, <2>3
<1> QED BY <1>3, <1>4, <1>5

LEMMA ScanLoop ==
    ASSUME NEW L, NEW ls \in Seq(L), NEW c, c \notin {Null, Unreadable, Zero},
           NEW flag \in BOOLEAN
    PROVE  Scanned(c, ls, 1, flag, Scan(c, ls)[flag])
<1> DEFINE n == Len(ls)
           Res == [at : Nat, missed : BOOLEAN, thrown : BOOLEAN]
           R == [BOOLEAN -> Res]
           Round(i, v) ==
              [f \in BOOLEAN |->
                 CASE i > Len(ls) -> [at |-> 0, missed |-> f, thrown |-> FALSE]
                   [] i <= Len(ls) /\ ls[i].field = Zero -> v[f]
                   [] i <= Len(ls) /\ ls[i].field \in {Null, Unreadable} ->
                         [at |-> 0, missed |-> f, thrown |-> TRUE]
                   [] i <= Len(ls) /\ ls[i].field = c ->
                         [at |-> i, missed |-> f, thrown |-> FALSE]
                   [] OTHER -> v[Passed(f)]]
           IsScan(g) == g = [i \in 1..n + 1 |-> Round(i, g[i + 1])]
           scan == CHOOSE g : IsScan(g)
<1>1. n \in Nat
    BY LenProperties
<1>2. \A v : Round(n + 1, v) = [f \in BOOLEAN |-> [at |-> 0, missed |-> f, thrown |-> FALSE]]
    BY <1>1
<1>3. ASSUME NEW i \in 1..n, NEW v, NEW f \in BOOLEAN
      PROVE  Round(i, v)[f] =
                 IF ls[i].field = Zero THEN v[f]
                 ELSE IF Bad(ls[i]) THEN [at |-> 0, missed |-> f, thrown |-> TRUE]
                 ELSE IF ls[i].field = c THEN [at |-> i, missed |-> f, thrown |-> FALSE]
                 ELSE v[TRUE]
    <2>1. i <= n /\ ~(i > n)
        BY <1>1
    <2> HIDE DEF Res
    <2> QED BY <2>1, FieldsDiffer DEF Bad, Passed
<1>4. ASSUME NEW i \in 1..n, NEW v \in R PROVE Round(i, v) \in R
    <2>1. ASSUME NEW f \in BOOLEAN PROVE Round(i, v)[f] \in Res
        <3>0. i \in Nat
            BY <1>1
        <3>1. v[f] \in Res /\ v[TRUE] \in Res
            <4> HIDE DEF Round, Res, n
            <4> QED OBVIOUS
        <3>2. /\ [at |-> 0, missed |-> f, thrown |-> TRUE] \in Res
              /\ [at |-> i, missed |-> f, thrown |-> FALSE] \in Res
            BY <3>0
        <3> HIDE DEF Round, Res, R
        <3> QED BY <1>3, <3>1, <3>2
    <2>2. DOMAIN Round(i, v) = BOOLEAN
        OBVIOUS
    <2>3. Round(i, v) = [f \in BOOLEAN |-> Round(i, v)[f]]
        OBVIOUS
    <2> HIDE DEF Round, Res
    <2> QED BY <2>1, <2>3
<1> DEFINE last == [f \in BOOLEAN |-> [at |-> 0, missed |-> f, thrown |-> FALSE]]
           F == [k \in 1..n |-> [v \in R |-> Round(n + 1 - k, v)]]
<1>5. last \in R
    OBVIOUS
<1>6. \A k \in 1..n : n + 1 - k \in 1..n
    BY <1>1
<1>7. F \in Rounds(n, R)
    <2> HIDE DEF R, Round, n
    <2> QED BY <1>4, <1>6 DEF Rounds
<1>8. \A k \in 1..n, v \in R : F[k][v] = Round(n + 1 - k, v)
    <2> HIDE DEF R, Round, n
    <2> QED OBVIOUS
<1>9. \E g : Goes(g, last, n, F, R)
    <2> HIDE DEF n, R, F, last
    <2> QED BY <1>1, <1>5, <1>7, Recursion
<1>10. PICK h : /\ h \in [0..n -> R] /\ h[0] = last
                /\ \A k \in 1..n : h[k] = F[k][h[k - 1]]
    BY <1>9 DEF Goes
<1> DEFINE g == [i \in 1..n + 1 |-> h[n + 1 - i]]
<1>11. \A i \in 1..n + 1 : g[i] = Round(i, g[i + 1])
    <2> SUFFICES ASSUME NEW i \in 1..n + 1 PROVE g[i] = Round(i, g[i + 1])
        OBVIOUS
    <2> HIDE DEF R, Round, last, F, n
    <2>1. CASE i = n + 1
        <3>1. i \in 1..n + 1 /\ n + 1 - i = 0
            BY <1>1, <2>1
        <3>2. g[i] = last
            BY <1>10, <3>1
        <3>3. \A v : Round(n + 1, v) = last
            BY <1>2 DEF last
        <3> QED BY <2>1, <3>2, <3>3
    <2>2. CASE i # n + 1
        <3>1. i \in 1..n /\ i + 1 \in 1..n + 1 /\ n + 1 - i \in 1..n
            BY <1>1, <2>2
        <3>2. /\ n + 1 - (n + 1 - i) = i
              /\ n + 1 - i - 1 = n + 1 - (i + 1) /\ n + 1 - i - 1 \in 0..n
            BY <1>1, <3>1
        <3>3. g[i + 1] = h[n + 1 - (i + 1)]
            BY <3>1
        <3>a. g[i] = h[n + 1 - i]
            OBVIOUS
        <3>b. h[n + 1 - i] = F[n + 1 - i][h[n + 1 - i - 1]]
            <4>1. \A j \in 1..n : h[j] = F[j][h[j - 1]]
                BY <1>10
            <4>2. n + 1 - i - 1 = (n + 1 - i) - 1
                BY <1>1
            <4> HIDE DEF g
            <4> QED BY <3>1, <4>1, <4>2
        <3>4. g[i] = F[n + 1 - i][g[i + 1]]
            <4> HIDE DEF g
            <4> QED BY <3>2, <3>3, <3>a, <3>b
        <3>5. g[i + 1] \in R
            BY <1>10, <3>2, <3>3
        <3> HIDE DEF g
        <3> QED BY <1>8, <3>1, <3>2, <3>4, <3>5
    <2> QED BY <2>1, <2>2
<1>12. IsScan(g)
    <2> HIDE DEF Round
    <2> QED BY <1>11
<1>13. IsScan(scan)
    <2> HIDE DEF IsScan
    <2> QED BY <1>12
<1>14. Scan(c, ls) = scan[1]
    BY DEF Scan
<1>15. \A i \in 1..n + 1 : scan[i] = Round(i, scan[i + 1])
    <2> HIDE DEF scan, Round
    <2> QED BY <1>13
<1> DEFINE T == {k \in Nat : k <= n =>
                    \A f \in BOOLEAN : Scanned(c, ls, n + 1 - k, f, scan[n + 1 - k][f])}
<1>16. scan[n + 1] = last
    <2> HIDE DEF scan, Round, last, n
    <2>1. \A v : Round(n + 1, v) = last
        BY <1>2 DEF last
    <2> QED BY <1>1, <1>15, <2>1
<1> HIDE DEF scan, IsScan, F, R, g
<1>17. 0 \in T
    <2> SUFFICES ASSUME NEW f \in BOOLEAN
                 PROVE  Scanned(c, ls, n + 1, f, [at |-> 0, missed |-> f, thrown |-> FALSE])
        <3> HIDE DEF n
        <3> QED BY <1>1, <1>16 DEF last
    <2> QED BY <1>1 DEF Scanned
<1>18. ASSUME NEW k \in Nat, k \in T PROVE k + 1 \in T
    <2> SUFFICES ASSUME k + 1 <= n, NEW f \in BOOLEAN
                 PROVE  Scanned(c, ls, n + 1 - (k + 1), f, scan[n + 1 - (k + 1)][f])
        OBVIOUS
    <2> DEFINE i == n - k
    <2>1. i \in 1..n /\ i + 1 = n + 1 - k /\ i = n + 1 - (k + 1)
        BY <1>1
    <2>2. \A e \in BOOLEAN : Scanned(c, ls, i + 1, e, scan[i + 1][e])
        <3> HIDE DEF n, i
        <3> QED BY <1>1, <1>18, <2>1
    <2> HIDE DEF i
    <2>3. scan[i][f] = IF ls[i].field = Zero THEN scan[i + 1][f]
                       ELSE IF Bad(ls[i]) THEN [at |-> 0, missed |-> f, thrown |-> TRUE]
                       ELSE IF ls[i].field = c THEN [at |-> i, missed |-> f, thrown |-> FALSE]
                       ELSE scan[i + 1][TRUE]
        <3>1. scan[i] = Round(i, scan[i + 1])
            <4> HIDE DEF Round, n
            <4> QED BY <1>1, <1>15, <2>1
        <3>2. scan[i][f] = Round(i, scan[i + 1])[f]
            <4> HIDE DEF Round
            <4> QED BY <3>1
        <3> HIDE DEF Round, n
        <3> QED BY <1>3, <2>1, <3>2
    <2>4. /\ ls[i].field = Zero => ~Ends(c, ls[i])
          /\ Bad(ls[i]) => Ends(c, ls[i]) /\ ls[i].field # Zero
          /\ ls[i].field = c => Ends(c, ls[i]) /\ ls[i].field # Zero /\ ~Bad(ls[i])
          /\ ls[i].field # c /\ ~Bad(ls[i]) => ~Ends(c, ls[i])
        BY FieldsDiffer DEF Ends, Bad
    <2> HIDE DEF n
    <2>5. CASE Ends(c, ls[i])
        <3>1. /\ scan[i][f].at = IF Bad(ls[i]) THEN 0 ELSE i
              /\ scan[i][f].missed = f
              /\ scan[i][f].thrown <=> Bad(ls[i])
            <4>1. CASE Bad(ls[i])
                BY <2>3, <2>4, <4>1
            <4>2. CASE ~Bad(ls[i])
                <5>1. scan[i][f] = [at |-> i, missed |-> f, thrown |-> FALSE]
                    <6>1. ls[i].field = c /\ ls[i].field # Zero
                        BY <2>4, <2>5, <4>2 DEF Ends
                    <6> QED BY <2>3, <4>2, <6>1
                <5> QED BY <4>2, <5>1
            <4> QED BY <4>1, <4>2
        <3>2. i..i - 1 = {}
            BY <2>1
        <3>3. i \in i..Len(ls)
            BY <1>1, <2>1 DEF n
        <3> QED BY <2>1, <2>5, <3>1, <3>2, <3>3 DEF Scanned
    <2>6. CASE ~Ends(c, ls[i])
        <3> DEFINE e == f \/ ls[i].field # Zero
        <3>1. scan[i][f] = scan[i + 1][e]
            BY <2>3, <2>4, <2>6
        <3>2. Scanned(c, ls, i + 1, e, scan[i + 1][e])
            BY <2>2
        <3>3. i..Len(ls) = {i} \cup (i + 1)..Len(ls) /\ i \notin (i + 1)..Len(ls)
            BY <1>1, <2>1 DEF n
        <3>4. \A j \in (i + 1)..Len(ls) : i..j - 1 = {i} \cup (i + 1)..j - 1
            <4> SUFFICES ASSUME NEW j \in (i + 1)..Len(ls) PROVE i..j - 1 = {i} \cup (i + 1)..j - 1
                OBVIOUS
            <4>1. i \in Nat /\ j \in Nat /\ i < j
                BY <1>1, <2>1 DEF n
            <4> QED BY <4>1
        <3> HIDE DEF e
        <3>5. Scanned(c, ls, i, f, scan[i + 1][e])
            BY <2>6, <3>2, <3>3, <3>4, ZenonT(30) DEF Scanned, e
        <3> QED BY <2>1, <3>1, <3>5
    <2> QED BY <2>5, <2>6
<1>19. n \in T
    <2> HIDE DEF n, T
    <2> QED BY <1>1, <1>17, <1>18, Induction
<1>20. n + 1 - n = 1
    BY <1>1
<1> HIDE DEF n
<1> QED BY <1>1, <1>14, <1>19, <1>20

\* The same without the loop: the charge is the first to end at a line that cannot be
\* read, it is met at line j, or it passes a line of another charge.
Met(c, ls, j) == Ends(c, ls[j]) /\ \A k \in 1..j - 1 : ~Ends(c, ls[k])
Fails(c, ls) == \E j \in 1..Len(ls) : Met(c, ls, j) /\ Bad(ls[j])
Hits(c, ls, j) == Met(c, ls, j) /\ ~Bad(ls[j])
Passes(c, ls) ==
    \E k \in 1..Len(ls) : ls[k].field # Zero /\ \A j \in 1..k : ~Ends(c, ls[j])

\* A charge is met at one line, and at some line if there is one to end at.
LEMMA MetOnce ==
    ASSUME NEW L, NEW ls \in Seq(L), NEW c, NEW i \in 1..Len(ls), NEW j \in 1..Len(ls),
           Met(c, ls, i), Met(c, ls, j)
    PROVE  i = j
<1>0. Len(ls) \in Nat
    BY LenProperties
<1>1. CASE i < j
    <2>1. i \in 1..j - 1
        BY <1>0, <1>1
    <2> QED BY <2>1 DEF Met
<1>2. CASE j < i
    <2>1. j \in 1..i - 1
        BY <1>0, <1>2
    <2> QED BY <2>1 DEF Met
<1>3. i < j \/ j < i \/ i = j
    BY <1>0
<1> QED BY <1>1, <1>2, <1>3

LEMMA MetFirst ==
    ASSUME NEW L, NEW ls \in Seq(L), NEW c, \E j \in 1..Len(ls) : Ends(c, ls[j])
    PROVE  \E j \in 1..Len(ls) : Met(c, ls, j)
<1> DEFINE S == {j \in 1..Len(ls) : Ends(c, ls[j])}
<1>0. Len(ls) \in Nat
    BY LenProperties
<1>1. S \in SUBSET Nat /\ S # {}
    BY <1>0
<1>2. PICK j \in S : \A i \in S : j <= i
    <2> HIDE DEF S
    <2> QED BY <1>1, Least
<1>3. \A k \in 1..j - 1 : k \in 1..Len(ls) /\ ~(j <= k)
    BY <1>0, <1>2
<1> QED BY <1>2, <1>3 DEF Met

LEMMA ScanOf ==
    ASSUME NEW L, NEW ls \in Seq(L), NEW c, c \notin {Null, Unreadable, Zero},
           NEW flag \in BOOLEAN
    PROVE  LET r == Scan(c, ls)[flag]
           IN  /\ r.missed \in BOOLEAN
               /\ r.thrown <=> Fails(c, ls)
               /\ ~r.thrown => (r.missed <=> flag \/ Passes(c, ls))
               /\ r.at \in 0..Len(ls)
               /\ \A j \in 1..Len(ls) : r.at = j <=> Hits(c, ls, j)
<1> DEFINE r == Scan(c, ls)[flag]
           n == Len(ls)
<1>1. n \in Nat
    BY LenProperties
<1>2. Scanned(c, ls, 1, flag, r)
    BY ScanLoop
<1>3. \A i, j \in 1..n : Met(c, ls, i) /\ Met(c, ls, j) => i = j
    BY MetOnce
<1> HIDE DEF r
<1>4. ASSUME NEW j \in 1..n, Met(c, ls, j),
             r.at = IF Bad(ls[j]) THEN 0 ELSE j,
             r.missed <=> flag \/ \E k \in 1..j - 1 : ls[k].field # Zero,
             r.thrown <=> Bad(ls[j])
      PROVE  /\ r.thrown <=> Fails(c, ls)
             /\ r.missed <=> flag \/ Passes(c, ls)
             /\ r.at \in 0..n
             /\ \A i \in 1..n : r.at = i <=> Hits(c, ls, i)
    <2>1. r.thrown <=> Fails(c, ls)
        BY <1>3, <1>4 DEF Fails
    <2>2. Passes(c, ls) <=> \E k \in 1..j - 1 : ls[k].field # Zero
        <3>1. ASSUME NEW k \in 1..j - 1, ls[k].field # Zero PROVE Passes(c, ls)
            <4>1. k \in 1..n /\ 1..k \subseteq 1..j - 1
                BY <1>1
            <4> QED BY <1>4, <3>1, <4>1 DEF Passes, Met
        <3>2. ASSUME NEW k \in 1..n, ls[k].field # Zero, \A i \in 1..k : ~Ends(c, ls[i])
              PROVE  k \in 1..j - 1
            <4>1. ~(j \in 1..k)
                BY <1>4, <3>2 DEF Met
            <4> QED BY <4>1
        <3> QED BY <3>1, <3>2 DEF Passes
    <2>3. r.at \in 0..n /\ \A i \in 1..n : r.at = i <=> Hits(c, ls, i)
        <3>1. CASE Bad(ls[j])
            BY <1>1, <1>3, <1>4, <3>1 DEF Hits
        <3>2. CASE ~Bad(ls[j])
            BY <1>1, <1>3, <1>4, <3>2 DEF Hits
        <3> QED BY <3>1, <3>2
    <2> QED BY <1>4, <2>1, <2>2, <2>3
<1>5. ASSUME \A j \in 1..n : ~Ends(c, ls[j]),
             r.at = 0,
             r.missed <=> flag \/ \E k \in 1..n : ls[k].field # Zero,
             ~r.thrown
      PROVE  /\ ~Fails(c, ls)
             /\ r.missed <=> flag \/ Passes(c, ls)
             /\ r.at \in 0..n
             /\ \A i \in 1..n : r.at # i /\ ~Hits(c, ls, i)
    <2>1. \A k \in 1..n : 1..k \subseteq 1..n
        BY <1>1
    <2> QED BY <1>1, <1>5, <2>1 DEF Fails, Passes, Hits, Met
<1>6. r.missed \in BOOLEAN
    BY <1>2 DEF Scanned
<1>7. \/ \E j \in 1..n :
             /\ Met(c, ls, j)
             /\ r.at = IF Bad(ls[j]) THEN 0 ELSE j
             /\ r.missed <=> flag \/ \E k \in 1..j - 1 : ls[k].field # Zero
             /\ r.thrown <=> Bad(ls[j])
      \/ /\ \A j \in 1..n : ~Ends(c, ls[j])
         /\ r.at = 0
         /\ r.missed <=> flag \/ \E k \in 1..n : ls[k].field # Zero
         /\ ~r.thrown
    BY <1>2 DEF Scanned, Met
<1> HIDE DEF n
<1>8. /\ r.thrown <=> Fails(c, ls)
      /\ r.missed <=> flag \/ Passes(c, ls)
      /\ r.at \in 0..n
      /\ \A i \in 1..n : r.at = i <=> Hits(c, ls, i)
    BY <1>4, <1>5, <1>7
<1> QED BY <1>6, <1>8 DEF r, n

\* The lists after k charges.
AddedBy(cs, ls, k) == {cs[i] : i \in {j \in 1..k : \E m \in 1..j : Passes(cs[m], ls)}}
UpdatedBy(due, cs, ls, k) ==
    {<<ls[p[2]], due[cs[p[1]]]>> :
        p \in {q \in (1..k) \X (1..Len(ls)) :
                  Hits(cs[q[1]], ls, q[2]) /\ ls[q[2]].amount # due[cs[q[1]]]}}

\* The loops over the charges and over the lines.
LEMMA LoopOf ==
    ASSUME NEW L, NEW ls \in Seq(L), NEW due, NEW cs \in Seq(DOMAIN due),
           {Null, Unreadable, Zero} \cap DOMAIN due = {}
    PROVE  LET n == Len(cs)
               fails == \E k \in 1..n : Fails(cs[k], ls)
           IN  /\ fails => Loop(due, cs, ls) = Thrown
               /\ ~fails => Loop(due, cs, ls) = Lists(AddedBy(cs, ls, n), UpdatedBy(due, cs, ls, n))
<1> DEFINE n == Len(cs)
           C == DOMAIN due
           S == [missed : BOOLEAN,
                 lists : [thrown : BOOLEAN, add : SUBSET C,
                          update : SUBSET (L \X {due[c] : c \in C})]]
           f0 == [missed |-> FALSE, lists |-> Lists({}, {})]
           Round(k, s) ==
              IF s.lists.thrown THEN s
              ELSE LET c == cs[k]
                       seen == Scan(c, ls)[Carried(s.missed)]
                       old == s.lists
                       hit == IF seen.at = 0 THEN {} ELSE {ls[seen.at]}
                   IN  [missed |-> seen.missed,
                        lists |->
                          IF seen.thrown THEN Thrown
                          ELSE Lists(old.add \cup (IF seen.missed THEN {c} ELSE {}),
                                     old.update \cup {<<l, due[c]>> :
                                         l \in {h \in hit : h.amount # due[c]}})]
           F == [k \in 1..n |-> [s \in S |-> Round(k, s)]]
           IsRun(g) == g = [k \in 0..n |-> IF k = 0 THEN f0 ELSE Round(k, g[k - 1])]
           run == CHOOSE g : IsRun(g)
           Hit(k) == {<<ls[j], due[cs[k]]>> :
                         j \in {i \in 1..Len(ls) : Hits(cs[k], ls, i) /\ ls[i].amount # due[cs[k]]}}
<1>1. n \in Nat /\ \A k \in 1..n : cs[k] \in C
    BY LenProperties
<1>2. Len(ls) \in Nat /\ \A j \in 1..Len(ls) : ls[j] \in L
    BY LenProperties
\* One round.
<1>3. ASSUME NEW k \in 1..n, NEW s \in S, ~s.lists.thrown
      PROVE  /\ Round(k, s) = [missed |-> Round(k, s).missed, lists |-> Round(k, s).lists]
             /\ Round(k, s).missed \in BOOLEAN
             /\ Fails(cs[k], ls) => Round(k, s).lists = Thrown
             /\ ~Fails(cs[k], ls) =>
                   /\ Round(k, s).missed <=> s.missed \/ Passes(cs[k], ls)
                   /\ Round(k, s).lists =
                         Lists(s.lists.add \cup (IF Round(k, s).missed THEN {cs[k]} ELSE {}),
                               s.lists.update \cup Hit(k))
    <2> DEFINE c == cs[k]
               seen == Scan(c, ls)[s.missed]
               hit == IF seen.at = 0 THEN {} ELSE {ls[seen.at]}
    <2>1. s.missed \in BOOLEAN
        OBVIOUS
    <2>2. c \notin {Null, Unreadable, Zero}
        BY <1>1
    <2>3. /\ seen.missed \in BOOLEAN
          /\ seen.thrown <=> Fails(c, ls)
          /\ ~seen.thrown => (seen.missed <=> s.missed \/ Passes(c, ls))
          /\ seen.at \in 0..Len(ls)
          /\ \A j \in 1..Len(ls) : seen.at = j <=> Hits(c, ls, j)
        <3> HIDE DEF c
        <3> QED BY <2>1, <2>2, ScanOf
    <2> HIDE DEF seen
    <2>4. {<<l, due[c]>> : l \in {h \in hit : h.amount # due[c]}} = Hit(k)
        <3>1. CASE seen.at = 0
            <4>1. \A j \in 1..Len(ls) : ~Hits(c, ls, j)
                BY <1>2, <2>3, <3>1
            <4>2. hit = {}
                BY <3>1
            <4> QED BY <4>1, <4>2
        <3>2. CASE seen.at # 0
            <4> DEFINE at == seen.at
            <4>1. at \in 1..Len(ls) /\ \A j \in 1..Len(ls) : Hits(c, ls, j) <=> j = at
                BY <1>2, <2>3, <3>2
            <4>2. hit = {ls[at]}
                BY <3>2
            <4> HIDE DEF at, hit, c
            <4>3. {j \in 1..Len(ls) : Hits(c, ls, j) /\ ls[j].amount # due[c]} =
                      {j \in {at} : ls[j].amount # due[c]}
                BY <4>1
            <4>4. {<<l, due[c]>> : l \in {h \in hit : h.amount # due[c]}} =
                      {<<ls[j], due[c]>> : j \in {i \in {at} : ls[i].amount # due[c]}}
                BY <4>2
            <4> QED BY <4>3, <4>4 DEF c
        <3> QED BY <3>1, <3>2
    <2> HIDE DEF hit, Hit
    <2>5. Round(k, s) =
              [missed |-> seen.missed,
               lists |-> IF seen.thrown THEN Thrown
                         ELSE Lists(s.lists.add \cup (IF seen.missed THEN {c} ELSE {}),
                                    s.lists.update \cup Hit(k))]
        BY <1>3, <2>4 DEF Carried, seen, hit
    <2> HIDE DEF Round, S
    <2>6. /\ Round(k, s) = [missed |-> Round(k, s).missed, lists |-> Round(k, s).lists]
          /\ Round(k, s).missed = seen.missed
          /\ Round(k, s).lists =
                IF seen.thrown THEN Thrown
                ELSE Lists(s.lists.add \cup (IF seen.missed THEN {c} ELSE {}),
                           s.lists.update \cup Hit(k))
        BY <2>5
    <2> QED BY <2>3, <2>6
<1>4. ASSUME NEW k \in 1..n, NEW s \in S PROVE Round(k, s) \in S
    <2>1. CASE s.lists.thrown
        BY <2>1
    <2>2. CASE ~s.lists.thrown
        <3>1. Hit(k) \subseteq L \X {due[c] : c \in C}
            BY <1>1, <1>2
        <3> HIDE DEF Hit
        <3>2. s.lists.add \subseteq C /\ s.lists.update \subseteq L \X {due[c] : c \in C}
            OBVIOUS
        <3>3. cs[k] \in C
            BY <1>1
        <3> HIDE DEF Round
        <3> DEFINE U == L \X {due[c] : c \in C}
        <3>a. \A a \in SUBSET C, u \in SUBSET U, x \in SUBSET {cs[k]} :
                  Thrown \in [thrown : BOOLEAN, add : SUBSET C, update : SUBSET U]
                  /\ Lists(a \cup x, u \cup Hit(k)) \in
                        [thrown : BOOLEAN, add : SUBSET C, update : SUBSET U]
            BY <3>1, <3>3 DEF Thrown, Lists
        <3>4. Round(k, s).lists \in [thrown : BOOLEAN, add : SUBSET C, update : SUBSET U]
            <4> HIDE DEF S, U, C
            <4>1. CASE Fails(cs[k], ls)
                BY <1>3, <2>2, <3>2, <3>a, <4>1 DEF U
            <4>2. CASE ~Fails(cs[k], ls)
                <5> DEFINE x == IF Round(k, s).missed THEN {cs[k]} ELSE {}
                <5>1. x \in SUBSET {cs[k]}
                    OBVIOUS
                <5>2. s.lists.add \in SUBSET C /\ s.lists.update \in SUBSET U
                    BY <3>2 DEF U
                <5>3. Round(k, s).lists =
                          Lists(s.lists.add \cup (IF Round(k, s).missed THEN {cs[k]} ELSE {}),
                                s.lists.update \cup Hit(k))
                    BY <1>3, <2>2, <4>2
                <5> HIDE DEF x
                <5>4. Round(k, s).lists = Lists(s.lists.add \cup x, s.lists.update \cup Hit(k))
                    BY <5>3 DEF x
                <5> DEFINE a == s.lists.add
                           u == s.lists.update
                <5> HIDE DEF a, u
                <5>5. Lists(a \cup x, u \cup Hit(k))
                          \in [thrown : BOOLEAN, add : SUBSET C, update : SUBSET U]
                    BY <3>a, <5>1, <5>2 DEF a, u
                <5> QED BY <5>4, <5>5 DEF a, u
            <4> QED BY <4>1, <4>2
        <3>5. /\ Round(k, s) = [missed |-> Round(k, s).missed, lists |-> Round(k, s).lists]
              /\ Round(k, s).missed \in BOOLEAN
            BY <1>3, <2>2
        <3> QED BY <3>4, <3>5
    <2> QED BY <2>1, <2>2
<1>5. f0 \in S
    BY DEF Lists
<1>6. F \in Rounds(n, S) /\ \A k \in 1..n, s \in S : F[k][s] = Round(k, s)
    <2> HIDE DEF n, S, Round
    <2> QED BY <1>4 DEF Rounds
<1>7. \E g : Goes(g, f0, n, F, S)
    <2> HIDE DEF n, S, F, f0
    <2> QED BY <1>1, <1>5, <1>6, Recursion, SMTT(30)
<1>8. PICK g : /\ g \in [0..n -> S] /\ g[0] = f0
               /\ \A k \in 1..n : g[k] = F[k][g[k - 1]]
    BY <1>7 DEF Goes
<1> HIDE DEF F, S, f0, Round, n, C, Hit
<1>9. \A k \in 1..n : g[k - 1] \in S /\ g[k] = Round(k, g[k - 1])
    BY <1>1, <1>6, <1>8
<1>10. IsRun(g)
    BY <1>1, <1>8, <1>9
<1>11. IsRun(run)
    <2> HIDE DEF IsRun
    <2> QED BY <1>10
<1>12. Loop(due, cs, ls) = run[n].lists
    BY DEF Loop, Round, n, f0
<1>13. run[0] = f0 /\ \A k \in 1..n : run[k] = Round(k, run[k - 1])
    <2> HIDE DEF run
    <2> QED BY <1>1, <1>11
<1> HIDE DEF run, IsRun
<1> DEFINE Failed(k) == \E m \in 1..k : Fails(cs[m], ls)
           Is(k, r) ==
              /\ r \in S
              /\ r.lists.thrown <=> Failed(k)
              /\ Failed(k) => r.lists = Thrown
              /\ ~Failed(k) =>
                    /\ r.missed <=> \E m \in 1..k : Passes(cs[m], ls)
                    /\ r.lists = Lists(AddedBy(cs, ls, k), UpdatedBy(due, cs, ls, k))
           T == {k \in Nat : k <= n => Is(k, run[k])}
<1>14. 0 \in T
    <2>1. AddedBy(cs, ls, 0) = {} /\ UpdatedBy(due, cs, ls, 0) = {}
        BY DEF AddedBy, UpdatedBy
    <2>2. ~f0.missed /\ f0.lists = Lists({}, {}) /\ ~f0.lists.thrown
        BY DEF f0, Lists
    <2>3. 1..0 = {}
        OBVIOUS
    <2>4. Is(0, f0)
        BY <1>5, <2>1, <2>2, <2>3
    <2> QED BY <1>13, <2>4
<1>15. ASSUME NEW k \in Nat, k \in T PROVE k + 1 \in T
    <2> SUFFICES ASSUME k + 1 <= n PROVE Is(k + 1, run[k + 1])
        OBVIOUS
    <2>1. Is(k, run[k])
        BY <1>1, <1>15
    <2>2. k + 1 \in 1..n /\ (k + 1) - 1 = k /\ 1..k + 1 = 1..k \cup {k + 1}
        BY <1>1
    <2>3. run[k + 1] = Round(k + 1, run[k])
        BY <1>13, <2>2
    <2>4. run[k + 1] \in S
        BY <1>4, <2>1, <2>2, <2>3
    <2>5. Failed(k + 1) <=> Failed(k) \/ Fails(cs[k + 1], ls)
        BY <2>2, SMTT(30)
    <2>6. CASE Failed(k)
        BY <2>1, <2>3, <2>4, <2>5, <2>6 DEF Round, Thrown
    <2>a. ASSUME ~Failed(k)
          PROVE  /\ Fails(cs[k + 1], ls) => run[k + 1].lists = Thrown
                 /\ ~Fails(cs[k + 1], ls) =>
                      /\ run[k + 1].missed <=> run[k].missed \/ Passes(cs[k + 1], ls)
                      /\ run[k + 1].lists =
                            Lists(run[k].lists.add
                                      \cup (IF run[k + 1].missed THEN {cs[k + 1]} ELSE {}),
                                  run[k].lists.update \cup Hit(k + 1))
        <3>1. run[k] \in S /\ ~run[k].lists.thrown
            BY <2>1, <2>a
        <3> HIDE DEF Is, Failed
        <3> DEFINE r == Round(k + 1, run[k])
        <3>2. /\ Fails(cs[k + 1], ls) => r.lists = Thrown
              /\ ~Fails(cs[k + 1], ls) =>
                    /\ r.missed <=> run[k].missed \/ Passes(cs[k + 1], ls)
                    /\ r.lists = Lists(run[k].lists.add \cup (IF r.missed THEN {cs[k + 1]} ELSE {}),
                                       run[k].lists.update \cup Hit(k + 1))
            BY <1>3, <2>2, <3>1
        <3>3. run[k + 1] = r
            BY <2>3
        <3> HIDE DEF r
        <3> QED BY <3>2, <3>3
    <2>7. CASE ~Failed(k) /\ Fails(cs[k + 1], ls)
        <3>1. run[k + 1].lists = Thrown /\ Failed(k + 1) /\ run[k + 1].lists.thrown
            BY <2>a, <2>5, <2>7 DEF Thrown
        <3> QED BY <2>4, <3>1
    <2>8. CASE ~Failed(k) /\ ~Fails(cs[k + 1], ls)
        <3> DEFINE any == \E m \in 1..k + 1 : Passes(cs[m], ls)
        <3>1. any <=> (\E m \in 1..k : Passes(cs[m], ls)) \/ Passes(cs[k + 1], ls)
            BY <2>2
        <3>2. /\ run[k + 1].missed <=> any
              /\ run[k + 1].lists =
                    Lists(AddedBy(cs, ls, k) \cup (IF run[k + 1].missed THEN {cs[k + 1]} ELSE {}),
                          UpdatedBy(due, cs, ls, k) \cup Hit(k + 1))
            <4>1. /\ run[k].missed <=> \E m \in 1..k : Passes(cs[m], ls)
                  /\ run[k].lists.add = AddedBy(cs, ls, k)
                  /\ run[k].lists.update = UpdatedBy(due, cs, ls, k)
                BY <2>1, <2>8 DEF Lists
            <4> HIDE DEF any, Failed
            <4> QED BY <2>a, <2>8, <3>1, <4>1
        <3>3. AddedBy(cs, ls, k + 1) =
                  AddedBy(cs, ls, k) \cup (IF any THEN {cs[k + 1]} ELSE {})
            BY <2>2 DEF AddedBy
        <3>4. UpdatedBy(due, cs, ls, k + 1) = UpdatedBy(due, cs, ls, k) \cup Hit(k + 1)
            <4> DEFINE J == 1..Len(ls)
                       Differs(i, j) == Hits(cs[i], ls, j) /\ ls[j].amount # due[cs[i]]
                       All(I) == {<<ls[p[2]], due[cs[p[1]]]>> :
                                     p \in {q \in I \X J : Differs(q[1], q[2])}}
            <4>1. UpdatedBy(due, cs, ls, k + 1) = All(1..k + 1)
                BY DEF UpdatedBy
            <4>2. UpdatedBy(due, cs, ls, k) = All(1..k)
                BY DEF UpdatedBy
            <4>3. \A I, x : x \in All(I) <=>
                      \E i \in I, j \in J : Differs(i, j) /\ x = <<ls[j], due[cs[i]]>>
                <5> HIDE DEF Differs, J
                <5> SUFFICES ASSUME NEW I, NEW x
                             PROVE  x \in All(I) <=>
                                 \E i \in I, j \in J : Differs(i, j) /\ x = <<ls[j], due[cs[i]]>>
                    OBVIOUS
                <5>1. ASSUME NEW i \in I, NEW j \in J, Differs(i, j), x = <<ls[j], due[cs[i]]>>
                      PROVE  x \in All(I)
                    <6>1. <<i, j>> \in {q \in I \X J : Differs(q[1], q[2])}
                        BY <5>1
                    <6>2. <<i, j>>[1] = i /\ <<i, j>>[2] = j
                        OBVIOUS
                    <6> QED BY <5>1, <6>1, <6>2
                <5> QED BY <5>1
            <4>4. \A x : x \in Hit(k + 1) <=>
                      \E j \in J : Differs(k + 1, j) /\ x = <<ls[j], due[cs[k + 1]]>>
                BY DEF Hit
            <4> HIDE DEF All, Differs, J
            <4> QED BY <2>2, <4>1, <4>2, <4>3, <4>4, SMTT(30)
        <3>5. run[k + 1].lists = Lists(AddedBy(cs, ls, k + 1), UpdatedBy(due, cs, ls, k + 1))
            <4> HIDE DEF any
            <4> QED BY <3>2, <3>3, <3>4
        <3>6. ~run[k + 1].lists.thrown
            BY <3>5 DEF Lists
        <3> QED BY <2>4, <2>5, <2>8, <3>2, <3>5, <3>6
    <2> QED BY <2>6, <2>7, <2>8
<1>16. n \in T
    <2> HIDE DEF T
    <2> QED BY <1>1, <1>14, <1>15, Induction
<1> QED BY <1>1, <1>12, <1>16 DEF n

\* A charge that no line bears is added, unless there is no line to compare it with.
LEMMA MissingAdded ==
    ASSUME NEW due, IsFiniteSet(DOMAIN due), {Null, Unreadable, Zero} \cap DOMAIN due = {},
           NEW S, IsFiniteSet(S),
           NEW cs \in Arrangements(DOMAIN due), NEW ls \in Arrangements(S)
    PROVE  LET out == Loop(due, cs, ls)
           IN  \/ out.thrown
               \/ \A l \in S : l.field = Zero
               \/ \A c \in DOMAIN due : (\A l \in S : l.field # c) => c \in out.add
<1> DEFINE out == Loop(due, cs, ls)
<1> SUFFICES ASSUME ~out.thrown, NEW l \in S, l.field # Zero,
                    NEW c \in DOMAIN due, \A x \in S : x.field # c
             PROVE  c \in out.add
    OBVIOUS
<1>1. /\ cs \in Seq(DOMAIN due) /\ Len(cs) \in Nat
      /\ \A s \in DOMAIN due : \E i \in 1..Len(cs) : cs[i] = s
    BY Places
<1>2. /\ ls \in Seq(S) /\ Len(ls) \in Nat
      /\ \A i \in 1..Len(ls) : ls[i] \in S
      /\ \A x \in S : \E i \in 1..Len(ls) : ls[i] = x
    BY Places, ZenonT(30)
<1>3. /\ \A k \in 1..Len(cs) : ~Fails(cs[k], ls)
      /\ out = Lists(AddedBy(cs, ls, Len(cs)), UpdatedBy(due, cs, ls, Len(cs)))
    <2> DEFINE fails == \E k \in 1..Len(cs) : Fails(cs[k], ls)
    <2>1. (fails => out = Thrown) /\ (~fails =>
              out = Lists(AddedBy(cs, ls, Len(cs)), UpdatedBy(due, cs, ls, Len(cs))))
        <3>1. cs \in Seq(DOMAIN due) /\ ls \in Seq(S) /\ {Null, Unreadable, Zero} \cap DOMAIN due = {}
            BY <1>1, <1>2
        <3> QED BY <3>1, LoopOf
    <2> HIDE DEF out
    <2>2. ~fails
        BY <2>1 DEF Thrown
    <2> QED BY <2>1, <2>2
<1> HIDE DEF out
<1>4. PICK i \in 1..Len(cs) : cs[i] = c
    BY <1>1
<1>5. PICK k \in 1..Len(ls) : ls[k] = l
    BY <1>2
<1>6. \A j \in 1..Len(ls) : ~Ends(c, ls[j])
    <2> SUFFICES ASSUME \E j \in 1..Len(ls) : Ends(c, ls[j]) PROVE FALSE
        OBVIOUS
    <2>1. PICK j \in 1..Len(ls) : Met(c, ls, j)
        BY <1>2, MetFirst
    <2>2. Bad(ls[j])
        BY <1>2, <2>1 DEF Met, Ends
    <2> QED BY <1>3, <1>4, <2>1, <2>2 DEF Fails
<1>7. 1..k \subseteq 1..Len(ls)
    BY <1>2
<1>8. Passes(c, ls)
    BY <1>5, <1>6, <1>7 DEF Passes
<1>9. c \in AddedBy(cs, ls, Len(cs))
    <2>1. i \in 1..i
        BY <1>1
    <2> QED BY <1>4, <1>8, <2>1 DEF AddedBy
<1> QED BY <1>3, <1>9 DEF Lists

\* What the two orders decide: the first line that is compared, the first charge, and
\* the line at which each charge is met.
Meeting(due, S, cs, ls, h, M, m) ==
    /\ IsFiniteSet(DOMAIN due) /\ DOMAIN due # {} /\ {Null, Unreadable, Zero} \cap DOMAIN due = {}
    /\ IsFiniteSet(S)
    /\ cs \in Arrangements(DOMAIN due) /\ ls \in Arrangements(S)
    /\ h \in 1..Len(ls) /\ ls[h].field # Zero /\ \A j \in 1..h - 1 : ls[j].field = Zero
    /\ \A c \in DOMAIN due : ~Fails(c, ls)
    /\ M \subseteq DOMAIN due
    /\ \A c \in DOMAIN due : c \in M <=> \E j \in 1..Len(ls) : Hits(c, ls, j)
    /\ \A c \in M : \E j \in 1..Len(ls) : Hits(c, ls, j) /\ m[c] = ls[j]

Adds(due, first, head, M, m) ==
    IF first \in M /\ m[first] = head THEN DOMAIN due \ {first} ELSE DOMAIN due
Updates(due, M, m) == {<<m[c], due[c]>> : c \in {d \in M : m[d].amount # due[d]}}

LEMMA ListsOf ==
    ASSUME NEW due, NEW S, NEW cs, NEW ls, NEW h, NEW M, NEW m,
           Meeting(due, S, cs, ls, h, M, m)
    PROVE  Loop(due, cs, ls) = Lists(Adds(due, cs[1], ls[h], M, m), Updates(due, M, m))
<1> DEFINE D == DOMAIN due
           n == Len(cs)
<1> USE DEF Meeting
<1>1. /\ cs \in Seq(D) /\ n \in Nat /\ \A i \in 1..n : cs[i] \in D
      /\ \A i, j \in 1..n : cs[i] = cs[j] => i = j
      /\ \A s \in D : \E i \in 1..n : cs[i] = s
    BY Places, ZenonT(30)
<1>2. /\ ls \in Seq(S) /\ Len(ls) \in Nat
      /\ \A i, j \in 1..Len(ls) : ls[i] = ls[j] => i = j
    BY Places
<1>3. n >= 1 /\ 1 \in 1..n
    BY <1>1
<1>4. Loop(due, cs, ls) = Lists(AddedBy(cs, ls, n), UpdatedBy(due, cs, ls, n))
    <2> DEFINE fails == \E k \in 1..Len(cs) : Fails(cs[k], ls)
    <2>1. cs \in Seq(DOMAIN due) /\ ls \in Seq(S) /\ ~fails
        BY <1>1, <1>2
    <2>2. ~fails => Loop(due, cs, ls) =
                        Lists(AddedBy(cs, ls, Len(cs)), UpdatedBy(due, cs, ls, Len(cs)))
        BY <2>1, LoopOf
    <2> QED BY <2>1, <2>2
\* The lines before the first compared one are passed over.
<1>5. \A c \in D, j \in 1..h - 1 : ~Ends(c, ls[j])
    BY FieldsDiffer DEF Ends, Bad
<1>6. ~Bad(ls[h])
    <2> SUFFICES ASSUME Bad(ls[h]) PROVE FALSE
        OBVIOUS
    <2>1. Met(cs[1], ls, h)
        BY <1>1, <1>3, <1>5 DEF Met, Ends
    <2> QED BY <1>1, <1>3, <2>1 DEF Fails
<1>7. ASSUME NEW c \in D PROVE Passes(c, ls) <=> ls[h].field # c
    <2>1. ASSUME ls[h].field # c PROVE Passes(c, ls)
        <3>1. ~Ends(c, ls[h])
            BY <1>6, <2>1 DEF Ends
        <3>2. \A j \in 1..h : j = h \/ j \in 1..h - 1
            OBVIOUS
        <3> QED BY <1>5, <3>1, <3>2 DEF Passes
    <2>2. ASSUME ls[h].field = c, Passes(c, ls) PROVE FALSE
        <3>1. PICK k \in 1..Len(ls) : ls[k].field # Zero /\ \A j \in 1..k : ~Ends(c, ls[j])
            BY <2>2 DEF Passes
        <3>2. Ends(c, ls[h])
            BY <2>2 DEF Ends
        <3>3. k \in 1..h - 1
            BY <3>1, <3>2
        <3> QED BY <3>1, <3>3
    <2> QED BY <2>1, <2>2
<1>8. ls[h].field = cs[1] <=> cs[1] \in M /\ m[cs[1]] = ls[h]
    <2>1. ASSUME ls[h].field = cs[1] PROVE cs[1] \in M /\ m[cs[1]] = ls[h]
        <3>1. Hits(cs[1], ls, h)
            BY <1>1, <1>3, <1>5, <1>6, <2>1 DEF Hits, Met, Ends
        <3>2. cs[1] \in M
            BY <1>1, <1>3, <3>1
        <3>3. PICK j \in 1..Len(ls) : Hits(cs[1], ls, j) /\ m[cs[1]] = ls[j]
            BY <3>2
        <3>4. j = h
            BY <1>2, <3>1, <3>3, MetOnce DEF Hits
        <3> QED BY <3>2, <3>3, <3>4
    <2>2. ASSUME cs[1] \in M, m[cs[1]] = ls[h] PROVE ls[h].field = cs[1]
        <3>1. PICK j \in 1..Len(ls) : Hits(cs[1], ls, j) /\ m[cs[1]] = ls[j]
            BY <2>2
        <3> QED BY <2>2, <3>1 DEF Hits, Met, Ends
    <2> QED BY <2>1, <2>2
<1>9. AddedBy(cs, ls, n) = IF ls[h].field = cs[1] THEN D \ {cs[1]} ELSE D
    <2>1. ASSUME ls[h].field = cs[1], NEW j \in 1..n
          PROVE  (\E k \in 1..j : Passes(cs[k], ls)) <=> j # 1
        <3>1. \A k \in 1..n : Passes(cs[k], ls) <=> k # 1
            BY <1>1, <1>3, <1>7, <2>1, ZenonT(30)
        <3>2. 1..j \subseteq 1..n /\ j \in 1..j
            BY <1>1
        <3> QED BY <3>1, <3>2
    <2>2. ASSUME ls[h].field # cs[1], NEW j \in 1..n
          PROVE  \E k \in 1..j : Passes(cs[k], ls)
        <3>1. cs[1] \in D /\ 1 \in 1..j
            BY <1>1, <1>3
        <3>2. Passes(cs[1], ls)
            BY <1>7, <2>2, <3>1
        <3> QED BY <3>1, <3>2
    <2>3. CASE ls[h].field = cs[1]
        <3>1. AddedBy(cs, ls, n) = {cs[i] : i \in {j \in 1..n : j # 1}}
            BY <2>1, <2>3 DEF AddedBy
        <3>2. {cs[i] : i \in {j \in 1..n : j # 1}} = D \ {cs[1]}
            <4> HIDE DEF D, n
            <4> QED BY <1>1, <1>3
        <3> QED BY <2>3, <3>1, <3>2
    <2>4. CASE ls[h].field # cs[1]
        <3>1. AddedBy(cs, ls, n) = {cs[i] : i \in 1..n}
            BY <2>2, <2>4 DEF AddedBy
        <3>2. {cs[i] : i \in 1..n} = D
            <4> HIDE DEF D, n
            <4> QED BY <1>1
        <3> QED BY <2>4, <3>1, <3>2
    <2> QED BY <2>3, <2>4
<1>10. UpdatedBy(due, cs, ls, n) =
           {<<m[c], due[c]>> : c \in {d \in M : m[d].amount # due[d]}}
    <2> DEFINE J == 1..Len(ls)
               U == UpdatedBy(due, cs, ls, n)
               V == {<<m[c], due[c]>> : c \in {d \in M : m[d].amount # due[d]}}
    <2>1. ASSUME NEW x \in U PROVE x \in V
        <3>1. PICK q \in (1..n) \X J : /\ Hits(cs[q[1]], ls, q[2])
                                       /\ ls[q[2]].amount # due[cs[q[1]]]
                                       /\ x = <<ls[q[2]], due[cs[q[1]]]>>
            BY <2>1 DEF UpdatedBy
        <3> DEFINE c == cs[q[1]]
        <3>2. c \in D /\ q[2] \in J
            BY <1>1, <3>1
        <3> HIDE DEF c
        <3>3. c \in M
            BY <3>1, <3>2 DEF c
        <3>4. PICK j \in J : Hits(c, ls, j) /\ m[c] = ls[j]
            BY <3>3
        <3>5. j = q[2]
            BY <1>2, <3>1, <3>2, <3>4, MetOnce DEF Hits, c
        <3> QED BY <3>1, <3>3, <3>4, <3>5 DEF c
    <2>2. ASSUME NEW c \in M, m[c].amount # due[c] PROVE <<m[c], due[c]>> \in U
        <3>1. PICK j \in J : Hits(c, ls, j) /\ m[c] = ls[j]
            OBVIOUS
        <3>2. PICK i \in 1..n : cs[i] = c
            BY <1>1
        <3>3. <<i, j>> \in (1..n) \X J /\ <<i, j>>[1] = i /\ <<i, j>>[2] = j
            OBVIOUS
        <3> DEFINE Q == {q \in (1..n) \X J : Hits(cs[q[1]], ls, q[2])
                                             /\ ls[q[2]].amount # due[cs[q[1]]]}
        <3>4. <<i, j>> \in Q
            BY <2>2, <3>1, <3>2, <3>3
        <3>5. U = {<<ls[q[2]], due[cs[q[1]]]>> : q \in Q}
            BY DEF UpdatedBy
        <3> HIDE DEF U, Q
        <3> QED BY <3>1, <3>2, <3>3, <3>4, <3>5
    <2> QED BY <2>1, <2>2
<1> QED BY <1>4, <1>8, <1>9, <1>10 DEF Adds, Updates

\* Outcomes is exact for every finite set of charges and every finite set of lines.
LEMMA OutcomesOf ==
    ASSUME NEW due, IsFiniteSet(DOMAIN due), {Null, Unreadable, Zero} \cap DOMAIN due = {},
           NEW S, IsFiniteSet(S)
    PROVE  Outcomes(due, S) =
               {Loop(due, cs, ls) : cs \in Arrangements(DOMAIN due), ls \in Arrangements(S)}
<1> DEFINE D == DOMAIN due
           dirty == {l \in S : l.field \in {Null, Unreadable}}
           compared == {l \in S : l.field # Zero}
           Of(c) == {l \in S : l.field = c}
           matched == {c \in D : Of(c) # {}}
           Meets == {m \in [matched -> S] : \A c \in matched : m[c] \in Of(c)}
           Update(m) == {<<m[c], due[c]>> : c \in {d \in matched : m[d].amount # due[d]}}
           Add(m, head, first) ==
               IF first \in matched /\ m[first] = head THEN D \ {first} ELSE D
           Q == {q \in Meets \X (compared \ dirty) \X D :
                    q[2].field \in D => q[1][q[2].field] = q[2]}
<1>1. Outcomes(due, S) =
          IF D = {} \/ compared = {} THEN {Lists({}, {})}
          ELSE (IF dirty # {} THEN {Thrown} ELSE {})
               \cup
               (IF dirty # {} /\ matched # D THEN {}
                ELSE {Lists(Add(p[1], p[2], p[3]), Update(p[1])) : p \in Q})
    BY DEF Outcomes
<1>2. ASSUME NEW cs \in Arrangements(D)
      PROVE  /\ cs \in Seq(D) /\ Len(cs) \in Nat /\ \A i \in 1..Len(cs) : cs[i] \in D
             /\ \A i, j \in 1..Len(cs) : cs[i] = cs[j] => i = j
             /\ \A s \in D : \E i \in 1..Len(cs) : cs[i] = s
    BY Places
<1>3. ASSUME NEW ls \in Arrangements(S)
      PROVE  /\ ls \in Seq(S) /\ Len(ls) \in Nat /\ \A i \in 1..Len(ls) : ls[i] \in S
             /\ \A i, j \in 1..Len(ls) : ls[i] = ls[j] => i = j
             /\ \A s \in S : \E i \in 1..Len(ls) : ls[i] = s
    BY Places
<1>4. ASSUME NEW cs \in Arrangements(D), NEW ls \in Arrangements(S)
      PROVE  /\ (\E k \in 1..Len(cs) : Fails(cs[k], ls)) => Loop(due, cs, ls) = Thrown
             /\ (\A k \in 1..Len(cs) : ~Fails(cs[k], ls)) =>
                   Loop(due, cs, ls) =
                       Lists(AddedBy(cs, ls, Len(cs)), UpdatedBy(due, cs, ls, Len(cs)))
    <2>1. cs \in Seq(DOMAIN due) /\ ls \in Seq(S)
        BY <1>2, <1>3
    <2> DEFINE fails == \E k \in 1..Len(cs) : Fails(cs[k], ls)
    <2>2. /\ fails => Loop(due, cs, ls) = Thrown
          /\ ~fails => Loop(due, cs, ls) =
                           Lists(AddedBy(cs, ls, Len(cs)), UpdatedBy(due, cs, ls, Len(cs)))
        BY <2>1, LoopOf
    <2> QED BY <2>2
\* Nothing to compare.
<1>5. ASSUME NEW cs \in Arrangements(D), NEW ls \in Arrangements(S), D = {} \/ compared = {}
      PROVE  Loop(due, cs, ls) = Lists({}, {})
    <2>1. CASE D = {}
        <3>1. Len(cs) = 0
            BY <1>2, <2>1
        <3>2. AddedBy(cs, ls, 0) = {} /\ UpdatedBy(due, cs, ls, 0) = {}
            BY DEF AddedBy, UpdatedBy
        <3>3. \A k \in 1..Len(cs) : ~Fails(cs[k], ls)
            BY <3>1
        <3>4. Loop(due, cs, ls) =
                  Lists(AddedBy(cs, ls, Len(cs)), UpdatedBy(due, cs, ls, Len(cs)))
            BY <1>4, <3>3
        <3> QED BY <3>1, <3>2, <3>4
    <2>2. CASE compared = {}
        <3>1. ASSUME NEW c \in D
              PROVE  /\ ~Fails(c, ls) /\ ~Passes(c, ls)
                     /\ \A j \in 1..Len(ls) : ~Hits(c, ls, j)
            <4>1. \A j \in 1..Len(ls) : ls[j].field = Zero
                BY <1>3, <2>2
            <4> QED BY <4>1, FieldsDiffer DEF Fails, Passes, Hits, Met, Ends, Bad
        <3>2. \A k \in 1..Len(cs) : cs[k] \in D
            BY <1>2
        <3>3. AddedBy(cs, ls, Len(cs)) = {}
            <4>1. \A j \in 1..Len(cs) : 1..j \subseteq 1..Len(cs)
                BY <1>2
            <4> QED BY <3>1, <3>2, <4>1 DEF AddedBy
        <3>4. UpdatedBy(due, cs, ls, Len(cs)) = {}
            BY <3>1, <3>2 DEF UpdatedBy
        <3> QED BY <1>4, <3>1, <3>2, <3>3, <3>4
    <2> QED BY <1>5, <2>1, <2>2
\* Whatever the orders, the outcome is one of those named.
<1>6. ASSUME NEW cs \in Arrangements(D), NEW ls \in Arrangements(S), D # {}, compared # {}
      PROVE  Loop(due, cs, ls) \in Outcomes(due, S)
    <2>1. CASE \E k \in 1..Len(cs) : Fails(cs[k], ls)
        <3>1. dirty # {}
            BY <1>3, <2>1 DEF Fails, Bad
        <3>2. Loop(due, cs, ls) = Thrown
            BY <1>4, <2>1
        <3> HIDE DEF D, dirty, compared, matched, Q
        <3> QED BY <1>1, <1>6, <3>1, <3>2
    <2>2. CASE \A k \in 1..Len(cs) : ~Fails(cs[k], ls)
        <3>0. /\ Len(cs) \in Nat /\ \A i \in 1..Len(cs) : cs[i] \in D
              /\ \A s \in D : \E i \in 1..Len(cs) : cs[i] = s
            BY <1>2
        <3>1. \A c \in D : ~Fails(c, ls)
            <4> HIDE DEF D
            <4> QED BY <2>2, <3>0
        <3> DEFINE H == {j \in 1..Len(ls) : ls[j].field # Zero}
        <3>2. H \in SUBSET Nat /\ H # {}
            <4>1. PICK l \in S : l.field # Zero
                BY <1>6
            <4>2. PICK j \in 1..Len(ls) : ls[j] = l
                BY <1>3
            <4> QED BY <4>1, <4>2
        <3>3. PICK h \in H : \A j \in H : h <= j
            <4> HIDE DEF H
            <4> QED BY <3>2, Least
        <3>4. /\ h \in 1..Len(ls) /\ ls[h].field # Zero
              /\ \A j \in 1..h - 1 : ls[j].field = Zero
            <4>1. \A j \in 1..h - 1 : j \in 1..Len(ls) /\ ~(h <= j)
                BY <1>3, <3>3
            <4> QED BY <3>3, <4>1
        <3> DEFINE m == [c \in matched |-> CHOOSE l \in S : \E j \in 1..Len(ls) : Hits(c, ls, j) /\ l = ls[j]]
        <3>5. ASSUME NEW c \in D
              PROVE  c \in matched <=> \E j \in 1..Len(ls) : Hits(c, ls, j)
            <4>1. ASSUME c \in matched PROVE \E j \in 1..Len(ls) : Hits(c, ls, j)
                <5>1. PICK j \in 1..Len(ls) : ls[j].field = c
                    <6>1. PICK l \in S : l.field = c
                        BY <4>1
                    <6>2. PICK j \in 1..Len(ls) : ls[j] = l
                        BY <1>3
                    <6> QED BY <6>1, <6>2
                <5>2. PICK k \in 1..Len(ls) : Met(c, ls, k)
                    BY <1>3, <5>1, MetFirst DEF Ends
                <5> QED BY <3>1, <5>2 DEF Fails, Hits
            <4>2. ASSUME NEW j \in 1..Len(ls), Hits(c, ls, j) PROVE c \in matched
                <5>1. ls[j].field = c /\ ls[j] \in S
                    BY <1>3, <4>2 DEF Hits, Met, Ends
                <5> QED BY <5>1
            <4> QED BY <4>1, <4>2
        <3>6. ASSUME NEW c \in matched
              PROVE  \E j \in 1..Len(ls) : Hits(c, ls, j) /\ m[c] = ls[j]
            <4>1. \E l \in S : \E j \in 1..Len(ls) : Hits(c, ls, j) /\ l = ls[j]
                BY <1>3, <3>5
            <4> QED BY <4>1
        <3>7. m \in Meets
            <4>1. ASSUME NEW c \in matched PROVE m[c] \in Of(c)
                <5>1. PICK j \in 1..Len(ls) : Hits(c, ls, j) /\ m[c] = ls[j]
                    BY <3>6
                <5> HIDE DEF m
                <5> QED BY <1>3, <5>1 DEF Hits, Met, Ends
            <4>2. m = [c \in matched |-> m[c]]
                OBVIOUS
            <4> HIDE DEF m, matched
            <4> QED BY <4>1, <4>2
        <3> HIDE DEF m
        <3>8. 1 \in 1..Len(cs) /\ cs[1] \in D
            <4> HIDE DEF D
            <4> QED BY <1>6, <3>0
        <3>9. Loop(due, cs, ls) = Lists(Add(m, ls[h], cs[1]), Update(m))
            <4> HIDE DEF H, Meets, Q, dirty, compared
            <4>1. matched \subseteq DOMAIN due /\ DOMAIN due # {}
                BY <1>6
            <4> HIDE DEF matched
            <4>2. Meeting(due, S, cs, ls, h, matched, m)
                BY <3>1, <3>4, <3>5, <3>6, <4>1 DEF Meeting
            <4>3. /\ Update(m) = Updates(due, matched, m)
                  /\ Add(m, ls[h], cs[1]) = Adds(due, cs[1], ls[h], matched, m)
                BY DEF Updates, Adds
            <4>4. Loop(due, cs, ls) =
                      Lists(Adds(due, cs[1], ls[h], matched, m), Updates(due, matched, m))
                BY <4>2, ListsOf
            <4> HIDE DEF Update, Add
            <4> QED BY <4>3, <4>4
        <3>10. ~Bad(ls[h])
            <4> SUFFICES ASSUME Bad(ls[h]) PROVE FALSE
                OBVIOUS
            <4>1. Met(cs[1], ls, h)
                BY <3>4, <3>8, FieldsDiffer DEF Met, Ends, Bad
            <4> QED BY <3>1, <3>4, <3>8, <4>1 DEF Fails
        <3>11. ls[h] \in compared \ dirty
            BY <1>3, <3>4, <3>10 DEF Bad
        <3>12. ls[h].field \in D => m[ls[h].field] = ls[h]
            <4> SUFFICES ASSUME ls[h].field \in D PROVE m[ls[h].field] = ls[h]
                OBVIOUS
            <4> DEFINE c == ls[h].field
            <4>1. Hits(c, ls, h)
                BY <3>4, <3>10, FieldsDiffer DEF Hits, Met, Ends, Bad
            <4>2. PICK j \in 1..Len(ls) : Hits(c, ls, j) /\ m[c] = ls[j]
                BY <3>4, <3>5, <3>6, <4>1
            <4>3. j = h
                BY <1>3, <3>4, <4>1, <4>2, MetOnce DEF Hits
            <4> QED BY <4>2, <4>3
        <3>13. <<m, ls[h], cs[1]>> \in Q
            BY <3>7, <3>8, <3>11, <3>12
        <3>14. dirty # {} => matched = D
            <4> SUFFICES ASSUME NEW l \in dirty, NEW c \in D PROVE c \in matched
                OBVIOUS
            <4>1. PICK j \in 1..Len(ls) : Bad(ls[j])
                <5>1. l \in S /\ Bad(l)
                    BY DEF Bad
                <5>2. PICK j \in 1..Len(ls) : ls[j] = l
                    BY <1>3, <5>1
                <5> QED BY <5>1, <5>2
            <4>2. PICK k \in 1..Len(ls) : Met(c, ls, k)
                BY <1>3, <4>1, MetFirst DEF Ends
            <4> HIDE DEF D, dirty, matched
            <4> QED BY <3>1, <3>5, <4>2 DEF Fails, Hits
        <3>15. Lists(Add(m, ls[h], cs[1]), Update(m)) \in
                  {Lists(Add(p[1], p[2], p[3]), Update(p[1])) : p \in Q}
            <4> HIDE DEF Q, Add, Update
            <4>1. /\ <<m, ls[h], cs[1]>>[1] = m /\ <<m, ls[h], cs[1]>>[2] = ls[h]
                  /\ <<m, ls[h], cs[1]>>[3] = cs[1]
                OBVIOUS
            <4> QED BY <3>13, <4>1
        <3> HIDE DEF D, dirty, compared, matched, Q, Add, Update
        <3> QED BY <1>1, <1>6, <3>9, <3>14, <3>15
    <2> QED BY <2>1, <2>2
\* There are orders for each outcome named.
<1>7. SUFFICES ASSUME D # {}, compared # {}, NEW out \in Outcomes(due, S)
               PROVE  \E cs \in Arrangements(D), ls \in Arrangements(S) : out = Loop(due, cs, ls)
    <2>1. \E cs \in Arrangements(D), ls \in Arrangements(S) : TRUE
        BY SomeArrangement
    <2> DEFINE A == Arrangements(D)
               B == Arrangements(S)
               All == {Loop(due, cs, ls) : cs \in A, ls \in B}
    <2>2. ASSUME D = {} \/ compared = {} PROVE Outcomes(due, S) = All
        <3>1. Outcomes(due, S) = {Lists({}, {})}
            <4> HIDE DEF D, dirty, compared, matched, Q, Add, Update
            <4> QED BY <1>1, <2>2
        <3>2. \A cs \in A, ls \in B : Loop(due, cs, ls) = Lists({}, {})
            <4> HIDE DEF compared
            <4> QED BY <1>5, <2>2
        <3>3. All = {Lists({}, {})}
            <4> HIDE DEF A, B
            <4> QED BY <2>1, <3>2 DEF A, B
        <3> QED BY <3>1, <3>3
    <2>3. ASSUME D # {}, compared # {} PROVE Outcomes(due, S) = All
        <3>1. \A cs \in A, ls \in B : Loop(due, cs, ls) \in Outcomes(due, S)
            <4> HIDE DEF compared
            <4> QED BY <1>6, <2>3
        <3>2. \A out \in Outcomes(due, S) : \E cs \in A, ls \in B : out = Loop(due, cs, ls)
            <4> HIDE DEF compared
            <4> QED BY <1>7, <2>3
        <3> HIDE DEF A, B
        <3>3. All = Outcomes(due, S)
            BY <3>1, <3>2
        <3> QED BY <3>3 DEF A, B
    <2>4. Outcomes(due, S) = All
        <3> HIDE DEF All, D, compared
        <3> QED BY <2>2, <2>3
    <2> QED BY <2>4
<1>8. PICK some \in Arrangements(D) : TRUE
    BY SomeArrangement
<1>9. CASE out = Thrown /\ dirty # {}
    <2>1. PICK x \in S : Bad(x)
        BY <1>9 DEF Bad
    <2> DEFINE key == [l \in S |-> IF l = x THEN 0 ELSE 1]
    <2>2. key \in [S -> Nat]
        OBVIOUS
    <2>3. PICK ls \in Arrangements(S) :
              \A i, j \in 1..Len(ls) : key[ls[i]] < key[ls[j]] => i < j
        <3> HIDE DEF key
        <3> QED BY <2>2, Sorted
    <2>4. PICK at \in 1..Len(ls) : ls[at] = x
        BY <1>3
    <2>5. at = 1
        <3> SUFFICES ASSUME at # 1 PROVE FALSE
            OBVIOUS
        <3>1. 1 \in 1..Len(ls) /\ ls[1] \in S /\ ls[1] # x
            <4>1. Len(ls) \in Nat /\ \A i \in 1..Len(ls) : ls[i] \in S
                BY <1>3
            <4>2. \A i, j \in 1..Len(ls) : ls[i] = ls[j] => i = j
                BY <1>3
            <4>3. 1 \in 1..Len(ls)
                BY <2>4, <4>1
            <4> QED BY <2>4, <4>1, <4>2, <4>3
        <3>2. key[ls[at]] < key[ls[1]]
            BY <2>4, <3>1
        <3> QED BY <2>3, <2>4, <3>1, <3>2
    <2>6. 1 \in 1..Len(some) /\ some[1] \in D
        <3>1. /\ Len(some) \in Nat /\ \A i \in 1..Len(some) : some[i] \in D
              /\ \A s \in D : \E i \in 1..Len(some) : some[i] = s
            BY <1>2
        <3> HIDE DEF D
        <3> QED BY <1>7, <3>1
    <2>7. Fails(some[1], ls)
        <3>1. Met(some[1], ls, 1)
            BY <2>1, <2>4, <2>5 DEF Met, Ends
        <3> QED BY <2>1, <2>4, <2>5, <3>1 DEF Fails
    <2>8. Loop(due, some, ls) = Thrown
        BY <1>4, <2>6, <2>7
    <2> QED BY <1>9, <2>8
<1>10. ASSUME NEW p \in Q, dirty = {} \/ matched = D, out = Lists(Add(p[1], p[2], p[3]), Update(p[1]))
       PROVE  \E cs \in Arrangements(D), ls \in Arrangements(S) : out = Loop(due, cs, ls)
    <2> DEFINE m == p[1]
               head == p[2]
               first == p[3]
    <2>1. /\ m \in Meets /\ head \in compared \ dirty /\ first \in D
          /\ head.field \in D => m[head.field] = head
        OBVIOUS
    <2> HIDE DEF m, head, first
    <2>2. /\ \A c \in matched : m[c] \in S /\ m[c].field = c
          /\ head \in S /\ head.field # Zero /\ ~Bad(head)
          /\ first \in D
          /\ \A c \in D : head.field = c => m[c] = head
        BY <2>1 DEF Bad
    <2> DEFINE lkey == [l \in S |-> IF l = head THEN 0 ELSE IF \E c \in matched : l = m[c] THEN 1 ELSE 2]
               ckey == [c \in D |-> IF c = first THEN 0 ELSE 1]
    <2>3. lkey \in [S -> Nat] /\ ckey \in [D -> Nat]
        <3> HIDE DEF matched, D
        <3> QED OBVIOUS
    <2>4. /\ \A l \in S : l # head => lkey[head] < lkey[l]
          /\ \A c \in matched, l \in S :
                ~(lkey[m[c]] < lkey[l]) => l = head \/ \E d \in matched : l = m[d]
          /\ \A c \in D : c # first => ckey[first] < ckey[c]
        <3> HIDE DEF matched, D
        <3> QED BY <2>2
    <2> HIDE DEF lkey, ckey
    <2>5. PICK ls \in Arrangements(S) :
              \A i, j \in 1..Len(ls) : lkey[ls[i]] < lkey[ls[j]] => i < j
        BY <2>3, Sorted
    <2>6. PICK cs \in Arrangements(D) :
              \A i, j \in 1..Len(cs) : ckey[cs[i]] < ckey[cs[j]] => i < j
        <3> HIDE DEF D
        <3> QED BY <2>3, Sorted DEF D
    <2>7. /\ ls \in Seq(S) /\ Len(ls) \in Nat /\ \A i \in 1..Len(ls) : ls[i] \in S
          /\ \A s \in S : \E i \in 1..Len(ls) : ls[i] = s
        BY <1>3
    <2>8. /\ Len(cs) \in Nat /\ \A i \in 1..Len(cs) : cs[i] \in D
          /\ \A s \in D : \E i \in 1..Len(cs) : cs[i] = s
        BY <1>2
    <2>9. 1 \in 1..Len(ls) /\ ls[1] = head
        <3>1. PICK i \in 1..Len(ls) : ls[i] = head
            BY <2>2, <2>7
        <3>0. Len(ls) \in Nat
            BY <2>7
        <3>2. 1 \in 1..Len(ls) /\ ~(i < 1)
            BY <3>0
        <3> QED BY <2>4, <2>5, <2>7, <3>1, <3>2
    <2>10. 1 \in 1..Len(cs) /\ cs[1] = first
        <3> HIDE DEF D
        <3>1. PICK i \in 1..Len(cs) : cs[i] = first
            BY <2>2, <2>8
        <3>2. 1 \in 1..Len(cs) /\ ~(i < 1)
            BY <2>8
        <3> QED BY <2>4, <2>6, <2>8, <3>1, <3>2
    <2>11. ASSUME NEW c \in matched
           PROVE  \E j \in 1..Len(ls) : Hits(c, ls, j) /\ m[c] = ls[j]
        <3>1. PICK j \in 1..Len(ls) : ls[j] = m[c]
            BY <2>2, <2>7
        <3>3. m[c].field = c /\ c \in D
            BY <2>2
        <3>2. ASSUME NEW k \in 1..j - 1 PROVE ~Ends(c, ls[k])
            <4> HIDE DEF matched, D
            <4>0. Len(ls) \in Nat
                BY <2>7
            <4>1. k \in 1..Len(ls) /\ ~(j < k) /\ j # k
                BY <4>0
            <4>2. ~(lkey[m[c]] < lkey[ls[k]])
                BY <2>5, <3>1, <4>1
            <4>3. ls[k] = head \/ \E d \in matched : ls[k] = m[d]
                <5>1. ls[k] \in S
                    BY <2>7, <4>1
                <5> QED BY <2>4, <4>2, <5>1
            <4>4. ls[k] # m[c]
                <5>1. \A a, b \in 1..Len(ls) : ls[a] = ls[b] => a = b
                    BY <1>3
                <5> QED BY <3>1, <4>1, <5>1
            <4>5. CASE ls[k] = head
                BY <2>2, <3>3, <4>4, <4>5 DEF Ends
            <4>6. CASE \E d \in matched : ls[k] = m[d]
                <5>1. PICK d \in matched : ls[k] = m[d]
                    BY <4>6
                <5>2. d # c /\ ls[k].field = d /\ d \in D
                    BY <2>2, <4>4, <5>1 DEF matched
                <5> QED BY <5>2 DEF Ends, Bad, D
            <4> QED BY <4>3, <4>5, <4>6
        <3> QED BY <3>1, <3>2, <3>3 DEF Hits, Met, Ends, Bad
    <2>12. ASSUME NEW c \in D
           PROVE  /\ ~Fails(c, ls)
                  /\ c \in matched <=> \E j \in 1..Len(ls) : Hits(c, ls, j)
        <3>1. CASE c \in matched
            <4>1. PICK j \in 1..Len(ls) : Hits(c, ls, j)
                BY <2>11, <3>1
            <4>2. \A k \in 1..Len(ls) : Met(c, ls, k) => k = j
                BY <2>7, <4>1, MetOnce DEF Hits
            <4> HIDE DEF matched
            <4> QED BY <3>1, <4>1, <4>2 DEF Hits, Fails
        <3>2. CASE c \notin matched
            <4>1. \A l \in S : l.field # c
                BY <3>2
            <4>2. \A l \in S : ~Bad(l)
                BY <1>10, <3>2 DEF Bad
            <4> HIDE DEF matched, D
            <4> QED BY <2>7, <3>2, <4>1, <4>2 DEF Hits, Met, Ends, Fails
        <3> QED BY <3>1, <3>2
    <2>13. Meeting(due, S, cs, ls, 1, matched, m)
        <3>1. matched \subseteq DOMAIN due
            OBVIOUS
        <3>2. 1..1 - 1 = {}
            OBVIOUS
        <3> HIDE DEF matched
        <3> QED BY <1>7, <2>2, <2>9, <2>11, <2>12, <3>1, <3>2 DEF Meeting
    <2>14. /\ Update(m) = Updates(due, matched, m)
           /\ Add(m, head, first) = Adds(due, cs[1], ls[1], matched, m)
        BY <2>9, <2>10 DEF Updates, Adds
    <2>15. Loop(due, cs, ls) = Lists(Adds(due, cs[1], ls[1], matched, m), Updates(due, matched, m))
        BY <2>13, ListsOf
    <2>16. out = Lists(Add(m, head, first), Update(m))
        <3> HIDE DEF Add, Update
        <3> QED BY <1>10 DEF m, head, first
    <2> HIDE DEF Add, Update
    <2> QED BY <2>14, <2>15, <2>16
<1>11. QED
    <2> HIDE DEF D, dirty, compared, matched, Q, Add, Update
    <2> QED BY <1>1, <1>7, <1>9, <1>10

-----------------------------------------------------------------------------
(* PaymenttoCharge.getAppliedtoRefID: the rows a loop collects, in order. *)

\* p lists the elements of X in the order R.
InOrder(p, X, R) ==
    /\ p \in Seq(X)
    /\ \A x \in X : \E a \in 1..Len(p) : p[a] = x
    /\ \A a, b \in 1..Len(p) : a < b => <<p[a], p[b]>> \in R

\* There is one way to do so.
LEMMA OneOrder ==
    ASSUME NEW X, NEW R, \A x, y \in X : <<x, y>> \in R => <<y, x>> \notin R,
           NEW p, InOrder(p, X, R), NEW q, InOrder(q, X, R)
    PROVE  /\ p = q /\ p \in Arrangements(X)
           /\ IsFiniteSet(X) /\ Cardinality(X) = Len(p)
<1>1. ASSUME NEW s, InOrder(s, X, R)
      PROVE  /\ Len(s) \in Nat /\ s \in [1..Len(s) -> X] /\ s \in Seq(X)
             /\ \A i, j \in 1..Len(s) : s[i] = s[j] => i = j
             /\ s \in Arrangements(X) /\ IsFiniteSet(X) /\ Cardinality(X) = Len(s)
    <2>1. s \in Seq(X)
        BY <1>1 DEF InOrder
    <2>2. Len(s) \in Nat /\ s \in [1..Len(s) -> X]
        BY <2>1, LenProperties
    <2> DEFINE n == Len(s)
    <2>3. ASSUME NEW i \in 1..n, NEW j \in 1..n, s[i] = s[j] PROVE i = j
        <3>1. \A a, b \in 1..n : a < b => s[a] # s[b]
            <4> SUFFICES ASSUME NEW a \in 1..n, NEW b \in 1..n, a < b, s[a] = s[b] PROVE FALSE
                OBVIOUS
            <4>1. <<s[a], s[b]>> \in R /\ s[a] \in X /\ s[b] \in X
                BY <1>1, <2>2 DEF InOrder
            <4>2. <<s[b], s[a]>> \in R
                BY <4>1
            <4> QED BY <4>1, <4>2
        <3>2. i \in Nat /\ j \in Nat
            OBVIOUS
        <3> QED BY <2>3, <3>1, <3>2
    <2>4. \A x \in X : \E i \in 1..n : s[i] = x
        BY <1>1 DEF InOrder
    <2> HIDE DEF n
    <2>5. s \in Arrangements(X) /\ IsFiniteSet(X) /\ Cardinality(X) = n
        BY <2>2, <2>3, <2>4, IsArrangement DEF n
    <2> QED BY <2>1, <2>2, <2>3, <2>5 DEF n
<1>2. /\ Len(p) \in Nat /\ p \in [1..Len(p) -> X] /\ p \in Seq(X)
      /\ \A i, j \in 1..Len(p) : p[i] = p[j] => i = j
      /\ p \in Arrangements(X) /\ IsFiniteSet(X) /\ Cardinality(X) = Len(p)
    BY <1>1
<1>3. /\ q \in [1..Len(q) -> X] /\ q \in Seq(X) /\ Len(q) = Len(p)
      /\ \A i, j \in 1..Len(q) : q[i] = q[j] => i = j
    BY <1>1, <1>2
<1>4. p = q
    <2> DEFINE n == Len(p)
               Apart == {i \in 1..n : p[i] # q[i]}
    <2>1. CASE Apart = {}
        <3>1. \A i \in 1..n : p[i] = q[i]
            BY <2>1
        <3> QED BY <1>2, <1>3, <3>1
    <2>2. CASE Apart # {}
        <3>1. Apart \in SUBSET Nat
            OBVIOUS
        <3>2. PICK i \in Apart : \A j \in Apart : i <= j
            <4> HIDE DEF Apart
            <4> QED BY <2>2, <3>1, Least
        <3>3. PICK j \in 1..n : q[j] = p[i]
            BY <1>2, <1>3 DEF InOrder
        <3>4. PICK k \in 1..n : p[k] = q[i]
            BY <1>2, <1>3 DEF InOrder
        <3>5. i < j
            <4>1. ~(j < i)
                <5> SUFFICES ASSUME j < i PROVE FALSE
                    OBVIOUS
                <5>1. j \notin Apart
                    BY <1>2, <3>2
                <5>2. p[j] = p[i]
                    BY <3>3, <5>1
                <5> QED BY <1>2, <5>2
            <4> QED BY <1>2, <3>3, <4>1
        <3>6. i < k
            <4>1. ~(k < i)
                <5> SUFFICES ASSUME k < i PROVE FALSE
                    OBVIOUS
                <5>1. k \notin Apart
                    BY <1>2, <3>2
                <5>2. q[k] = q[i]
                    BY <3>4, <5>1
                <5> QED BY <1>2, <1>3, <5>2
            <4> QED BY <1>2, <3>4, <4>1
        <3>7. <<p[i], p[k]>> \in R /\ <<q[i], q[j]>> \in R
            BY <1>3, <3>5, <3>6 DEF InOrder
        <3>8. p[i] \in X /\ q[i] \in X
            BY <1>2, <1>3
        <3> QED BY <3>3, <3>4, <3>7, <3>8
    <2> QED BY <2>1, <2>2
<1> QED BY <1>2, <1>4

LEMMA Joined ==
    ASSUME NEW X, NEW Y, NEW R, NEW p, InOrder(p, X, R), NEW q, InOrder(q, Y, R),
           \A x \in X, y \in Y : <<x, y>> \in R
    PROVE  InOrder(p \o q, X \cup Y, R)
<1> DEFINE n == Len(p)
           m == Len(q)
           r == p \o q
<1>1. p \in Seq(X) /\ q \in Seq(Y) /\ p \in Seq(X \cup Y) /\ q \in Seq(X \cup Y)
    BY DEF InOrder
<1>2. n \in Nat /\ m \in Nat
    BY <1>1, LenProperties
<1>3. r \in Seq(X \cup Y) /\ Len(r) = n + m
      /\ \A i \in 1..n + m : r[i] = IF i <= n THEN p[i] ELSE q[i - n]
    BY <1>1
<1> HIDE DEF r, n, m
<1>4. ASSUME NEW x \in X \cup Y PROVE \E a \in 1..n + m : r[a] = x
    <2>1. CASE x \in X
        <3>1. PICK a \in 1..n : p[a] = x
            BY <2>1 DEF InOrder, n
        <3>2. a \in 1..n + m /\ a <= n
            BY <1>2
        <3> QED BY <1>3, <3>1, <3>2
    <2>2. CASE x \in Y
        <3>1. PICK a \in 1..m : q[a] = x
            BY <2>2 DEF InOrder, m
        <3>2. a + n \in 1..n + m /\ ~(a + n <= n) /\ (a + n) - n = a
            BY <1>2
        <3> QED BY <1>3, <3>1, <3>2
    <2> QED BY <2>1, <2>2
<1>5. ASSUME NEW a \in 1..n + m, NEW b \in 1..n + m, a < b PROVE <<r[a], r[b]>> \in R
    <2>1. CASE b <= n
        <3>1. a \in 1..n /\ b \in 1..n /\ a <= n
            BY <1>2, <1>5, <2>1
        <3>2. <<p[a], p[b]>> \in R
            BY <1>5, <3>1 DEF InOrder, n
        <3> QED BY <1>3, <2>1, <3>1, <3>2
    <2>2. CASE ~(b <= n) /\ a <= n
        <3>1. a \in 1..n /\ b - n \in 1..m
            BY <1>2, <2>2
        <3>2. p[a] \in X /\ q[b - n] \in Y
            BY <1>1, <3>1 DEF n, m
        <3>3. <<p[a], q[b - n]>> \in R
            BY <3>2
        <3> QED BY <1>3, <2>2, <3>3
    <2>3. CASE ~(a <= n)
        <3>1. ~(b <= n) /\ a - n \in 1..m /\ b - n \in 1..m /\ a - n < b - n
            BY <1>2, <1>5, <2>3
        <3>2. <<q[a - n], q[b - n]>> \in R
            BY <3>1 DEF InOrder, m
        <3> QED BY <1>3, <2>3, <3>1, <3>2
    <2> QED BY <2>1, <2>2, <2>3
<1> QED BY <1>3, <1>4, <1>5 DEF InOrder, r

\* The invoices of a sequence of lines.
Ids(p) == [i \in DOMAIN p |-> p[i][1]]

LEMMA IdsJoined ==
    ASSUME NEW X, NEW p \in Seq(X), NEW q \in Seq(X)
    PROVE  Ids(p \o q) = Ids(p) \o Ids(q)
<1> DEFINE n == Len(p)
           m == Len(q)
           I == {x[1] : x \in X}
<1>1. n \in Nat /\ m \in Nat /\ p \in [1..n -> X] /\ q \in [1..m -> X]
    BY LenProperties
<1>2. /\ p \o q \in Seq(X) /\ Len(p \o q) = n + m
      /\ \A i \in 1..n + m : (p \o q)[i] = IF i <= n THEN p[i] ELSE q[i - n]
    OBVIOUS
<1>3. DOMAIN (p \o q) = 1..n + m
    BY <1>2, LenProperties
<1> HIDE DEF n, m
<1>4. /\ Ids(p) = [i \in 1..n |-> p[i][1]] /\ Ids(q) = [i \in 1..m |-> q[i][1]]
      /\ Ids(p \o q) = [i \in 1..n + m |-> (p \o q)[i][1]]
    BY <1>1, <1>3 DEF Ids
<1>5. /\ Ids(p) \in Seq(I) /\ Len(Ids(p)) = n
      /\ Ids(q) \in Seq(I) /\ Len(Ids(q)) = m
    BY <1>1, <1>4
<1>6. /\ Ids(p) \o Ids(q) \in Seq(I) /\ Len(Ids(p) \o Ids(q)) = n + m
      /\ \A i \in 1..n + m :
             (Ids(p) \o Ids(q))[i] = IF i <= n THEN Ids(p)[i] ELSE Ids(q)[i - n]
    <2> HIDE DEF I
    <2> QED BY <1>5, ConcatProperties
<1>7. DOMAIN (Ids(p) \o Ids(q)) = 1..n + m /\ Ids(p) \o Ids(q) \in [1..n + m -> I]
    BY <1>6, LenProperties
<1>8. ASSUME NEW i \in 1..n + m PROVE (p \o q)[i][1] = (Ids(p) \o Ids(q))[i]
    <2>1. CASE i <= n
        <3>1. i \in 1..n
            BY <1>1, <2>1
        <3>2. (p \o q)[i] = p[i] /\ (Ids(p) \o Ids(q))[i] = Ids(p)[i]
            BY <1>2, <1>6, <2>1
        <3>3. Ids(p)[i] = p[i][1]
            BY <1>4, <3>1
        <3> QED BY <3>2, <3>3
    <2>2. CASE ~(i <= n)
        <3>1. i - n \in 1..m
            BY <1>1, <2>2
        <3>2. (p \o q)[i] = q[i - n] /\ (Ids(p) \o Ids(q))[i] = Ids(q)[i - n]
            BY <1>2, <1>6, <2>2
        <3>3. Ids(q)[i - n] = q[i - n][1]
            BY <1>4, <3>1
        <3> QED BY <3>2, <3>3
    <2> QED BY <2>1, <2>2
<1> QED BY <1>4, <1>7, <1>8

\* The lines of a charge are found in the order the query returns them.
PlacePairs(ls) == {r \in (1..Len(ls)) \X (1..Len(ls)) : r[1] < r[2]}
Before(ls) == {<<ls[r[1]], ls[r[2]]>> : r \in PlacePairs(ls)}
LinesOf(c, ls, k) == {ls[j] : j \in {i \in 1..k : ls[i][2] = c}}

LEMMA FoundLoop ==
    ASSUME NEW B, NEW ls \in Seq(B), NEW c
    PROVE  \E p : InOrder(p, LinesOf(c, ls, Len(ls)), Before(ls)) /\ Paid!InvoicesFor(c, ls) = Ids(p)
<1> DEFINE n == Len(ls)
           I == {x[1] : x \in B}
           S == Seq(I)
           Round(k, s) == IF ls[k][2] = c THEN Append(s, ls[k][1]) ELSE s
           F == [k \in 1..n |-> [s \in S |-> Round(k, s)]]
           IsRun(g) == g = [k \in 0..n |-> IF k = 0 THEN <<>> ELSE Round(k, g[k - 1])]
           run == CHOOSE g : IsRun(g)
<1>1. n \in Nat /\ \A k \in 1..n : ls[k] \in B
    BY LenProperties
<1>2. \A k \in 1..n, s \in S : Round(k, s) \in S
    BY <1>1
<1>3. <<>> \in S
    OBVIOUS
<1>4. F \in Rounds(n, S) /\ \A k \in 1..n, s \in S : F[k][s] = Round(k, s)
    <2> HIDE DEF n, S, Round
    <2> QED BY <1>2 DEF Rounds
<1>5. \E g : Goes(g, <<>>, n, F, S)
    <2> HIDE DEF n, S, F
    <2> QED BY <1>1, <1>3, <1>4, Recursion
<1>6. PICK g : /\ g \in [0..n -> S] /\ g[0] = <<>>
               /\ \A k \in 1..n : g[k] = F[k][g[k - 1]]
    BY <1>5 DEF Goes
<1> HIDE DEF F, S, Round, n
<1>7. \A k \in 1..n : g[k - 1] \in S /\ g[k] = Round(k, g[k - 1])
    BY <1>1, <1>4, <1>6
<1>8. IsRun(g)
    BY <1>1, <1>6, <1>7
<1>9. IsRun(run)
    <2> HIDE DEF IsRun
    <2> QED BY <1>8
<1>10. Paid!InvoicesFor(c, ls) = run[n]
    BY DEF Paid!InvoicesFor, Round, n
<1>11. run[0] = <<>> /\ \A k \in 1..n : run[k] = Round(k, run[k - 1])
    <2> HIDE DEF run
    <2> QED BY <1>1, <1>9
<1> HIDE DEF run, IsRun
<1> DEFINE Is(k, s) == \E p : InOrder(p, LinesOf(c, ls, k), Before(ls)) /\ s = Ids(p)
           T == {k \in Nat : k <= n => Is(k, run[k])}
<1>12. 0 \in T
    <2>1. LinesOf(c, ls, 0) = {}
        BY DEF LinesOf
    <2>2. InOrder(<<>>, {}, Before(ls)) /\ Ids(<<>>) = <<>>
        BY DEF InOrder, Ids
    <2> QED BY <1>11, <2>1, <2>2
<1>13. ASSUME NEW k \in Nat, k \in T PROVE k + 1 \in T
    <2> SUFFICES ASSUME k + 1 <= n PROVE Is(k + 1, run[k + 1])
        OBVIOUS
    <2>1. /\ k <= n /\ k + 1 \in 1..n /\ (k + 1) - 1 = k /\ k + 1 \in Nat
          /\ 1..k + 1 = 1..k \cup {k + 1} /\ \A j \in 1..k : j \in 1..n /\ j < k + 1
        BY <1>1
    <2>2. PICK p : InOrder(p, LinesOf(c, ls, k), Before(ls)) /\ run[k] = Ids(p)
        BY <1>13, <2>1
    <2>3. run[k + 1] = Round(k + 1, run[k])
        BY <1>11, <2>1
    <2> DEFINE x == ls[k + 1]
    <2>4. CASE x[2] = c
        <3>1. LinesOf(c, ls, k + 1) = LinesOf(c, ls, k) \cup {x}
            BY <2>1, <2>4 DEF LinesOf
        <3>2. InOrder(<<x>>, {x}, Before(ls))
            <4> HIDE DEF x
            <4> QED BY DEF InOrder
        <3>3. \A y \in LinesOf(c, ls, k) : <<y, x>> \in Before(ls)
            <4> SUFFICES ASSUME NEW j \in 1..k PROVE <<ls[j], x>> \in Before(ls)
                BY DEF LinesOf
            <4>1. <<j, k + 1>> \in PlacePairs(ls)
                BY <2>1 DEF PlacePairs, n
            <4>2. <<j, k + 1>>[1] = j /\ <<j, k + 1>>[2] = k + 1
                OBVIOUS
            <4> QED BY <4>1, <4>2 DEF Before
        <3>4. InOrder(p \o <<x>>, LinesOf(c, ls, k) \cup {x}, Before(ls))
            <4> HIDE DEF x
            <4> QED BY <2>2, <3>2, <3>3, Joined
        <3>5. p \in Seq(B) /\ <<x>> \in Seq(B)
            <4>1. p \in Seq(LinesOf(c, ls, k))
                BY <2>2 DEF InOrder
            <4>2. LinesOf(c, ls, k) \subseteq B /\ x \in B
                BY <1>1, <2>1 DEF LinesOf
            <4> HIDE DEF x
            <4> QED BY <4>1, <4>2
        <3>6. Ids(p \o <<x>>) = Ids(p) \o Ids(<<x>>)
            <4> HIDE DEF x
            <4> QED BY <3>5, IdsJoined
        <3>7. Ids(<<x>>) = <<x[1]>>
            <4> HIDE DEF x
            <4> QED BY DEF Ids
        <3>8. run[k + 1] = Append(Ids(p), x[1])
            BY <2>2, <2>3, <2>4 DEF Round
        <3>9. Append(Ids(p), x[1]) = Ids(p) \o <<x[1]>>
            <4>1. Ids(p) \in Seq(I)
                <5>1. p \in [1..Len(p) -> B] /\ Len(p) \in Nat
                    BY <3>5, LenProperties
                <5>2. Ids(p) = [i \in 1..Len(p) |-> p[i][1]]
                    BY <5>1 DEF Ids
                <5> QED BY <5>1, <5>2
            <4>2. x[1] \in I
                BY <1>1, <2>1
            <4> HIDE DEF x, I
            <4> QED BY <4>1, <4>2
        <3> HIDE DEF x
        <3> QED BY <3>1, <3>4, <3>6, <3>7, <3>8, <3>9
    <2>5. CASE x[2] # c
        <3>1. LinesOf(c, ls, k + 1) = LinesOf(c, ls, k)
            BY <2>1, <2>5 DEF LinesOf
        <3>2. run[k + 1] = run[k]
            BY <2>3, <2>5 DEF Round
        <3> QED BY <2>2, <3>1, <3>2
    <2> QED BY <2>4, <2>5
<1>14. n \in T
    <2> HIDE DEF T
    <2> QED BY <1>1, <1>12, <1>13, Induction
<1> QED BY <1>1, <1>10, <1>14 DEF n

\* The array is worked through upwards, and each charge's lines as they come.
ByCharge(ch, ls) ==
    {<<ls[r[1]], ls[r[2]]>> :
        r \in {q \in (1..Len(ls)) \X (1..Len(ls)) :
                  \/ q[1] < q[2] /\ ls[q[1]][2] = ls[q[2]][2]
                  \/ \E a, b \in 0..Slots - 1 :
                        a < b /\ ch[a] = ls[q[1]][2] /\ ch[b] = ls[q[2]][2]}}
Borne(ch, ls, k) == {ls[j] : j \in {i \in 1..Len(ls) : \E a \in 0..k - 1 : ch[a] = ls[i][2]}}

LEMMA CollectLoop ==
    ASSUME NEW B, NEW ls \in Seq(B), NEW rows
    PROVE  LET ch == Paid!Filled(rows)
           IN  \E p : /\ InOrder(p, Borne(ch, ls, Slots), ByCharge(ch, ls))
                      /\ Paid!AppliedToRefIDs(rows, ls) = Ids(p)
<1> DEFINE ch == Paid!Filled(rows)
           n == Len(ls)
           I == {x[1] : x \in B}
           S == Seq(I)
           Round(k, s) == s \o Paid!InvoicesFor(ch[k - 1], ls)
           F == [k \in 1..Slots |-> [s \in S |-> Round(k, s)]]
           IsRun(g) == g = [k \in 0..Slots |-> IF k = 0 THEN <<>> ELSE Round(k, g[k - 1])]
           run == CHOOSE g : IsRun(g)
<1>0. Slots \in Nat
    BY ArrayAssumption
<1>1. n \in Nat /\ \A k \in 1..n : ls[k] \in B
    BY LenProperties
<1>a. ASSUME NEW X, X \subseteq B, NEW R, NEW p, InOrder(p, X, R)
      PROVE  p \in Seq(B) /\ Ids(p) \in S
    <2>1. p \in Seq(B)
        BY <1>a DEF InOrder
    <2>2. p \in [1..Len(p) -> B] /\ Len(p) \in Nat
        BY <2>1, LenProperties
    <2>3. Ids(p) = [i \in 1..Len(p) |-> p[i][1]]
        BY <2>2 DEF Ids
    <2> QED BY <2>1, <2>2, <2>3
<1>b. ASSUME NEW c
      PROVE  /\ Paid!InvoicesFor(c, ls) \in S
             /\ \E p : /\ InOrder(p, LinesOf(c, ls, n), ByCharge(ch, ls))
                       /\ Paid!InvoicesFor(c, ls) = Ids(p)
    <2>1. PICK p : /\ InOrder(p, LinesOf(c, ls, n), Before(ls))
                   /\ Paid!InvoicesFor(c, ls) = Ids(p)
        BY FoundLoop
    <2>2. LinesOf(c, ls, n) \subseteq B
        BY <1>1 DEF LinesOf
    <2>3. ASSUME NEW a \in 1..Len(p), NEW b \in 1..Len(p), a < b
          PROVE  <<p[a], p[b]>> \in ByCharge(ch, ls)
        <3>1. <<p[a], p[b]>> \in Before(ls)
            BY <2>1, <2>3 DEF InOrder
        <3>2. PICK r \in PlacePairs(ls) : <<p[a], p[b]>> = <<ls[r[1]], ls[r[2]]>>
            BY <3>1 DEF Before
        <3>3. p \in Seq(LinesOf(c, ls, n))
            BY <2>1 DEF InOrder
        <3>4. p[a] \in LinesOf(c, ls, n) /\ p[b] \in LinesOf(c, ls, n)
            BY <3>3
        <3>5. p[a] = ls[r[1]] /\ p[b] = ls[r[2]] /\ p[a][2] = c /\ p[b][2] = c
            BY <3>2, <3>4 DEF LinesOf
        <3>6. r \in (1..Len(ls)) \X (1..Len(ls)) /\ r[1] < r[2]
            BY DEF PlacePairs
        <3> QED BY <3>2, <3>5, <3>6 DEF ByCharge
    <2>4. InOrder(p, LinesOf(c, ls, n), ByCharge(ch, ls))
        BY <2>1, <2>3 DEF InOrder
    <2> QED BY <1>a, <2>1, <2>2, <2>4
<1> HIDE DEF S, n, ch
<1>2. \A k \in 1..Slots, s \in S : Round(k, s) \in S
    BY <1>b DEF S
<1>3. <<>> \in S
    BY DEF S
<1>4. F \in Rounds(Slots, S) /\ \A k \in 1..Slots, s \in S : F[k][s] = Round(k, s)
    <2> HIDE DEF Round
    <2> QED BY <1>2 DEF Rounds
<1>5. \E g : Goes(g, <<>>, Slots, F, S)
    <2> HIDE DEF F
    <2> QED BY <1>0, <1>3, <1>4, Recursion
<1>6. PICK g : /\ g \in [0..Slots -> S] /\ g[0] = <<>>
               /\ \A k \in 1..Slots : g[k] = F[k][g[k - 1]]
    BY <1>5 DEF Goes
<1> HIDE DEF F, Round
<1>7. \A k \in 1..Slots : g[k - 1] \in S /\ g[k] = Round(k, g[k - 1])
    BY <1>0, <1>4, <1>6
<1>8. IsRun(g)
    BY <1>0, <1>6, <1>7
<1>9. IsRun(run)
    <2> HIDE DEF IsRun
    <2> QED BY <1>8
<1>10. Paid!AppliedToRefIDs(rows, ls) = run[Slots]
    BY DEF Paid!AppliedToRefIDs, Round, ch
<1>11. run[0] = <<>> /\ \A k \in 1..Slots : run[k] = Round(k, run[k - 1])
    <2> HIDE DEF run
    <2> QED BY <1>0, <1>9
<1> HIDE DEF run, IsRun
<1> DEFINE Is(k, s) == \E p : InOrder(p, Borne(ch, ls, k), ByCharge(ch, ls)) /\ s = Ids(p)
           T == {k \in Nat : k <= Slots => Is(k, run[k])}
<1>12. 0 \in T
    <2>1. Borne(ch, ls, 0) = {}
        BY DEF Borne
    <2>2. InOrder(<<>>, {}, ByCharge(ch, ls)) /\ Ids(<<>>) = <<>>
        BY DEF InOrder, Ids
    <2> QED BY <1>11, <2>1, <2>2
<1>13. ASSUME NEW k \in Nat, k \in T PROVE k + 1 \in T
    <2> SUFFICES ASSUME k + 1 <= Slots PROVE Is(k + 1, run[k + 1])
        OBVIOUS
    <2>1. /\ k <= Slots /\ k + 1 \in 1..Slots /\ (k + 1) - 1 = k /\ k + 1 \in Nat
          /\ 0..(k + 1) - 1 = 0..k - 1 \cup {k} /\ k \in 0..Slots - 1
          /\ \A a \in 0..k - 1 : a \in 0..Slots - 1 /\ a < k
        BY <1>0
    <2>2. PICK p : InOrder(p, Borne(ch, ls, k), ByCharge(ch, ls)) /\ run[k] = Ids(p)
        BY <1>13, <2>1
    <2>3. PICK q : /\ InOrder(q, LinesOf(ch[k], ls, n), ByCharge(ch, ls))
                   /\ Paid!InvoicesFor(ch[k], ls) = Ids(q)
        BY <1>b
    <2>4. run[k + 1] = Ids(p) \o Ids(q)
        BY <1>11, <2>1, <2>2, <2>3 DEF Round
    <2>5. Borne(ch, ls, k + 1) = Borne(ch, ls, k) \cup LinesOf(ch[k], ls, n)
        BY <2>1 DEF Borne, LinesOf, n
    <2>6. \A x \in Borne(ch, ls, k), y \in LinesOf(ch[k], ls, n) : <<x, y>> \in ByCharge(ch, ls)
        <3> SUFFICES ASSUME NEW i \in 1..n, NEW a \in 0..k - 1, ch[a] = ls[i][2],
                            NEW j \in 1..n, ls[j][2] = ch[k]
                     PROVE  <<ls[i], ls[j]>> \in ByCharge(ch, ls)
            BY DEF Borne, LinesOf, n
        <3>1. <<i, j>> \in (1..Len(ls)) \X (1..Len(ls)) /\ <<i, j>>[1] = i /\ <<i, j>>[2] = j
            BY DEF n
        <3>2. \E b, d \in 0..Slots - 1 : b < d /\ ch[b] = ls[i][2] /\ ch[d] = ls[j][2]
            BY <2>1
        <3> QED BY <3>1, <3>2 DEF ByCharge
    <2>7. InOrder(p \o q, Borne(ch, ls, k) \cup LinesOf(ch[k], ls, n), ByCharge(ch, ls))
        BY <2>2, <2>3, <2>6, Joined
    <2>8. p \in Seq(B) /\ q \in Seq(B)
        <3>1. Borne(ch, ls, k) \subseteq B /\ LinesOf(ch[k], ls, n) \subseteq B
            BY <1>1 DEF Borne, LinesOf, n
        <3> QED BY <1>a, <2>2, <2>3, <3>1
    <2>9. Ids(p \o q) = Ids(p) \o Ids(q)
        BY <2>8, IdsJoined
    <2> QED BY <2>4, <2>5, <2>7, <2>9
<1>14. Slots \in T
    <2> HIDE DEF T
    <2> QED BY <1>0, <1>12, <1>13, Induction
<1> QED BY <1>0, <1>10, <1>14 DEF ch

LEMMA SameCardinality == ASSUME NEW S PROVE Paid!Cardinality(S) = Cardinality(S)
    BY DEF Paid!Cardinality, Cardinality

LEMMA SameArrangements == ASSUME NEW S PROVE Paid!Arrangements(S) = Arrangements(S)
    BY SameCardinality DEF Paid!Arrangements, Arrangements

\* What the array and the order it gives the lines look like.
LEMMA ChargeOrder ==
    ASSUME NEW D, IsFiniteSet(D), ~Paid!Overruns(D), NEW rows \in Arrangements(D),
           NEW B, IsFiniteSet(B), \A l \in B : l[2] # NoCharge, NEW ls \in Arrangements(B)
    PROVE  LET ch == Paid!Filled(rows)
               n == Len(rows)
           IN  /\ n \in Nat /\ n = Cardinality(D)
               /\ \A a \in 1..n : a \in 0..Slots - 1 /\ n + 1 - a \in 1..n /\ ch[a] = rows[n + 1 - a]
               /\ \A a \in 0..Slots - 1, l \in B : ch[a] = l[2] => a \in 1..n
               /\ \A a, b \in 0..Slots - 1, l \in B : ch[a] = l[2] /\ ch[b] = l[2] => a = b
               /\ Borne(ch, ls, Slots) = {l \in B : l[2] \in D}
               /\ \A x, y \in B : <<x, y>> \in ByCharge(ch, ls) => <<y, x>> \notin ByCharge(ch, ls)
<1> DEFINE ch == Paid!Filled(rows)
           n == Len(rows)
           m == Len(ls)
<1>1. /\ n \in Nat /\ n = Cardinality(D) /\ DOMAIN rows = 1..n
      /\ \A i \in 1..n : rows[i] \in D
      /\ \A i, j \in 1..n : rows[i] = rows[j] => i = j
      /\ \A s \in D : \E i \in 1..n : rows[i] = s
    BY Places
<1>2. /\ m \in Nat /\ \A i \in 1..m : ls[i] \in B
      /\ \A i, j \in 1..m : ls[i] = ls[j] => i = j
      /\ \A s \in B : \E i \in 1..m : ls[i] = s
    BY Places
<1>3. Slots \in Nat /\ n < Slots
    <2>1. Slots \in Nat /\ Cardinality(D) \in Nat /\ n = Cardinality(D)
        BY <1>1, ArrayAssumption
    <2> HIDE DEF n
    <2>2. ~(Cardinality(D) >= Slots)
        BY SameCardinality DEF Paid!Overruns
    <2> QED BY <2>1, <2>2
<1>4. \A a \in 0..Slots - 1 :
          ch[a] = IF a \in 1..n THEN rows[n + 1 - a] ELSE NoCharge
    BY <1>1 DEF Paid!Filled
<1> HIDE DEF ch, n, m
<1>5. \A a \in 1..n : a \in 0..Slots - 1 /\ n + 1 - a \in 1..n /\ ch[a] = rows[n + 1 - a]
    <2>1. \A a \in 1..n : a \in 0..Slots - 1 /\ n + 1 - a \in 1..n
        BY <1>1, <1>3
    <2> QED BY <1>4, <2>1
<1>6. \A a \in 0..Slots - 1, l \in B : ch[a] = l[2] => a \in 1..n
    BY <1>4
<1>7. \A a, b \in 0..Slots - 1, l \in B : ch[a] = l[2] /\ ch[b] = l[2] => a = b
    <2> SUFFICES ASSUME NEW a \in 0..Slots - 1, NEW b \in 0..Slots - 1, NEW l \in B,
                        ch[a] = l[2], ch[b] = l[2]
                 PROVE  a = b
        OBVIOUS
    <2>1. a \in 1..n /\ b \in 1..n
        BY <1>6
    <2>2. n + 1 - a = n + 1 - b
        <3>1. /\ n + 1 - a \in 1..n /\ n + 1 - b \in 1..n
              /\ rows[n + 1 - a] = rows[n + 1 - b]
            BY <1>5, <2>1
        <3> QED BY <1>1, <3>1
    <2> QED BY <1>1, <2>1, <2>2
<1>8. Borne(ch, ls, Slots) = {l \in B : l[2] \in D}
    <2>1. ASSUME NEW l \in B PROVE (\E a \in 0..Slots - 1 : ch[a] = l[2]) <=> l[2] \in D
        <3>1. ASSUME NEW a \in 0..Slots - 1, ch[a] = l[2] PROVE l[2] \in D
            BY <1>1, <1>5, <1>6, <3>1
        <3>2. ASSUME l[2] \in D PROVE \E a \in 0..Slots - 1 : ch[a] = l[2]
            <4>1. PICK i \in 1..n : rows[i] = l[2]
                BY <1>1, <3>2
            <4>2. n + 1 - i \in 1..n /\ n + 1 - (n + 1 - i) = i
                BY <1>1
            <4> QED BY <1>5, <4>1, <4>2
        <3> QED BY <3>1, <3>2
    <2> QED BY <1>2, <2>1 DEF Borne, m
<1>9. ASSUME NEW x \in B, NEW y \in B,
             <<x, y>> \in ByCharge(ch, ls), <<y, x>> \in ByCharge(ch, ls)
      PROVE  FALSE
    <2>1. PICK i \in 1..m, j \in 1..m :
              /\ x = ls[i] /\ y = ls[j]
              /\ \/ i < j /\ x[2] = y[2]
                 \/ \E a, b \in 0..Slots - 1 : a < b /\ ch[a] = x[2] /\ ch[b] = y[2]
        BY <1>9 DEF ByCharge, m
    <2>2. PICK k \in 1..m, h \in 1..m :
              /\ y = ls[k] /\ x = ls[h]
              /\ \/ k < h /\ y[2] = x[2]
                 \/ \E a, b \in 0..Slots - 1 : a < b /\ ch[a] = y[2] /\ ch[b] = x[2]
        BY <1>9 DEF ByCharge, m
    <2>a. ls[i] = ls[h] /\ ls[j] = ls[k]
        BY <2>1, <2>2
    <2>3. i = h /\ j = k
        BY <1>2, <2>a
    <2>4. ~(i < j /\ k < h)
        BY <2>3
    <2>5. \A a, b \in 0..Slots - 1 : a < b => ~(b < a) /\ a # b
        OBVIOUS
    <2> QED BY <1>7, <2>1, <2>2, <2>4, <2>5
<1> QED BY <1>1, <1>5, <1>6, <1>7, <1>8, <1>9 DEF ch, n

\* L has one line for each charge.
OneEach(due, L) ==
    Cardinality(L) = Cardinality(DOMAIN due) /\ {l.field : l \in L} = DOMAIN due
Pairs(L) == {<<l.id, l.field>> : l \in L}
Mirrored(due, L, rows, ls) ==
    LET n == Len(rows)
    IN  Paid!Applied(Paid!AppliedToRefIDs(rows, ls), [i \in 1..n |-> due[rows[i]]]) =
            {<<p[2].id, due[rows[n + 1 - p[1]]]>> :
                p \in {r \in (1..n) \X L : r[2].field = rows[r[1]]}}

\* Then what a payment applies mirrors its shares.
LEMMA SharesOf ==
    ASSUME NEW due, IsFiniteSet(DOMAIN due), ~Paid!Overruns(DOMAIN due), NoCharge \notin DOMAIN due,
           NEW L, IsFiniteSet(L), OneEach(due, L),
           NEW rows \in Arrangements(DOMAIN due), NEW ls \in Arrangements(Pairs(L))
    PROVE  Mirrored(due, L, rows, ls)
<1>0. /\ Cardinality(L) = Cardinality(DOMAIN due) /\ {l.field : l \in L} = DOMAIN due
      /\ ls \in Arrangements({<<l.id, l.field>> : l \in L})
    BY DEF OneEach, Pairs
<1> DEFINE D == DOMAIN due
           B == {<<l.id, l.field>> : l \in L}
           n == Len(rows)
           ch == Paid!Filled(rows)
           f == [l \in L |-> l.field]
           g == [l \in L |-> <<l.id, l.field>>]
<1>1. \A k, l \in L : k.field = l.field => k = l
    <2>1. f \in Surjection(L, D)
        BY <1>0, Fun_IsSurj
    <2>2. f \in Injection(L, D)
        <3> HIDE DEF f
        <3> QED BY <1>0, <2>1, FS_Surjection
    <2>3. \A k, l \in L : f[k] = f[l] => k = l
        <3> HIDE DEF f
        <3> QED BY <2>2 DEF Injection, IsInjective
    <2> QED BY <2>3
<1>2. IsFiniteSet(B)
    <2>1. g \in Surjection(L, B)
        BY Fun_IsSurj
    <2> HIDE DEF g, B
    <2> QED BY <2>1, FS_Surjection
<1>3. \A x \in B : x[2] # NoCharge
    BY <1>0
<1>4. ls \in Seq(B) /\ Len(ls) \in Nat /\ \A s \in B : \E i \in 1..Len(ls) : ls[i] = s
    <2> HIDE DEF B
    <2>1. ls \in Arrangements(B)
        BY <1>0 DEF B
    <2> QED BY <1>2, <2>1, Places
<1>5. /\ n \in Nat /\ n = Cardinality(D) /\ rows \in [1..n -> D]
      /\ \A i, j \in 1..n : rows[i] = rows[j] => i = j
      /\ \A s \in D : \E i \in 1..n : rows[i] = s
    BY Places
<1>6. /\ \A a \in 1..n : a \in 0..Slots - 1 /\ n + 1 - a \in 1..n /\ ch[a] = rows[n + 1 - a]
      /\ Borne(ch, ls, Slots) = {l \in B : l[2] \in D}
      /\ \A x, y \in B : <<x, y>> \in ByCharge(ch, ls) => <<y, x>> \notin ByCharge(ch, ls)
    <2> HIDE DEF B
    <2> QED BY <1>0, <1>2, <1>3, ChargeOrder DEF B
<1>7. Borne(ch, ls, Slots) = B
    <2>1. {l \in B : l[2] \in D} = B
        BY <1>0
    <2> QED BY <1>6, <2>1
<1> HIDE DEF ch, n
\* The line of the charge at place i of the array.
<1> DEFINE line(i) == CHOOSE l \in L : l.field = rows[n + 1 - i]
           q == [i \in 1..n |-> <<line(i).id, line(i).field>>]
<1>8. \A i \in 1..n : line(i) \in L /\ line(i).field = rows[n + 1 - i]
    <2> SUFFICES ASSUME NEW i \in 1..n PROVE \E l \in L : l.field = rows[n + 1 - i]
        OBVIOUS
    <2>1. rows[n + 1 - i] \in D
        BY <1>5, <1>6
    <2> QED BY <1>0, <2>1
<1> HIDE DEF line
<1>9. q \in [1..n -> B] /\ Len(q) = n /\ q \in Seq(B)
    <2>1. q \in [1..n -> B]
        BY <1>8
    <2>2. n \in Nat
        BY <1>5
    <2> HIDE DEF q, B
    <2> QED BY <2>1, <2>2
<1>10. InOrder(q, B, ByCharge(ch, ls))
    <2>1. ASSUME NEW x \in B PROVE \E i \in 1..n : q[i] = x
        <3>1. PICK l \in L : x = <<l.id, l.field>>
            OBVIOUS
        <3>2. PICK i \in 1..n : rows[i] = l.field
            BY <1>0, <1>5
        <3>3. n + 1 - i \in 1..n /\ n + 1 - (n + 1 - i) = i
            BY <1>5
        <3>4. line(n + 1 - i) = l
            BY <1>1, <1>8, <3>2, <3>3
        <3> QED BY <3>1, <3>3, <3>4
    <2>2. ASSUME NEW i \in 1..n, NEW j \in 1..n, i < j PROVE <<q[i], q[j]>> \in ByCharge(ch, ls)
        <3>1. q[i] \in B /\ q[j] \in B
            BY <1>9
        <3>2. PICK k \in 1..Len(ls), h \in 1..Len(ls) : ls[k] = q[i] /\ ls[h] = q[j]
            BY <1>4, <3>1
        <3>3. q[i][2] = ch[i] /\ q[j][2] = ch[j] /\ i \in 0..Slots - 1 /\ j \in 0..Slots - 1
            BY <1>6, <1>8
        <3> HIDE DEF q
        <3>4. <<k, h>> \in (1..Len(ls)) \X (1..Len(ls)) /\ <<k, h>>[1] = k /\ <<k, h>>[2] = h
            OBVIOUS
        <3>5. \E a, b \in 0..Slots - 1 : a < b /\ ch[a] = ls[k][2] /\ ch[b] = ls[h][2]
            BY <2>2, <3>2, <3>3
        <3> QED BY <3>2, <3>4, <3>5 DEF ByCharge
    <2> HIDE DEF q, B
    <2> QED BY <1>9, <2>1, <2>2 DEF InOrder
<1>11. Paid!AppliedToRefIDs(rows, ls) = Ids(q)
    <2>1. PICK p : /\ InOrder(p, Borne(ch, ls, Slots), ByCharge(ch, ls))
                   /\ Paid!AppliedToRefIDs(rows, ls) = Ids(p)
        <3> HIDE DEF B
        <3> QED BY <1>4, CollectLoop DEF ch
    <2>2. p = q
        <3> HIDE DEF B, q
        <3> QED BY <1>6, <1>7, <1>10, <2>1, OneOrder
    <2> QED BY <2>1, <2>2
<1>12. Ids(q) = [i \in 1..n |-> line(i).id]
    BY <1>9 DEF Ids
<1>13. Paid!Applied(Ids(q), [i \in 1..n |-> due[rows[i]]]) =
           {<<line(i).id, due[rows[i]]>> : i \in 1..n}
    BY <1>12 DEF Paid!Applied
<1> DEFINE P == {r \in (1..n) \X L : r[2].field = rows[r[1]]}
<1>14. {<<line(i).id, due[rows[i]]>> : i \in 1..n} =
           {<<p[2].id, due[rows[n + 1 - p[1]]]>> : p \in P}
    <2>1. ASSUME NEW i \in 1..n
          PROVE  \E p \in P : <<line(i).id, due[rows[i]]>> = <<p[2].id, due[rows[n + 1 - p[1]]]>>
        <3>1. n + 1 - i \in 1..n /\ n + 1 - (n + 1 - i) = i
            BY <1>5
        <3>2. <<n + 1 - i, line(i)>> \in P
            BY <1>8, <3>1
        <3>3. <<n + 1 - i, line(i)>>[1] = n + 1 - i /\ <<n + 1 - i, line(i)>>[2] = line(i)
            OBVIOUS
        <3> HIDE DEF P
        <3> QED BY <3>1, <3>2, <3>3
    <2>2. ASSUME NEW p \in P
          PROVE  \E i \in 1..n : <<p[2].id, due[rows[n + 1 - p[1]]]>> = <<line(i).id, due[rows[i]]>>
        <3>1. p[1] \in 1..n /\ p[2] \in L /\ p[2].field = rows[p[1]]
            OBVIOUS
        <3>2. n + 1 - p[1] \in 1..n /\ n + 1 - (n + 1 - p[1]) = p[1]
            BY <1>5, <3>1
        <3>3. line(n + 1 - p[1]) = p[2]
            BY <1>1, <1>8, <3>1, <3>2
        <3> QED BY <3>2, <3>3
    <2> HIDE DEF P
    <2> QED BY <2>1, <2>2
<1> QED BY <1>11, <1>13, <1>14 DEF n, Mirrored

\* An arrangement of lines that keeps those of each charge together.
Together(q) ==
    \A i, j, k \in DOMAIN q : i < j /\ j < k /\ q[i][2] = q[k][2] => q[j][2] = q[i][2]

\* For each there are orders of the charges and of the lines that lead to it.
LEMMA Gathered ==
    ASSUME NEW D, IsFiniteSet(D), ~Paid!Overruns(D),
           NEW B, IsFiniteSet(B), \A l \in B : l[2] # NoCharge,
           NEW q \in Arrangements({l \in B : l[2] \in D}), Together(q)
    PROVE  \E rows \in Arrangements(D), ls \in Arrangements(B) :
               InOrder(q, {l \in B : l[2] \in D}, ByCharge(Paid!Filled(rows), ls))
<1> DEFINE hits == {l \in B : l[2] \in D}
           m == Len(q)
<1>1. IsFiniteSet(hits)
    BY FS_Subset
<1>2. /\ q \in Seq(hits) /\ m \in Nat /\ DOMAIN q = 1..m
      /\ \A i \in 1..m : q[i] \in B /\ q[i][2] \in D
      /\ \A i, j \in 1..m : q[i] = q[j] => i = j
      /\ \A x \in hits : \E i \in 1..m : q[i] = x
    <2> HIDE DEF hits
    <2>1. /\ q \in Seq(hits) /\ m \in Nat /\ DOMAIN q = 1..m
          /\ \A i \in 1..m : q[i] \in hits
          /\ \A i, j \in 1..m : q[i] = q[j] => i = j
          /\ \A x \in hits : \E i \in 1..m : q[i] = x
        <3>1. q \in Arrangements(hits)
            BY DEF hits
        <3> QED BY <1>1, <3>1, Places
    <2> QED BY <2>1 DEF hits
<1>a. \A i, j, k \in 1..m : i < j /\ j < k /\ q[i][2] = q[k][2] => q[j][2] = q[i][2]
    BY <1>2 DEF Together
<1> HIDE DEF m
\* The charges, last to come first; the lines as they come.
<1> DEFINE At(c) == {i \in 1..m : q[i][2] = c}
           IsFirst(c, i) == i \in At(c) /\ \A j \in At(c) : i <= j
           first(c) == CHOOSE i : IsFirst(c, i)
           due == [c \in D |-> IF At(c) = {} THEN m ELSE m - first(c)]
           place(l) == CHOOSE i : i \in 1..m /\ q[i] = l
           met == [l \in B |-> IF l \in hits THEN place(l) ELSE 0]
<1>3. \A c : At(c) # {} => IsFirst(c, first(c))
    <2> SUFFICES ASSUME NEW c, At(c) # {} PROVE \E i : IsFirst(c, i)
        OBVIOUS
    <2>1. At(c) \in SUBSET Nat
        OBVIOUS
    <2>2. PICK i \in At(c) : \A j \in At(c) : i <= j
        <3> HIDE DEF At
        <3> QED BY <2>1, Least
    <2> QED BY <2>2
<1>4. \A i \in 1..m : /\ q[i][2] \in D /\ first(q[i][2]) \in 1..m /\ first(q[i][2]) <= i
                      /\ q[first(q[i][2])][2] = q[i][2]
                      /\ due[q[i][2]] = m - first(q[i][2])
    <2> SUFFICES ASSUME NEW i \in 1..m
                 PROVE  /\ q[i][2] \in D /\ first(q[i][2]) \in 1..m /\ first(q[i][2]) <= i
                        /\ q[first(q[i][2])][2] = q[i][2]
                        /\ due[q[i][2]] = m - first(q[i][2])
        OBVIOUS
    <2> DEFINE c == q[i][2]
    <2>1. i \in At(c) /\ c \in D
        BY <1>2
    <2>2. IsFirst(c, first(c))
        BY <1>3, <2>1
    <2>3. due[c] = m - first(c)
        BY <2>1
    <2> HIDE DEF first, due
    <2> QED BY <2>1, <2>2, <2>3
<1>5. due \in [D -> Nat]
    <2> SUFFICES ASSUME NEW c \in D, At(c) # {} PROVE m - first(c) \in Nat
        BY <1>2
    <2>1. first(c) \in 1..m
        BY <1>3
    <2> HIDE DEF first
    <2> QED BY <1>2, <2>1
<1>6. \A i \in 1..m : place(q[i]) = i
    <2> SUFFICES ASSUME NEW i \in 1..m PROVE place(q[i]) = i
        OBVIOUS
    <2>1. \E j : j \in 1..m /\ q[j] = q[i]
        OBVIOUS
    <2>2. place(q[i]) \in 1..m /\ q[place(q[i])] = q[i]
        BY <2>1
    <2> HIDE DEF place
    <2> QED BY <1>2, <2>2
<1>7. \A i \in 1..m : met[q[i]] = i
    <2> HIDE DEF place
    <2> QED BY <1>2, <1>6
<1>8. met \in [B -> Nat]
    <2> SUFFICES ASSUME NEW l \in hits PROVE place(l) \in Nat
        OBVIOUS
    <2>1. PICK i \in 1..m : q[i] = l
        BY <1>2
    <2> HIDE DEF place
    <2> QED BY <1>6, <2>1
<1> HIDE DEF first, At, IsFirst, due, place, met, hits
<1>9. PICK rows \in Arrangements(D) :
          \A i, j \in 1..Len(rows) : due[rows[i]] < due[rows[j]] => i < j
    BY <1>5, Sorted
<1>10. PICK ls \in Arrangements(B) :
          \A i, j \in 1..Len(ls) : met[ls[i]] < met[ls[j]] => i < j
    BY <1>8, Sorted
<1> DEFINE ch == Paid!Filled(rows)
           n == Len(rows)
<1>11. n \in Nat /\ \A c \in D : \E i \in 1..n : rows[i] = c
    BY Places
<1>12. \A l \in B : \E i \in 1..Len(ls) : ls[i] = l
    BY Places
<1>13. \A a \in 1..n : a \in 0..Slots - 1 /\ n + 1 - a \in 1..n /\ ch[a] = rows[n + 1 - a]
    BY ChargeOrder
<1> HIDE DEF ch, n
<1>14. ASSUME NEW i \in 1..m, NEW j \in 1..m, i < j
       PROVE  <<q[i], q[j]>> \in ByCharge(ch, ls)
    <2>1. PICK k \in 1..Len(ls), h \in 1..Len(ls) : ls[k] = q[i] /\ ls[h] = q[j]
        BY <1>2, <1>12
    <2>2. <<k, h>> \in (1..Len(ls)) \X (1..Len(ls)) /\ <<k, h>>[1] = k /\ <<k, h>>[2] = h
        OBVIOUS
    <2>3. CASE q[i][2] = q[j][2]
        <3>1. met[ls[k]] < met[ls[h]]
            BY <1>7, <1>14, <2>1
        <3>2. k < h
            BY <1>10, <3>1
        <3> QED BY <2>1, <2>2, <2>3, <3>2 DEF ByCharge
    <2>4. CASE q[i][2] # q[j][2]
        <3> DEFINE u == first(q[i][2])
                   v == first(q[j][2])
        <3>1. /\ u \in 1..m /\ v \in 1..m /\ u <= i /\ v <= j
              /\ q[u][2] = q[i][2] /\ q[v][2] = q[j][2]
              /\ due[q[i][2]] = m - u /\ due[q[j][2]] = m - v
            BY <1>4
        <3> HIDE DEF u, v
        <3>2. u # v
            BY <2>4, <3>1
        <3>3. ~(v < u)
            <4> SUFFICES ASSUME v < u PROVE FALSE
                OBVIOUS
            <4>1. v < i
                BY <3>1
            <4> QED BY <1>a, <1>14, <2>4, <3>1, <4>1
        <3>4. due[q[j][2]] < due[q[i][2]]
            BY <1>2, <3>1, <3>2, <3>3
        <3>5. PICK a \in 1..n, b \in 1..n : rows[a] = q[i][2] /\ rows[b] = q[j][2]
            <4>1. q[i][2] \in D /\ q[j][2] \in D
                BY <1>2
            <4>2. PICK a \in 1..n : rows[a] = q[i][2]
                BY <1>11, <4>1
            <4>3. PICK b \in 1..n : rows[b] = q[j][2]
                BY <1>11, <4>1
            <4> QED BY <4>2, <4>3
        <3>6. b < a
            BY <1>9, <3>4, <3>5 DEF n
        <3>7. /\ n + 1 - a \in 1..n /\ n + 1 - b \in 1..n /\ n + 1 - a < n + 1 - b
              /\ n + 1 - (n + 1 - a) = a /\ n + 1 - (n + 1 - b) = b
            <4>1. n \in Nat /\ a \in Nat /\ b \in Nat
                BY <1>11
            <4>2. n + 1 - a \in 1..n /\ n + 1 - b \in 1..n
                BY <4>1
            <4>3. n + 1 - a < n + 1 - b
                BY <3>6, <4>1
            <4>4. n + 1 - (n + 1 - a) = a /\ n + 1 - (n + 1 - b) = b
                BY <4>1
            <4> QED BY <4>2, <4>3, <4>4
        <3>8. /\ n + 1 - a \in 0..Slots - 1 /\ ch[n + 1 - a] = q[i][2]
              /\ n + 1 - b \in 0..Slots - 1 /\ ch[n + 1 - b] = q[j][2]
            <4> DEFINE x == n + 1 - a
                       y == n + 1 - b
            <4>1. ch[x] = rows[n + 1 - x] /\ ch[y] = rows[n + 1 - y]
                  /\ x \in 0..Slots - 1 /\ y \in 0..Slots - 1
                BY <1>13, <3>7
            <4> QED BY <3>5, <3>7, <4>1
        <3>9. \E c, d \in 0..Slots - 1 : c < d /\ ch[c] = ls[k][2] /\ ch[d] = ls[h][2]
            BY <2>1, <3>7, <3>8
        <3> QED BY <2>1, <2>2, <3>9 DEF ByCharge
    <2> QED BY <2>3, <2>4
<1>15. InOrder(q, hits, ByCharge(ch, ls))
    BY <1>2, <1>14 DEF InOrder, m
<1> QED BY <1>15 DEF ch, hits

\* InvoicesOf leaves the orders out and loses nothing by it.
LEMMA InvoicesOfExact ==
    ASSUME NEW D, IsFiniteSet(D), ~Paid!Overruns(D),
           NEW B, IsFiniteSet(B), \A l \in B : l[2] # NoCharge
    PROVE  Paid!InvoicesOf(D, B) =
               {Paid!AppliedToRefIDs(rows, ls) : rows \in Arrangements(D), ls \in Arrangements(B)}
<1> DEFINE hits == {l \in B : l[2] \in D}
<1>1. Paid!InvoicesOf(D, B) = {Ids(q) : q \in {o \in Arrangements(hits) : Together(o)}}
    <2>1. Paid!Arrangements(hits) = Arrangements(hits)
        <3> HIDE DEF hits
        <3> QED BY SameArrangements
    <2> QED BY <2>1 DEF Paid!InvoicesOf, Ids, Together
<1>2. ASSUME NEW rows \in Arrangements(D), NEW ls \in Arrangements(B)
      PROVE  \E p : /\ InOrder(p, hits, ByCharge(Paid!Filled(rows), ls))
                    /\ p \in Arrangements(hits)
                    /\ Paid!AppliedToRefIDs(rows, ls) = Ids(p)
                    /\ \A q : InOrder(q, hits, ByCharge(Paid!Filled(rows), ls)) => q = p
    <2> DEFINE R == ByCharge(Paid!Filled(rows), ls)
    <2>1. ls \in Seq(B)
        BY Places
    <2>2. Borne(Paid!Filled(rows), ls, Slots) = hits
          /\ \A x, y \in B : <<x, y>> \in R => <<y, x>> \notin R
        BY ChargeOrder
    <2>3. PICK p : InOrder(p, hits, R) /\ Paid!AppliedToRefIDs(rows, ls) = Ids(p)
        <3> HIDE DEF hits
        <3> QED BY <2>1, <2>2, CollectLoop
    <2>4. \A x, y \in hits : <<x, y>> \in R => <<y, x>> \notin R
        BY <2>2
    <2> HIDE DEF R, hits
    <2>5. p \in Arrangements(hits) /\ \A q : InOrder(q, hits, R) => q = p
        BY <2>3, <2>4, OneOrder
    <2> QED BY <2>3, <2>5 DEF R
<1>3. ASSUME NEW rows \in Arrangements(D), NEW ls \in Arrangements(B),
             NEW p \in Arrangements(hits), InOrder(p, hits, ByCharge(Paid!Filled(rows), ls))
      PROVE  Together(p)
    <2> DEFINE ch == Paid!Filled(rows)
               m == Len(p)
    <2>1. /\ \A a, b \in 0..Slots - 1, l \in B : ch[a] = l[2] /\ ch[b] = l[2] => a = b
          /\ \A x, y \in B : <<x, y>> \in ByCharge(ch, ls) => <<y, x>> \notin ByCharge(ch, ls)
        BY ChargeOrder
    <2>2. IsFiniteSet(hits) /\ hits \subseteq B
        BY FS_Subset
    <2>3. DOMAIN p = 1..m /\ \A i \in 1..m : p[i] \in B
        <3> HIDE DEF hits
        <3> QED BY <2>2, Places
    <2>4. \A i, j \in 1..m : i < j => <<p[i], p[j]>> \in ByCharge(ch, ls)
        BY <1>3 DEF InOrder
    <2> HIDE DEF ch, m
    <2>5. ASSUME NEW x \in B, NEW y \in B, <<x, y>> \in ByCharge(ch, ls), x[2] # y[2]
          PROVE  \E a, b \in 0..Slots - 1 : a < b /\ ch[a] = x[2] /\ ch[b] = y[2]
        BY <2>5 DEF ByCharge
    <2> SUFFICES ASSUME NEW i \in 1..m, NEW j \in 1..m, NEW k \in 1..m,
                        i < j, j < k, p[i][2] = p[k][2], p[j][2] # p[i][2]
                 PROVE  FALSE
        BY <2>3 DEF Together
    <2>6. <<p[i], p[j]>> \in ByCharge(ch, ls) /\ <<p[j], p[k]>> \in ByCharge(ch, ls)
        BY <2>4
    <2>7. PICK a \in 0..Slots - 1, b \in 0..Slots - 1 : a < b /\ ch[a] = p[i][2] /\ ch[b] = p[j][2]
        BY <2>3, <2>5, <2>6
    <2>8. PICK c \in 0..Slots - 1, d \in 0..Slots - 1 : c < d /\ ch[c] = p[j][2] /\ ch[d] = p[k][2]
        BY <2>3, <2>5, <2>6
    <2>9. b = c /\ a = d
        BY <2>1, <2>3, <2>7, <2>8
    <2> QED BY <2>7, <2>8, <2>9
<1>4. ASSUME NEW q \in Arrangements(hits), Together(q)
      PROVE  \E rows \in Arrangements(D), ls \in Arrangements(B) :
                 Paid!AppliedToRefIDs(rows, ls) = Ids(q)
    <2>1. PICK rows \in Arrangements(D), ls \in Arrangements(B) :
              InOrder(q, hits, ByCharge(Paid!Filled(rows), ls))
        BY <1>4, Gathered
    <2>2. PICK p : /\ Paid!AppliedToRefIDs(rows, ls) = Ids(p)
                   /\ InOrder(q, hits, ByCharge(Paid!Filled(rows), ls)) => q = p
        BY <1>2
    <2> QED BY <2>1, <2>2
<1>5. ASSUME NEW rows \in Arrangements(D), NEW ls \in Arrangements(B)
      PROVE  \E q \in Arrangements(hits) : Together(q) /\ Paid!AppliedToRefIDs(rows, ls) = Ids(q)
    BY <1>2, <1>3
<1> HIDE DEF hits
<1> QED BY <1>1, <1>4, <1>5

-----------------------------------------------------------------------------
(* The theorems. *)

\* A result set is finite, and a line bears a charge's id or one of the odd fields.
Inputs ==
    /\ IsFiniteSet(DOMAIN charges) /\ DOMAIN charges \subseteq Charges
    /\ IsFiniteSet(lines) /\ \A l \in lines : l.field \in Fields
    /\ IsFiniteSet(steps)

LEMMA InputsHold == Spec => []Inputs
<1>1. Init => Inputs
    <2> SUFFICES ASSUME Init PROVE Inputs
        OBVIOUS
    <2>1. DOMAIN charges = {} /\ lines = {} /\ steps = {}
        BY DEF Init
    <2> QED BY <2>1, FS_EmptySet DEF Inputs
<1>2. Inputs /\ [Next]_vars => Inputs'
    <2> SUFFICES ASSUME Inputs, [Next]_vars PROVE Inputs'
        OBVIOUS
    <2>1. ASSUME NEW c \in Charges, NEW a \in Amounts, AddCharge(c, a) PROVE Inputs'
        <3>1. DOMAIN charges' = DOMAIN charges \cup {c}
            BY <2>1 DEF AddCharge
        <3>2. IsFiniteSet(DOMAIN charges')
            BY <3>1, FS_AddElement DEF Inputs
        <3> QED BY <2>1, <3>1, <3>2 DEF AddCharge, Inputs
    <2>2. ASSUME NEW f \in Fields, NEW a \in Amounts, AddLine(f, a) PROVE Inputs'
        <3> DEFINE new == [id |-> Cardinality(lines) + 1, field |-> f, amount |-> a]
        <3>1. lines' = lines \cup {new} /\ new.field = f
            BY <2>2 DEF AddLine
        <3> HIDE DEF new
        <3>2. IsFiniteSet(lines')
            BY <3>1, FS_AddElement DEF Inputs
        <3>3. UNCHANGED <<charges, steps>>
            BY <2>2 DEF AddLine
        <3> QED BY <3>1, <3>2, <3>3 DEF Inputs
    <2>3. ASSUME NEW s, AddStep(s) PROVE Inputs'
        <3>1. IsFiniteSet(steps') /\ UNCHANGED <<charges, lines>>
            BY <2>3, FS_AddElement DEF AddStep, Inputs
        <3> QED BY <3>1 DEF Inputs
    <2>4. CASE UNCHANGED vars
        BY <2>4 DEF vars, Inputs
    <2> QED BY <2>1, <2>2, <2>3, <2>4 DEF Next
<1> QED BY <1>1, <1>2, PTL DEF Spec

\* No charge's id reads like one of the odd fields or like an empty array element.
LEMMA InputsApart ==
    ASSUME Inputs
    PROVE  /\ {Null, Unreadable, Zero} \cap DOMAIN charges = {}
           /\ NoCharge \notin DOMAIN charges
           /\ IsFiniteSet(Billed) /\ \A l \in Billed : l[2] # NoCharge
<1>1. {Null, Unreadable, Zero} \cap DOMAIN charges = {}
    BY FieldsAssumption DEF Inputs
<1>2. NoCharge \notin DOMAIN charges
    BY ArrayAssumption DEF Inputs, Fields
<1>3. IsFiniteSet(Billed)
    <2> DEFINE g == [l \in lines |-> <<l.id, l.field>>]
    <2>1. g \in Surjection(lines, Billed)
        BY Fun_IsSurj DEF Billed
    <2> HIDE DEF g
    <2> QED BY <2>1, FS_Surjection DEF Inputs
<1>4. \A l \in Billed : l[2] # NoCharge
    BY ArrayAssumption DEF Inputs, Billed
<1> QED BY <1>1, <1>2, <1>3, <1>4

\* For result sets of every size Outcomes says exactly what the loops of
\* InvoiceSync.java:128-192 come to over the orders of their rows.
THEOREM OutcomesAreExact == Spec => []OutcomesExact
<1>1. Inputs => OutcomesExact
    <2> SUFFICES ASSUME Inputs
                 PROVE  Outcomes(charges, lines) =
                            {Loop(charges, cs, ls) : cs \in Arrangements(DOMAIN charges),
                                                     ls \in Arrangements(lines)}
        BY DEF OutcomesExact
    <2> QED BY InputsApart, OutcomesOf DEF Inputs
<1> QED BY <1>1, InputsHold, PTL

\* However many rows there are and however they are ordered, the sticky compareresult
\* (InvoiceSync.java:128) keeps no charge without a line off the add list.
THEOREM MissingChargesAreAdded == Spec => []MissingIsAdded
<1>1. Inputs => MissingIsAdded
    <2> SUFFICES ASSUME Inputs,
                        NEW cs \in Arrangements(DOMAIN charges), NEW ls \in Arrangements(lines)
                 PROVE  LET out == Loop(charges, cs, ls)
                        IN  \/ out.thrown
                            \/ \A l \in lines : l.field = Zero
                            \/ \A c \in DOMAIN charges :
                                  (\A l \in lines : l.field # c) => c \in out.add
        BY DEF MissingIsAdded
    <2> QED BY InputsApart, MissingAdded DEF Inputs
<1> QED BY <1>1, InputsHold, PTL

\* Up to the length of the array chargeid (PaymenttoCharge.java:24), the loops of
\* getAppliedtoRefID find the invoices InvoicesOf names and no others.
THEOREM InvoicesAreExact == Spec => []InvoicesExact
<1>1. Inputs => InvoicesExact
    <2> SUFFICES ASSUME Inputs, ~Paid!Overruns(DOMAIN charges)
                 PROVE  Paid!InvoicesOf(DOMAIN charges, Billed) =
                            {Paid!AppliedToRefIDs(rows, ls) :
                                rows \in Arrangements(DOMAIN charges), ls \in Arrangements(Billed)}
        BY DEF InvoicesExact
    <2> QED BY InputsApart, InvoicesOfExact DEF Inputs
<1> QED BY <1>1, InputsHold, PTL

\* However many charges a payment has, with a line for each of them the amounts it
\* applies are its shares turned round (PaymenttoCharge.java:44 and :74).
THEOREM SharesAreMirrored == Spec => []SharesMirrored
<1>1. Inputs => SharesMirrored
    <2> SUFFICES ASSUME Inputs,
                        NEW rows \in Arrangements(DOMAIN charges), NEW ls \in Arrangements(Billed),
                        ~Paid!Overruns(DOMAIN charges),
                        Cardinality(lines) = Len(rows), {l.field : l \in lines} = DOMAIN charges
                 PROVE  Mirrored(charges, lines, rows, ls)
        BY DEF SharesMirrored, Mirrored
    <2>1. Len(rows) = Cardinality(DOMAIN charges)
        BY Places DEF Inputs
    <2>2. OneEach(charges, lines)
        BY <2>1 DEF OneEach
    <2>3. IsFiniteSet(DOMAIN charges) /\ IsFiniteSet(lines) /\ NoCharge \notin DOMAIN charges
        BY InputsApart DEF Inputs
    <2>4. ls \in Arrangements(Pairs(lines))
        BY DEF Billed, Pairs
    <2> QED BY <2>2, <2>3, <2>4, SharesOf
<1> QED BY <1>1, InputsHold, PTL

\* Whatever steps an objective has, compareandupdate deletes, over the orders of its
\* rows, what Deletions names and nothing else.
THEOREM DeletionsAreExact == Spec => []DeletionsExact
<1>1. Inputs => DeletionsExact
    BY DeletionsOf DEF Inputs, DeletionsExact
<1> QED BY <1>1, InputsHold, PTL
=============================================================================
