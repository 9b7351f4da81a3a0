----------------------------- MODULE FamilyLinks -----------------------------
(***************************************************************************)
(* What customer synchronisation promises, free of sessions, queries and   *)
(* failures.  A RenWeb family gets at most one QuickBooks customer of its  *)
(* own, a customer is made for at most one family, and the only link ever  *)
(* recorded for a family is the one to the customer made for it: the       *)
(* comment at CustomerSync.java:70 says of the ids that go into the        *)
(* mapping table that they are "the customer ID created by QB".            *)
(***************************************************************************)

VARIABLES
    created,   \* pairs <<family, customer>>: customers made for families
    links      \* pairs <<family, customer>>: the recorded links

vars == <<created, links>>

Init ==
    /\ created = {}
    /\ links = {}

\* A customer is made for a family that has none.
Create ==
    /\ \E p \in created' \ created :
          /\ \A q \in created : q[1] # p[1] /\ q[2] # p[2]
          /\ created' = created \cup {p}
    /\ UNCHANGED links

\* A family is linked to the customer made for it.
Link ==
    /\ \E p \in created \ links : links' = links \cup {p}
    /\ UNCHANGED created

Next == Create \/ Link

Spec == Init /\ [][Next]_vars

(***************************************************************************)
(* The consequence a reader wants: links are one-to-one.                   *)
(***************************************************************************)
OneToOne ==
    \A p, q \in links : (p[1] = q[1]) <=> (p[2] = q[2])
=============================================================================
