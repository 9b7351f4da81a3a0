-------------------------------- MODULE Rows --------------------------------
(* The rows of a query without ORDER BY: a set that comes in any order.    *)
EXTENDS Naturals, Sequences, FiniteSets

Arrangements(S) ==
    {q \in [1..Cardinality(S) -> S] : \A i, j \in DOMAIN q : i # j => q[i] # q[j]}
=============================================================================
