--------------------------- MODULE MCCustomerSync ---------------------------
(* CustomerSync on small sets, for TLC. *)
EXTENDS CustomerSync, TLC

CONSTANTS s1, s2, adm, a, b, c

\* Families a and b have names of their own; c is another family named like a.
OwnNames == (a :> "A") @@ (b :> "B")
SharedName == (a :> "A") @@ (b :> "B") @@ (c :> "A")
AllNames == {"A", "B"}
JobA == {"A"}
NoNames == {}

Interchangeable == Permutations(Sessions)
=============================================================================
