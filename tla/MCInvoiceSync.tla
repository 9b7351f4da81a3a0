---------------------------- MODULE MCInvoiceSync ----------------------------
(* InvoiceSync on small sets, for TLC. *)
EXTENDS InvoiceSync, TLC

CONSTANTS s1, s2, c1, c2, c3, f1, f2, d1, d2

TwoFamilies == (c1 :> f1) @@ (c2 :> f2)
Neighbours == (c1 :> f1) @@ (c2 :> f1) @@ (c3 :> f2)
OneDate == [c \in Charges |-> d1]
Positive == {1, 2}
Mixed == {-1, 2}

Interchangeable == Permutations(Sessions)
=============================================================================
