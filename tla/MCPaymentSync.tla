---------------------------- MODULE MCPaymentSync ----------------------------
(* PaymentSync on small sets, for TLC. *)
EXTENDS PaymentSync, TLC

CONSTANTS s1, s2, p1, p2, c1, c2, f1

\* One payment pays one charge, the other both.
Shares == (p1 :> {c1}) @@ (p2 :> {c1, c2})
OneFamily == (p1 :> f1) @@ (p2 :> f1)

Interchangeable == Permutations(Sessions)
=============================================================================
