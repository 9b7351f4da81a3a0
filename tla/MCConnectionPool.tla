-------------------------- MODULE MCConnectionPool --------------------------
(* ConnectionPool on small sets, for TLC. *)
EXTENDS ConnectionPool

CONSTANTS r1, r2, n1, n2, n3

\* The handlers that take two connections, in both orders, and one of each that is tidy.
Shapes == {"start", "startIdea", "deleteLesson", "loadRecords"}
=============================================================================
