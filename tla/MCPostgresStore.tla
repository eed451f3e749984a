--------------------------- MODULE MCPostgresStore ---------------------------
(* PostgresStore for TLC: two goroutines, a pool of two connections, issues  *)
(* about two things.                                                         *)
EXTENDS PostgresStore

CONSTANTS c1, c2, cert, policy

CallNumbers == 1 .. MaxCalls
=============================================================================
