------------------------------ MODULE MCPgLock -------------------------------
(***************************************************************************)
(* Two goroutines of one process and one of another contend for two keys.  *)
(***************************************************************************)
EXTENDS PgLock, TLC

CONSTANTS n1, n2, p1, p2, p3

TwoNodes == p1 :> n1 @@ p2 :> n1 @@ p3 :> n2
=============================================================================
