----------------------------- MODULE MCAccounts -----------------------------
(* A small instance of Accounts for TLC: one request that may ask for any   *)
(* operation, and one that changes what the first has been judged on.       *)
EXTENDS Accounts, TLC

CONSTANTS r1, r2

AnyAndRival == (r1 :> (AdminOps \cup OwnOps)) @@ (r2 :> {"disable"})
=============================================================================
