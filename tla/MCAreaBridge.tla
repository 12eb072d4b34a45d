---------------------------- MODULE MCAreaBridge ----------------------------
(* Instances of AreaBridge: which connection has which blocks. *)
EXTENDS AreaBridge

CONSTANTS c1, c2, db1, db2

OneKey == {<<c1, db1>>}
SameBlock == {<<c1, db1>>, <<c2, db1>>}
=============================================================================
