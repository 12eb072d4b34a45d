------------------------ MODULE MCConnectionManager ------------------------
(* An instance of ConnectionManager: two rows share a transport setting. *)
EXTENDS ConnectionManager

CONSTANTS c1, c2, t1, t2, w1, w2

ThreeSettings == {[wire |-> w1, rest |-> 0], [wire |-> w1, rest |-> 1], [wire |-> w2, rest |-> 0]}
=============================================================================
