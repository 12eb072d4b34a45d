---------------------------- MODULE Publication ----------------------------
(***************************************************************************)
(* What the gateway promises about DeviceWise's view of the PLCs, with the *)
(* sync task, the workers, discovery and the web handlers left out: the    *)
(* set of areas shown changes in passes, a pass shows only what is not     *)
(* barred, and when it ends nothing is shown that was barred all along     *)
(* (virtual_plc/sync.py:1-20).  AreaBridge implements it.                  *)
(***************************************************************************)
CONSTANTS
    Keys,       \* the areas
    Reason      \* why an area may not be shown

VARIABLES
    shown,      \* the areas DeviceWise can enumerate and read
    passing,    \* is a pass under way?
    barred      \* by reason, the areas barred ever since the last pass began

pubVars == <<shown, passing, barred>>

AnyBarred == UNION {barred[why] : why \in Reason}
StillBarred == \A why \in Reason : barred'[why] \subseteq barred[why]

PubInit == shown = {} /\ ~passing /\ barred \in [Reason -> SUBSET Keys]

Begin == ~passing /\ passing' /\ UNCHANGED shown /\ barred' \in [Reason -> SUBSET Keys]

\* At any time areas may disappear and reasons lapse; areas appear in a pass.
Change ==
    /\ UNCHANGED passing /\ StillBarred
    /\ shown' \ shown \subseteq IF passing THEN Keys \ AnyBarred ELSE {}

End ==
    /\ passing /\ ~passing' /\ UNCHANGED shown /\ StillBarred
    /\ \A why \in Reason : shown \cap barred'[why] = {}

PubNext == Begin \/ Change \/ End

PubSpec == PubInit /\ [][PubNext]_pubVars
=============================================================================
