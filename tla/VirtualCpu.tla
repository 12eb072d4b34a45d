----------------------------- MODULE VirtualCpu -----------------------------
(***************************************************************************)
(* VirtualPlcServer: the registration table the gateway keeps, and the     *)
(* area table of the Snap7 server behind it (external), which is keyed by  *)
(* (srv_area, index) alone.  Each method holds the server's lock, so each  *)
(* is one step.                                                            *)
(***************************************************************************)
EXTENDS AreaMap

CONSTANTS
    Vacant,     \* not a key: nothing is hosted at a slot
    MaxArea     \* 8 MiB: MAX_REGISTERED_BYTES, and the client's MAX_AREA_BYTES

ASSUME VacantAssumption == Vacant \notin Keys
ASSUME MaxAreaAssumption == MaxArea \in Nat \ {0}

VARIABLES
    running,    \* _server is not None
    table,      \* _registrations: registered size of a key, 0 if it has none
    real,       \* leading bytes of a key's buffer that come from a PLC read
    slot,       \* external: the key whose buffer the Snap7 server reads at a slot
    stranded    \* history: keys still hosted because unregister_area failed

cpuVars == <<running, table, real, slot, stranded>>

CpuTypeOK ==
    /\ running \in BOOLEAN
    /\ table \in [Keys -> Size]
    /\ real \in [Keys -> Size]
    /\ slot \in [Blocks -> Keys \cup {Vacant}]
    /\ stranded \subseteq Keys

CpuInit ==
    /\ running = FALSE
    /\ table = [k \in Keys |-> 0]
    /\ real = [k \in Keys |-> 0]
    /\ slot = [b \in Blocks |-> Vacant]
    /\ stranded = {}

Registered == {k \in Keys : table[k] > 0}

-----------------------------------------------------------------------------
\* External: Snap7's register_area and unregister_area at k's (srv_area, index).
Hosts(k, who) ==
    /\ slot' = [slot EXCEPT ![SlotOf(k)] = who]
    /\ stranded' = {j \in stranded : SlotOf(j) # SlotOf(k)}

\* unregister_area that fails, which _unregister_locked ignores.
Strands(k) ==
    /\ UNCHANGED slot
    /\ stranded' = IF slot[SlotOf(k)] = k THEN stranded \cup {k} ELSE stranded

\* start: it binds, or the port is taken and the CPU stays down.
StartCpu ==
    /\ ~running
    /\ running' = TRUE
    /\ UNCHANGED <<table, real, slot, stranded>>

\* stop: every registration goes, then the server itself with whatever it
\* still hosts; the next start makes a new one.
StopCpu ==
    /\ running
    /\ running' = FALSE
    /\ table' = [k \in Keys |-> 0]
    /\ real' = [k \in Keys |-> 0]
    /\ slot' = [b \in Blocks |-> Vacant]
    /\ stranded' = {}

\* _unregister_locked: the entry goes; the slot is vacated, whoever is hosted
\* there by now, unless Snap7 fails.
Unregister(k) ==
    /\ UNCHANGED running
    /\ table' = [table EXCEPT ![k] = 0]
    /\ real' = [real EXCEPT ![k] = 0]
    /\ IF table[k] > 0 THEN Hosts(k, Vacant) \/ Strands(k) ELSE UNCHANGED <<slot, stranded>>

\* register with a size other than the registered one: an existing entry is
\* unregistered first, then the new buffer takes the slot.
Register(k, n, len) ==
    /\ running /\ n <= MaxArea
    /\ UNCHANGED running
    /\ table' = [table EXCEPT ![k] = n]
    /\ real' = [real EXCEPT ![k] = Smaller(len, n)]
    /\ Hosts(k, k)

\* register that raises: at once, when the size is out of range or the CPU is
\* down, or when Snap7 refuses the area, the old entry having been unregistered.
RegisterFails(k, n) ==
    IF n > MaxArea \/ ~running THEN UNCHANGED cpuVars ELSE Unregister(k)

\* update: the whole buffer is rewritten, padded with zeros; no entry, no step.
Update(k, len) ==
    /\ real' = IF table[k] > 0 THEN [real EXCEPT ![k] = Smaller(len, table[k])] ELSE real
    /\ UNCHANGED <<running, table, slot, stranded>>

-----------------------------------------------------------------------------
\* What the status page calls registered is what DeviceWise can read, and
\* nothing else is but what Snap7 would not give up: an entry of the gateway's
\* table and the buffer hosted at its slot come and go together (register,
\* _unregister_locked, stop).
TableMatchesServer ==
    \A k \in Keys : slot[SlotOf(k)] = k <=> table[k] > 0 \/ k \in stranded
=============================================================================
