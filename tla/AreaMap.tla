------------------------------ MODULE AreaMap ------------------------------
(***************************************************************************)
(* The values the two halves of the gateway exchange: rows of plc_areas,   *)
(* snapshots of the datastore, entries of a sync plan, and the pure        *)
(* functions that discovery and the sync task apply to them.               *)
(*                                                                         *)
(* A size stands for size_bytes.  Bytes are counted, not listed: of a      *)
(* payload the model keeps how many leading bytes were really read, and    *)
(* takes the rest as the zeros the code pads with.                         *)
(***************************************************************************)
EXTENDS Integers, FiniteSets

CONSTANTS
    Conns,      \* ids of the configured PLC connections
    Blocks,     \* places on the virtual CPU: a DB number, or I, Q, M
    Keys,       \* the AreaKeys that can occur: <<connection, block>>
    Tagged,     \* the keys a configured tag points into
    MaxSize     \* bound on block sizes, in units of bytes

ASSUME KeysAssumption == Keys \subseteq Conns \X Blocks
ASSUME TaggedAssumption == Tagged \subseteq Keys
ASSUME MaxSizeAssumption == MaxSize \in Nat \ {0}

\* AreaKey.connection_id, and the (srv_area, index) an AreaKey is hosted at.
ConnOf(k) == k[1]
SlotOf(k) == k[2]
KeysOf(c) == {k \in Keys : ConnOf(k) = c}

Size == 0..MaxSize
Smaller(m, n) == IF m < n THEN m ELSE n

-----------------------------------------------------------------------------
\* A row of plc_areas.  A row that does not exist has the status "absent".
Status == {"new", "ok", "grown", "shrunk", "missing"}
Row == [size : Size, exposed : BOOLEAN, status : Status \cup {"absent"}]
NoRow == [size |-> 0, exposed |-> FALSE, status |-> "absent"]
Present(row) == row.status # "absent"

\* A datastore entry.  It is "unfit" when the newest read failed or the good
\* one is past the stale timeout; the payload kept with it is never served,
\* and its length is dropped here.
Snapshot == [kind : {"none", "unfit", "current"}, len : Size]
NoSnapshot == [kind |-> "none", len |-> 0]
Unfit == [kind |-> "unfit", len |-> 0]
Read(n) == [kind |-> "current", len |-> n]
Fresh(s) == s.kind = "current"

-----------------------------------------------------------------------------
\* diff_discovery on one key: what a pass that found n bytes (0: the block is
\* not in the result) says of the stored row.
ChangeKind(row, n) ==
    CASE ~Present(row)                  -> "added"
      [] Present(row) /\ n = 0          -> "missing"
      [] n > row.size                   -> "grown"
      [] Present(row) /\ 0 < n /\ n < row.size -> "shrunk"
      [] OTHER                          -> "unchanged"

\* Mutant: the kind is stored as if it were a status.
KindAsStatus(kind) == kind

StatusForKind(kind) ==
    CASE kind = "added"   -> "new"
      [] kind = "grown"   -> "grown"
      [] kind = "shrunk"  -> "shrunk"
      [] kind = "missing" -> "missing"
      [] OTHER            -> "ok"

\* Mutant: the default goes into an existing row as well.
UpsertOverwriting(row, n, status, defaultExposed) ==
    [size    |-> n,
     exposed |-> row.exposed \/ defaultExposed,
     status  |-> status]

\* upsert_area: default_exposed counts only when the row is inserted.
Upsert(row, n, status, defaultExposed) ==
    [size    |-> n,
     exposed |-> IF Present(row) THEN row.exposed ELSE defaultExposed,
     status  |-> status]

\* set_area_status and set_area_exposed are UPDATEs: nothing on no row.
WithStatus(row, status) ==
    IF Present(row) THEN [row EXCEPT !.status = status] ELSE row
WithExposed(row, exposed) ==
    IF Present(row) THEN [row EXCEPT !.exposed = exposed] ELSE row

-----------------------------------------------------------------------------
\* What build_plan decides for one listed area: its registered size and how
\* many of its bytes come from the snapshot.  Size 0: not planned.
Entry == [size : Size, len : Size]
NoEntry == [size |-> 0, len |-> 0]
Planned(entry) == entry.size > 0

PlanSize(row, registered) ==
    IF row.status = "shrunk" /\ registered > row.size THEN registered ELSE row.size

\* Mutant: an unfit snapshot is planned too.
PlanAnyEntry(mirror, row, snapshot, registered) ==
    IF (mirror \/ row.exposed) /\ row.size > 0 /\ snapshot.kind # "none"
    THEN [size |-> PlanSize(row, registered),
          len  |-> Smaller(snapshot.len, PlanSize(row, registered))]
    ELSE NoEntry

PlanEntry(mirror, row, snapshot, registered) ==
    IF (mirror \/ row.exposed) /\ row.size > 0 /\ Fresh(snapshot)
    THEN [size |-> PlanSize(row, registered),
          len  |-> Smaller(snapshot.len, PlanSize(row, registered))]
    ELSE NoEntry

\* _areas_to_poll: the areas a poll cycle reads.
Pollable(k, row) ==
    /\ Present(row)
    /\ row.status # "missing"
    /\ row.size > 0
    /\ row.exposed \/ k \in Tagged
=============================================================================
