----------------------------- MODULE AreaBridge -----------------------------
(***************************************************************************)
(* The path of an area from the PLC to DeviceWise: the polling workers     *)
(* publish reads into the datastore, discovery rewrites plc_areas, the     *)
(* operator edits the same rows through the web UI, and the sync task      *)
(* turns rows and snapshots into registrations on the virtual CPU.         *)
(*                                                                         *)
(* Three kinds of thread interleave.  The event loop runs the workers'     *)
(* coroutines and the web handlers, one at a time between awaits.          *)
(* sync_once runs in a thread of its own, and so does each                 *)
(* apply_discovery.  A step is one call that takes the lock of the         *)
(* database, of the datastore or of the server, with the local work up to  *)
(* the next such call.                                                     *)
(***************************************************************************)
EXTENDS VirtualCpu

CONSTANTS
    MaxOps,     \* bound on operator actions in a behaviour
    MaxScans    \* bound on discovery passes in a behaviour

ASSUME BudgetAssumption == MaxOps \in Nat /\ MaxScans \in Nat

VARIABLES
    conn,       \* plc_connections: whether enabled, and the exposure mode
    area,       \* plc_areas
    snap,       \* DataStore._snapshots
    work,       \* per connection, where its worker's coroutine is
    stopping,   \* per connection, its worker's _stop event
    held,       \* per connection, the mode in the worker's copy of the row
    reading,    \* the size a poll cycle has still to read of a key, or 0
    found,      \* apply_discovery: the size found of a key, or 0
    change,     \* apply_discovery: the kind of change still to be written
    adding,     \* apply_discovery: inserted keys whose exposure is looked at next
    asMirror,   \* apply_discovery: the mode of the connection it was given
    pc,         \* sync_once: its phase
    listed,     \* sync_once: the enabled connections, with the mode read first
    unlisted,   \* sync_once: connections whose areas are still to be listed
    rows,       \* sync_once: the listed areas still to be planned
    plan,       \* sync_once: the plan
    drop,       \* sync_once: registrations to withdraw
    queue,      \* sync_once: planned areas still to be published
    updating,   \* sync_once: the area registered and next to be updated
    handler,    \* the web handler that is between two of its calls
    ops, scans, \* budgets spent
    barred      \* history: by reason, the keys barred ever since the tick began

confVars == <<conn, area, snap>>
crewVars == <<work, stopping, held>>
workVars == <<crewVars, reading>>
scanVars == <<found, change, adding, asMirror>>
tickVars == <<pc, listed, unlisted, rows, plan, drop, queue, updating>>
webVars == <<handler, ops, scans>>
sysVars == <<cpuVars, confVars, workVars, scanVars, tickVars, webVars>>
vars == <<sysVars, barred>>

Mode == {"off", "whitelist", "mirror"}
Kind == {"added", "grown", "shrunk", "missing", "unchanged"}
NoHandler == [step |-> "free", key |-> Vacant]
At(step, k) == [step |-> step, key |-> k]
Free == handler = NoHandler

\* Reasons for which an area must not be published.
Reason == {"disabled", "hidden", "rowless", "unread"}
Holds(why, k) ==
    CASE why = "disabled" -> ~conn[ConnOf(k)].enabled
      [] why = "hidden"   -> ~conn[ConnOf(k)].mirror /\ ~area[k].exposed
      [] why = "rowless"  -> ~Present(area[k])
      [] why = "unread"   -> ~Fresh(snap[k])
AllBarred == [why \in Reason |-> {k \in Keys : Holds(why, k)}]

ConfTypeOK ==
    /\ conn \in [Conns -> [enabled : BOOLEAN, mirror : BOOLEAN]]
    /\ area \in [Keys -> Row]
    /\ snap \in [Keys -> Snapshot]

WorkTypeOK ==
    /\ work \in [Conns -> {"off", "idle", "poll", "apply"}]
    /\ stopping \in [Conns -> BOOLEAN]
    /\ held \in [Conns -> BOOLEAN]
    /\ reading \in [Keys -> Size]

ScanTypeOK ==
    /\ found \in [Keys -> Size]
    /\ change \in [Keys -> Kind \cup {"none"}]
    /\ adding \subseteq Keys
    /\ asMirror \in [Conns -> BOOLEAN]

TickTypeOK ==
    /\ pc \in {"sleep", "plan", "withdraw", "publish"}
    /\ listed \in [Conns -> Mode]
    /\ unlisted \subseteq Conns
    /\ rows \in [Keys -> Row]
    /\ plan \in [Keys -> Entry]
    /\ drop \subseteq Keys
    /\ queue \subseteq Keys
    /\ updating \subseteq Keys

WebTypeOK ==
    /\ handler \in [step : {"free", "confirm", "drop", "delete"}, key : Keys \cup {Vacant}]
    /\ ops \in 0..MaxOps
    /\ scans \in 0..MaxScans

TypeOK ==
    /\ CpuTypeOK
    /\ ConfTypeOK
    /\ WorkTypeOK
    /\ ScanTypeOK
    /\ TickTypeOK
    /\ WebTypeOK
    /\ barred \in [Reason -> SUBSET Keys]

\* Connections are configured and enabled, nothing is discovered yet, and the
\* virtual CPU is still to be started.
Init ==
    /\ CpuInit
    /\ conn \in [Conns -> [enabled : {TRUE}, mirror : BOOLEAN]]
    /\ area = [k \in Keys |-> NoRow]
    /\ snap = [k \in Keys |-> NoSnapshot]
    /\ work = [c \in Conns |-> "idle"]
    /\ stopping = [c \in Conns |-> FALSE]
    /\ held = [c \in Conns |-> conn[c].mirror]
    /\ reading = [k \in Keys |-> 0]
    /\ found = [k \in Keys |-> 0]
    /\ change = [k \in Keys |-> "none"]
    /\ adding = {}
    /\ asMirror = [c \in Conns |-> FALSE]
    /\ pc = "sleep"
    /\ listed = [c \in Conns |-> "off"]
    /\ unlisted = {}
    /\ rows = [k \in Keys |-> NoRow]
    /\ plan = [k \in Keys |-> NoEntry]
    /\ drop = {}
    /\ queue = {}
    /\ updating = {}
    /\ handler = NoHandler
    /\ ops = 0
    /\ scans = 0
    /\ barred = AllBarred

\* The history: a reason that lapses, if only for one state, is struck out
\* until the next tick begins.
Observe ==
    barred' = IF pc = "sleep" /\ pc' = "plan" THEN AllBarred'
              ELSE [why \in Reason |-> barred[why] \cap AllBarred'[why]]

-----------------------------------------------------------------------------
(* The sync task's thread: sync_once and build_plan. *)

\* What a step of the sync thread leaves alone, and a step that only plans.
SyncOnly == UNCHANGED <<confVars, workVars, scanVars, webVars>> /\ Observe
PlanOnly == UNCHANGED cpuVars /\ SyncOnly

\* Mutant: the areas of disabled connections are listed as well.
BeginTickListingAll ==
    /\ pc = "sleep"
    /\ running
    /\ pc' = "plan"
    /\ listed' = [c \in Conns |-> IF conn[c].mirror THEN "mirror" ELSE "whitelist"]
    /\ unlisted' = Conns
    /\ UNCHANGED <<rows, plan, drop, queue, updating>>
    /\ PlanOnly

\* sync_once up to list_connections; a CPU that is down makes it return.
BeginTick ==
    /\ pc = "sleep"
    /\ running
    /\ pc' = "plan"
    /\ listed' = [c \in Conns |->
           IF ~conn[c].enabled THEN "off"
           ELSE IF conn[c].mirror THEN "mirror" ELSE "whitelist"]
    /\ unlisted' = {c \in Conns : conn[c].enabled}
    /\ UNCHANGED <<rows, plan, drop, queue, updating>>
    /\ PlanOnly

\* list_areas of the next connection.
ListAreas(c) ==
    /\ pc = "plan"
    /\ \A k \in Keys : ~Present(rows[k])
    /\ c \in unlisted
    /\ unlisted' = unlisted \ {c}
    /\ rows' = [k \in Keys |-> IF ConnOf(k) = c THEN area[k] ELSE rows[k]]
    /\ UNCHANGED <<pc, listed, plan, drop, queue, updating>>
    /\ PlanOnly

\* One area of the listing: the row is the listed one, the snapshot and the
\* registered size are looked up now.
PlanArea(k) ==
    /\ pc = "plan"
    /\ Present(rows[k])
    /\ rows' = [rows EXCEPT ![k] = NoRow]
    /\ plan' = [plan EXCEPT ![k] =
           PlanEntry(listed[ConnOf(k)] = "mirror", rows[k], snap[k], table[k])]
    /\ UNCHANGED <<pc, listed, unlisted, drop, queue, updating>>
    /\ PlanOnly

\* Mutant: only registrations of connections still enabled are withdrawn.
SurveyOfEnabled ==
    /\ pc = "plan"
    /\ unlisted = {}
    /\ \A k \in Keys : ~Present(rows[k])
    /\ pc' = "withdraw"
    /\ listed' = [c \in Conns |-> "off"]
    /\ drop' = {k \in Registered : ~Planned(plan[k]) /\ conn[ConnOf(k)].enabled}
    /\ queue' = {k \in Keys : Planned(plan[k])}
    /\ UNCHANGED <<unlisted, rows, plan, updating>>
    /\ PlanOnly

\* registrations(), compared with the finished plan.
Survey ==
    /\ pc = "plan"
    /\ unlisted = {}
    /\ \A k \in Keys : ~Present(rows[k])
    /\ pc' = "withdraw"
    /\ listed' = [c \in Conns |-> "off"]
    /\ drop' = {k \in Registered : ~Planned(plan[k])}
    /\ queue' = {k \in Keys : Planned(plan[k])}
    /\ UNCHANGED <<unlisted, rows, plan, updating>>
    /\ PlanOnly

Withdraw(k) ==
    /\ pc = "withdraw"
    /\ k \in drop
    /\ drop' = drop \ {k}
    /\ Unregister(k)
    /\ UNCHANGED <<pc, listed, unlisted, rows, plan, queue, updating>>
    /\ SyncOnly

Withdrawn ==
    /\ pc = "withdraw"
    /\ drop = {}
    /\ pc' = "publish"
    /\ UNCHANGED <<listed, unlisted, rows, plan, drop, queue, updating>>
    /\ PlanOnly

\* Mutant: a registration that is large enough is kept.
RegisterLarger(k) ==
    /\ pc = "publish"
    /\ updating = {}
    /\ k \in queue
    /\ queue' = queue \ {k}
    /\ updating' = {k}
    /\ \/ table[k] >= plan[k].size /\ UNCHANGED cpuVars
       \/ table[k] < plan[k].size /\ Register(k, plan[k].size, plan[k].len)
    /\ UNCHANGED <<pc, listed, unlisted, rows, plan, drop>>
    /\ SyncOnly

\* The next entry: it is registered when its size is not the registered one.
RegisterEntry(k) ==
    /\ pc = "publish"
    /\ updating = {}
    /\ k \in queue
    /\ queue' = queue \ {k}
    /\ updating' = {k}
    /\ \/ table[k] = plan[k].size /\ UNCHANGED cpuVars
       \/ table[k] # plan[k].size /\ Register(k, plan[k].size, plan[k].len)
    /\ UNCHANGED <<pc, listed, unlisted, rows, plan, drop>>
    /\ SyncOnly

\* register raises: the entry is given up, its update included, whether the old
\* registration has gone or not.
RegisterEntryFails(k) ==
    /\ pc = "publish"
    /\ updating = {}
    /\ k \in queue
    /\ queue' = queue \ {k}
    /\ table[k] # plan[k].size
    /\ RegisterFails(k, plan[k].size)
    /\ UNCHANGED <<pc, listed, unlisted, rows, plan, drop, updating>>
    /\ SyncOnly

UpdateEntry(k) ==
    /\ pc = "publish"
    /\ k \in updating
    /\ updating' = {}
    /\ Update(k, plan[k].len)
    /\ UNCHANGED <<pc, listed, unlisted, rows, plan, drop, queue>>
    /\ SyncOnly

\* sync_once returns: its locals are gone.
EndTick ==
    /\ pc = "publish"
    /\ queue = {} /\ updating = {}
    /\ pc' = "sleep"
    /\ plan' = [k \in Keys |-> NoEntry]
    /\ UNCHANGED <<listed, unlisted, rows, drop, queue, updating>>
    /\ PlanOnly

SyncStep ==
    \/ BeginTick
    \/ \E c \in Conns : ListAreas(c)
    \/ \E k \in Keys : PlanArea(k)
    \/ Survey
    \/ \E k \in Keys : Withdraw(k)
    \/ Withdrawn
    \/ \E k \in Keys : RegisterEntry(k)
    \/ \E k \in Keys : RegisterEntryFails(k)
    \/ \E k \in Keys : UpdateEntry(k)
    \/ EndTick

-----------------------------------------------------------------------------
(* The workers' coroutines on the event loop, while their link is up. *)

WorkOnly == UNCHANGED <<cpuVars, conn, held, scanVars, tickVars, webVars>> /\ Observe

\* The head of a poll cycle: _areas_to_poll.
StartCycle(c) ==
    /\ Free
    /\ work[c] = "idle" /\ ~stopping[c]
    /\ \E k \in KeysOf(c) : Pollable(k, area[k])
    /\ work' = [work EXCEPT ![c] = "poll"]
    /\ reading' = [k \in Keys |->
           IF ConnOf(k) = c /\ Pollable(k, area[k]) THEN area[k].size ELSE reading[k]]
    /\ UNCHANGED <<area, snap, stopping>>
    /\ WorkOnly

\* A read comes back and is published.  A stop seen now ends the cycle.
FinishRead(k, result) ==
    LET c == ConnOf(k)
        rest == {j \in KeysOf(c) : reading[j] > 0 /\ j # k /\ ~stopping[c]}
    IN  /\ Free
        /\ reading[k] > 0
        /\ snap' = [snap EXCEPT ![k] = result]
        /\ reading' = [j \in Keys |->
               IF ConnOf(j) = c /\ j \notin rest THEN 0 ELSE reading[j]]
        /\ work' = IF rest = {} THEN [work EXCEPT ![c] = "idle"] ELSE work
        /\ UNCHANGED <<area, stopping>>
        /\ WorkOnly

\* The client refuses to read more than MaxArea bytes.
ReadOk(k) == reading[k] <= MaxArea /\ FinishRead(k, Read(reading[k]))
ReadFails(k) == FinishRead(k, Unfit)

\* The worker sees its stop event and exits.
WorkerExit(c) ==
    /\ Free
    /\ work[c] = "idle" /\ stopping[c]
    /\ work' = [work EXCEPT ![c] = "off"]
    /\ UNCHANGED <<area, snap, stopping, reading>>
    /\ WorkOnly

\* A good read passes the stale timeout.
GrowOld(k) ==
    /\ Fresh(snap[k])
    /\ snap' = [snap EXCEPT ![k] = Unfit]
    /\ UNCHANGED <<area, workVars>>
    /\ WorkOnly

WorkStep ==
    \/ \E c \in Conns : StartCycle(c)
    \/ \E k \in Keys : ReadOk(k)
    \/ \E k \in Keys : ReadFails(k)
    \/ \E c \in Conns : WorkerExit(c)
    \/ \E k \in Keys : GrowOld(k)

-----------------------------------------------------------------------------
(* Discovery: the result comes back to the coroutine, apply_discovery runs *)
(* in a thread, and the coroutine finishes the pass.                       *)

ScanOnly ==
    UNCHANGED <<cpuVars, conn, tickVars, handler, ops, stopping, held, reading>> /\ Observe

\* discover has returned: any part of the map may be absent, be it gone from
\* the PLC or unreadable in this pass.  Nothing found, with errors, is fatal
\* and changes nothing.  The thread lists the stored rows and makes the diff.
Discover(c, sizes, fatal) ==
    /\ Free
    /\ work[c] = "idle" /\ ~stopping[c]
    /\ scans < MaxScans
    /\ fatal => \A k \in KeysOf(c) : sizes[k] = 0
    /\ scans' = scans + 1
    /\ work' = [work EXCEPT ![c] = "apply"]
    /\ asMirror' = [asMirror EXCEPT ![c] = held[c]]
    /\ found' = [k \in Keys |-> IF ConnOf(k) = c THEN sizes[k] ELSE found[k]]
    /\ change' = [k \in Keys |->
           IF ConnOf(k) = c /\ ~fatal /\ (Present(area[k]) \/ sizes[k] > 0)
           THEN ChangeKind(area[k], sizes[k]) ELSE change[k]]
    /\ UNCHANGED <<area, snap, adding>>
    /\ ScanOnly

\* One change is written.
ApplyChange(k) ==
    /\ change[k] # "none"
    /\ adding \cap KeysOf(ConnOf(k)) = {}
    /\ change' = [change EXCEPT ![k] = "none"]
    /\ found' = [found EXCEPT ![k] = 0]
    /\ \/ /\ change[k] = "missing"
          /\ area' = [area EXCEPT ![k] = WithStatus(area[k], "missing")]
       \/ /\ change[k] # "missing"
          /\ area' = [area EXCEPT ![k] =
                 Upsert(area[k], found[k], StatusForKind(change[k]), asMirror[ConnOf(k)])]
    /\ adding' = IF change[k] = "added" /\ asMirror[ConnOf(k)] THEN adding \cup {k} ELSE adding
    /\ UNCHANGED <<snap, work, asMirror, scans>>
    /\ ScanOnly

\* Mirror All looks at an inserted row again and exposes it if it is not.
ExposeAdded(k) ==
    /\ k \in adding
    /\ adding' = adding \ {k}
    /\ area' = [area EXCEPT ![k] = WithExposed(area[k], TRUE)]
    /\ UNCHANGED <<snap, work, found, change, asMirror, scans>>
    /\ ScanOnly

\* Back on the event loop: retain drops the snapshots of the connection that
\* have no row any more.
FinishDiscovery(c) ==
    /\ Free
    /\ work[c] = "apply"
    /\ \A k \in KeysOf(c) : change[k] = "none" /\ k \notin adding
    /\ work' = [work EXCEPT ![c] = "idle"]
    /\ snap' = [k \in Keys |->
           IF ConnOf(k) = c /\ ~Present(area[k]) THEN NoSnapshot ELSE snap[k]]
    /\ asMirror' = [asMirror EXCEPT ![c] = FALSE]
    /\ UNCHANGED <<area, found, change, adding, scans>>
    /\ ScanOnly

ScanStep ==
    \/ \E c \in Conns :
          \/ \E sizes \in [KeysOf(c) -> Size], fatal \in BOOLEAN : Discover(c, sizes, fatal)
          \/ FinishDiscovery(c)
    \/ \E k \in Keys : ApplyChange(k)
    \/ \E k \in Keys : ExposeAdded(k)

-----------------------------------------------------------------------------
(* The web handlers and the rest of the runtime, on the event loop. *)

Spend == /\ Free /\ ops < MaxOps /\ ops' = ops + 1
WebOnly == UNCHANGED <<reading, scanVars, tickVars, scans>> /\ Observe

SetExposure(k, exposed) ==
    /\ Spend
    /\ Present(area[k])
    /\ area' = [area EXCEPT ![k] = WithExposed(area[k], exposed)]
    /\ UNCHANGED <<cpuVars, conn, snap, crewVars, handler>>
    /\ WebOnly

\* confirm_shape: the row first, then the registration.
ConfirmShape(k) ==
    /\ Spend
    /\ Present(area[k])
    /\ area' = [area EXCEPT ![k] = WithStatus(area[k], "ok")]
    /\ handler' = At("confirm", k)
    /\ UNCHANGED <<cpuVars, conn, snap, crewVars>>
    /\ WebOnly

ConfirmUnregisters(k) ==
    /\ handler = At("confirm", k)
    /\ handler' = NoHandler
    /\ Unregister(k)
    /\ UNCHANGED <<confVars, crewVars, ops>>
    /\ WebOnly

\* delete_area: the registration, the snapshot, the row.
DeleteArea(k) ==
    /\ Spend
    /\ Present(area[k])
    /\ Unregister(k)
    /\ handler' = At("drop", k)
    /\ UNCHANGED <<confVars, crewVars>>
    /\ WebOnly

DeleteDropsSnapshot(k) ==
    /\ handler = At("drop", k)
    /\ handler' = At("delete", k)
    /\ snap' = [snap EXCEPT ![k] = NoSnapshot]
    /\ UNCHANGED <<cpuVars, conn, area, crewVars, ops>>
    /\ WebOnly

DeleteDropsRow(k) ==
    /\ handler = At("delete", k)
    /\ handler' = NoHandler
    /\ area' = [area EXCEPT ![k] = NoRow]
    /\ UNCHANGED <<cpuVars, conn, snap, crewVars, ops>>
    /\ WebOnly

\* update_connection: the row; apply_config waits for its lock, which it may be
\* some time before it gets (ConnectionManager).
EditConnection(c, enabled, mirror) ==
    /\ Spend
    /\ conn' = [conn EXCEPT ![c] = [enabled |-> enabled, mirror |-> mirror]]
    /\ UNCHANGED <<cpuVars, area, snap, crewVars, handler>>
    /\ WebOnly

\* apply_config for one connection: a disabled one is stopped, an enabled one
\* without a worker is started, a running worker gets a new copy of the row.
ApplyConfig(c) ==
    /\ Free
    /\ \/ /\ ~conn[c].enabled /\ work[c] # "off" /\ ~stopping[c]
          /\ stopping' = [stopping EXCEPT ![c] = TRUE]
          /\ UNCHANGED <<work, held>>
       \/ /\ conn[c].enabled /\ work[c] = "off"
          /\ stopping' = [stopping EXCEPT ![c] = FALSE]
          /\ work' = [work EXCEPT ![c] = "idle"]
          /\ held' = [held EXCEPT ![c] = conn[c].mirror]
       \/ /\ conn[c].enabled /\ work[c] # "off" /\ ~stopping[c]
          /\ held[c] # conn[c].mirror
          /\ held' = [held EXCEPT ![c] = conn[c].mirror]
          /\ UNCHANGED <<work, stopping>>
    /\ UNCHANGED <<cpuVars, confVars, handler, ops>>
    /\ WebOnly

\* start_virtual_plc, and apply_settings when the CPU has to go down.
StartServer ==
    /\ Free
    /\ StartCpu
    /\ UNCHANGED <<confVars, crewVars, handler, ops>>
    /\ WebOnly

StopServer ==
    /\ Spend
    /\ StopCpu
    /\ UNCHANGED <<confVars, crewVars, handler>>
    /\ WebOnly

WebStep ==
    \/ \E k \in Keys :
          \/ \E exposed \in BOOLEAN : SetExposure(k, exposed)
          \/ ConfirmShape(k)
          \/ ConfirmUnregisters(k)
          \/ DeleteArea(k)
          \/ DeleteDropsSnapshot(k)
          \/ DeleteDropsRow(k)
    \/ \E c \in Conns :
          \/ \E enabled, mirror \in BOOLEAN : EditConnection(c, enabled, mirror)
          \/ ApplyConfig(c)
    \/ StartServer
    \/ StopServer

-----------------------------------------------------------------------------
Next == SyncStep \/ WorkStep \/ ScanStep \/ WebStep

Spec == Init /\ [][Next]_vars

\* The sync loop runs again after every tick and inside a tick never waits for
\* anything but locks held briefly; Snap7 does not refuse an area for ever.
Fairness ==
    /\ WF_vars(SyncStep)
    /\ \A k \in Keys : SF_vars(RegisterEntry(k))

FairSpec == Spec /\ Fairness
-----------------------------------------------------------------------------
\* Exposure is decided at registration time and no area is backed by anything
\* but a current read (sync.py): when a tick is over, nothing is registered
\* that was hidden, without a row, without a current read or on a disabled
\* connection from before the tick began - whatever ran in between.
BarredIsWithdrawn ==
    pc = "sleep" => \A why \in Reason : \A k \in barred[why] : table[k] = 0

\* ... and no step of a tick registers such an area, not even for a moment.
NeverPublishesBarred ==
    [][\A k \in Keys : table[k] = 0 /\ table'[k] > 0
           => \A why \in Reason : k \notin barred[why]]_vars

\* Why they hold: no value sync_once carries through a tick - the mode and the
\* rows it listed, the plan, the registrations to withdraw - names an area that
\* was barred when the tick began and is barred still.
Barred(k) == \E why \in Reason : k \in barred[why]

BarredForGood == \A why \in Reason : \A k \in barred[why] : Holds(why, k)

ListingInv ==
    /\ pc = "plan" => \A k \in barred["disabled"] : ConnOf(k) \notin unlisted
    /\ pc = "plan" => \A k \in barred["hidden"] : listed[ConnOf(k)] # "mirror"
    /\ \A k \in Keys : Present(rows[k]) =>
           /\ pc = "plan"
           /\ k \notin barred["disabled"] \cup barred["rowless"]
           /\ k \in barred["hidden"] => ~rows[k].exposed

PlanInv ==
    /\ \A k \in Keys : Planned(plan[k]) => pc # "sleep" /\ ~Barred(k)
    /\ \A k \in queue \cup updating : Planned(plan[k])
    /\ pc \in {"sleep", "plan"} => queue = {} /\ updating = {}

WithdrawInv ==
    \A k \in Registered : Barred(k) =>
        pc = "plan" \/ (pc = "withdraw" /\ k \in drop)

TickInv == BarredForGood /\ ListingInv /\ PlanInv /\ WithdrawInv

\* A finished tick leaves every registration with the size and the bytes it
\* planned, though the operator, a rescan or a refused registerArea may have
\* taken registrations away meanwhile.  An area planned at a size that register
\* refuses at once keeps what it had, and only such an area.
SettledAsPlanned ==
    pc = "publish" /\ queue = {} /\ updating = {}
        => \A k \in Registered :
               /\ table[k] = plan[k].size \/ plan[k].size > MaxArea
               /\ table[k] = plan[k].size => real[k] = plan[k].len
               /\ table[k] <= MaxArea

\* Why it holds: from the survey on, what is registered is still to be dropped
\* or is planned, and is still queued or has its planned size; and it is still to
\* be updated or has its planned bytes.  A CPU that is down has no registrations.
SettleInv ==
    /\ ~running => Registered = {}
    /\ \A k \in Keys : plan[k].len <= plan[k].size
    /\ \A i, j \in updating : i = j
    /\ pc = "withdraw" =>
           /\ updating = {}
           /\ \A k \in Registered : k \in drop \/ k \in queue
    /\ \A k \in Keys : table[k] <= MaxArea
    /\ \A k \in updating : plan[k].size <= MaxArea
    /\ pc = "publish" => \A k \in Registered \ queue :
           \/ plan[k].size > MaxArea
           \/ table[k] = plan[k].size /\ (k \in updating \/ real[k] = plan[k].len)

\* Nothing becomes exposed but by the operator's own request or, in a pass that
\* was started under Mirror All, a row which that pass inserts (upsert_area,
\* apply_discovery): an existing flag is never overwritten, but for a row hidden
\* between its insertion and the pass's second look at it.
ExposureIsDeliberate ==
    [][\A k \in Keys : area'[k].exposed /\ ~area[k].exposed
           => \/ SetExposure(k, TRUE)
              \/ asMirror[ConnOf(k)] /\ (~Present(area[k]) \/ ExposeAdded(k))]_vars

\* An operator's explicit "do not expose" survives (discovery.py:300): a row that
\* is there and hidden is exposed by nobody but the operator.
HidingSurvives ==
    [][\A k \in Keys : Present(area[k]) /\ ~area[k].exposed /\ area'[k].exposed
           => SetExposure(k, TRUE)]_vars

\* Why it holds: a pass writes, and exposes, only until it is finished, and its
\* worker does not poll meanwhile.
ScanInv ==
    /\ \A k \in Keys : change[k] # "none" \/ k \in adding => work[ConnOf(k)] = "apply"
    /\ \A k \in adding : asMirror[ConnOf(k)]
    /\ \A k \in Keys : reading[k] > 0 => work[ConnOf(k)] = "poll"

\* What is shown is what the gateway's table has; a pass is a run of sync_once.
View == INSTANCE Publication WITH shown <- Registered, passing <- pc # "sleep"

\* The sync task, the workers, discovery and the web handlers together implement
\* the promise to DeviceWise: nothing appears but in a pass and unbarred, and a
\* pass that ends has withdrawn what was barred since it began.
Publishes == View!PubSpec

\* A shrunk area keeps its registered size until an operator confirms (sync.py,
\* MANUAL 5.3): while no operator acts, no registration is replaced by a smaller
\* one.
KeepsItsShape ==
    [][\A k \in Keys : ops = 0 /\ table'[k] > 0 => table'[k] >= table[k]]_vars

\* What a tick must leave behind for an area whose situation does not change.
Servable(k) ==
    /\ running /\ Free
    /\ conn[ConnOf(k)].enabled
    /\ Present(area[k]) /\ area[k].status # "shrunk" /\ area[k].size <= MaxArea
    /\ conn[ConnOf(k)].mirror \/ area[k].exposed
    /\ Fresh(snap[k])

\* The virtual CPU converges: an area that stays servable ends up registered
\* at its size for good, one that stays barred ends up withdrawn for good.
Converges ==
    \A k \in Keys :
        /\ <>[]Servable(k) => <>[](table[k] = area[k].size)
        /\ \A why \in Reason : <>[](running /\ Holds(why, k)) => <>[](table[k] = 0)
=============================================================================
