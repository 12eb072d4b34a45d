------------------------- MODULE AreaBridge_proofs -------------------------
(***************************************************************************)
(* The safety of AreaBridge, proved for all connections, keys, sizes and   *)
(* budgets.  The inductive invariant follows a tick through its phases: it *)
(* says of every value sync_once holds - the listing, the plan, the        *)
(* registrations to withdraw - that it is no older than the tick.          *)
(***************************************************************************)
EXTENDS AreaBridge, TLAPS

-----------------------------------------------------------------------------
(* Lemmas about the helpers. *)

LEMMA KeyParts == ASSUME NEW k \in Keys
                  PROVE  ConnOf(k) \in Conns /\ SlotOf(k) \in Blocks
BY KeysAssumption DEF ConnOf, SlotOf

LEMMA ZeroIsSize == 0 \in Size
BY MaxSizeAssumption DEF Size

LEMMA RowFacts ==
    /\ NoRow \in Row /\ ~Present(NoRow) /\ ~NoRow.exposed
    /\ NoSnapshot \in Snapshot /\ Unfit \in Snapshot
    /\ NoEntry \in Entry /\ ~Planned(NoEntry)
BY ZeroIsSize DEF NoRow, Row, Present, NoSnapshot, Unfit, Snapshot, NoEntry, Entry, Planned, Status

LEMMA ReadType == ASSUME NEW n \in Size PROVE Read(n) \in Snapshot
BY DEF Read, Snapshot

LEMMA RowEdits ==
    ASSUME NEW row \in Row, NEW status \in Status, NEW exposed \in BOOLEAN, NEW n \in Size
    PROVE  /\ WithStatus(row, status) \in Row
           /\ WithExposed(row, exposed) \in Row
           /\ Upsert(row, n, status, exposed) \in Row
BY DEF WithStatus, WithExposed, Upsert, Row, Present, Status

LEMMA KindType == ASSUME NEW row \in Row, NEW n \in Size
                  PROVE  ChangeKind(row, n) \in Kind
BY DEF ChangeKind, Kind

LEMMA StatusOfKind == ASSUME NEW kind PROVE StatusForKind(kind) \in Status
BY DEF StatusForKind, Status

LEMMA SmallerType ==
    ASSUME NEW m \in Size, NEW n \in Size
    PROVE  Smaller(m, n) \in Size /\ Smaller(m, n) <= n
BY DEF Smaller, Size

\* What build_plan decides is an entry, with no more read bytes than its size.
LEMMA PlanEntryType ==
    ASSUME NEW mirror \in BOOLEAN, NEW row \in Row, NEW s \in Snapshot, NEW n \in Size
    PROVE  /\ PlanEntry(mirror, row, s, n) \in Entry
           /\ PlanEntry(mirror, row, s, n).len <= PlanEntry(mirror, row, s, n).size
<1>1. PlanSize(row, n) \in Size  BY DEF PlanSize, Row
<1>2. s.len \in Size  BY DEF Snapshot
<1>3. Smaller(s.len, PlanSize(row, n)) \in Size
      /\ Smaller(s.len, PlanSize(row, n)) <= PlanSize(row, n)
  BY <1>1, <1>2, SmallerType
<1>4. NoEntry \in Entry /\ NoEntry.len <= NoEntry.size  BY ZeroIsSize DEF NoEntry, Entry, Size
<1>. QED  BY <1>1, <1>3, <1>4 DEF PlanEntry, Entry

\* ... and an area is planned only when exposed and currently read.
LEMMA PlanEntryMeaning ==
    ASSUME NEW mirror \in BOOLEAN, NEW row \in Row, NEW s \in Snapshot, NEW n \in Size,
           Planned(PlanEntry(mirror, row, s, n))
    PROVE  (mirror \/ row.exposed) /\ Fresh(s)
BY RowFacts DEF PlanEntry

-----------------------------------------------------------------------------
(* The virtual CPU's methods keep its types. *)

LEMMA HostsType ==
    ASSUME CpuTypeOK, NEW k \in Keys, NEW who \in Keys \cup {Vacant}, Hosts(k, who)
    PROVE  slot' \in [Blocks -> Keys \cup {Vacant}] /\ stranded' \subseteq Keys
BY KeyParts DEF CpuTypeOK, Hosts

LEMMA UnregisterType == ASSUME CpuTypeOK, NEW k \in Keys, Unregister(k) PROVE CpuTypeOK'
<1>1. slot' \in [Blocks -> Keys \cup {Vacant}] /\ stranded' \subseteq Keys
  <2>1. CASE Hosts(k, Vacant)  BY <2>1, HostsType
  <2>2. CASE Strands(k)  BY <2>2 DEF Strands, CpuTypeOK
  <2>3. CASE UNCHANGED <<slot, stranded>>  BY <2>3 DEF CpuTypeOK
  <2>. QED  BY <2>1, <2>2, <2>3 DEF Unregister
<1>. QED  BY <1>1, ZeroIsSize DEF CpuTypeOK, Unregister

\* register that raises did nothing, or what unregister does.
LEMMA FailsAsUnregister ==
    ASSUME NEW k \in Keys, NEW n, RegisterFails(k, n)
    PROVE  UNCHANGED cpuVars \/ Unregister(k)
BY DEF RegisterFails

LEMMA RegisterType ==
    ASSUME CpuTypeOK, NEW k \in Keys, NEW n \in Size, NEW len \in Size, Register(k, n, len)
    PROVE  CpuTypeOK'
<1>1. slot' \in [Blocks -> Keys \cup {Vacant}] /\ stranded' \subseteq Keys
  BY HostsType DEF Register
<1>. QED  BY <1>1, SmallerType DEF CpuTypeOK, Register

LEMMA UpdateType ==
    ASSUME CpuTypeOK, NEW k \in Keys, NEW len \in Size, Update(k, len)
    PROVE  CpuTypeOK'
BY SmallerType DEF CpuTypeOK, Update

LEMMA StopType == ASSUME CpuTypeOK, StopCpu PROVE CpuTypeOK'
<1>1. running' \in BOOLEAN  BY DEF StopCpu
<1>2. table' \in [Keys -> Size]  BY ZeroIsSize DEF StopCpu
<1>3. real' \in [Keys -> Size]  BY ZeroIsSize DEF StopCpu
<1>4. slot' \in [Blocks -> Keys \cup {Vacant}]  BY DEF StopCpu
<1>5. stranded' \subseteq Keys  BY DEF StopCpu
<1>. QED  BY <1>1, <1>2, <1>3, <1>4, <1>5 DEF CpuTypeOK

-----------------------------------------------------------------------------
(* Type correctness: what a step leaves alone keeps its types, ... *)

LEMMA SameCpu == ASSUME CpuTypeOK, UNCHANGED cpuVars PROVE CpuTypeOK'
BY DEF CpuTypeOK, cpuVars

LEMMA SameConf == ASSUME ConfTypeOK, UNCHANGED confVars PROVE ConfTypeOK'
BY DEF ConfTypeOK, confVars

LEMMA SameWork == ASSUME WorkTypeOK, UNCHANGED workVars PROVE WorkTypeOK'
BY DEF WorkTypeOK, workVars, crewVars

LEMMA SameScan == ASSUME ScanTypeOK, UNCHANGED scanVars PROVE ScanTypeOK'
BY DEF ScanTypeOK, scanVars

LEMMA SameTick == ASSUME TickTypeOK, UNCHANGED tickVars PROVE TickTypeOK'
BY DEF TickTypeOK, tickVars

LEMMA SameWeb == ASSUME WebTypeOK, UNCHANGED webVars PROVE WebTypeOK'
BY DEF WebTypeOK, webVars

LEMMA ObserveType ==
    ASSUME barred \in [Reason -> SUBSET Keys], Observe
    PROVE  barred' \in [Reason -> SUBSET Keys]
<1>1. AllBarred' \in [Reason -> SUBSET Keys]  BY DEF AllBarred
<1>. QED  BY <1>1 DEF Observe

\* ... which leaves the sync thread's steps only their own variables, ...
LEMMA SyncFrame ==
    ASSUME TypeOK, SyncOnly, CpuTypeOK', TickTypeOK'
    PROVE  TypeOK'
BY SameConf, SameWork, SameScan, SameWeb, ObserveType DEF SyncOnly, TypeOK

LEMMA PlanFrame ==
    ASSUME TypeOK, PlanOnly, TickTypeOK'
    PROVE  TypeOK'
BY SameCpu, SyncFrame DEF PlanOnly, TypeOK

\* ... the workers' and discovery's steps theirs, ...
LEMMA WorkFrame ==
    ASSUME TypeOK, WorkOnly, area' \in [Keys -> Row], snap' \in [Keys -> Snapshot], WorkTypeOK'
    PROVE  TypeOK'
<1>1. ConfTypeOK'  BY DEF WorkOnly, TypeOK, ConfTypeOK
<1>. QED  BY <1>1, SameCpu, SameScan, SameTick, SameWeb, ObserveType DEF WorkOnly, TypeOK

LEMMA ScanFrame ==
    ASSUME TypeOK, ScanOnly,
           area' \in [Keys -> Row], snap' \in [Keys -> Snapshot], scans' \in 0..MaxScans,
           work' \in [Conns -> {"off", "idle", "poll", "apply"}], ScanTypeOK'
    PROVE  TypeOK'
<1>1. ConfTypeOK'  BY DEF ScanOnly, TypeOK, ConfTypeOK
<1>2. WorkTypeOK'  BY DEF ScanOnly, TypeOK, WorkTypeOK
<1>3. WebTypeOK'  BY DEF ScanOnly, TypeOK, WebTypeOK
<1>. QED  BY <1>1, <1>2, <1>3, SameCpu, SameTick, ObserveType DEF ScanOnly, TypeOK

\* ... and the web handlers' theirs.
LEMMA WebFrame ==
    ASSUME TypeOK, WebOnly, CpuTypeOK', ConfTypeOK', handler' \in
               [step : {"free", "confirm", "drop", "delete"}, key : Keys \cup {Vacant}],
           work' \in [Conns -> {"off", "idle", "poll", "apply"}],
           stopping' \in [Conns -> BOOLEAN],
           held' \in [Conns -> BOOLEAN],
           ops' \in 0..MaxOps
    PROVE  TypeOK'
<1>1. WorkTypeOK'  BY DEF WebOnly, TypeOK, WorkTypeOK
<1>2. WebTypeOK'  BY DEF WebOnly, TypeOK, WebTypeOK
<1>. QED  BY <1>1, <1>2, SameScan, SameTick, ObserveType DEF WebOnly, TypeOK
-----------------------------------------------------------------------------
LEMMA InitType == Init => TypeOK
<1>. SUFFICES ASSUME Init PROVE TypeOK  OBVIOUS
<1>1. CpuTypeOK  BY ZeroIsSize DEF Init, CpuInit, CpuTypeOK
<1>2. ConfTypeOK  BY RowFacts DEF Init, ConfTypeOK
<1>3. WorkTypeOK  BY ZeroIsSize DEF Init, WorkTypeOK
<1>4. ScanTypeOK  BY ZeroIsSize DEF Init, ScanTypeOK
<1>5. TickTypeOK  BY RowFacts DEF Init, TickTypeOK, Mode
<1>6. WebTypeOK  BY BudgetAssumption DEF Init, WebTypeOK, NoHandler
<1>7. barred \in [Reason -> SUBSET Keys]  BY DEF Init, AllBarred
<1>. QED  BY <1>1, <1>2, <1>3, <1>4, <1>5, <1>6, <1>7 DEF TypeOK

LEMMA SyncType == ASSUME TypeOK, SyncStep PROVE TypeOK'
<1>1. CASE BeginTick
  <2>1. TickTypeOK'
    BY <1>1 DEF BeginTick, TypeOK, TickTypeOK, Mode
  <2>. QED  BY <2>1, <1>1, PlanFrame DEF BeginTick
<1>2. ASSUME NEW c \in Conns, ListAreas(c) PROVE TypeOK'
  <2>1. rows' \in [Keys -> Row]  BY <1>2 DEF ListAreas, TypeOK, TickTypeOK, ConfTypeOK
  <2>2. TickTypeOK'  BY <2>1, <1>2 DEF ListAreas, TypeOK, TickTypeOK
  <2>. QED  BY <2>2, <1>2, PlanFrame DEF ListAreas
<1>3. ASSUME NEW k \in Keys, PlanArea(k) PROVE TypeOK'
  <2>. DEFINE entry == PlanEntry(listed[ConnOf(k)] = "mirror", rows[k], snap[k], table[k])
  <2>1. entry \in Entry
    BY PlanEntryType DEF TypeOK, TickTypeOK, ConfTypeOK, CpuTypeOK
  <2>2. plan' \in [Keys -> Entry]
    BY <2>1, <1>3 DEF PlanArea, TypeOK, TickTypeOK
  <2>3. rows' \in [Keys -> Row]
    BY <1>3, RowFacts DEF PlanArea, TypeOK, TickTypeOK
  <2>4. TickTypeOK'  BY <2>2, <2>3, <1>3 DEF PlanArea, TypeOK, TickTypeOK
  <2>. QED  BY <2>4, <1>3, PlanFrame DEF PlanArea
<1>4. CASE Survey
  <2>1. listed' \in [Conns -> Mode]  BY <1>4 DEF Survey, Mode
  <2>2. drop' \subseteq Keys /\ queue' \subseteq Keys  BY <1>4 DEF Survey, Registered
  <2>3. TickTypeOK'  BY <2>1, <2>2, <1>4 DEF Survey, TypeOK, TickTypeOK
  <2>. QED  BY <2>3, <1>4, PlanFrame DEF Survey
<1>5. ASSUME NEW k \in Keys, Withdraw(k) PROVE TypeOK'
  <2>1. TickTypeOK'  BY <1>5 DEF Withdraw, TypeOK, TickTypeOK
  <2>2. CpuTypeOK'  BY <1>5, UnregisterType DEF Withdraw, TypeOK
  <2>. QED  BY <2>1, <2>2, <1>5, SyncFrame DEF Withdraw
<1>6. CASE Withdrawn
  <2>1. TickTypeOK'  BY <1>6 DEF Withdrawn, TypeOK, TickTypeOK
  <2>. QED  BY <2>1, <1>6, PlanFrame DEF Withdrawn
<1>7. ASSUME NEW k \in Keys, RegisterEntry(k) PROVE TypeOK'
  <2>1. TickTypeOK'  BY <1>7 DEF RegisterEntry, TypeOK, TickTypeOK
  <2>2. plan[k].size \in Size /\ plan[k].len \in Size  BY DEF TypeOK, TickTypeOK, Entry
  <2>3. CpuTypeOK'  BY <1>7, <2>2, SameCpu, RegisterType DEF RegisterEntry, TypeOK
  <2>. QED  BY <2>1, <2>3, <1>7, SyncFrame DEF RegisterEntry
<1>8. ASSUME NEW k \in Keys, RegisterEntryFails(k) PROVE TypeOK'
  <2>1. TickTypeOK'  BY <1>8 DEF RegisterEntryFails, TypeOK, TickTypeOK
  <2>2. CpuTypeOK'
    BY <1>8, FailsAsUnregister, UnregisterType, SameCpu DEF RegisterEntryFails, TypeOK
  <2>. QED  BY <2>1, <2>2, <1>8, SyncFrame DEF RegisterEntryFails
<1>9. ASSUME NEW k \in Keys, UpdateEntry(k) PROVE TypeOK'
  <2>1. TickTypeOK'  BY <1>9 DEF UpdateEntry, TypeOK, TickTypeOK
  <2>2. plan[k].len \in Size  BY DEF TypeOK, TickTypeOK, Entry
  <2>3. CpuTypeOK'  BY <1>9, <2>2, UpdateType DEF UpdateEntry, TypeOK
  <2>. QED  BY <2>1, <2>3, <1>9, SyncFrame DEF UpdateEntry
<1>10. CASE EndTick
  <2>1. TickTypeOK'  BY <1>10, RowFacts DEF EndTick, TypeOK, TickTypeOK
  <2>. QED  BY <2>1, <1>10, PlanFrame DEF EndTick
<1>. QED
  BY <1>1, <1>2, <1>3, <1>4, <1>5, <1>6, <1>7, <1>8, <1>9, <1>10 DEF SyncStep
LEMMA WorkType == ASSUME TypeOK, WorkStep PROVE TypeOK'
<1>1. ASSUME NEW c \in Conns, StartCycle(c) PROVE TypeOK'
  <2>1. \A k \in Keys : area[k].size \in Size  BY DEF TypeOK, ConfTypeOK, Row
  <2>2. WorkTypeOK'  BY <1>1, <2>1 DEF StartCycle, WorkOnly, TypeOK, WorkTypeOK
  <2>. QED  BY <2>2, <1>1, WorkFrame DEF StartCycle, TypeOK, ConfTypeOK
<1>2. ASSUME NEW k \in Keys, NEW result \in Snapshot, FinishRead(k, result) PROVE TypeOK'
  <2>1. snap' \in [Keys -> Snapshot]  BY <1>2 DEF FinishRead, TypeOK, ConfTypeOK
  <2>2. WorkTypeOK'
    BY <1>2, KeyParts, ZeroIsSize DEF FinishRead, WorkOnly, TypeOK, WorkTypeOK
  <2>. QED  BY <2>1, <2>2, <1>2, WorkFrame DEF FinishRead, TypeOK, ConfTypeOK
<1>3. ASSUME NEW k \in Keys, ReadOk(k) PROVE TypeOK'
  <2>1. Read(reading[k]) \in Snapshot  BY ReadType DEF TypeOK, WorkTypeOK
  <2>. QED  BY <1>2, <1>3, <2>1 DEF ReadOk
<1>4. ASSUME NEW k \in Keys, ReadFails(k) PROVE TypeOK'
  BY <1>2, <1>4, RowFacts DEF ReadFails
<1>5. ASSUME NEW c \in Conns, WorkerExit(c) PROVE TypeOK'
  <2>1. WorkTypeOK'  BY <1>5 DEF WorkerExit, WorkOnly, TypeOK, WorkTypeOK
  <2>. QED  BY <2>1, <1>5, WorkFrame DEF WorkerExit, TypeOK, ConfTypeOK
<1>6. ASSUME NEW k \in Keys, GrowOld(k) PROVE TypeOK'
  <2>1. snap' \in [Keys -> Snapshot]  BY <1>6, RowFacts DEF GrowOld, TypeOK, ConfTypeOK
  <2>2. WorkTypeOK'  BY <1>6, SameWork DEF GrowOld, TypeOK
  <2>. QED  BY <2>1, <2>2, <1>6, WorkFrame DEF GrowOld, TypeOK, ConfTypeOK
<1>. QED  BY <1>1, <1>3, <1>4, <1>5, <1>6 DEF WorkStep

LEMMA ScanType == ASSUME TypeOK, ScanStep PROVE TypeOK'
<1>1. ASSUME NEW c \in Conns, NEW sizes \in [KeysOf(c) -> Size], NEW fatal \in BOOLEAN,
             Discover(c, sizes, fatal)
      PROVE  TypeOK'
  <2>1. \A k \in Keys : ConnOf(k) = c => k \in KeysOf(c)  BY DEF KeysOf
  <2>2. found' \in [Keys -> Size]  BY <1>1, <2>1 DEF Discover, TypeOK, ScanTypeOK
  <2>3. \A k \in Keys : ConnOf(k) = c => ChangeKind(area[k], sizes[k]) \in Kind
    BY <2>1, KindType DEF TypeOK, ConfTypeOK
  <2>4. change' \in [Keys -> Kind \cup {"none"}]
    BY <1>1, <2>3 DEF Discover, TypeOK, ScanTypeOK
  <2>5. asMirror' \in [Conns -> BOOLEAN]
    BY <1>1 DEF Discover, TypeOK, ScanTypeOK, WorkTypeOK
  <2>6. scans' \in 0..MaxScans
    BY <1>1, BudgetAssumption DEF Discover, TypeOK, WebTypeOK
  <2>7. ScanTypeOK'  BY <2>2, <2>4, <2>5, <1>1 DEF Discover, TypeOK, ScanTypeOK
  <2>. QED  BY <2>6, <2>7, <1>1, ScanFrame DEF Discover, TypeOK, ConfTypeOK, WorkTypeOK
<1>2. ASSUME NEW k \in Keys, ApplyChange(k) PROVE TypeOK'
  <2>1. WithStatus(area[k], "missing") \in Row
    BY RowEdits, ZeroIsSize DEF TypeOK, ConfTypeOK, Status
  <2>2. Upsert(area[k], found[k], StatusForKind(change[k]), asMirror[ConnOf(k)]) \in Row
    BY RowEdits, StatusOfKind, KeyParts DEF TypeOK, ConfTypeOK, ScanTypeOK
  <2>3. area' \in [Keys -> Row]
    <3>1. CASE change[k] = "missing"
      BY <1>2, <2>1, <3>1 DEF ApplyChange, TypeOK, ConfTypeOK
    <3>2. CASE change[k] # "missing"
      BY <1>2, <2>2, <3>2 DEF ApplyChange, TypeOK, ConfTypeOK
    <3>. QED  BY <3>1, <3>2
  <2>4. ScanTypeOK'
    BY <1>2, ZeroIsSize DEF ApplyChange, TypeOK, ScanTypeOK
  <2>. QED
    BY <2>3, <2>4, <1>2, ScanFrame DEF ApplyChange, TypeOK, ConfTypeOK, WorkTypeOK, WebTypeOK
<1>3. ASSUME NEW k \in Keys, ExposeAdded(k) PROVE TypeOK'
  <2>1. area' \in [Keys -> Row]
    BY <1>3, RowEdits, ZeroIsSize DEF ExposeAdded, TypeOK, ConfTypeOK, Status
  <2>2. ScanTypeOK'  BY <1>3 DEF ExposeAdded, TypeOK, ScanTypeOK
  <2>. QED
    BY <2>1, <2>2, <1>3, ScanFrame DEF ExposeAdded, TypeOK, ConfTypeOK, WorkTypeOK, WebTypeOK
<1>4. ASSUME NEW c \in Conns, FinishDiscovery(c) PROVE TypeOK'
  <2>1. snap' \in [Keys -> Snapshot]
    BY <1>4, RowFacts DEF FinishDiscovery, TypeOK, ConfTypeOK
  <2>2. ScanTypeOK'  BY <1>4 DEF FinishDiscovery, TypeOK, ScanTypeOK
  <2>. QED
    BY <2>1, <2>2, <1>4, ScanFrame DEF FinishDiscovery, TypeOK, ConfTypeOK, WorkTypeOK, WebTypeOK
<1>. QED  BY <1>1, <1>2, <1>3, <1>4 DEF ScanStep

LEMMA WebType == ASSUME TypeOK, WebStep PROVE TypeOK'
<1>. DEFINE Handlers == [step : {"free", "confirm", "drop", "delete"}, key : Keys \cup {Vacant}]
<1>1. NoHandler \in Handlers
      /\ \A k \in Keys, step \in {"confirm", "drop", "delete"} : At(step, k) \in Handlers
  BY DEF NoHandler, At
<1>2. Spend => ops' \in 0..MaxOps
  BY BudgetAssumption DEF Spend, TypeOK, WebTypeOK
<1>3. ASSUME NEW k \in Keys, NEW exposed \in BOOLEAN, SetExposure(k, exposed) PROVE TypeOK'
  <2>1. ConfTypeOK'
    BY <1>3, RowEdits, ZeroIsSize DEF SetExposure, TypeOK, ConfTypeOK, Status
  <2>. QED
    BY <2>1, <1>2, <1>3, SameCpu, WebFrame DEF SetExposure, TypeOK, WorkTypeOK, crewVars, WebTypeOK
<1>4. ASSUME NEW k \in Keys, ConfirmShape(k) PROVE TypeOK'
  <2>1. ConfTypeOK'
    BY <1>4, RowEdits, ZeroIsSize DEF ConfirmShape, TypeOK, ConfTypeOK, Status
  <2>. QED
    BY <2>1, <1>1, <1>2, <1>4, SameCpu, WebFrame DEF ConfirmShape, TypeOK, WorkTypeOK, crewVars
<1>5. ASSUME NEW k \in Keys, ConfirmUnregisters(k) PROVE TypeOK'
  BY <1>1, <1>5, UnregisterType, SameConf, WebFrame
  DEF ConfirmUnregisters, TypeOK, WorkTypeOK, crewVars, WebTypeOK
<1>6. ASSUME NEW k \in Keys, DeleteArea(k) PROVE TypeOK'
  BY <1>1, <1>2, <1>6, UnregisterType, SameConf, WebFrame DEF DeleteArea, TypeOK, WorkTypeOK, crewVars
<1>7. ASSUME NEW k \in Keys, DeleteDropsSnapshot(k) PROVE TypeOK'
  <2>1. ConfTypeOK'  BY <1>7, RowFacts DEF DeleteDropsSnapshot, TypeOK, ConfTypeOK
  <2>. QED
    BY <2>1, <1>1, <1>7, SameCpu, WebFrame DEF DeleteDropsSnapshot, TypeOK, WorkTypeOK, crewVars, WebTypeOK
<1>8. ASSUME NEW k \in Keys, DeleteDropsRow(k) PROVE TypeOK'
  <2>1. ConfTypeOK'  BY <1>8, RowFacts DEF DeleteDropsRow, TypeOK, ConfTypeOK
  <2>. QED
    BY <2>1, <1>1, <1>8, SameCpu, WebFrame DEF DeleteDropsRow, TypeOK, WorkTypeOK, crewVars, WebTypeOK
<1>9. ASSUME NEW c \in Conns, NEW enabled \in BOOLEAN, NEW mirror \in BOOLEAN,
             EditConnection(c, enabled, mirror)
      PROVE  TypeOK'
  <2>1. ConfTypeOK'  BY <1>9 DEF EditConnection, TypeOK, ConfTypeOK
  <2>. QED
    BY <2>1, <1>2, <1>9, SameCpu, WebFrame DEF EditConnection, TypeOK, WorkTypeOK, crewVars, WebTypeOK
<1>10. ASSUME NEW c \in Conns, ApplyConfig(c) PROVE TypeOK'
  <2>1. /\ work' \in [Conns -> {"off", "idle", "poll", "apply"}]
        /\ stopping' \in [Conns -> BOOLEAN]
        /\ held' \in [Conns -> BOOLEAN]
    BY <1>10 DEF ApplyConfig, TypeOK, WorkTypeOK, ConfTypeOK
  <2>. QED
    BY <2>1, <1>10, SameCpu, SameConf, WebFrame DEF ApplyConfig, TypeOK, WebTypeOK
<1>11. CASE StartServer
  <2>1. CpuTypeOK'  BY <1>11 DEF StartServer, StartCpu, TypeOK, CpuTypeOK
  <2>. QED
    BY <2>1, <1>11, SameConf, WebFrame DEF StartServer, TypeOK, WorkTypeOK, crewVars, WebTypeOK
<1>12. CASE StopServer
  BY <1>2, <1>12, StopType, SameConf, WebFrame DEF StopServer, TypeOK, WorkTypeOK, crewVars, WebTypeOK
<1>. QED
  BY <1>3, <1>4, <1>5, <1>6, <1>7, <1>8, <1>9, <1>10, <1>11, <1>12 DEF WebStep

\* Every value the gateway holds stays one of its kind: sizes of at most
\* MaxSize, statuses the database's CHECK allows, keys that were configured.
THEOREM TypeCorrect == Spec => []TypeOK
<1>1. ASSUME TypeOK, [Next]_vars PROVE TypeOK'
  <2>1. CASE Next  BY <1>1, <2>1, SyncType, WorkType, ScanType, WebType DEF Next
  <2>2. CASE UNCHANGED vars
    <3>1. /\ UNCHANGED cpuVars /\ UNCHANGED confVars /\ UNCHANGED workVars
          /\ UNCHANGED scanVars /\ UNCHANGED tickVars /\ UNCHANGED webVars
          /\ UNCHANGED barred
      BY <2>2 DEF vars, sysVars
    <3>. QED
      BY <1>1, <3>1, SameCpu, SameConf, SameWork, SameScan, SameTick, SameWeb DEF TypeOK
  <2>. QED  BY <1>1, <2>1, <2>2
<1>. QED  BY <1>1, InitType, PTL DEF Spec
-----------------------------------------------------------------------------
(* The invariant of a tick. *)

\* Except where a tick begins, the history only loses keys, and a key it keeps
\* has been barred ever since.
LEMMA HistoryShrinks ==
    ASSUME TypeOK, Observe, ~(pc = "sleep" /\ pc' = "plan"), NEW why \in Reason,
           NEW k \in barred'[why]
    PROVE  k \in Keys /\ k \in barred[why]
BY DEF Observe, AllBarred, TypeOK

LEMMA HistoryHolds == ASSUME Observe, TypeOK PROVE BarredForGood'
<1>1. \A why \in Reason : barred'[why] \subseteq AllBarred'[why]
  BY DEF Observe, AllBarred
<1>2. \A why \in Reason : \A k \in AllBarred'[why] : Holds(why, k)'
  BY DEF AllBarred
<1>. QED  BY <1>1, <1>2 DEF BarredForGood

LEMMA BarredShrinks ==
    ASSUME TypeOK, Observe, ~(pc = "sleep" /\ pc' = "plan"), NEW k, Barred(k)'
    PROVE  k \in Keys /\ Barred(k)
BY HistoryShrinks DEF Barred

LEMMA ReasonNames == Reason = {"disabled", "hidden", "rowless", "unread"}
BY DEF Reason

\* A step of another thread hands the tick nothing and registers nothing.
LEMMA OutsideTick ==
    ASSUME TypeOK, TickInv, Observe, UNCHANGED tickVars,
           \A k \in Keys : table'[k] > 0 => table[k] > 0
    PROVE  TickInv'
<1>1. ~(pc = "sleep" /\ pc' = "plan")  BY DEF tickVars
<1>2. BarredForGood'  BY HistoryHolds
<1>3. ListingInv'
  BY <1>1, HistoryShrinks, ReasonNames DEF ListingInv, TickInv, tickVars, Present
<1>4. PlanInv'  BY <1>1, BarredShrinks DEF PlanInv, TickInv, tickVars, Planned
<1>5. WithdrawInv'  BY <1>1, BarredShrinks DEF WithdrawInv, TickInv, tickVars, Registered
<1>. QED  BY <1>2, <1>3, <1>4, <1>5 DEF TickInv

LEMMA UnregisterOnlyRemoves ==
    ASSUME TypeOK, NEW k \in Keys, Unregister(k)
    PROVE  \A j \in Keys : table'[j] > 0 => table[j] > 0 /\ j # k
BY DEF Unregister, TypeOK, CpuTypeOK

LEMMA InitTick == Init => TickInv
<1>. SUFFICES ASSUME Init PROVE TickInv  OBVIOUS
<1>1. BarredForGood  BY DEF Init, AllBarred, BarredForGood
<1>2. ListingInv  BY RowFacts DEF Init, ListingInv
<1>3. PlanInv  BY RowFacts DEF Init, PlanInv
<1>4. WithdrawInv  BY DEF Init, CpuInit, WithdrawInv, Registered
<1>. QED  BY <1>1, <1>2, <1>3, <1>4 DEF TickInv

LEMMA OthersKeepTick ==
    ASSUME TypeOK, TickInv, WorkStep \/ ScanStep \/ WebStep
    PROVE  TickInv'
<1>1. CASE WorkStep
  <2>1. WorkOnly
    BY <1>1 DEF WorkStep, StartCycle, ReadOk, ReadFails, FinishRead, WorkerExit, GrowOld
  <2>. QED  BY <2>1, OutsideTick DEF WorkOnly, cpuVars
<1>2. CASE ScanStep
  <2>1. ScanOnly
    BY <1>2 DEF ScanStep, Discover, ApplyChange, ExposeAdded, FinishDiscovery
  <2>. QED  BY <2>1, OutsideTick DEF ScanOnly, cpuVars
<1>3. CASE WebStep
  <2>1. WebOnly
    BY <1>3 DEF WebStep, SetExposure, ConfirmShape, ConfirmUnregisters, DeleteArea,
       DeleteDropsSnapshot, DeleteDropsRow, EditConnection, ApplyConfig, StartServer, StopServer
  <2>2. \A k \in Keys : table'[k] > 0 => table[k] > 0
    <3>1. CASE \E k \in Keys : ConfirmUnregisters(k) \/ DeleteArea(k)
      BY <3>1, UnregisterOnlyRemoves DEF ConfirmUnregisters, DeleteArea
    <3>2. CASE StartServer  BY <3>2 DEF StartServer, StartCpu
    <3>3. CASE StopServer  BY <3>3 DEF StopServer, StopCpu
    <3>4. CASE UNCHANGED cpuVars  BY <3>4 DEF cpuVars
    <3>. QED
      BY <1>3, <3>1, <3>2, <3>3, <3>4
      DEF WebStep, SetExposure, ConfirmShape, DeleteDropsSnapshot, DeleteDropsRow,
          EditConnection, ApplyConfig
  <2>. QED  BY <2>1, <2>2, OutsideTick DEF WebOnly
<1>. QED  BY <1>1, <1>2, <1>3
LEMMA SyncKeepsTick == ASSUME TypeOK, TickInv, SyncStep PROVE TickInv'
<1>0. Observe /\ BarredForGood'
  <2>1. Observe
    BY DEF SyncStep, BeginTick, ListAreas, PlanArea, Survey, Withdraw, Withdrawn, RegisterEntry,
       RegisterEntryFails, UpdateEntry, EndTick, PlanOnly, SyncOnly
  <2>. QED  BY <2>1, HistoryHolds
\* The listing starts from the connections as they are.
<1>1. CASE BeginTick
  <2>1. \A why \in Reason : barred'[why] \subseteq Keys
    BY <1>0, <1>1 DEF BeginTick, Observe, AllBarred
  <2>2. \A k \in Keys : ~Present(rows[k]) /\ ~Planned(plan[k])
    BY <1>1 DEF BeginTick, TickInv, ListingInv, PlanInv
  <2>3. \A k \in barred'["disabled"] : ~conn[ConnOf(k)].enabled
    BY <1>0, <1>1, <2>1 DEF BeginTick, PlanOnly, SyncOnly, confVars, Reason, BarredForGood, Holds
  <2>4. \A k \in barred'["hidden"] : ~conn[ConnOf(k)].mirror
    BY <1>0, <1>1, <2>1 DEF BeginTick, PlanOnly, SyncOnly, confVars, Reason, BarredForGood, Holds
  <2>5. ListingInv'
    <3>1. \A k \in barred'["disabled"] : ConnOf(k) \notin unlisted'
      BY <1>1, <2>3 DEF BeginTick
    <3>2. \A k \in barred'["hidden"] : listed'[ConnOf(k)] # "mirror"
      BY <1>1, <2>1, <2>4, KeyParts DEF BeginTick, Reason
    <3>. QED  BY <1>1, <2>2, <3>1, <3>2 DEF BeginTick, ListingInv, Present
  <2>6. PlanInv'  BY <1>1, <2>2 DEF BeginTick, TickInv, PlanInv, Planned
  <2>7. WithdrawInv'  BY <1>1 DEF BeginTick, WithdrawInv
  <2>. QED  BY <1>0, <2>5, <2>6, <2>7 DEF TickInv
\* A listed row exists, on a connection that is enabled, exposed as it says.
<1>2. ASSUME NEW c \in Conns, ListAreas(c) PROVE TickInv'
  <2>1. ~(pc = "sleep" /\ pc' = "plan")  BY <1>2 DEF ListAreas
  <2>2. ASSUME NEW k \in Keys, Present(rows'[k])
        PROVE  ConnOf(k) = c /\ rows'[k] = area[k]
    BY <1>2, <2>2 DEF ListAreas, TypeOK, TickTypeOK
  <2>3. \A k \in barred'["disabled"] : ConnOf(k) \notin unlisted
    BY <1>2, <2>1, HistoryShrinks, <1>0 DEF ListAreas, TickInv, ListingInv, Reason
  <2>4. \A k \in barred'["rowless"] : ~Present(area[k])
    BY <1>0, <1>2 DEF ListAreas, PlanOnly, SyncOnly, confVars, Reason, BarredForGood, Holds
  <2>5. \A k \in barred'["hidden"] : ~area[k].exposed
    BY <1>0, <1>2 DEF ListAreas, PlanOnly, SyncOnly, confVars, Reason, BarredForGood, Holds
  <2>6. ListingInv'
    <3>1. \A k \in barred'["disabled"] : ConnOf(k) \notin unlisted'
      BY <1>2, <2>3 DEF ListAreas
    <3>2. \A k \in barred'["hidden"] : listed'[ConnOf(k)] # "mirror"
      BY <1>0, <1>2, <2>1, HistoryShrinks DEF ListAreas, TickInv, ListingInv, Reason
    <3>3. ASSUME NEW k \in Keys, Present(rows'[k])
          PROVE  /\ k \notin barred'["disabled"] \cup barred'["rowless"]
                 /\ k \in barred'["hidden"] => ~rows'[k].exposed
      BY <1>2, <2>2, <2>3, <2>4, <2>5, <3>3 DEF ListAreas
    <3>4. pc' = "plan"  BY <1>2 DEF ListAreas
    <3>. QED  BY <3>1, <3>2, <3>3, <3>4 DEF ListingInv, Present
  <2>7. PlanInv'
    BY <1>0, <1>2, <2>1, BarredShrinks DEF ListAreas, TickInv, PlanInv, Planned
  <2>8. WithdrawInv'  BY <1>2 DEF ListAreas, WithdrawInv
  <2>. QED  BY <1>0, <2>6, <2>7, <2>8 DEF TickInv
\* A planned area is enabled, visible, listed and read at this moment.
<1>3. ASSUME NEW k \in Keys, PlanArea(k) PROVE TickInv'
  <2>. DEFINE entry == PlanEntry(listed[ConnOf(k)] = "mirror", rows[k], snap[k], table[k])
  <2>1. ~(pc = "sleep" /\ pc' = "plan")  BY <1>3 DEF PlanArea
  <2>2. ASSUME Planned(entry) PROVE ~Barred(k)'
    <3>1. /\ listed[ConnOf(k)] = "mirror" \/ rows[k].exposed
          /\ Fresh(snap[k])
      BY <2>2, PlanEntryMeaning DEF TypeOK, TickTypeOK, ConfTypeOK, CpuTypeOK
    <3>2. k \notin barred["disabled"] \cup barred["rowless"] \cup barred["hidden"]
      BY <1>3, <3>1 DEF PlanArea, TickInv, ListingInv
    <3>3. k \notin barred["unread"]
      BY <3>1 DEF TickInv, BarredForGood, Holds, Reason
    <3>. QED  BY <1>0, <2>1, <3>2, <3>3, HistoryShrinks, ReasonNames DEF Barred
  <2>3. ListingInv'
    <3>1. \A j \in Keys : Present(rows'[j]) => rows'[j] = rows[j]
      BY <1>3, RowFacts DEF PlanArea, TypeOK, TickTypeOK
    <3>2. \A j \in Keys : Present(rows'[j]) => Present(rows[j])
      BY <3>1
    <3>3. pc' = "plan" /\ UNCHANGED <<listed, unlisted>>  BY <1>3 DEF PlanArea
    <3>4. ASSUME NEW j \in Keys, Present(rows'[j])
          PROVE  /\ j \notin barred'["disabled"] \cup barred'["rowless"]
                 /\ j \in barred'["hidden"] => ~rows'[j].exposed
      BY <1>0, <2>1, <3>1, <3>2, <3>4, HistoryShrinks, ReasonNames DEF TickInv, ListingInv
    <3>5. /\ \A j \in barred'["disabled"] : ConnOf(j) \notin unlisted'
          /\ \A j \in barred'["hidden"] : listed'[ConnOf(j)] # "mirror"
      BY <1>0, <1>3, <2>1, <3>3, HistoryShrinks, ReasonNames DEF PlanArea, TickInv, ListingInv
    <3>. QED  BY <3>3, <3>4, <3>5 DEF ListingInv, Present
  <2>4. PlanInv'
    <3>1. \A j \in Keys : plan'[j] = IF j = k THEN entry ELSE plan[j]
      BY <1>3 DEF PlanArea, TypeOK, TickTypeOK
    <3>2. ASSUME NEW j \in Keys, Planned(plan'[j]) PROVE ~Barred(j)'
      BY <1>0, <2>1, <2>2, <3>1, <3>2, BarredShrinks DEF TickInv, PlanInv
    <3>3. pc' = "plan" /\ queue' = {} /\ updating' = {}
      BY <1>3 DEF PlanArea, TickInv, PlanInv
    <3>. QED  BY <3>2, <3>3 DEF PlanInv, Planned
  <2>5. WithdrawInv'  BY <1>3 DEF PlanArea, WithdrawInv
  <2>. QED  BY <1>0, <2>3, <2>4, <2>5 DEF TickInv
\* What is registered and barred is not planned, so it is dropped.
<1>4. CASE Survey
  <2>1. ~(pc = "sleep" /\ pc' = "plan")  BY <1>4 DEF Survey
  <2>2. UNCHANGED <<rows, plan, table, updating>> /\ pc = "plan" /\ pc' = "withdraw"
    BY <1>4 DEF Survey, PlanOnly, cpuVars
  <2>3. ListingInv'  BY <1>4, <2>2 DEF Survey, ListingInv, Present
  <2>4. PlanInv'
    BY <1>0, <1>4, <2>1, <2>2, BarredShrinks DEF Survey, TickInv, PlanInv, Planned
  <2>5. WithdrawInv'
    BY <1>0, <1>4, <2>1, <2>2, BarredShrinks
    DEF Survey, TickInv, PlanInv, WithdrawInv, Registered
  <2>. QED  BY <1>0, <2>3, <2>4, <2>5 DEF TickInv
<1>5. ASSUME NEW k \in Keys, Withdraw(k) PROVE TickInv'
  <2>1. ~(pc = "sleep" /\ pc' = "plan")  BY <1>5 DEF Withdraw
  <2>2. ListingInv'
    BY <1>5 DEF Withdraw, TickInv, ListingInv, Present
  <2>3. PlanInv'
    BY <1>0, <1>5, <2>1, BarredShrinks DEF Withdraw, TickInv, PlanInv, Planned
  <2>4. \A j \in Keys : table'[j] > 0 => table[j] > 0 /\ j # k
    BY <1>5, UnregisterOnlyRemoves DEF Withdraw
  <2>5. WithdrawInv'
    BY <1>0, <1>5, <2>1, <2>4, BarredShrinks DEF Withdraw, TickInv, WithdrawInv, Registered
  <2>. QED  BY <1>0, <2>2, <2>3, <2>5 DEF TickInv
<1>6. CASE Withdrawn
  <2>1. ~(pc = "sleep" /\ pc' = "plan")  BY <1>6 DEF Withdrawn
  <2>2. ListingInv'  BY <1>6 DEF Withdrawn, TickInv, ListingInv, Present
  <2>3. PlanInv'
    BY <1>0, <1>6, <2>1, BarredShrinks DEF Withdrawn, TickInv, PlanInv, Planned
  <2>4. WithdrawInv'
    BY <1>0, <1>6, <2>1, BarredShrinks
    DEF Withdrawn, PlanOnly, cpuVars, TickInv, WithdrawInv, Registered
  <2>. QED  BY <1>0, <2>2, <2>3, <2>4 DEF TickInv
\* Only what is planned is registered.
<1>7. ASSUME NEW k \in Keys, RegisterEntry(k) PROVE TickInv'
  <2>1. ~(pc = "sleep" /\ pc' = "plan")  BY <1>7 DEF RegisterEntry
  <2>2. ListingInv'  BY <1>7 DEF RegisterEntry, TickInv, ListingInv, Present
  <2>3. PlanInv'
    BY <1>0, <1>7, <2>1, BarredShrinks DEF RegisterEntry, TickInv, PlanInv, Planned
  <2>4. ~Barred(k)'
    BY <1>0, <1>7, <2>1, BarredShrinks DEF RegisterEntry, TickInv, PlanInv
  <2>5. \A j \in Keys : j # k => table'[j] = table[j]
    BY <1>7 DEF RegisterEntry, Register, cpuVars, TypeOK, CpuTypeOK
  <2>6. WithdrawInv'
    BY <1>0, <1>7, <2>1, <2>4, <2>5, BarredShrinks
    DEF RegisterEntry, TickInv, WithdrawInv, Registered
  <2>. QED  BY <1>0, <2>2, <2>3, <2>6 DEF TickInv
<1>8. ASSUME NEW k \in Keys, RegisterEntryFails(k) PROVE TickInv'
  <2>1. ~(pc = "sleep" /\ pc' = "plan")  BY <1>8 DEF RegisterEntryFails
  <2>2. ListingInv'  BY <1>8 DEF RegisterEntryFails, TickInv, ListingInv, Present
  <2>3. PlanInv'
    BY <1>0, <1>8, <2>1, BarredShrinks DEF RegisterEntryFails, TickInv, PlanInv, Planned
  <2>4. \A j \in Keys : table'[j] > 0 => table[j] > 0
    BY <1>8, FailsAsUnregister, UnregisterOnlyRemoves DEF RegisterEntryFails, cpuVars
  <2>5. WithdrawInv'
    BY <1>0, <1>8, <2>1, <2>4, BarredShrinks
    DEF RegisterEntryFails, TickInv, WithdrawInv, Registered
  <2>. QED  BY <1>0, <2>2, <2>3, <2>5 DEF TickInv
<1>9. ASSUME NEW k \in Keys, UpdateEntry(k) PROVE TickInv'
  <2>1. ~(pc = "sleep" /\ pc' = "plan")  BY <1>9 DEF UpdateEntry
  <2>2. ListingInv'  BY <1>9 DEF UpdateEntry, TickInv, ListingInv, Present
  <2>3. PlanInv'
    BY <1>0, <1>9, <2>1, BarredShrinks DEF UpdateEntry, TickInv, PlanInv, Planned
  <2>4. WithdrawInv'
    BY <1>0, <1>9, <2>1, BarredShrinks
    DEF UpdateEntry, Update, TickInv, WithdrawInv, Registered
  <2>. QED  BY <1>0, <2>2, <2>3, <2>4 DEF TickInv
<1>10. CASE EndTick
  <2>1. ~(pc = "sleep" /\ pc' = "plan")  BY <1>10 DEF EndTick
  <2>2. ListingInv'  BY <1>10 DEF EndTick, TickInv, ListingInv, Present
  <2>3. PlanInv'  BY <1>10, RowFacts DEF EndTick, PlanInv
  <2>4. WithdrawInv'
    BY <1>0, <1>10, <2>1, BarredShrinks
    DEF EndTick, PlanOnly, cpuVars, TickInv, WithdrawInv, Registered
  <2>. QED  BY <1>0, <2>2, <2>3, <2>4 DEF TickInv
<1>. QED
  BY <1>1, <1>2, <1>3, <1>4, <1>5, <1>6, <1>7, <1>8, <1>9, <1>10 DEF SyncStep

\* Spec's inductive invariant.
THEOREM TickInvariant == Spec => []TickInv
<1>1. ASSUME TypeOK, TickInv, [Next]_vars PROVE TickInv'
  <2>1. CASE Next  BY <1>1, <2>1, SyncKeepsTick, OthersKeepTick DEF Next
  <2>2. CASE UNCHANGED vars
    <3>1. UNCHANGED <<conn, area, snap, table, barred>> /\ UNCHANGED tickVars
      BY <2>2 DEF vars, sysVars, cpuVars, confVars
    <3>2. BarredForGood'  BY <1>1, <3>1 DEF TickInv, BarredForGood, Holds, Fresh, Present
    <3>3. ListingInv'  BY <1>1, <3>1 DEF TickInv, ListingInv, tickVars, Present
    <3>4. PlanInv'  BY <1>1, <3>1 DEF TickInv, PlanInv, tickVars, Planned, Barred
    <3>5. WithdrawInv'  BY <1>1, <3>1 DEF TickInv, WithdrawInv, tickVars, Registered, Barred
    <3>. QED  BY <3>2, <3>3, <3>4, <3>5 DEF TickInv
  <2>. QED  BY <1>1, <2>1, <2>2
<1>. QED  BY <1>1, InitTick, TypeCorrect, PTL DEF Spec

\* When a tick is over nothing stays registered that was barred - disabled,
\* hidden, deleted or without a current read - from before the tick began.
THEOREM WithdrawnAfterTick == Spec => []BarredIsWithdrawn
<1>1. ASSUME TypeOK, TickInv PROVE BarredIsWithdrawn
  <2>. SUFFICES ASSUME pc = "sleep", NEW why \in Reason, NEW k \in barred[why]
                PROVE  table[k] = 0
    BY DEF BarredIsWithdrawn
  <2>1. k \in Keys /\ Barred(k)  BY <1>1 DEF TypeOK, Barred
  <2>2. k \notin Registered  BY <1>1, <2>1 DEF TickInv, WithdrawInv
  <2>. QED  BY <1>1, <2>1, <2>2 DEF Registered, TypeOK, CpuTypeOK, Size
<1>. QED  BY <1>1, TypeCorrect, TickInvariant, PTL

\* Only RegisterEntry makes a registration, and only of an area that is planned.
LEMMA OnlyEntriesAppear ==
    ASSUME TypeOK, TickInv, [Next]_vars, NEW k \in Keys, table[k] = 0, table'[k] > 0
    PROVE  pc = "publish" /\ ~Barred(k)
<1>1. PICK j \in Keys : RegisterEntry(j)
  <2>1. ASSUME WorkStep \/ ScanStep PROVE UNCHANGED cpuVars
    BY <2>1 DEF WorkStep, StartCycle, ReadOk, ReadFails, FinishRead, WorkerExit, GrowOld,
       ScanStep, Discover, ApplyChange, ExposeAdded, FinishDiscovery, WorkOnly, ScanOnly
  <2>2. ASSUME WebStep PROVE table'[k] = 0
    <3>1. CASE \E i \in Keys : ConfirmUnregisters(i) \/ DeleteArea(i)
      BY <3>1 DEF ConfirmUnregisters, DeleteArea, Unregister, TypeOK, CpuTypeOK
    <3>2. CASE StartServer  BY <3>2 DEF StartServer, StartCpu
    <3>3. CASE StopServer  BY <3>3 DEF StopServer, StopCpu
    <3>4. CASE UNCHANGED cpuVars  BY <3>4 DEF cpuVars
    <3>. QED
      BY <2>2, <3>1, <3>2, <3>3, <3>4
      DEF WebStep, SetExposure, ConfirmShape, DeleteDropsSnapshot, DeleteDropsRow,
          EditConnection, ApplyConfig
  <2>3. ASSUME SyncStep, ~\E j \in Keys : RegisterEntry(j) PROVE table'[k] = 0
    <3>1. CASE \E i \in Keys : Withdraw(i) \/ RegisterEntryFails(i)
      BY <3>1, FailsAsUnregister
      DEF Withdraw, RegisterEntryFails, cpuVars, Unregister, TypeOK, CpuTypeOK
    <3>2. CASE UNCHANGED table  BY <3>2
    <3>. QED
      BY <2>3, <3>1, <3>2
      DEF SyncStep, BeginTick, ListAreas, PlanArea, Survey, Withdrawn, UpdateEntry, Update,
          EndTick, PlanOnly, cpuVars
  <2>4. CASE UNCHANGED vars  BY <2>4 DEF vars, sysVars, cpuVars
  <2>. QED  BY <2>1, <2>2, <2>3, <2>4 DEF Next, cpuVars
<1>2. j = k  BY <1>1 DEF RegisterEntry, Register, cpuVars, TypeOK, CpuTypeOK
<1>. QED  BY <1>1, <1>2 DEF RegisterEntry, TickInv, PlanInv

\* No step registers an area that has been barred since before the tick began.
THEOREM NothingBarredIsPublished == Spec => NeverPublishesBarred
<1>1. ASSUME TypeOK, TickInv, [Next]_vars
      PROVE  [\A k \in Keys : table[k] = 0 /\ table'[k] > 0
                  => \A why \in Reason : k \notin barred[why]]_vars
  BY <1>1, OnlyEntriesAppear DEF Barred
<1>. QED  BY <1>1, TypeCorrect, TickInvariant, PTL DEF Spec, NeverPublishesBarred
-----------------------------------------------------------------------------
(* AreaBridge implements Publication. *)

\* Every step observes, and only a tick's first and last step change passing.
LEMMA StepObserves ==
    ASSUME Next
    PROVE  /\ Observe
           /\ BeginTick \/ EndTick \/ (pc' # "sleep" <=> pc # "sleep")
<1>1. CASE SyncStep
  BY <1>1
  DEF SyncStep, BeginTick, ListAreas, PlanArea, Survey, Withdraw, Withdrawn, RegisterEntry,
      RegisterEntryFails, UpdateEntry, EndTick, PlanOnly, SyncOnly
<1>2. CASE WorkStep
  BY <1>2
  DEF WorkStep, StartCycle, ReadOk, ReadFails, FinishRead, WorkerExit, GrowOld, WorkOnly, tickVars
<1>3. CASE ScanStep
  BY <1>3 DEF ScanStep, Discover, ApplyChange, ExposeAdded, FinishDiscovery, ScanOnly, tickVars
<1>4. CASE WebStep
  BY <1>4
  DEF WebStep, SetExposure, ConfirmShape, ConfirmUnregisters, DeleteArea, DeleteDropsSnapshot,
      DeleteDropsRow, EditConnection, ApplyConfig, StartServer, StopServer, WebOnly, tickVars
<1>. QED  BY <1>1, <1>2, <1>3, <1>4 DEF Next

\* A tick is a pass of the abstract specification: its first step begins the
\* pass, its last ends it with nothing shown that was barred, and what any other
\* step newly shows was not barred.
THEOREM ImplementsPublication == Spec => Publishes
<1>1. Init => View!PubInit
  BY DEF Init, CpuInit, View!PubInit, Registered, AllBarred
<1>2. ASSUME TypeOK, TypeOK', TickInv, TickInv', Next PROVE [View!PubNext]_View!pubVars
  <2>0. Observe  BY <1>2, StepObserves
  <2>1. CASE BeginTick
    <3>1. /\ pc = "sleep" /\ pc' # "sleep" /\ Registered' = Registered
          /\ barred' \in [Reason -> SUBSET Keys]
      BY <1>2, <2>1 DEF BeginTick, PlanOnly, cpuVars, Registered, TypeOK
    <3>2. View!Begin  BY <3>1 DEF View!Begin
    <3>. QED  BY <3>2 DEF View!PubNext
  <2>2. ASSUME ~(pc = "sleep" /\ pc' = "plan") PROVE View!StillBarred
    BY <1>2, <2>0, <2>2, HistoryShrinks DEF View!StillBarred
  <2>3. CASE EndTick
    <3>1. pc # "sleep" /\ pc' = "sleep" /\ Registered' = Registered
      BY <2>3 DEF EndTick, PlanOnly, cpuVars, Registered
    <3>2. \A why \in Reason : Registered \cap barred'[why] = {}
      BY <1>2, <3>1 DEF TickInv, WithdrawInv, Barred
    <3>3. View!End  BY <2>2, <3>1, <3>2 DEF View!End
    <3>. QED  BY <3>3 DEF View!PubNext
  <2>4. CASE pc' # "sleep" <=> pc # "sleep"
    <3>1. View!StillBarred  BY <2>2, <2>4
    <3>2. ASSUME NEW k \in Registered', k \notin Registered
          PROVE  pc # "sleep" /\ k \in Keys \ View!AnyBarred
      <4>1. k \in Keys /\ table[k] = 0 /\ table'[k] > 0
        BY <1>2, <3>2 DEF Registered, TypeOK, CpuTypeOK, Size
      <4>2. pc = "publish" /\ ~Barred(k)  BY <1>2, <4>1, OnlyEntriesAppear
      <4>. QED  BY <4>1, <4>2 DEF Barred, View!AnyBarred
    <3>3. View!Change  BY <2>4, <3>1, <3>2 DEF View!Change
    <3>. QED  BY <3>3 DEF View!PubNext
  <2>. QED  BY <1>2, <2>1, <2>3, <2>4, StepObserves
<1>3. ASSUME UNCHANGED vars PROVE UNCHANGED View!pubVars
  BY <1>3 DEF vars, sysVars, cpuVars, tickVars, View!pubVars, Registered
<1>4. ASSUME TypeOK, TypeOK', TickInv, TickInv', [Next]_vars PROVE [View!PubNext]_View!pubVars
  BY <1>2, <1>3, <1>4
<1>. QED
  BY <1>1, <1>4, TypeCorrect, TickInvariant, PTL DEF Spec, Publishes, View!PubSpec
-----------------------------------------------------------------------------
(* The gateway's table and the Snap7 server's, when no two keys share a slot. *)

LEMMA SlotKept ==
    ASSUME CpuTypeOK, TableMatchesServer, UNCHANGED <<table, slot, stranded>>
    PROVE  TableMatchesServer'
BY DEF TableMatchesServer

\* What register_area and unregister_area do at one slot does not touch another.
LEMMA HostsOnly ==
    ASSUME \A i, j \in Keys : SlotOf(i) = SlotOf(j) => i = j,
           CpuTypeOK, NEW k \in Keys, NEW who, Hosts(k, who)
    PROVE  /\ slot'[SlotOf(k)] = who /\ k \notin stranded'
           /\ \A j \in Keys \ {k} : /\ slot'[SlotOf(j)] = slot[SlotOf(j)]
                                    /\ j \in stranded' <=> j \in stranded
<1>1. \A j \in Keys : SlotOf(j) \in Blocks  BY KeyParts
<1>2. \A j \in Keys \ {k} : SlotOf(j) # SlotOf(k)  OBVIOUS
<1>. QED  BY <1>1, <1>2 DEF Hosts, CpuTypeOK

LEMMA UnregisterKeepsSlots ==
    ASSUME \A i, j \in Keys : SlotOf(i) = SlotOf(j) => i = j,
           CpuTypeOK, TableMatchesServer, NEW k \in Keys, Unregister(k)
    PROVE  TableMatchesServer'
<1>1. k # Vacant  BY VacantAssumption
<1>2. /\ table' = [table EXCEPT ![k] = 0] /\ table'[k] = 0
      /\ \A j \in Keys \ {k} : table'[j] = table[j]
  BY DEF Unregister, CpuTypeOK
<1>3. CASE table[k] > 0 /\ Hosts(k, Vacant)
  BY <1>1, <1>2, <1>3, HostsOnly DEF TableMatchesServer
<1>4. CASE table[k] > 0 /\ Strands(k)
  <2>1. slot' = slot /\ stranded' = stranded \cup {k}
    BY <1>4 DEF Strands, TableMatchesServer
  <2>. QED  BY <1>2, <1>4, <2>1 DEF TableMatchesServer
<1>5. CASE ~(table[k] > 0)
  <2>1. UNCHANGED <<slot, stranded>>  BY <1>5 DEF Unregister
  <2>. QED  BY <1>2, <1>5, <2>1 DEF TableMatchesServer, CpuTypeOK, Size
<1>. QED  BY <1>3, <1>4, <1>5 DEF Unregister

LEMMA RegisterKeepsSlots ==
    ASSUME \A i, j \in Keys : SlotOf(i) = SlotOf(j) => i = j,
           CpuTypeOK, TableMatchesServer,
           NEW k \in Keys, NEW n \in Size, n > 0, NEW len \in Size, Register(k, n, len)
    PROVE  TableMatchesServer'
<1>1. Hosts(k, k)  BY DEF Register
<1>2. table'[k] > 0 /\ \A j \in Keys \ {k} : table'[j] = table[j]
  BY DEF Register, CpuTypeOK
<1>. QED  BY <1>1, <1>2, HostsOnly DEF TableMatchesServer

\* As long as no two connections map an area to the same slot, DeviceWise can
\* read exactly what the gateway's table says is registered and what Snap7 would
\* not give up when it was asked to, whatever runs between register, unregister
\* and stop.
THEOREM SlotsFollowTable ==
    ASSUME \A i, j \in Keys : SlotOf(i) = SlotOf(j) => i = j
    PROVE  Spec => []TableMatchesServer
<1>1. Init => TableMatchesServer
  BY VacantAssumption, KeyParts DEF Init, CpuInit, TableMatchesServer
<1>2. ASSUME TypeOK, TickInv, TableMatchesServer, [Next]_vars PROVE TableMatchesServer'
  <2>. USE <1>2
  <2>0. CpuTypeOK  BY DEF TypeOK
  <2>1. ASSUME NEW k \in Keys, Unregister(k) PROVE TableMatchesServer'
    BY <2>0, <2>1, UnregisterKeepsSlots
  <2>2. ASSUME UNCHANGED <<table, slot, stranded>> PROVE TableMatchesServer'
    BY <2>0, <2>2, SlotKept
  <2>3. CASE WorkStep \/ ScanStep
    <3>1. UNCHANGED <<table, slot, stranded>>
      BY <2>3 DEF WorkStep, StartCycle, ReadOk, ReadFails, FinishRead, WorkerExit, GrowOld,
         ScanStep, Discover, ApplyChange, ExposeAdded, FinishDiscovery, WorkOnly, ScanOnly,
         cpuVars
    <3>. QED  BY <2>2, <3>1
  <2>4. CASE WebStep
    <3>1. CASE \E k \in Keys : ConfirmUnregisters(k) \/ DeleteArea(k)
      BY <2>1, <3>1 DEF ConfirmUnregisters, DeleteArea
    <3>2. CASE StartServer  BY <2>2, <3>2 DEF StartServer, StartCpu
    <3>3. CASE StopServer
      <4>1. stranded' = {} /\ \A k \in Keys : ~(table'[k] > 0) /\ slot'[SlotOf(k)] = Vacant
        BY <3>3, KeyParts DEF StopServer, StopCpu
      <4>. QED  BY <4>1, VacantAssumption DEF TableMatchesServer
    <3>4. CASE UNCHANGED cpuVars  BY <2>2, <3>4 DEF cpuVars
    <3>. QED
      BY <2>4, <3>1, <3>2, <3>3, <3>4
      DEF WebStep, SetExposure, ConfirmShape, DeleteDropsSnapshot, DeleteDropsRow,
          EditConnection, ApplyConfig
  <2>5. CASE SyncStep
    <3>1. CASE \E k \in Keys : Withdraw(k) \/ RegisterEntryFails(k)
      BY <2>1, <2>2, <3>1, FailsAsUnregister DEF Withdraw, RegisterEntryFails, cpuVars
    <3>2. ASSUME NEW k \in Keys, RegisterEntry(k) PROVE TableMatchesServer'
      <4>1. plan[k].size \in Size /\ plan[k].len \in Size  BY DEF TypeOK, TickTypeOK, Entry
      <4>2. plan[k].size > 0  BY <3>2 DEF RegisterEntry, TickInv, PlanInv, Planned
      <4>3. CASE Register(k, plan[k].size, plan[k].len)
        BY <2>0, <4>1, <4>2, <4>3, RegisterKeepsSlots
      <4>4. CASE UNCHANGED cpuVars  BY <2>2, <4>4 DEF cpuVars
      <4>. QED  BY <3>2, <4>3, <4>4 DEF RegisterEntry
    <3>3. CASE UNCHANGED <<table, slot, stranded>>  BY <2>2, <3>3
    <3>. QED
      BY <2>5, <3>1, <3>2, <3>3
      DEF SyncStep, BeginTick, ListAreas, PlanArea, Survey, Withdrawn, UpdateEntry, Update,
          EndTick, PlanOnly, cpuVars
  <2>6. CASE UNCHANGED vars  BY <2>2, <2>6 DEF vars, sysVars, cpuVars
  <2>. QED  BY <2>3, <2>4, <2>5, <2>6 DEF Next
<1>. QED  BY <1>1, <1>2, TypeCorrect, TickInvariant, PTL DEF Spec
-----------------------------------------------------------------------------
(* What a finished tick leaves behind. *)

\* Another thread may take a registration away; one it leaves, it leaves as is.
LEMMA OutsideSettle ==
    ASSUME SettleInv, UNCHANGED tickVars, running' = running \/ Registered = {} \/ Registered' = {},
           TypeOK, \A k \in Keys : table'[k] \in Size,
           \A k \in Keys : table'[k] > 0 => table'[k] = table[k] /\ real'[k] = real[k]
    PROVE  SettleInv'
<1>1. \A k \in Registered' : k \in Registered /\ table'[k] = table[k] /\ real'[k] = real[k]
  BY DEF Registered
<1>2. \A k \in Keys : table'[k] <= MaxArea
  BY MaxAreaAssumption DEF SettleInv, Size
<1>3. ~running' => Registered' = {}  BY <1>1 DEF SettleInv
<1>. QED  BY <1>1, <1>2, <1>3 DEF SettleInv, tickVars

LEMMA UnregisterSpares ==
    ASSUME CpuTypeOK, NEW k \in Keys, Unregister(k)
    PROVE  \A j \in Keys :
               /\ table'[j] <= table[j]
               /\ table'[j] > 0 => j # k /\ table'[j] = table[j] /\ real'[j] = real[j]
BY DEF Unregister, CpuTypeOK, Size

LEMMA OthersKeepSettle ==
    ASSUME TypeOK, SettleInv, WorkStep \/ ScanStep \/ WebStep
    PROVE  SettleInv'
<1>1. UNCHANGED tickVars
  BY DEF WorkStep, StartCycle, ReadOk, ReadFails, FinishRead, WorkerExit, GrowOld, WorkOnly,
     ScanStep, Discover, ApplyChange, ExposeAdded, FinishDiscovery, ScanOnly,
     WebStep, SetExposure, ConfirmShape, ConfirmUnregisters, DeleteArea, DeleteDropsSnapshot,
     DeleteDropsRow, EditConnection, ApplyConfig, StartServer, StopServer, WebOnly
<1>2. \A k \in Keys : table'[k] > 0 => table'[k] = table[k] /\ real'[k] = real[k]
  <2>1. CASE WorkStep \/ ScanStep
    <3>1. UNCHANGED cpuVars
      BY <2>1 DEF WorkStep, StartCycle, ReadOk, ReadFails, FinishRead, WorkerExit, GrowOld,
         WorkOnly, ScanStep, Discover, ApplyChange, ExposeAdded, FinishDiscovery, ScanOnly
    <3>. QED  BY <3>1 DEF cpuVars
  <2>2. CASE \E k \in Keys : ConfirmUnregisters(k) \/ DeleteArea(k)
    BY <2>2, UnregisterSpares DEF ConfirmUnregisters, DeleteArea, TypeOK
  <2>3. CASE StartServer  BY <2>3 DEF StartServer, StartCpu
  <2>4. CASE StopServer  BY <2>4 DEF StopServer, StopCpu
  <2>5. CASE UNCHANGED cpuVars  BY <2>5 DEF cpuVars
  <2>. QED
    BY <2>1, <2>2, <2>3, <2>4, <2>5
    DEF WebStep, SetExposure, ConfirmShape, DeleteDropsSnapshot, DeleteDropsRow, EditConnection,
        ApplyConfig
<1>3. \A k \in Keys : table'[k] \in Size
  BY WorkType, ScanType, WebType DEF TypeOK, CpuTypeOK
<1>4. running' = running \/ Registered = {} \/ Registered' = {}
  <2>1. CASE StartServer  BY <2>1 DEF StartServer, StartCpu, SettleInv
  <2>2. CASE StopServer
    <3>1. \A k \in Keys : ~(table'[k] > 0)  BY <2>2 DEF StopServer, StopCpu
    <3>. QED  BY <3>1 DEF Registered
  <2>3. CASE UNCHANGED running  BY <2>3
  <2>. QED
    BY <2>1, <2>2, <2>3
    DEF WorkStep, StartCycle, ReadOk, ReadFails, FinishRead, WorkerExit, GrowOld, WorkOnly,
        ScanStep, Discover, ApplyChange, ExposeAdded, FinishDiscovery, ScanOnly,
        WebStep, SetExposure, ConfirmShape, ConfirmUnregisters, DeleteArea, DeleteDropsSnapshot,
        DeleteDropsRow, EditConnection, ApplyConfig, Unregister, cpuVars
<1>. QED  BY <1>1, <1>2, <1>3, <1>4, OutsideSettle

\* The steps that only plan leave the virtual CPU as it is.
LEMMA SameRegistered ==
    ASSUME UNCHANGED cpuVars
    PROVE  /\ Registered' = Registered /\ UNCHANGED <<running, table, real>>
           /\ SettleInv => (~running' => Registered' = {})
<1>1. UNCHANGED <<running, table, real>>  BY DEF cpuVars
<1>2. Registered' = Registered  BY <1>1 DEF Registered
<1>3. ASSUME SettleInv, ~running' PROVE Registered' = {}
  BY <1>1, <1>2, <1>3 DEF SettleInv
<1>. QED  BY <1>1, <1>2, <1>3

LEMMA SyncKeepsSettle ==
    ASSUME TypeOK, TickInv, SettleInv, SyncStep
    PROVE  SettleInv'
<1>1. CASE BeginTick
  BY <1>1, SameRegistered DEF BeginTick, PlanOnly, SettleInv, PlanInv, TickInv
<1>2. ASSUME NEW c \in Conns, ListAreas(c) PROVE SettleInv'
  BY <1>2, SameRegistered DEF ListAreas, PlanOnly, SettleInv
<1>3. ASSUME NEW k \in Keys, PlanArea(k) PROVE SettleInv'
  <2>. DEFINE entry == PlanEntry(listed[ConnOf(k)] = "mirror", rows[k], snap[k], table[k])
  <2>1. entry.len <= entry.size
    BY PlanEntryType DEF TypeOK, TickTypeOK, ConfTypeOK, CpuTypeOK
  <2>2. \A j \in Keys : plan'[j].len <= plan'[j].size
    <3>. HIDE DEF entry
    <3>1. plan' = [plan EXCEPT ![k] = entry]  BY <1>3 DEF PlanArea, entry
    <3>. QED  BY <2>1, <3>1 DEF TypeOK, TickTypeOK, SettleInv
  <2>3. updating = {} /\ updating' = {}  BY <1>3 DEF PlanArea, TickInv, PlanInv
  <2>. QED  BY <1>3, <2>2, <2>3, SameRegistered DEF PlanArea, PlanOnly, SettleInv
<1>4. CASE Survey
  <2>1. updating' = {} /\ UNCHANGED <<running, table, plan>> /\ pc' = "withdraw"
    BY <1>4 DEF Survey, PlanOnly, cpuVars, TickInv, PlanInv
  <2>2. \A k \in Registered' : k \in drop' \/ k \in queue'
    BY <1>4, <2>1 DEF Survey, Registered
  <2>. QED  BY <1>4, <2>1, <2>2, SameRegistered DEF Survey, PlanOnly, SettleInv
<1>5. ASSUME NEW k \in Keys, Withdraw(k) PROVE SettleInv'
  <2>1. /\ \A j \in Registered' : j \in Registered /\ j # k
        /\ \A j \in Keys : table'[j] <= table[j]
    BY <1>5, UnregisterSpares DEF Withdraw, TypeOK, Registered
  <2>2. \A j \in Keys : table'[j] <= MaxArea
    <3>1. CpuTypeOK'  BY <1>5, UnregisterType DEF Withdraw, TypeOK
    <3>. QED  BY <2>1, <3>1, MaxAreaAssumption DEF TypeOK, CpuTypeOK, Size, SettleInv
  <2>3. running' = running  BY <1>5 DEF Withdraw, Unregister
  <2>. QED  BY <1>5, <2>1, <2>2, <2>3 DEF Withdraw, SettleInv
<1>6. CASE Withdrawn
  BY <1>6, SameRegistered DEF Withdrawn, PlanOnly, SettleInv
<1>7. ASSUME NEW k \in Keys, RegisterEntry(k) PROVE SettleInv'
  <2>1. /\ table'[k] = plan[k].size /\ plan[k].size <= MaxArea /\ UNCHANGED running
        /\ \A j \in Keys \ {k} : table'[j] = table[j] /\ real'[j] = real[j]
    <3>1. CASE UNCHANGED cpuVars /\ table[k] = plan[k].size
      <4>1. table[k] <= MaxArea  BY DEF SettleInv
      <4>. QED  BY <3>1, <4>1 DEF cpuVars
    <3>2. CASE Register(k, plan[k].size, plan[k].len)
      BY <3>2 DEF Register, TypeOK, CpuTypeOK
    <3>. QED  BY <1>7, <3>1, <3>2 DEF RegisterEntry
  <2>2. ASSUME NEW j \in Registered' \ queue'
        PROVE  \/ plan'[j].size > MaxArea
               \/ table'[j] = plan'[j].size /\ (j \in updating' \/ real'[j] = plan'[j].len)
    <3>1. CASE j = k  BY <1>7, <2>1, <3>1 DEF RegisterEntry
    <3>2. CASE j # k
      <4>1. j \in Registered \ queue /\ j \notin updating
        BY <1>7, <2>1, <3>2 DEF RegisterEntry, Registered
      <4>. QED  BY <1>7, <2>1, <3>2, <4>1 DEF RegisterEntry, SettleInv, Registered
    <3>. QED  BY <3>1, <3>2
  <2>3. \A j \in Keys : table'[j] <= MaxArea  BY <2>1 DEF SettleInv
  <2>4. updating' = {k} /\ UNCHANGED plan /\ pc' = "publish"  BY <1>7 DEF RegisterEntry
  <2>5. ~running' => Registered' = {}
    <3>1. CASE UNCHANGED cpuVars  BY <3>1, SameRegistered
    <3>2. CASE Register(k, plan[k].size, plan[k].len)  BY <3>2 DEF Register
    <3>. QED  BY <1>7, <3>1, <3>2 DEF RegisterEntry
  <2>. QED  BY <2>1, <2>2, <2>3, <2>4, <2>5 DEF SettleInv
\* Refused at once, the area was planned at a size out of range, or there was
\* nothing registered; else the registration has gone.
<1>8. ASSUME NEW k \in Keys, RegisterEntryFails(k) PROVE SettleInv'
  <2>1. /\ \A j \in Registered' : /\ j \in Registered /\ table'[j] = table[j] /\ real'[j] = real[j]
                                  /\ j # k \/ plan[k].size > MaxArea
        /\ \A j \in Keys : table'[j] <= table[j] /\ table[j] <= MaxArea
        /\ UNCHANGED running
    <3>1. CASE UNCHANGED cpuVars
      <4>1. UNCHANGED <<running, table, real>> /\ Registered' = Registered
        BY <3>1, SameRegistered
      <4>2. plan[k].size > MaxArea \/ ~running \/ Unregister(k)
        BY <1>8 DEF RegisterEntryFails, RegisterFails
      <4>3. Unregister(k) => k \notin Registered'
        BY UnregisterSpares DEF TypeOK, Registered
      <4>4. \A j \in Keys : table'[j] <= table[j]
        BY <4>1 DEF TypeOK, CpuTypeOK, Size
      <4>. QED  BY <4>1, <4>2, <4>3, <4>4 DEF SettleInv
    <3>2. CASE Unregister(k)
      <4>1. UNCHANGED running  BY <3>2 DEF Unregister
      <4>. QED  BY <3>2, <4>1, UnregisterSpares DEF TypeOK, Registered, SettleInv
    <3>. QED  BY <1>8, <3>1, <3>2, FailsAsUnregister DEF RegisterEntryFails
  <2>2. \A j \in Keys : table'[j] <= MaxArea
    <3>1. CpuTypeOK'  BY <1>8, SyncType DEF SyncStep, TypeOK
    <3>. QED  BY <2>1, <3>1, MaxAreaAssumption DEF TypeOK, CpuTypeOK, Size
  <2>3. /\ pc = "publish" /\ pc' = "publish" /\ UNCHANGED <<plan, updating>>
        /\ queue' = queue \ {k}
    BY <1>8 DEF RegisterEntryFails
  <2>4. ASSUME NEW j \in Registered' \ queue'
        PROVE  \/ plan[j].size > MaxArea
               \/ table'[j] = plan[j].size /\ (j \in updating \/ real'[j] = plan[j].len)
    <3>1. j = k \/ j \notin queue  BY <2>3
    <3>. QED  BY <2>1, <2>3, <3>1 DEF SettleInv
  <2>. QED  BY <2>1, <2>2, <2>3, <2>4 DEF SettleInv
<1>9. ASSUME NEW k \in Keys, UpdateEntry(k) PROVE SettleInv'
  <2>1. UNCHANGED <<running, table>>  BY <1>9 DEF UpdateEntry, Update
  <2>2. \A j \in Keys \ {k} : real'[j] = real[j]
    BY <1>9 DEF UpdateEntry, Update, TypeOK, CpuTypeOK
  <2>3. /\ plan[k].len \in Size /\ plan[k].size \in Size /\ plan[k].len <= plan[k].size
        /\ ~(plan[k].size > MaxArea)
    BY <1>9, MaxAreaAssumption DEF UpdateEntry, TypeOK, TickTypeOK, Entry, SettleInv, Size
  <2>4. k \in Registered /\ k \notin queue => real'[k] = plan[k].len
    <3>1. ASSUME k \in Registered, k \notin queue PROVE Smaller(plan[k].len, table[k]) = plan[k].len
      <4>1. table[k] = plan[k].size  BY <1>9, <2>3, <3>1 DEF UpdateEntry, SettleInv
      <4>. QED  BY <2>3, <4>1 DEF Smaller, Size
    <3>. QED  BY <1>9, <3>1 DEF UpdateEntry, Update, TypeOK, CpuTypeOK, Registered
  <2>5. ASSUME NEW j \in Registered' \ queue'
        PROVE  \/ plan'[j].size > MaxArea
               \/ table'[j] = plan'[j].size /\ real'[j] = plan'[j].len
    <3>1. j \in Registered \ queue  BY <1>9, <2>1 DEF UpdateEntry, Registered
    <3>2. CASE plan[j].size > MaxArea  BY <1>9, <3>2 DEF UpdateEntry
    <3>3. CASE ~(plan[j].size > MaxArea)
      <4>1. table[j] = plan[j].size  BY <1>9, <3>1, <3>3 DEF UpdateEntry, SettleInv
      <4>2. j # k => j \notin updating  BY <1>9 DEF UpdateEntry, SettleInv
      <4>3. real'[j] = plan[j].len
        BY <1>9, <2>2, <2>4, <3>1, <3>3, <4>2 DEF UpdateEntry, SettleInv, Registered
      <4>. QED  BY <1>9, <2>1, <4>1, <4>3 DEF UpdateEntry
    <3>. QED  BY <3>2, <3>3
  <2>6. ~running' => Registered' = {}  BY <2>1 DEF SettleInv, Registered
  <2>. QED  BY <1>9, <2>1, <2>5, <2>6 DEF UpdateEntry, SettleInv
<1>10. CASE EndTick
  <2>1. \A k \in Keys : plan'[k].len <= plan'[k].size
    BY <1>10 DEF EndTick, NoEntry
  <2>2. updating' = {} /\ pc' = "sleep"  BY <1>10 DEF EndTick
  <2>. QED  BY <1>10, <2>1, <2>2, SameRegistered DEF EndTick, PlanOnly, SettleInv
<1>. QED
  BY <1>1, <1>2, <1>3, <1>4, <1>5, <1>6, <1>7, <1>8, <1>9, <1>10 DEF SyncStep

\* A finished tick leaves each registration with the size and the bytes it was
\* planned with, whatever the operator, a rescan or a refusal took away meanwhile;
\* only an area planned at a size that register refuses at once keeps another.
THEOREM TickSettles == Spec => []SettledAsPlanned
<1>1. Init => SettleInv
  BY MaxAreaAssumption DEF Init, CpuInit, SettleInv, NoEntry, Registered
<1>2. ASSUME TypeOK, TickInv, SettleInv, [Next]_vars PROVE SettleInv'
  <2>1. CASE Next  BY <1>2, <2>1, SyncKeepsSettle, OthersKeepSettle DEF Next
  <2>2. CASE UNCHANGED vars
    <3>1. \A k \in Keys : table'[k] \in Size
      BY <1>2, <2>2 DEF vars, sysVars, cpuVars, TypeOK, CpuTypeOK
    <3>. QED  BY <1>2, <2>2, <3>1, OutsideSettle DEF vars, sysVars, cpuVars
  <2>. QED  BY <1>2, <2>1, <2>2
<1>3. TypeOK /\ SettleInv => SettledAsPlanned
  <2>. SUFFICES ASSUME TypeOK, SettleInv, pc = "publish", queue = {}, updating = {},
                       NEW k \in Registered
                PROVE  /\ table[k] = plan[k].size \/ plan[k].size > MaxArea
                       /\ table[k] = plan[k].size => real[k] = plan[k].len
                       /\ table[k] <= MaxArea
    BY DEF SettledAsPlanned
  <2>1. k \in Keys /\ k \in Registered \ queue  BY DEF Registered
  <2>2. table[k] <= MaxArea  BY <2>1 DEF SettleInv
  <2>3. table[k] \in Nat /\ plan[k].size \in Nat
    BY <2>1 DEF TypeOK, CpuTypeOK, TickTypeOK, Entry, Size
  <2>4. plan[k].size > MaxArea \/ (table[k] = plan[k].size /\ real[k] = plan[k].len)
    BY <2>1 DEF SettleInv
  <2>. QED  BY <2>2, <2>3, <2>4, MaxAreaAssumption
<1>. QED  BY <1>1, <1>2, <1>3, TypeCorrect, TickInvariant, PTL DEF Spec

-----------------------------------------------------------------------------
(* Exposure. *)

LEMMA ScanKept ==
    ASSUME ScanInv, UNCHANGED <<scanVars, work, reading>>
    PROVE  ScanInv'
BY DEF ScanInv, scanVars

LEMMA ScanInvStep == ASSUME TypeOK, ScanInv, [Next]_vars PROVE ScanInv'
<1>0. \A k \in Keys : ConnOf(k) \in Conns /\ k \in KeysOf(ConnOf(k))  BY KeyParts DEF KeysOf
<1>1. CASE SyncStep
  BY <1>1, ScanKept
  DEF SyncStep, BeginTick, ListAreas, PlanArea, Survey, Withdraw, Withdrawn, RegisterEntry,
      RegisterEntryFails, UpdateEntry, EndTick, PlanOnly, SyncOnly, workVars, crewVars
<1>2. CASE WorkStep
  <2>1. ASSUME NEW c \in Conns, StartCycle(c) PROVE ScanInv'
    <3>1. work[c] = "idle" /\ work' = [work EXCEPT ![c] = "poll"] /\ UNCHANGED scanVars
          /\ reading' = [k \in Keys |->
                 IF ConnOf(k) = c /\ Pollable(k, area[k]) THEN area[k].size ELSE reading[k]]
      BY <2>1 DEF StartCycle, WorkOnly
    <3>2. \A k \in Keys : ConnOf(k) # c => reading'[k] = reading[k]  BY <3>1
    <3>. QED  BY <1>0, <3>1, <3>2 DEF ScanInv, scanVars, TypeOK, WorkTypeOK
  <2>2. ASSUME NEW k \in Keys, NEW result, FinishRead(k, result) PROVE ScanInv'
    <3>. DEFINE c == ConnOf(k)
                rest == {j \in KeysOf(c) : reading[j] > 0 /\ j # k /\ ~stopping[c]}
    <3>1. /\ reading[k] > 0
          /\ reading' = [j \in Keys |-> IF ConnOf(j) = c /\ j \notin rest THEN 0 ELSE reading[j]]
          /\ work' = IF rest = {} THEN [work EXCEPT ![c] = "idle"] ELSE work
          /\ UNCHANGED scanVars
      BY <2>2 DEF FinishRead, WorkOnly
    <3>2. work[c] = "poll"  BY <3>1 DEF ScanInv
    <3>3. c \in Conns  BY <1>0
    <3>. HIDE DEF rest, c
    <3>4. \A j \in Keys : ConnOf(j) # c => work'[ConnOf(j)] = work[ConnOf(j)]
      BY <3>1 DEF TypeOK, WorkTypeOK
    <3>5. \A j \in Keys : reading'[j] > 0 => reading[j] > 0 /\ (ConnOf(j) = c => rest # {})
      BY <3>1
    <3>6. \A j \in Keys : reading'[j] > 0 => work'[ConnOf(j)] = "poll"
      BY <3>1, <3>2, <3>4, <3>5 DEF ScanInv
    <3>7. \A j \in Keys : change[j] # "none" \/ j \in adding => ConnOf(j) # c
      BY <3>2 DEF ScanInv
    <3>. QED  BY <3>1, <3>4, <3>6, <3>7 DEF ScanInv, scanVars
  <2>3. ASSUME NEW c \in Conns, WorkerExit(c) PROVE ScanInv'
    BY <1>0, <2>3 DEF WorkerExit, WorkOnly, ScanInv, scanVars, TypeOK, WorkTypeOK
  <2>4. ASSUME NEW k \in Keys, GrowOld(k) PROVE ScanInv'
    BY <2>4, ScanKept DEF GrowOld, WorkOnly, workVars, crewVars
  <2>. QED  BY <1>2, <2>1, <2>2, <2>3, <2>4 DEF WorkStep, ReadOk, ReadFails
<1>3. CASE ScanStep
  <2>1. ASSUME NEW c \in Conns, NEW sizes \in [KeysOf(c) -> Size], NEW fatal \in BOOLEAN,
               Discover(c, sizes, fatal)
        PROVE  ScanInv'
    <3>1. /\ work[c] = "idle" /\ work' = [work EXCEPT ![c] = "apply"]
          /\ asMirror' = [asMirror EXCEPT ![c] = held[c]]
          /\ UNCHANGED <<adding, reading>>
      BY <2>1 DEF Discover, ScanOnly
    <3>2. \A k \in Keys : ConnOf(k) # c => change'[k] = change[k]
      BY <2>1 DEF Discover
    <3>. QED  BY <1>0, <3>1, <3>2 DEF ScanInv, TypeOK, WorkTypeOK, ScanTypeOK
  <2>2. ASSUME NEW k \in Keys, ApplyChange(k) PROVE ScanInv'
    <3>1. /\ work[ConnOf(k)] = "apply"
          /\ change' = [change EXCEPT ![k] = "none"]
          /\ \A j \in adding' : j \in adding \/ (j = k /\ asMirror[ConnOf(k)])
          /\ UNCHANGED <<work, asMirror, reading>>
      BY <2>2 DEF ApplyChange, ScanOnly, ScanInv
    <3>. QED  BY <3>1 DEF ScanInv, TypeOK, ScanTypeOK
  <2>3. ASSUME NEW k \in Keys, ExposeAdded(k) PROVE ScanInv'
    BY <2>3 DEF ExposeAdded, ScanOnly, ScanInv
  <2>4. ASSUME NEW c \in Conns, FinishDiscovery(c) PROVE ScanInv'
    <3>1. /\ \A k \in KeysOf(c) : change[k] = "none" /\ k \notin adding
          /\ work[c] = "apply" /\ work' = [work EXCEPT ![c] = "idle"]
          /\ asMirror' = [asMirror EXCEPT ![c] = FALSE]
          /\ UNCHANGED <<adding, change, reading>>
      BY <2>4 DEF FinishDiscovery, ScanOnly
    <3>. QED  BY <1>0, <3>1 DEF ScanInv, TypeOK, WorkTypeOK, ScanTypeOK
  <2>. QED  BY <1>3, <2>1, <2>2, <2>3, <2>4 DEF ScanStep
<1>4. CASE WebStep
  <2>1. ASSUME NEW c \in Conns, ApplyConfig(c) PROVE ScanInv'
    BY <1>0, <2>1 DEF ApplyConfig, WebOnly, ScanInv, scanVars, TypeOK, WorkTypeOK
  <2>2. ASSUME UNCHANGED crewVars, WebOnly PROVE ScanInv'
    BY <2>2, ScanKept DEF crewVars, WebOnly
  <2>. QED
    BY <1>4, <2>1, <2>2
    DEF WebStep, SetExposure, ConfirmShape, ConfirmUnregisters, DeleteArea, DeleteDropsSnapshot,
        DeleteDropsRow, EditConnection, StartServer, StopServer
<1>5. CASE UNCHANGED vars
  BY <1>5, ScanKept DEF vars, sysVars, workVars, crewVars
<1>. QED  BY <1>1, <1>2, <1>3, <1>4, <1>5 DEF Next

\* An area becomes visible to DeviceWise's enumeration by a deliberate act: the
\* operator's, or, under Mirror All, the insertion of a row that was not there and
\* the second look at that row.
THEOREM ExposedDeliberately == Spec => ExposureIsDeliberate
<1>. DEFINE Exposing(k) == area'[k].exposed /\ ~area[k].exposed
            Deliberate(k) ==
                \/ SetExposure(k, TRUE)
                \/ asMirror[ConnOf(k)] /\ (~Present(area[k]) \/ ExposeAdded(k))
<1>1. Init => ScanInv  BY DEF Init, ScanInv
<1>2. ASSUME TypeOK, ScanInv, Next, NEW k \in Keys, Exposing(k) PROVE Deliberate(k)
  <2>0. area \in [Keys -> Row]  BY <1>2 DEF TypeOK, ConfTypeOK
  <2>1. area' # area  BY <1>2
  <2>2. CASE SyncStep
    BY <2>1, <2>2
    DEF SyncStep, BeginTick, ListAreas, PlanArea, Survey, Withdraw, Withdrawn, RegisterEntry,
        RegisterEntryFails, UpdateEntry, EndTick, PlanOnly, SyncOnly, confVars
  <2>3. CASE WorkStep
    BY <2>1, <2>3
    DEF WorkStep, StartCycle, ReadOk, ReadFails, FinishRead, WorkerExit, GrowOld
  <2>4. CASE ScanStep
    <3>1. ASSUME NEW j \in Keys, ApplyChange(j) PROVE Deliberate(k)
      <4>1. j = k  BY <1>2, <2>0, <3>1 DEF ApplyChange
      <4>2. CASE change[k] = "missing"
        <5>1. area'[k] = WithStatus(area[k], "missing")  BY <2>0, <3>1, <4>1, <4>2 DEF ApplyChange
        <5>2. area'[k].exposed = area[k].exposed  BY <2>0, <5>1 DEF WithStatus, Row
        <5>. QED  BY <1>2, <5>2
      <4>3. CASE change[k] # "missing"
        <5>1. area'[k] = Upsert(area[k], found[k], StatusForKind(change[k]), asMirror[ConnOf(k)])
          BY <2>0, <3>1, <4>1, <4>3 DEF ApplyChange
        <5>2. CASE Present(area[k])
          <6>1. area'[k].exposed = area[k].exposed  BY <5>1, <5>2 DEF Upsert
          <6>. QED  BY <1>2, <6>1
        <5>3. CASE ~Present(area[k])
          <6>1. area'[k].exposed = asMirror[ConnOf(k)]  BY <5>1, <5>3 DEF Upsert
          <6>. QED  BY <1>2, <5>3, <6>1
        <5>. QED  BY <5>2, <5>3
      <4>. QED  BY <4>2, <4>3
    <3>2. ASSUME NEW j \in Keys, ExposeAdded(j) PROVE Deliberate(k)
      <4>1. j = k  BY <1>2, <2>0, <3>2 DEF ExposeAdded
      <4>. QED  BY <1>2, <3>2, <4>1 DEF ExposeAdded, ScanInv
    <3>. QED  BY <2>1, <2>4, <3>1, <3>2 DEF ScanStep, Discover, FinishDiscovery
  <2>5. CASE WebStep
    <3>1. ASSUME NEW j \in Keys, NEW exposed \in BOOLEAN, SetExposure(j, exposed)
          PROVE  Deliberate(k)
      <4>1. j = k  BY <1>2, <2>0, <3>1 DEF SetExposure
      <4>2. CASE exposed = TRUE  BY <3>1, <4>1, <4>2
      <4>3. CASE exposed = FALSE
        <5>1. area'[k] = WithExposed(area[k], FALSE)  BY <2>0, <3>1, <4>1, <4>3 DEF SetExposure
        <5>. QED  BY <1>2, <2>0, <5>1 DEF WithExposed, Row
      <4>. QED  BY <4>2, <4>3
    <3>2. ASSUME NEW j \in Keys, ConfirmShape(j) PROVE Deliberate(k)
      BY <1>2, <2>0, <3>2 DEF ConfirmShape, WithStatus, Row
    <3>3. ASSUME NEW j \in Keys, DeleteDropsRow(j) PROVE Deliberate(k)
      BY <1>2, <2>0, <3>3 DEF DeleteDropsRow, NoRow
    <3>. QED
      BY <2>1, <2>5, <3>1, <3>2, <3>3
      DEF WebStep, ConfirmUnregisters, DeleteArea, DeleteDropsSnapshot, EditConnection, ApplyConfig,
          StartServer, StopServer, confVars
  <2>. QED  BY <1>2, <2>2, <2>3, <2>4, <2>5 DEF Next
<1>3. TypeOK /\ ScanInv /\ [Next]_vars
         => [\A k \in Keys : Exposing(k) => Deliberate(k)]_vars
  BY <1>2
<1>. QED
  BY <1>1, <1>3, TypeCorrect, ScanInvStep, PTL DEF Spec, ExposureIsDeliberate
=============================================================================
