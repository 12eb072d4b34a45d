# Snap7 Industrial Gateway: TLA+ models and proofs

The gateway polls real S7 PLCs, keeps the newest read of every area, and re-hosts
the areas an operator has exposed on a virtual S7 CPU that DeviceWise reads.  This
directory models the parts of it that are hard to test: the threads and coroutines
between the PLC and the virtual CPU, the reconfiguration of a running system, the
accounts that may do it, what a crash leaves behind, and how a name of the PLC
program becomes an address that is read.  TLC checks the models on small
instances; TLAPS proves every safety property they check for all values of the
constants.  Paths below are relative to `src/src/snap7_gateway`.

## 1. The system

### 1.1 Components

| Component | Code | State | Operations |
|---|---|---|---|
| Polling worker | `core/worker.py` | task, events `_stop` and `_rescan`, client, one-thread executor, health | start, stop, request_rescan, the loop: connect, identify, discover, poll, check, back off |
| Connection manager | `core/manager.py` | `_workers`, `_signatures`, `_lock`, `_started` | start, stop, apply_config, request_rescan |
| PLC client | `plc/client.py` | Snap7 handle | connect, disconnect, connected, read_area, write_area, list and size of blocks |
| Discovery | `plc/discovery.py` | none | discover, diff_discovery, apply_discovery |
| Datastore | `core/datastore.py` | snapshots per area, health per connection, one lock | publish, publish_failure, fresh, drop, retain, drop_connection, set_health |
| Database | `db/store.py`, `db/models.py`, `db/schema.py` | SQLite tables | one statement and commit per call, under one lock |
| Sync task | `virtual_plc/sync.py` | task, events `_stop` and `_wake`, the plan of a pass | sync_once, build_plan, request_refresh, start, stop |
| Virtual CPU | `virtual_plc/server.py` | `_server`, `_registrations`; behind it python-snap7's area table | start, stop, register, unregister, update |
| Runtime | `core/runtime.py` | the above | start, stop, apply_settings |
| Web routes | `web/routes/*.py` | none | exposure, confirm shape, delete area, connections, users, settings |
| Authentication | `auth/service.py`, `auth/sessions.py` | users, sessions, rate limiter (memory) | login, logout, password change, reset, bootstrap, unlock, validate |
| Account administration | `web/routes/security.py`, `web/deps.py` | none | create, promote, demote, enable, disable, reset, delete; the guards in front |
| Password policy | `auth/policy.py`, `auth/hashing.py` | none | pure functions |
| Types, layout, decoding | `plc/s7types.py`, `plc/db_layout.py`, `plc/decoding.py` | the cursor of one layout | map_declared_type, compute_layout, decode |
| Symbols, addresses | `plc/symbols.py`, `plc/addressing.py` | names taken in one import | build_entry, sanitize_name, parse_address |
| Validation, tag import | `core/validation.py`, `core/tag_import.py` | rows of `plc_tags` | validate_tag, plan_import, apply_import |
| Crash reporter | `logging_/crash.py` | snapshot folder, marker file | write_snapshot, list_snapshots, mark_running, mark_stopped, check_previous_shutdown |
| Logging | `logging_/ringbuffer.py`, `logging_/setup.py` | ring buffer, handlers | append, records |
| Service, command line | `service/*.py` | processes | start-up, signals; reset-password, unlock, import-symbols beside a running gateway |
| Web shell | `web/app.py`, other routes | none | guards, rendering, status page, Test Read |

### 1.2 Who runs where

- The **event loop** runs the workers' coroutines, the sync loop, the web
  handlers and the manager, one at a time from one `await` to the next.
- Each worker has **one PLC thread**; a Snap7 call cannot be cancelled once it
  runs there.
- `sync_once` runs in a **thread of its own**, and so does each
  `apply_discovery`.  They share the database, the datastore and the virtual CPU
  with the event loop, each behind a lock that is held for one call only.

- **Crash snapshots** are written by whichever thread has the exception, without a
  lock.
- The **command line** is a second process on the same SQLite file, which is in
  autocommit mode (`db/store.py:45`): every statement is a commit of its own, and
  the gateway may die, or the console commit, between any two.

So a *step* of a model is one call that takes such a lock or one commit, with the
local work up to the next; a stretch of a coroutine between two awaits; one file
operation; or, in the manager, one connection's turn.

### 1.3 What makes each part correct

| Part | Correct when |
|---|---|
| Sync pass | what it leaves on the virtual CPU is what it planned, and it neither leaves nor registers an area that was barred (hidden, disabled, rowless, unread) from before it began |
| Sync loop | served bytes are of bounded age; a hidden area goes in bounded time; the CPU converges to what is servable |
| Virtual CPU | the table of the gateway and the table of the Snap7 server agree, but for what Snap7 would not give up |
| Discovery | nothing becomes exposed but deliberately; a shape that shrank and an area that vanished stay until an operator acts |
| Worker | the session is closed by stop at whatever await; no handle is leaked; health does not contradict the link; a rescan is taken; the loop survives failures |
| Manager | the pool converges to the newest rows; never two workers for a connection; stop is final; nothing is left of a deleted connection |
| Accounts | an enabled administrator remains; a password somebody else chose has to be changed; old sessions end |
| Sign-in | no source gets more attempts than the limit; a lockout lasts; a session keeps to its timeouts |
| Crash reporter | a death is reported, once it is one; the newest snapshots stay and the folder holds no more than failed writes and deletions left in it |
| Layout | every member is where the rules put it, however bits, bytes, words and structures follow one another |
| Tag import | a tag reads its member and nothing else; the report is what the table holds; nothing invalid gets in |

The hazards behind these, each at its line, are in `PROJECT.json`.

## 2. Modules

| Module | Models | Extends |
|---|---|---|
| `AreaMap` | the values: rows of `plc_areas`, snapshots, plan entries; the pure functions `diff_discovery`, `_STATUS_FOR_KIND`, `upsert_area`, the decision of `build_plan`, `_areas_to_poll` | |
| `VirtualCpu` | `VirtualPlcServer`, one action per method, and the Snap7 server's area table (external), keyed by (area, index) only | `AreaMap` |
| `AreaBridge` | sync pass, poll loop, discovery passes and web handlers over the database, the datastore and the virtual CPU | `VirtualCpu` |
| `StaleWindow` | the timing of the sync loop seen from one area: ages, not values | |
| `ConnectionWorker` | one worker: coroutine, PLC thread, `stop()` | |
| `ConnectionManager` | the manager's lock, `apply_config`, `start`, `stop`, and the handlers that call it | |
| `Publication` | abstract: DeviceWise's view of the areas; implemented by `AreaBridge` | |
| `Accounts` | accounts, sessions and requests, commit by commit, with the console and crashes | |
| `LoginGate` | the clocks of sign-in: rate limiter, lockout, session expiry | |
| `CrashReporter` | snapshots, pruning by several threads, the running marker across deaths | |
| `S7Types` | declared types: size, alignment, gateway type (pure) | |
| `BlockLayout` | the layout of a data block, one action per declared line | `S7Types` |
| `SymbolTable` | rows and members to entries, names, addresses, validation (pure) | `BlockLayout` |
| `TagImport` | blocks and symbol tables planned and applied by the web and by the command line, edits in between, the read through a tag | `SymbolTable` |
| `MC*` | instances for TLC | the module they instantiate |
| `*_proofs` | theorems and proofs | the module they are about, `TLAPS` |

Operators called "Mutant" in the comments are not part of any specification: each
is a changed form of the action that follows it, to show which mistake in the
code the property next to it would catch.

### 2.1 AreaBridge

| Variables | Code |
|---|---|
| `conn`, `area` | rows of `plc_connections` (enabled, mode) and `plc_areas` |
| `snap` | `DataStore._snapshots`; "unfit" is a failed or over-age read, which `fresh` never returns |
| `running`, `table`, `real` | `_server`, `_registrations` (size; how many leading bytes come from a read, the rest being zeros) |
| `slot`, `stranded` | the area table inside python-snap7's server; history: who is still hosted there because `unregister_area` failed |
| `work`, `stopping`, `held`, `reading` | a worker's place in its loop, its `_stop`, the mode in its copy of the row, the reads left of its cycle |
| `found`, `change`, `adding`, `asMirror` | locals of `apply_discovery` |
| `pc`, `listed`, `unlisted`, `rows`, `plan`, `drop`, `queue`, `updating` | locals of `sync_once` and `build_plan` |
| `handler` | the handler that is between two of its calls (it has the event loop) |
| `barred` | history: per reason, the keys barred ever since the pass began |

`SyncStep` follows `sync_once` line by line: `BeginTick` (list_connections),
`ListAreas`, `PlanArea` (fresh and registered_size, looked up now, for a row
listed earlier), `Survey` (registrations), `Withdraw`, `RegisterEntry` or
`RegisterEntryFails`, `UpdateEntry`, `EndTick`.  `WorkStep` is the poll cycle,
`ScanStep` a discovery pass whose writes happen one by one in a thread,
`WebStep` the handlers.  `Free` is the event loop: coroutines do not run in the
middle of a handler; the two threads do.

Order is abstracted where the code's order is by name or number: areas and
entries are taken in any order, which includes the code's.  A byte payload is the
number of leading bytes really read.  `Discover` may return any subset of the
blocks with any sizes, which covers unreadable blocks (`discovery.py:150`); a
pass that found nothing and has errors changes nothing.

`Unregister` removes the gateway's entry in any case and vacates the slot unless
Snap7 fails, which `_unregister_locked` ignores (`Strands`).  `RegisterFails` is a
`register` that raises: at once, with the old entry untouched, when the CPU is down
or the size is beyond `MaxArea` (`MAX_REGISTERED_BYTES`); otherwise because Snap7
refuses the area, after the old entry has gone.  A block may be found larger than
`MaxArea`; the client does not read it then (`ReadOk`), but a read taken before may
still be fresh when the pass plans the new size.

`Publishes` is the refinement: `View` instantiates `Publication` with the
gateway's registrations as what is `shown`, and "the sync loop is not asleep" as `passing`.
In `Publication` areas may disappear at any time, appear only while a pass runs
and only if not barred ever since it began, and a pass ends with nothing shown
that was barred all along.  Workers, discovery, handlers and the order of the
calls in a pass are implementation.

### 2.2 StaleWindow

Time is counted in ticks; `Interval` is the sleep, `MaxTick` the longest pass,
`MaxFails` how many passes in a row may raise.  `Advance` is the passing of time
and never goes beyond the moment the loop has to act; everything else happens
between two ticks.  Ages are counted, not timestamps, so the state space is
finite without a horizon.  `refused` says that the last pass met a size that
`register` refuses at once, so that older bytes were left registered; `unread` is
the time since `fresh` has returned nothing.  The clock is taken not to go back.

### 2.3 ConnectionWorker

`pc` names the await the coroutine is in; a step is what happens when that await
comes back, up to the next.  `stop()` has its own place (`stopper`): it sets both
events, waits, after its timeout cancels the task, and queues the disconnect
behind the call the PLC thread may still be running (`orphan`), which may be a
connect that succeeds late.  A statement of the database that raises outside a
handler ends the task (`Dies`).

### 2.4 ConnectionManager

`queue` and `lock` are `asyncio.Lock`, which serves its waiters in order.  The
holder gives the loop up only in `_stop_worker` (`halting`), so handlers save,
delete and queue while it waits.  A worker is alive until its `stop` has
returned (`ConnectionWorker` shows that it does, with the session closed).  Ids
are never used twice (AUTOINCREMENT).

### 2.5 Accounts

`gw` and `cli` hold the commits that the gateway's running operation and the
console's command have left; `GatewayCommits` and `ConsoleCommits` make the next
one.  A handler has the event loop until its last commit, so `gw` is one
operation at a time; the console comes between any two commits, and `Crash` and
`ConsoleKilled` drop what is left.  `Admit` is the judgement of the middleware and
the dependencies; the handler runs later, on rows that may have changed.  When the
CSRF token comes in a header, demote and disable read the target's row
(`ReadTarget`) before `await request.form()` and act on it after (`Handle`).

A password is who chose it.  `old` marks a session opened before its account's
password was changed or the account disabled.  Three histories name the gaps the
code has: `cut`, accounts on which an operation lost a commit to a crash or was
crossed by the console; `misjudged`, a handler acted on a row that had changed.

### 2.6 LoginGate

One account and its newest session: neither the lockout nor the expiry looks at
another.  Timestamps are kept as ages and as time left.  `Wrong`, `ReadBack` and
`LockSet` are the three statements of `record_login_failure`, between which
`Restart` and `Forgive` (the console's unlock) may come.  `Kept` is `_evict`.

### 2.7 CrashReporter

A thread's snapshot is `Write`, `Glob`, `Sort` (one `stat` per listed file: it
fails when another thread has deleted one, `SortFails`), `Delete` per victim,
`Pruned`.  A victim may resist deletion, which `_prune` ignores, and a write that
fails may leave its file and skips the pruning (`WriteFails`).  The status page goes
through the same listing.  `Build`, `Consume`,
`MarkRunning`, `Close`, `MarkStopped` and `Exit` are the process; `Die` may
come at any step, and folder and marker stay.  `spoilt` has the snapshots
whose pruning failed, was cut off or never ran, until a later pruning has seen them;
`resisted` the files that could not be deleted when last tried.

### 2.8 From a declaration to a read

`BlockLayout` merges the two passes of `db_layout.py` (parse to a tree, walk the
tree), which visit nodes in the same order: a declared line is `Declare`,
`OpenStruct` or `EndStruct`, the end of the text `EndOfBlock`.  A structure that
is not walked (too deep, too many members) is `muted`.  A TIA export differs only
in that its structures always end.

`SymbolTable` turns members and rows into entries: `Usable` is what `build_entry`
and `parse_address` accept, `Sanitize` the name that is made unique, `ValidTag`
the rules of the form.  A name is a sequence of path parts and a number.

`TagImport` has the table: `ImportBlock` and `ImportSymbols` plan, for the web form
and for the command line alike, `ApplyRow` applies one row (a commit), `CreateTag`,
`DeleteTag`, `DeleteConnection` are the other handlers.  A block's prefix goes
through the sanitiser with the names; a symbol table's is put in front of names that
are unique already (`Prefixed`), and the plan remembers it (`cut`).  The web handler has no await between plan and last row; the command
line is a process of its own.  `ReadArea` and `Decoded` are the chunked read and
the bytes a value is decoded from.

## 3. Runs

| Run | Instance | Result |
|---|---|---|
| `bridge` | one connection, one block, sizes to 3, a size limit of 2, one operator action, three discovery passes, fairness: 366,192 states | the safety properties of `AreaBridge`, `Publishes` and `Converges` |
| `stale` | `Timeout` 4, `Interval` 3, `MaxTick` 2, `MaxFails` 1: 96,270 states | the age bounds hold |
| `worker` | cycles of up to two areas, fairness | safety, `RescanHappens`, `StopReturns` |
| `manager` | two connections, two handlers, three settings of which two share the transport part, two saves, fairness: 128,442 states | safety, `CallersReturn` |
| `accounts` | two accounts, one cookie, one request for anything, one rival that disables, a console: 2.7 million states | `AdminRemains`, `ForcedChange`, `SessionsRevoked` |
| `gate` | two sources, limits of 2, small unequal times: 725,000 states | `RateBound`, `LockHolds`, `SessionBounds` |
| `crash` | two threads, two files kept, five snapshots, two deaths: 3.4 million states | `KeepsNewest`, `FolderBounded`, `UncleanIsReported`, `NoFalseAlarm` |
| `tags` | every declaration of five lines over five types, two symbol tables, two importers, three prefixes, one edit: 1.9 million states | `LaidOut`, `ReadsItsMember`, `ReportMatches` |
| `shape` | one block, three passes, no operator | violated: the size falls without confirmation |
| `collision` | two connections, the same block | violated: the tables disagree |
| `survives` | one area | violated: the loop ends without stop |
| `hiding` | one area, one pass, one operator action | violated: a hidden area is exposed by Mirror All |

The properties of the passing runs:

- `BarredIsWithdrawn`, `NeverPublishesBarred`: a pass acts on rows and snapshots
  it looked up at different moments while all of them change.  What was barred
  before the pass and stayed so is gone after it and was never registered in it.
  What became barred during the pass may be registered by it; the next one
  withdraws it, and `StaleWindow` says when.
- `SettledAsPlanned`: at the end of a pass a registration has the planned size and
  bytes, though the server may have been restarted and areas withdrawn meanwhile.
  An area whose planned size is refused at once keeps what it had, and only that.
- `ExposureIsDeliberate`: a row becomes exposed only by `set_exposure`, or in a pass
  under Mirror All that inserts it, by the insertion or by the second look after it;
  though `delete_area`, hiding and a change of mode may fall between its writes.
  That the second look overrules an operator is the run `hiding`.
- `Publishes`: the bridge implements `Publication`, with what the gateway has
  registered as what is shown.
- `TableMatchesServer` is what `collision` checks: an area is hosted exactly if the
  gateway's table has it or an `unregister_area` that failed has left it (`stranded`).
  It fails there because two connections have the same DB; the theorem
  `SlotsFollowTable` proves it whenever every key has a slot of its own.
- `Converges`: an area that stays servable is registered at its size for good,
  one that stays barred is withdrawn for good.
- `BufferIsCurrent`, `HiddenIsWithdrawn`: bounds `Timeout + Window` and `Window`,
  where `Window` is one pass plus, for each failing pass and the one that
  succeeds, an interval and a pass.  Bytes that a refused change of size has left
  behind may be older than the first bound; `UnreadIsWithdrawn` says that they, too, go
  within `Window` once the area has no current read, and a size that `register`
  refuses is one that the client refuses to read.
- `StoppedIsClosed`, `NoHandleLeaks`, `HealthIsTruthful`, `RescanHappens`,
  `StopReturns`: the worker against stop and cancellation at every await.
- `PoolMatchesRows`, `OneWorkerEach`, `StopIsFinal`, `NoGhosts`, `CallersReturn`:
  the manager.  The flag `_started` is tested before the lock is awaited; it is
  the order of the lock's queue that makes `stop` final.
- `AdminRemains`: once there is an account there is an enabled administrator,
  unless a handler was `misjudged` (3.3).  `ForcedChange`, `SessionsRevoked`: a
  password somebody else chose must be changed, and a session from before a
  change or a disabling is gone, except while the very next commit of the gateway
  or the console sees to it and on accounts in `cut`.
- `RateBound`: attempts let through in any window, counted since the limiter last
  forgot the source.  `LockHolds`: past the threshold every wrong password locks
  for the whole lockout; the exception (`torn`) is a failure whose statements a
  restart cut off.  `SessionBounds`: no session outlives its absolute lifetime, none
  ends sooner than `Slack` before its idle timeout or later than the longest one
  it was used under.
- `KeepsNewest`, `FolderBounded`: pruning by several threads never deletes one of
  the newest.  At rest there are at most `MaxFiles` snapshots, one more for each whose
  pruning failed, was cut off or never ran and that no later pruning has seen
  (`spoilt`), and those that could not be deleted (`resisted`).  So `MaxFiles` is not a
  bound on a full disk (3.3).
  `UncleanIsReported`, `NoFalseAlarm`: the marker tells the truth; the exception is a
  marker that could not be deleted (`stuck`).
- `LaidOut`: every member starts at the first fitting place behind all that was
  declared before it, and structures and block enclose their members.
  `ReadsItsMember`: a tag imported from a declaration decodes the bytes the layout
  gives its member, through type mapping, entry, plan, table and chunked read.
  `ReportMatches`: after an import nobody disturbed, each row of the file is
  accounted for once (the file's own number of rows is kept beside the plan) and
  the table is what the report says.  The exception (`Overtaken`) is a row of a symbol
  table with a prefix that was found identical, and whose tag another row of the same
  file, given the same name by the prefix, has updated (3.3).
  `TypeOK` of `TagImport` says that no import brings in a row the form would reject.

### 3.1 Bounds

- *`bridge`*: one key, because keys interact only through a shared slot, which
  `collision` has, and through the order of a pass, over which the proofs quantify:
  every safety property of this run is a theorem for any keys.  Size 2 is the least
  that can grow and shrink, and size 3 is beyond `MaxArea`.  Three passes let an area
  appear, change, vanish and come back; the operator's action falls into any of their
  phases.  The gateway starts in either mode.  Sync passes, reads and restarts of the
  CPU are not bounded (`MaxOps` counts stops).  Operator and discovery being bounded,
  every behaviour comes to a situation that is stable but for workers and Snap7, which
  is what `Converges` speaks of.
- *`stale`*: the numbers are small and unequal so that every order of interval,
  timeout and pass occurs; the theorems cover all others.
- *`worker`*: two areas distinguish first, last and only read of a cycle;
  `attempt` is counted up to the fifth failure, where the state changes.
- *`manager`*: two handlers and `Exit` fill the queue; two saves make an older
  listing compete with a newer row; three settings distinguish a refresh from a
  restart.
- *`accounts`*: two accounts are the least for which "the last administrator" has a
  rival; one cookie and two requests let any operation overtake any other between
  judgement and handling; the database starts empty or with two veterans, one of
  whose hashes is outdated.  Crashes are not bounded.
- *`gate`*: limits of 2 distinguish the first, the last and the refused attempt;
  `Window` 2, `Lockout` 3, `Idles` 3 and 5, `Absolute` 7, `Slack` 1 make every order
  of the ends of these times occur.
- *`crash`*: five snapshots with two kept (`MaxStamp`) let both threads prune while
  a third file is older than what either saw; after the last stamp a thread can
  only fail to write, without leaving a file.  Two deaths (`MaxDeaths`) let a start die that reports one.
- *`tags`*: `MaxLines` 5 holds a bit, a word and a structure in every order;
  `MaxMembers` 4 and `MaxNesting` 1 reach the limits of the walk; `MaxReadChunk` 2
  makes reads of one, two and more chunks; `MaxImportTags` 2 lets an import be too
  large.  Symbol tables of two and three rows hold a usable row, an unusable one and
  two that a prefix makes one.  They, the command line and the edit (`MaxEdits` 1) come
  beside blocks of at most two lines (`MaxShared`), which keeps the two halves from
  multiplying.  The
  theorems on `TagImport` cover all other declarations, files, sizes and limits.
- Deadlock is not checked where the modelled part really ends: the worker and the
  manager's process stop (`worker`, `manager`); accounts may all be used up and the
  console's process be gone (`accounts`); snapshots and deaths run out (`crash`);
  an import is over or refused (`tags`).  In `gate` time always goes on, and there
  the check would show nothing.

### 3.2 Fairness

- `AreaBridge`: weak fairness of `SyncStep` (`_supervise` starts a pass again
  after every sleep, and a pass waits only for locks held for a call), strong
  fairness of `RegisterEntry` (Snap7 does not refuse an area for ever).  Nothing
  is assumed of PLC, operator or discovery.
- `ConnectionWorker`: every call on the PLC thread ends (connect, send and
  receive have timeouts), waits end, and a PLC that is tried again and again can
  be reached again and again (strong fairness of `ConnectOk`, needed by
  `RescanHappens` only).
- `ConnectionManager`: a stop of a worker returns (`StopReturns` of
  `ConnectionWorker`) and the event loop runs who holds the lock.

### 3.3 Where the code and its documents disagree

Four runs end in a counterexample; each is the reading of a sentence of the
manual, of the architecture notes or of a docstring, quoted in `PROJECT.json`.

1. `shape`: the flag `shrunk` is overwritten by the next pass, and the old size is
   forgotten when the registration goes stale once.
2. `collision`: the virtual CPU has one slot per DB number, the gateway's table one
   entry per connection and DB number.
3. `survives`: a database error outside the handlers ends the loop for good.
4. `hiding`: Mirror All looks at a row again after inserting it
   (`plc/discovery.py:303`) and exposes it, though an operator hid it in between; the
   comment above says that an explicit "do not expose" survives.

The next six are exceptions that properties make, each of which TLC needs: it finds a
counterexample to `TableMatchesServer`, `SettledAsPlanned`, `AdminRemains`,
`ForcedChange`, `FolderBounded` and `ReportMatches` without theirs.

5. `unregister_area` fails and the failure is ignored (`virtual_plc/server.py:293`): what
   the gateway no longer knows is readable until the slot is used again or the CPU is
   stopped, though `virtual_plc/sync.py:12` says that a read then "fails cleanly".
   Exception `stranded` of `TableMatchesServer`; the other properties of the bridge
   speak of the gateway's table.
6. A size out of range is refused before the old registration goes
   (`virtual_plc/server.py:219`), which then stands with its old size and bytes until
   its last read is over age.  Exception of `SettledAsPlanned`; `BufferIsCurrent` leaves
   such bytes out (`refused`), and `StaleWindow` does not count their age.
7. `demote` and `disable` judge the target's row as it was before `await
   request.form()` (`web/routes/security.py:190`, `:219`): an account that was a viewer or
   disabled when its row was read, and has become the only enabled administrator
   since, is demoted or disabled, though the message is "At least one enabled
   administrator must remain."  Exception `misjudged` of `AdminRemains`.
8. A crash between the commits of a reset (`auth/service.py:351`) leaves a password
   chosen by an administrator without `must_change_password`, though the docstring
   says "the target must change it at next login".  The same holds for a login that
   upgrades the hash (`:277`), which with a console reset in between may even write
   the old password back.  Exception `cut` of `ForcedChange` and `SessionsRevoked`.
9. A snapshot whose write fails may leave a file and is not followed by a pruning
   (`logging_/crash.py:207`), and a file that cannot be deleted is passed over (`:231`),
   though `docs/MANUAL.md:653` says "newest 50 kept".  Exceptions `spoilt` and
   `resisted` of `FolderBounded`.
10. "The report always matches what is in the database afterwards"
   (`core/tag_import.py:199`) fails in two ways.  The prefix of a symbol table comes after
   names were made unique, in the web form (`web/routes/tags.py:347`) as on the command
   line (`service/cli.py:262`), and may make two names one: exception `Overtaken` of
   `ReportMatches`.  And an update of a row that was deleted since the plan writes
   nothing and is reported as "updated" (`core/tag_import.py:218`): hence "undisturbed"
   (`alone`).

Other differences are visible in one definition of the model.

11. A missing area is not polled (`core/worker.py:364`, `Pollable`), so it goes stale
    and is withdrawn, though `docs/MANUAL.md:328` says it "stays registered".
12. The poll list does not know of Mirror All (`core/worker.py:371`), though
    `docs/MANUAL.md:306` says "every discovered area is registered".
13. A refresh requested during a pass is forgotten (`virtual_plc/sync.py:151`), so
    hiding an area may take longer than the "one sync tick" of `docs/MANUAL.md:313`.
14. The limiter evicts only expired sources (`auth/service.py:122`), so it may track
    more than `max_keys`, against its docstring; evicting others would break
    `RateBound`.  It is replaced, and forgets everybody, when settings are saved.
15. An ARRAY of one-byte elements may have an odd size (`plc/s7types.py:183`), though
    `plc/db_layout.py:17` says an ARRAY occupies an even number of bytes.  `ArraySize`
    has what the code does, and `LaidOut` holds for it.
16. A second gateway process on the same data directory consumes the marker of the
    one that runs; a process that dies between its report and the deletion of the
    marker reports twice.  Neither is promised otherwise.
17. After a link that breaks right after connecting the loop connects again at once,
    without backoff (`core/worker.py:188`, `HangupEnds`); no property bounds the rate.

## 4. Proofs

Every invariant and every action property of the passing runs is a theorem.

| Theorem | Statement | Argument |
|---|---|---|
| `TypeCorrect` | `AreaBridge`: `[]TypeOK` | one lemma per group of actions |
| `TickInvariant` | `[]TickInv` | below |
| `WithdrawnAfterTick`, `NothingBarredIsPublished` | `[]BarredIsWithdrawn`, `NeverPublishesBarred` | from `TickInv` |
| `SlotsFollowTable` | `[]TableMatchesServer` if no two keys share a slot | inductive itself |
| `TickSettles` | `[]SettledAsPlanned` | `SettleInv`, below |
| `ExposedDeliberately` | `ExposureIsDeliberate` | `ScanInv` |
| `ImplementsPublication` | `Spec => Publishes` | each step of the bridge is a step or a stutter of `Publication`, from `TypeOK` and `TickInv` |
| `WindowTypes`, `AgesBounded`, `BufferStaysCurrent`, `UnreadGoes`, `HiddenGoes` | `StaleWindow`: types and bounds | `AgeInv`: the age reached in each phase |
| `WorkerTypes`, `SessionInvariant`, `StopClosesSession`, `HealthTellsTheLink`, `HandlesAreOwned` | the worker's invariants | `StopInv` with who owns the handle at each await |
| `ManagerTypes`, `ManagerInvariant`, `HotReloadConverges`, `NeverTwoWorkers`, `StopLeavesNothing`, `DeletedIsForgotten` | the manager's invariants | `IInv`, below |
| `ReporterTypes`, `DeathIsReported`, `ReportsAreTrue` | `CrashReporter`: types and marker | `MarkerInv` |
| `NewestAreKept`, `FolderStaysSmall` | `KeepsNewest`, `FolderBounded` | `PruneInv`, below |
| `GateTypes`, `LockoutHolds`, `SessionsEndInTime` | `LoginGate`: types, `LockHolds`, `SessionBounds` | inductive with the phases of the statements |
| `RateIsBounded` | `[]RateBound` | `LimiterInv`, below |
| `AccountTypes`, `AnAdminRemains` | `Accounts`: `[]TypeOK`, `[]AdminRemains` | `AdminInv`, below |
| `ForcedChangeHolds`, `RevocationHolds` | `[]ForcedChange`, `[]SessionsRevoked` | `PasswordInv`, below |
| `LayoutInvariant`, `OffsetsNeverDrift` | `[]LayoutInv`, `[]LaidOut` in `TagImport` | below |
| `ImportInvariant`, `TagsAreValid`, `TagsReadTheirMembers`, `ReportsMatch` | `[]ImportInv`, `[]TypeOK`, `[]ReadsItsMember`, `[]ReportMatches` | below |

They assume only what the modules' `ASSUME`s say of the constants: keys are pairs
of a connection and a block, bounds are naturals, model values such as `Vacant`
and `Nobody` are no keys or tasks, a declared type has a positive size and an
alignment of 0, 1 or 2, cleaning a clean name changes nothing, the rows of an
export are a sequence, and "no bit" is not a bit number.  `SlotsFollowTable` has its own hypothesis, which
`collision` shows to be needed.

**Why a pass is right (`TickInv`).** `BarredIsWithdrawn` says nothing of the middle
of a pass.  The invariant follows a barred area through all the copies the pass
keeps: it is not in a connection still to be listed (if disabled), not in the
listed rows as exposed (if hidden) or at all (if rowless), not in the plan, hence
not in the queue; and a registration of it is still to be surveyed or in `drop`.
`BarredForGood` says the history is one of reasons that hold now.

**Why it settles (`SettleInv`).** After the survey every registration is to be
dropped or planned; once it has left the queue it has its planned size, unless that
is refused, and once it is updated its planned bytes.  Others only remove registrations
meanwhile.  A CPU that is down has none, so a pass that finds it down between two
calls leaves nothing half done.

**Why the manager converges (`IInv`).** `PoolInv` relates the pool to the holder's
listing for every connection already dealt with, counts a worker that has not
stopped exactly once (pool, holder, or stop), and says that a listing is stale only
when somebody waits who will list again.  `StopInv` says that `stop` is last in the
queue.  `TraceInv` gives each connection that is gone but still shows a handler
whose turn comes.

**Why the folder stays small (`PruneInv`).** Several threads list and delete without
a lock.  A thread's listing has every file older than its newest or than the
snapshot it prunes for (`ListingInv`); a victim has `MaxFiles` newer ones, so
nobody deletes one of the newest; and a snapshot whose pruning came to its end
has at most `MaxFiles` files up to it that did not resist deletion, for good, because
older files only go.

**Why offsets do not drift (`LayoutInv`).** Placement looks at the cursor only.
`CursorInv` says that the cursor is behind every member and right behind one, or
behind the start of a structure that is open; `NestingInv` that the open structures
are nested, contain all that was placed after them, and have no size yet.  When
a structure ends its size is set from the cursor, so it encloses what is in it, and
the cursor is right behind it.

**Why an administrator remains (`AdminInv`).** Between the judgement of a handler and
its last commit the console commits and the process may die.  The invariant says
that a commit still due which removes an administrator leaves another one (or was
misjudged), that an operation's commits concern one account, that the console has
no such commits, and that requests and sessions exist only once there are accounts;
the creation of a viewer cannot be the first.

**Why a password is changed and a session dies (`PasswordInv`).** An operation that
sets somebody else's password has three commits: the password,
`must_change_password`, the deletion of the sessions; one that disables has two.
`Orderly` says that what is left of an operation keeps this order and concerns one
account, so after the first commit the next one is due at once; a crash, or a commit
of the other process in between, puts the account into `cut`.  A login is the
difficult case, because it writes back what it read before: `SignInInv` says that a
login about to clear the flag has seen a password of the owner's that still stands,
or the account is in `cut`, or the console's next commit sets the flag.

**Why the rate is bounded (`LimiterInv`).** A source's bucket is in order of age, is
cut from its old end only, and is evicted only when its last entry is too old.  What
is kept is therefore a suffix, and within the window it is every attempt let through
since the limiter last forgot the source.

**Why a tag reads its member (`ImportInv`).** `ValueInv` says that a member with a
value is closed and as long as its type says; `SourceInv` that an entry that came
from a member has that member's offsets and type, in every plan and in the table,
because planning and applying change names and ids only.  What remains is the read:
whatever the chunk size, the loop returns the addresses from the first byte in
order, each once.

**Why a report matches (`PlanInv`).** In a plan nobody disturbed the table agrees
with each row: before its turn with what the plan saw, after it with what the report
says.  A row's turn disturbs no other row that will be written, because no two of them
have the same name (`Apart`): planning lets no row claim a name twice.  Without a late
prefix no two rows at all have the same name, because planning goes through
`Sanitize`, which numbers a name that is taken, and `SuffixIsFree` shows that it finds a
free number within as many tries as there are names.  With one, a row found identical
claims no name; it stays identical (`Unchanged`) until another row updates its tag.

**Loops.** Loops are recursive functions over `0 .. n`.  The library's induction theorems
take an operator and cannot be used here; `Induct` and `LoopRuns` say the same of a
set, from the fact that a set of naturals has a least member, and from them follow
that the loop's function exists and what it computes.

Only model-checked: liveness (`Converges`, `RescanHappens`, `StopReturns`,
`CallersReturn`), because it rests on fairness and `ENABLED`, which the prover does
not handle; and the counterexamples.

## 5. Not modelled

- Test Read and Test Write (`read_once`, `write_once`): they queue on the PLC
  thread and change nothing in the gateway.  *Test Connection* opens a session of
  its own and closes it.
- Deletion of a connection in `AreaBridge` (cascade to its areas), and the
  cancellation of a handler by uvicorn's graceful-shutdown timeout.
- Stopping the sync task: `stop` of the runtime stops the manager first
  (`ConnectionManager`); the task is then waited for or cancelled.
- A build of Snap7 that copies buffers (`live_buffer` false): `update` registers
  the area again at the same size.
- The readers of the export formats (SDF, ASC, CSV, XLSX, XML), the spelling of types
  and addresses, comments, limits on rows and file sizes: text in, rows out, with
  nothing that outlives the call.  A raw name that already ends in a number suffix.
- A read that is answered short (`plc/client.py:263`): the model's chunks come in
  full or not at all.  The probe of an area's size, writes, number formats.
- CSRF tokens, the audit and settings tables, password policy and hashing.
- Logging: handlers and a bounded deque under one lock.
- Rendering, certificates, argument parsing, the Windows service wrapper: I/O.

## 6. Plan

Done: the bridge with its abstract specification and refinement, the timing of the
sync loop, worker, manager, accounts, sign-in, crash reporter, and the way from a
declaration to a read, with their runs and safety proofs.

Left, in this order:

1. Deletion of a connection in `AreaBridge`; cancellation of handlers in
   `ConnectionManager`, with the proofs that go with them.
2. The size probe of `plc/client.py` against a reference definition.
3. The readers of the export formats, as far as they decide which rows there are.
