---------------------------- MODULE CrashReporter ---------------------------
(***************************************************************************)
(* Crash snapshots and the running marker: logging_/crash.py, and where    *)
(* core/runtime.py, web/app.py and service/server.py call it.              *)
(*                                                                         *)
(* Snapshots are written by whichever thread has the exception, without a  *)
(* lock: a thread writes its file, then lists the folder, asks every file  *)
(* for its time, and deletes what is too old, while others do the same.    *)
(* The status page lists the folder too, on the event loop's thread.       *)
(* The process may die between any two steps; the folder and the marker    *)
(* stay.                                                                   *)
(*                                                                         *)
(* Data abstracted: a snapshot is its place in the order of modification   *)
(* times (the clock is not set back), its contents are left out.           *)
(***************************************************************************)
EXTENDS Naturals, FiniteSets

CONSTANTS
    Threads, Loop,  \* the threads, and the one the event loop runs on
    MaxFiles,       \* MAX_SNAPSHOT_FILES
    MaxStamp,       \* bound: snapshots written
    MaxDeaths       \* bound: times the process dies

ASSUME CrashAssumption ==
    /\ Loop \in Threads
    /\ {MaxFiles, MaxStamp, MaxDeaths} \subseteq Nat

VARIABLES
    phase,      \* how far the process has come
    marker,     \* running.marker is there
    files,      \* the snapshots in the folder
    next,       \* the next snapshot's place in the order
    pc,         \* [Threads -> where it is in the reporter]
    listed,     \* [Threads -> the files its glob found]
    victims,    \* [Threads -> those it has yet to delete]
    own,        \* [Threads -> the snapshot it prunes for, 0: it shows a page]
    deaths,
    marked,     \* history: this run has written its marker
    owed,       \* history: a run with a marker died and was not reported since
    stuck,      \* history: a marker could not be deleted
    spoilt,     \* history: snapshots whose pruning failed, was cut off or never ran
    resisted    \* history: files that could not be deleted when last tried

vars == <<phase, marker, files, next, pc, listed, victims, own, deaths,
          marked, owed, stuck, spoilt, resisted>>
folder == <<files, next, pc, listed, victims, own, spoilt, resisted>>

Phases == {"off", "checking", "built", "running", "closed", "stopped"}
Steps == {"idle", "write", "list", "stat", "delete"}

TypeOK ==
    /\ phase \in Phases /\ marker \in BOOLEAN
    /\ files \subseteq 1..(next - 1) /\ next \in 1..(MaxStamp + 1)
    /\ pc \in [Threads -> Steps]
    /\ listed \in [Threads -> SUBSET (1..MaxStamp)]
    /\ victims \in [Threads -> SUBSET (1..MaxStamp)]
    /\ own \in [Threads -> 0..MaxStamp]
    /\ deaths \in 0..MaxDeaths
    /\ marked \in BOOLEAN /\ owed \in BOOLEAN /\ stuck \in BOOLEAN
    /\ spoilt \subseteq 1..MaxStamp /\ resisted \subseteq files

Init ==
    /\ phase = "off" /\ marker = FALSE
    /\ files = {} /\ next = 1
    /\ pc = [t \in Threads |-> "idle"]
    /\ listed = [t \in Threads |-> {}] /\ victims = listed
    /\ own = [t \in Threads |-> 0]
    /\ deaths = 0 /\ marked = FALSE /\ owed = FALSE /\ stuck = FALSE
    /\ spoilt = {} /\ resisted = {}

-----------------------------------------------------------------------------
\* What is worth a snapshot.

Contexts == {"main", "thread", "task", "page"}
Kinds == {"error", "hangup", "exit"}

\* A hangup of a peer is routine in an asyncio task; KeyboardInterrupt and
\* SystemExit are how a thread is asked to end.
Recorded(context, kind) ==
    CASE context \in {"main", "thread"} -> kind # "exit"
      [] context = "task" -> kind # "hangup"
      [] context = "page" -> kind # "exit"

Serving == phase \in {"running", "closed", "stopped"}

Fault(t) ==
    /\ Serving /\ pc[t] = "idle"
    /\ \E context \in Contexts, kind \in Kinds :
          /\ context \in {"task", "page"} => t = Loop
          /\ Recorded(context, kind)
    /\ pc' = [pc EXCEPT ![t] = "write"]
    /\ UNCHANGED <<phase, marker, files, next, listed, victims, own, deaths,
                   marked, owed, stuck, spoilt, resisted>>

\* Mutant: the counter runs past what was written.
WriteTwice(t) ==
    /\ pc[t] = "write" /\ next <= MaxStamp
    /\ files' = files \cup {next, next + 1} /\ next' = next + 1
    /\ pc' = [pc EXCEPT ![t] = "list"] /\ own' = [own EXCEPT ![t] = next]
    /\ UNCHANGED <<phase, marker, listed, victims, deaths, marked, owed, stuck, spoilt, resisted>>

\* write_snapshot, up to the file.
Write(t) ==
    /\ pc[t] = "write" /\ next <= MaxStamp
    /\ files' = files \cup {next} /\ next' = next + 1
    /\ pc' = [pc EXCEPT ![t] = "list"] /\ own' = [own EXCEPT ![t] = next]
    /\ UNCHANGED <<phase, marker, listed, victims, deaths, marked, owed, stuck, spoilt, resisted>>

\* The disk is full: write_snapshot returns None, without pruning, and the file
\* may have been created.
WriteFails(t) ==
    /\ pc[t] = "write"
    /\ pc' = [pc EXCEPT ![t] = "idle"]
    /\ \/ UNCHANGED <<files, next, spoilt>>
       \/ /\ next <= MaxStamp
          /\ files' = files \cup {next} /\ next' = next + 1
          /\ spoilt' = spoilt \cup {next}
    /\ UNCHANGED <<phase, marker, listed, victims, own, deaths,
                   marked, owed, stuck, resisted>>

\* The status page shows the list as well.
ShowPage ==
    /\ phase = "running" /\ pc[Loop] = "idle"
    /\ pc' = [pc EXCEPT ![Loop] = "list"] /\ own' = [own EXCEPT ![Loop] = 0]
    /\ UNCHANGED <<phase, marker, files, next, listed, victims, deaths,
                   marked, owed, stuck, spoilt, resisted>>

Glob(t) ==
    /\ pc[t] = "list"
    /\ listed' = [listed EXCEPT ![t] = files]
    /\ pc' = [pc EXCEPT ![t] = "stat"]
    /\ UNCHANGED <<phase, marker, files, next, victims, own, deaths,
                   marked, owed, stuck, spoilt, resisted>>

\* Mutant: the list is sorted oldest first.
BeyondOldest(found) ==
    {f \in found : Cardinality({g \in found : g < f}) >= MaxFiles}

\* Mutant: one file more is kept.
BeyondOneMore(found) ==
    {f \in found : Cardinality({g \in found : g > f}) > MaxFiles}

\* files[max_files:] of the list, newest first.
Beyond(found) ==
    {f \in found : Cardinality({g \in found : g > f}) >= MaxFiles}

Returns(t) ==
    /\ pc' = [pc EXCEPT ![t] = "idle"]
    /\ listed' = [listed EXCEPT ![t] = {}] /\ own' = [own EXCEPT ![t] = 0]

\* The key function asks every listed file for its time.
Sort(t) ==
    /\ pc[t] = "stat" /\ listed[t] \subseteq files
    /\ IF own[t] = 0
       THEN Returns(t) /\ UNCHANGED victims
       ELSE /\ victims' = [victims EXCEPT ![t] = Beyond(listed[t])]
            /\ pc' = [pc EXCEPT ![t] = "delete"]
            /\ UNCHANGED <<listed, own>>
    /\ UNCHANGED <<phase, marker, files, next, deaths, marked, owed, stuck, spoilt, resisted>>

\* A file another thread has deleted since: FileNotFoundError.  It ends
\* write_snapshot before anything is pruned; a page has an unhandled error,
\* which is itself worth a snapshot.
SortFails(t) ==
    /\ pc[t] = "stat" /\ ~(listed[t] \subseteq files)
    /\ IF own[t] = 0
       THEN /\ pc' = [pc EXCEPT ![t] = "write"] /\ listed' = [listed EXCEPT ![t] = {}]
            /\ UNCHANGED <<own, spoilt>>
       ELSE Returns(t) /\ spoilt' = spoilt \cup {own[t]}
    /\ UNCHANGED <<phase, marker, files, next, victims, deaths, marked, owed, stuck, resisted>>

\* A victim is deleted, or another thread was faster; or it cannot be deleted,
\* which is ignored.
Delete(t) ==
    /\ pc[t] = "delete"
    /\ \E f \in victims[t] :
          /\ victims' = [victims EXCEPT ![t] = @ \ {f}]
          /\ \/ files' = files \ {f} /\ resisted' = resisted \ {f}
             \/ f \in files /\ resisted' = resisted \cup {f} /\ UNCHANGED files
    /\ UNCHANGED <<phase, marker, next, pc, listed, own, deaths,
                   marked, owed, stuck, spoilt>>

Pruned(t) ==
    /\ pc[t] = "delete" /\ victims[t] = {}
    /\ Returns(t) /\ spoilt' = spoilt \ listed[t]
    /\ UNCHANGED <<phase, marker, files, next, victims, deaths, marked, owed, stuck, resisted>>

-----------------------------------------------------------------------------
\* The process.

\* Mutant: the marker is consumed before the snapshot is written.
BuildConsuming ==
    /\ phase = "off" /\ marked' = FALSE
    /\ IF marker
       THEN /\ phase' = "checking" /\ pc' = [pc EXCEPT ![Loop] = "write"] /\ marker' = FALSE
       ELSE /\ phase' = "built" /\ UNCHANGED <<pc, marker>>
    /\ UNCHANGED <<files, next, listed, victims, own, deaths, owed, stuck, spoilt, resisted>>

\* GatewayRuntime.__init__: check_previous_shutdown writes a snapshot ...
Build ==
    /\ phase = "off" /\ marked' = FALSE
    /\ IF marker
       THEN phase' = "checking" /\ pc' = [pc EXCEPT ![Loop] = "write"]
       ELSE phase' = "built" /\ UNCHANGED pc
    /\ UNCHANGED <<marker, files, next, listed, victims, own, deaths, owed, stuck, spoilt, resisted>>

\* ... and then deletes the marker, if it can.
Consume ==
    /\ phase = "checking" /\ pc[Loop] = "idle"
    /\ phase' = "built" /\ owed' = FALSE
    /\ \/ marker' = FALSE /\ UNCHANGED stuck
       \/ stuck' = TRUE /\ UNCHANGED marker
    /\ UNCHANGED <<deaths, marked, folder>>

\* GatewayRuntime.start; the marker may fail to be written.
MarkRunning ==
    /\ phase = "built" /\ phase' = "running"
    /\ \/ marker' = TRUE /\ marked' = TRUE
       \/ UNCHANGED <<marker, marked>>
    /\ UNCHANGED <<deaths, owed, stuck, folder>>

\* GatewayRuntime.stop: everything is closed, then the marker goes.
Close ==
    /\ phase = "running" /\ pc[Loop] = "idle" /\ phase' = "closed"
    /\ UNCHANGED <<marker, deaths, marked, owed, stuck, folder>>

\* Mutant: a clean stop leaves the marker.
MarkStoppedKeeping ==
    /\ phase = "closed" /\ pc[Loop] = "idle"
    /\ phase' = "stopped" /\ marked' = FALSE
    /\ UNCHANGED <<marker, stuck, deaths, owed, folder>>

MarkStopped ==
    /\ phase = "closed" /\ pc[Loop] = "idle"
    /\ phase' = "stopped" /\ marked' = FALSE
    /\ \/ marker' = FALSE /\ UNCHANGED stuck
       \/ stuck' = TRUE /\ UNCHANGED marker
    /\ UNCHANGED <<deaths, owed, folder>>

AllIdle == \A t \in Threads : pc[t] = "idle"

\* The interpreter waits for its threads.
Exit ==
    /\ phase = "stopped" /\ AllIdle /\ phase' = "off"
    /\ UNCHANGED <<marker, deaths, marked, owed, stuck, folder>>

\* Power loss, SIGKILL, OOM kill, at any step.
Die ==
    /\ phase # "off" /\ deaths < MaxDeaths
    /\ phase' = "off" /\ deaths' = deaths + 1
    /\ owed' = (owed \/ marked)
    /\ spoilt' = spoilt \cup ({own[t] : t \in Threads} \ {0})
    /\ pc' = [t \in Threads |-> "idle"]
    /\ listed' = [t \in Threads |-> {}] /\ victims' = listed'
    /\ own' = [t \in Threads |-> 0]
    /\ UNCHANGED <<marker, files, next, marked, stuck, resisted>>

Next ==
    \/ \E t \in Threads :
          \/ Fault(t) \/ Write(t) \/ WriteFails(t) \/ Glob(t)
          \/ Sort(t) \/ SortFails(t) \/ Delete(t) \/ Pruned(t)
    \/ ShowPage
    \/ Build \/ Consume \/ MarkRunning \/ Close \/ MarkStopped \/ Exit \/ Die

Spec == Init /\ [][Next]_vars

-----------------------------------------------------------------------------
\* Whatever threads prune at the same time, and wherever the process dies, the
\* newest MaxFiles snapshots are in the folder: junk or a race never pushes a
\* newer one out.
KeepsNewest == \A n \in 1..(next - 1) : n + MaxFiles >= next => n \in files

\* With no thread in the reporter the folder holds MaxFiles snapshots, and at
\* most one more for each snapshot whose pruning failed, was cut off or never ran
\* and that no later pruning has seen, and for each that could not be deleted.
FolderBounded ==
    AllIdle => Cardinality(files) <= MaxFiles + Cardinality(spoilt) + Cardinality(resisted)

\* A run that dies with its marker written is reported by the next start that
\* gets as far as serving, even when starts in between die as well.
UncleanIsReported == phase \in {"built", "running", "closed", "stopped"} => ~owed

\* A start reports an unclean shutdown only when there was one, unless a marker
\* could not be deleted.
NoFalseAlarm == phase = "checking" => owed \/ stuck

\* Why the marker tells the truth: it is there as long as a death is owed a
\* report, and otherwise only while the run that wrote it lasts.
MarkerInv ==
    /\ owed => marker /\ phase \in {"off", "checking"}
    /\ marked /\ phase # "off" => marker /\ phase \in {"running", "closed"}
    /\ marker => owed \/ stuck \/ (marked /\ phase # "off")
    /\ phase = "checking" => marker

\* Why the folder stays small.  A thread's listing has every file that is older
\* than its newest or than the snapshot it prunes for, so when it is done no more
\* than MaxFiles of those are left, but for what could not be deleted; and a
\* victim has MaxFiles newer ones.
ListingInv(t) ==
    /\ pc[t] \in {"idle", "write"} => own[t] = 0
    /\ own[t] < next /\ listed[t] \subseteq 1..(next - 1)
    /\ pc[t] \in {"stat", "delete"} =>
           \A n \in listed[t] \cup {own[t]} : files \cap 1..n \subseteq listed[t]
    /\ pc[t] = "delete" =>
           files \cap listed[t] \subseteq
               (listed[t] \ Beyond(listed[t])) \cup victims[t] \cup resisted
    /\ \A f \in victims[t] : f + MaxFiles < next

Charged(n) == n \in spoilt \/ \E t \in Threads : own[t] = n

Within(n) == Cardinality((files \ resisted) \cap 1..n) <= MaxFiles

PruneInv ==
    /\ phase = "off" => AllIdle
    /\ \A t \in Threads : ListingInv(t)
    /\ \A n \in 1..(next - 1) : Charged(n) \/ Within(n)
=============================================================================
