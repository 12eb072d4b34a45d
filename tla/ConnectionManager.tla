------------------------- MODULE ConnectionManager -------------------------
(***************************************************************************)
(* ConnectionManager: the pool of polling workers, reconciled with         *)
(* plc_connections by apply_config.  Web handlers run at once on the event *)
(* loop and queue for the manager's lock; the holder gives the loop up     *)
(* only while a worker stops.  Between two awaits the order of its         *)
(* bookkeeping shows to nobody, so each connection is a step of its own.   *)
(***************************************************************************)
EXTENDS Naturals, Sequences

CONSTANTS
    Conns,      \* ids of connections, given out once (AUTOINCREMENT)
    Settings,   \* what a row configures: records with a field "wire"
    Tasks,      \* coroutines that call apply_config
    Exit,       \* the coroutine that calls stop
    Nobody,     \* not a task, not a connection
    None,       \* not a row
    MaxSaves    \* bound on the changes of rows in a behaviour

Row == [enabled : BOOLEAN, set : Settings]

ASSUME TasksAssumption == Exit \notin Tasks /\ Nobody \notin Tasks \cup {Exit}
ASSUME ConnsAssumption == Nobody \notin Conns
ASSUME RowAssumption == None \notin Row
ASSUME SavesAssumption == MaxSaves \in Nat

VARIABLES
    db,         \* plc_connections
    used,       \* ids that have been given out
    started,    \* _started
    lock,       \* the task that holds _lock
    queue,      \* the tasks that wait for it
    desired,    \* the holder's: the rows it listed
    todo,       \* the holder's: connections still to be looked at
    halting,    \* the connection whose worker the holder is stopping
    workers,    \* _workers: the row a worker runs with
    signed,     \* _signatures: the transport settings its client was built with
    alive,      \* how many workers a connection has that have not stopped
    health,     \* connections with an entry in the datastore's health table
    dropping,   \* the connection that a handler has deleted
    closing,    \* how far the process has got with its end
    leaving,    \* stop's: connections whose workers it is stopping
    saves       \* budget spent

poolVars == <<workers, signed, alive, health>>
holderVars == <<desired, todo, halting>>
vars == <<db, used, started, lock, queue, holderVars, poolVars, dropping, closing, leaving, saves>>

\* _restart_signature.
Signature(row) == row.set.wire
Wires == {s.wire : s \in Settings}
Enabled(row) == row # None /\ row.enabled
Free == lock = Nobody /\ queue = <<>>
Idle(t) == lock # t /\ \A i \in 1..Len(queue) : queue[i] # t

TypeOK ==
    /\ db \in [Conns -> Row \cup {None}]
    /\ used \subseteq Conns
    /\ started \in BOOLEAN
    /\ lock \in Tasks \cup {Nobody}
    /\ queue \in Seq(Tasks \cup {Exit})
    /\ desired \in [Conns -> Row \cup {None}]
    /\ todo \subseteq Conns
    /\ halting \in Conns \cup {Nobody}
    /\ workers \in [Conns -> Row \cup {None}]
    /\ signed \in [Conns -> Wires \cup {None}]
    /\ alive \in [Conns -> Nat]
    /\ health \subseteq Conns
    /\ dropping \in [Tasks -> Conns \cup {Nobody}]
    /\ closing \in {"no", "waiting", "stopping", "stopped"}
    /\ leaving \subseteq Conns
    /\ saves \in 0..MaxSaves

\* Any configuration may be on disk when the process starts.
Init ==
    /\ db \in [Conns -> Row \cup {None}]
    /\ used = {c \in Conns : db[c] # None}
    /\ started = FALSE
    /\ lock = Nobody /\ queue = <<>>
    /\ desired = [c \in Conns |-> None] /\ todo = {} /\ halting = Nobody
    /\ workers = [c \in Conns |-> None] /\ signed = [c \in Conns |-> None]
    /\ alive = [c \in Conns |-> 0] /\ health = {}
    /\ dropping = [t \in Tasks |-> Nobody]
    /\ closing = "no" /\ leaving = {}
    /\ saves = 0

-----------------------------------------------------------------------------
(* apply_config, from its call to the lock. *)

\* Inside the lock: the rows are listed now.
Hold(t) ==
    /\ lock' = t
    /\ desired' = db'
    /\ todo' = {c \in Conns : db'[c] # None \/ workers[c] # None}

\* asyncio.Lock hands itself to its waiters in order.
Enter(t) ==
    \/ Free /\ Hold(t) /\ UNCHANGED queue
    \/ ~Free /\ queue' = Append(queue, t) /\ UNCHANGED <<lock, desired, todo>>

Acquire(t) ==
    /\ lock = Nobody
    /\ queue # <<>> /\ Head(queue) = t
    /\ UNCHANGED db
    /\ Hold(t)
    /\ queue' = Tail(queue)
    /\ UNCHANGED <<used, started, halting, poolVars, dropping, closing, leaving, saves>>

\* start: the flag, then apply_config.
Start(t) ==
    /\ ~started /\ closing = "no"
    /\ Idle(t)
    /\ started' = TRUE
    /\ UNCHANGED db
    /\ Enter(t)
    /\ UNCHANGED <<used, halting, poolVars, dropping, closing, leaving, saves>>

\* A handler has written its row, or none, and calls apply_config, which
\* returns at once unless started; what follows a deletion, follows it then.
Apply(t, c) ==
    \/ started /\ Enter(t) /\ dropping' = [dropping EXCEPT ![t] = c] /\ UNCHANGED health
    \/ /\ ~started
       /\ health' = health \ {c}
       /\ UNCHANGED <<lock, queue, desired, todo, dropping>>

\* create_connection and update_connection; an UPDATE of no row is none.
Save(t, c, row) ==
    /\ Idle(t)
    /\ saves < MaxSaves /\ saves' = saves + 1
    /\ db' = IF c \in used /\ db[c] = None THEN db ELSE [db EXCEPT ![c] = row]
    /\ used' = used \cup {c}
    /\ Apply(t, Nobody)
    /\ UNCHANGED <<started, halting, workers, signed, alive, closing, leaving>>

\* delete_connection.
Delete(t, c) ==
    /\ Idle(t)
    /\ saves < MaxSaves /\ saves' = saves + 1
    /\ db[c] # None
    /\ db' = [db EXCEPT ![c] = None]
    /\ Apply(t, c)
    /\ UNCHANGED <<used, started, halting, workers, signed, alive, closing, leaving>>

-----------------------------------------------------------------------------
(* The holder of the lock. *)

\* Mutant: _stop_worker is not awaited.
HoldingOn == lock # Nobody

Holding == lock # Nobody /\ halting = Nobody
HolderOnly == UNCHANGED <<db, used, started, queue, desired, dropping, closing, leaving, saves>>

\* Workers of connections that are gone are stopped before anything else.
InTurn(c) ==
    /\ Holding
    /\ c \in todo
    /\ desired[c] # None => \A d \in todo : desired[d] # None

\* Mutant: the whole row's settings are kept as the signature.
LaunchedWhole(c) ==
    /\ workers' = [workers EXCEPT ![c] = desired[c]]
    /\ signed' = [signed EXCEPT ![c] = desired[c].set]
    /\ health' = health \cup {c}

\* A worker is built and started: its health is published, its task created.
Launched(c) ==
    /\ workers' = [workers EXCEPT ![c] = desired[c]]
    /\ signed' = [signed EXCEPT ![c] = Signature(desired[c])]
    /\ health' = health \cup {c}

Launch(c) ==
    /\ InTurn(c)
    /\ workers[c] = None /\ Enabled(desired[c])
    /\ todo' = todo \ {c}
    /\ Launched(c)
    /\ alive' = [alive EXCEPT ![c] = alive[c] + 1]
    /\ UNCHANGED <<lock, halting>>
    /\ HolderOnly

\* Mutant: the pass over the connections does not move on.
SkipStays(c) ==
    /\ InTurn(c)
    /\ workers[c] = None /\ ~Enabled(desired[c])
    /\ UNCHANGED <<lock, todo, halting, poolVars>>
    /\ HolderOnly

Skip(c) ==
    /\ InTurn(c)
    /\ workers[c] = None /\ ~Enabled(desired[c])
    /\ todo' = todo \ {c}
    /\ UNCHANGED <<lock, halting, poolVars>>
    /\ HolderOnly

\* Mutant: a running worker is left with the row it was started with.
RefreshForgotten(c) ==
    /\ InTurn(c)
    /\ workers[c] # None /\ Enabled(desired[c])
    /\ signed[c] = Signature(desired[c])
    /\ todo' = todo \ {c}
    /\ UNCHANGED <<lock, halting, poolVars>>
    /\ HolderOnly

\* Nothing transport-level changed: the worker gets the new row.
Refresh(c) ==
    /\ InTurn(c)
    /\ workers[c] # None /\ Enabled(desired[c])
    /\ signed[c] = Signature(desired[c])
    /\ todo' = todo \ {c}
    /\ workers' = [workers EXCEPT ![c] = desired[c]]
    /\ UNCHANGED <<lock, halting, signed, alive, health>>
    /\ HolderOnly

\* Deleted, disabled or reconfigured: _stop_worker takes the worker out of the
\* pool and waits until it has stopped.
Halt(c) ==
    /\ InTurn(c)
    /\ workers[c] # None
    /\ Enabled(desired[c]) => signed[c] # Signature(desired[c])
    /\ todo' = todo \ {c}
    /\ workers' = [workers EXCEPT ![c] = None]
    /\ signed' = [signed EXCEPT ![c] = None]
    /\ halting' = c
    /\ UNCHANGED <<lock, alive, health>>
    /\ HolderOnly

\* It has, and has published so; a deleted connection is dropped, one that is
\* enabled gets a new worker.
Halted(c) ==
    /\ halting = c
    /\ halting' = Nobody
    /\ \/ /\ desired[c] = None
          /\ alive' = [alive EXCEPT ![c] = alive[c] - 1]
          /\ health' = health \ {c}
          /\ UNCHANGED <<workers, signed>>
       \/ /\ desired[c] # None /\ ~Enabled(desired[c])
          /\ alive' = [alive EXCEPT ![c] = alive[c] - 1]
          /\ health' = health \cup {c}
          /\ UNCHANGED <<workers, signed>>
       \/ /\ Enabled(desired[c])
          /\ Launched(c)
          /\ UNCHANGED alive
    /\ UNCHANGED <<lock, todo>>
    /\ HolderOnly

\* Mutant: the handler leaves it to apply_config to drop the connection.
ReleaseOnly(t) ==
    /\ Holding /\ lock = t
    /\ todo = {}
    /\ lock' = Nobody
    /\ desired' = [c \in Conns |-> None]
    /\ dropping' = [dropping EXCEPT ![t] = Nobody]
    /\ UNCHANGED <<db, used, started, queue, todo, halting, poolVars, closing, leaving, saves>>

\* apply_config returns; a handler that deleted a connection drops what the
\* datastore keeps of it.
Release(t) ==
    /\ Holding /\ lock = t
    /\ todo = {}
    /\ lock' = Nobody
    /\ desired' = [c \in Conns |-> None]
    /\ health' = health \ {dropping[t]}
    /\ dropping' = [dropping EXCEPT ![t] = Nobody]
    /\ UNCHANGED <<db, used, started, queue, todo, halting, workers, signed, alive, closing, leaving, saves>>

HolderStep ==
    \/ \E c \in Conns : Launch(c) \/ Skip(c) \/ Refresh(c) \/ Halt(c) \/ Halted(c)
    \/ \E t \in Tasks : Release(t)

-----------------------------------------------------------------------------
(* stop. *)

\* Inside the lock, without an await: the pool is emptied.
Collect ==
    /\ leaving' = {c \in Conns : workers[c] # None}
    /\ workers' = [c \in Conns |-> None]
    /\ signed' = [c \in Conns |-> None]
    /\ closing' = "stopping"

\* Mutant: the pool is emptied without the lock.
StopAtOnce ==
    /\ started /\ closing = "no"
    /\ started' = FALSE
    /\ Collect
    /\ UNCHANGED <<db, used, lock, queue, holderVars, alive, health, dropping, saves>>

Stop ==
    /\ started /\ closing = "no"
    /\ started' = FALSE
    /\ \/ Free /\ Collect /\ UNCHANGED queue
       \/ /\ ~Free
          /\ queue' = Append(queue, Exit)
          /\ closing' = "waiting"
          /\ UNCHANGED <<leaving, workers, signed>>
    /\ UNCHANGED <<db, used, lock, holderVars, alive, health, dropping, saves>>

StopAcquires ==
    /\ lock = Nobody
    /\ queue # <<>> /\ Head(queue) = Exit
    /\ queue' = Tail(queue)
    /\ Collect
    /\ UNCHANGED <<db, used, started, lock, holderVars, alive, health, dropping, saves>>

\* The workers stop side by side.
Left(c) ==
    /\ c \in leaving
    /\ leaving' = leaving \ {c}
    /\ alive' = [alive EXCEPT ![c] = alive[c] - 1]
    /\ health' = health \cup {c}
    /\ UNCHANGED <<db, used, started, lock, queue, holderVars, workers, signed, dropping, closing, saves>>

StopReturns ==
    /\ closing = "stopping" /\ leaving = {}
    /\ closing' = "stopped"
    /\ UNCHANGED <<db, used, started, lock, queue, holderVars, poolVars, dropping, leaving, saves>>

StopStep == StopAcquires \/ StopReturns \/ \E c \in Conns : Left(c)

Next ==
    \/ \E t \in Tasks :
          \/ Start(t)
          \/ Acquire(t)
          \/ \E c \in Conns, row \in Row : Save(t, c, row)
          \/ \E c \in Conns : Delete(t, c)
    \/ HolderStep
    \/ Stop
    \/ StopStep

Spec == Init /\ [][Next]_vars

\* A worker's stop returns (ConnectionWorker), and the event loop runs whoever
\* has been handed the lock.
Fairness ==
    /\ WF_vars(HolderStep)
    /\ WF_vars(\E t \in Tasks : Acquire(t))
    /\ WF_vars(StopStep)

FairSpec == Spec /\ Fairness

-----------------------------------------------------------------------------
\* Hot reload (manager.py): when no apply_config is under way, the pool is what
\* plc_connections says, whatever order the handlers were served in: a worker
\* for each enabled connection, with its newest row and transport settings.
PoolMatchesRows ==
    started /\ Free => \A c \in Conns :
        IF Enabled(db[c])
        THEN workers[c] = db[c] /\ signed[c] = Signature(db[c]) /\ alive[c] = 1
        ELSE workers[c] = None /\ alive[c] = 0

\* A connection never has two workers, and so no two polling sessions on its PLC
\* (worker.py: "exactly one"): not across a restart, nor between apply_config and
\* stop.
OneWorkerEach == \A c \in Conns : alive[c] <= 1

\* When stop returns, every worker has stopped, and a handler that was waiting
\* for the lock, or comes later, starts none.
StopIsFinal == closing = "stopped" => \A c \in Conns : alive[c] = 0 /\ workers[c] = None

\* Nothing of a deleted connection is left on the status page (drop_connection),
\* though its worker publishes "stopped" after the row has gone.
NoGhosts == started /\ Free => \A c \in health : db[c] # None

\* Why they hold.  A task waits once, and not while it holds the lock; a holder
\* leaves nothing undone.
QueueInv ==
    /\ \A i, j \in 1..Len(queue) : queue[i] = queue[j] => i = j
    /\ \A i \in 1..Len(queue) : queue[i] # lock
    /\ lock = Nobody => todo = {} /\ halting = Nobody

\* stop is the last of the queue, and none joins it after stop has been called.
StopInv ==
    /\ started => closing = "no"
    /\ closing = "no" => leaving = {} /\ \A i \in 1..Len(queue) : queue[i] # Exit
    /\ closing = "no" /\ ~started => Free /\ health = {} /\ \A c \in Conns : workers[c] = None
    /\ closing = "waiting" =>
           leaving = {} /\ \A i \in 1..Len(queue) : queue[i] = Exit => i = Len(queue)
    /\ closing \in {"stopping", "stopped"} => Free /\ \A c \in Conns : workers[c] = None
    /\ closing = "stopped" => leaving = {}

\* A worker that has not stopped is in the pool, or is being stopped by one
\* coroutine; and what the holder has dealt with is as it listed it, which is
\* the newest there is unless somebody waits to list it again.
PoolInv ==
    /\ \A c \in Conns :
           /\ alive[c] = IF workers[c] # None \/ halting = c \/ c \in leaving THEN 1 ELSE 0
           /\ workers[c] # None => halting # c /\ c \notin leaving
           /\ halting = c => c \notin leaving /\ c \notin todo
    /\ lock # Nobody => \A c \in Conns \ (todo \cup {halting}) :
           IF Enabled(desired[c])
           THEN workers[c] = desired[c] /\ signed[c] = Signature(desired[c])
           ELSE workers[c] = None
    /\ started /\ lock # Nobody /\ queue = <<>> => desired = db

\* A deleted connection that still shows, or that a holder may yet start, has a
\* handler that has not had its turn, or has listed the rows without it.
Shows(c) ==
    c \in health \/ workers[c] # None \/ halting = c \/ (lock # Nobody /\ desired[c] # None)
Pending(c) ==
    \E t \in Tasks :
        /\ dropping[t] = c
        /\ (\E i \in 1..Len(queue) : queue[i] = t) \/ (lock = t /\ desired[c] = None)
TraceInv ==
    /\ \A c \in Conns : db[c] # None => c \in used
    /\ started => \A c \in Conns : Shows(c) /\ db[c] = None => Pending(c)

IInv == QueueInv /\ StopInv /\ PoolInv /\ TraceInv /\ PoolMatchesRows

\* Every handler gets its turn and returns, and so does stop.
CallersReturn ==
    /\ \A t \in Tasks : ~Idle(t) ~> Idle(t)
    /\ closing = "waiting" ~> closing = "stopped"
=============================================================================
