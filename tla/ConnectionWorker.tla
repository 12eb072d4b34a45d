-------------------------- MODULE ConnectionWorker --------------------------
(***************************************************************************)
(* One ConnectionWorker: the polling coroutine, the call its one PLC       *)
(* thread is busy with, and the coroutine of stop().  The coroutine runs   *)
(* from one await to the next in a step; pc names what it awaits, and a    *)
(* call that comes back is one step with what the coroutine does next.     *)
(***************************************************************************)
EXTENDS Naturals

CONSTANT MaxAreas       \* bound on the areas of a poll cycle
ASSUME AreasAssumption == MaxAreas \in Nat

VARIABLES
    pc,         \* what the coroutine awaits, or how it has ended
    reason,     \* why the discovery under way runs
    attempt,    \* failed connects in a row, counted up to FailedAt
    cycles,     \* read_failures: poll cycles in a row without a good read
    left,       \* areas of this cycle still to be read
    bad,        \* whether every read of this cycle failed so far
    rescan,     \* _rescan
    stop,       \* _stop
    state,      \* _health.state
    linked,     \* the client holds a Snap7 handle
    stopper,    \* where stop() is
    orphan      \* the call the PLC thread still runs for a cancelled coroutine

loopVars == <<pc, reason, attempt, cycles, left, bad>>
vars == <<loopVars, rescan, stop, state, linked, stopper, orphan>>

FailedAt == 5
ReadFailuresBeforeReconnect == 3

Awaits == {"begin", "connect", "identify", "discover", "apply", "read", "check",
           "pause", "backoff", "hangup", "closing"}
Ended == {"done", "dead", "cancelled"}

\* Calls on the PLC thread, which cannot be cancelled once it runs them.
PlcCalls == {"connect", "identify", "discover", "read", "check", "hangup", "closing"}

State == {"stopped", "connecting", "connected", "reconnecting", "failed"}

TypeOK ==
    /\ pc \in Awaits \cup Ended
    /\ reason \in {"connect", "rescan", "interval"}
    /\ attempt \in 0..FailedAt
    /\ cycles \in 0..ReadFailuresBeforeReconnect
    /\ left \in 0..MaxAreas
    /\ bad \in BOOLEAN
    /\ rescan \in BOOLEAN
    /\ stop \in BOOLEAN
    /\ state \in State
    /\ linked \in BOOLEAN
    /\ stopper \in {"none", "waiting", "draining", "stopped"}
    /\ orphan \in PlcCalls \cup {"none"}

\* The manager starts workers of enabled connections only.
Init ==
    /\ pc = "begin"
    /\ reason = "connect"
    /\ attempt = 0
    /\ cycles = 0
    /\ left = 0
    /\ bad = FALSE
    /\ rescan = FALSE
    /\ stop = FALSE
    /\ state = "stopped"
    /\ linked = FALSE
    /\ stopper = "none"
    /\ orphan = "none"

-----------------------------------------------------------------------------
(* Stretches of the coroutine between two awaits. *)

\* The head of _run's loop.
TryConnect(failed) ==
    \/ /\ stop
       /\ pc' = "closing"
       /\ UNCHANGED state
    \/ /\ ~stop
       /\ pc' = "connect"
       /\ state' = IF failed = 0 THEN "connecting" ELSE "reconnecting"

\* Mutant: one failed cycle more is tolerated.
EndCycleLater(allFailed) ==
    LET failures == IF allFailed THEN cycles + 1 ELSE 0
    IN  /\ cycles' = failures
        /\ left' = 0
        /\ \/ /\ failures > ReadFailuresBeforeReconnect
              /\ pc' = "hangup"
              /\ state' = "reconnecting"
           \/ /\ failures <= ReadFailuresBeforeReconnect
              /\ pc' = "check"
              /\ UNCHANGED state

\* The end of a poll cycle, in which every read failed or not.
EndCycle(allFailed) ==
    LET failures == IF allFailed THEN cycles + 1 ELSE 0
    IN  /\ cycles' = failures
        /\ left' = 0
        /\ \/ /\ failures = ReadFailuresBeforeReconnect
              /\ pc' = "hangup"
              /\ state' = "reconnecting"
           \/ /\ failures < ReadFailuresBeforeReconnect
              /\ pc' = "check"
              /\ UNCHANGED state

\* A poll cycle begins with n areas: none, or the first is read unless a stop
\* has been requested.
BeginCycle(n) ==
    \/ /\ n = 0
       /\ EndCycle(FALSE)
       /\ UNCHANGED bad
    \/ /\ n > 0
       /\ left' = n
       /\ bad' = TRUE
       /\ pc' = IF stop THEN "hangup" ELSE "read"
       /\ UNCHANGED <<cycles, state>>

\* The database refuses a statement outside any handler: _supervise records it
\* and the task is over.
Dies ==
    /\ pc' = "dead"
    /\ state' = "failed"

DiesBeforeCycle == Dies /\ UNCHANGED <<cycles, left, bad>>

Discovering(why) ==
    /\ pc' = "discover"
    /\ reason' = why
    /\ UNCHANGED <<cycles, left, bad, state>>

\* Mutant: only the timer starts a discovery, a request is not looked at.
PollHeadDropping ==
    \/ /\ stop
       /\ pc' = "hangup"
       /\ UNCHANGED <<reason, cycles, left, bad, rescan, state>>
    \/ /\ ~stop
       /\ Discovering("interval")
       /\ UNCHANGED rescan
    \/ /\ ~stop
       /\ (\E n \in 0..MaxAreas : BeginCycle(n)) \/ DiesBeforeCycle
       /\ UNCHANGED <<reason, rescan>>

\* The head of the poll loop: stop, a requested rescan, one by the timer, or
\* straight to the cycle.
PollHead ==
    \/ /\ stop
       /\ pc' = "hangup"
       /\ UNCHANGED <<reason, cycles, left, bad, rescan, state>>
    \/ /\ ~stop /\ rescan
       /\ rescan' = FALSE
       /\ Discovering("rescan")
    \/ /\ ~stop /\ ~rescan
       /\ Discovering("interval")
       /\ UNCHANGED rescan
    \/ /\ ~stop /\ ~rescan
       /\ (\E n \in 0..MaxAreas : BeginCycle(n)) \/ DiesBeforeCycle
       /\ UNCHANGED <<reason, rescan>>

\* Where a discovery pass returns to.
AfterDiscovery ==
    \/ reason = "connect" /\ PollHead
    \/ /\ reason # "connect"
       /\ (\E n \in 0..MaxAreas : BeginCycle(n)) \/ DiesBeforeCycle
       /\ UNCHANGED <<reason, rescan>>

-----------------------------------------------------------------------------
(* The coroutine's steps, one per await that comes back. *)

Begin ==
    /\ pc = "begin"
    /\ TryConnect(0)
    /\ UNCHANGED <<reason, attempt, cycles, left, bad, rescan, stop, linked, stopper, orphan>>

ConnectOk ==
    /\ pc = "connect"
    /\ pc' = "identify"
    /\ attempt' = 0
    /\ linked' = TRUE
    /\ state' = "connected"
    /\ UNCHANGED <<reason, cycles, left, bad, rescan, stop, stopper, orphan>>

ConnectFails ==
    LET failed == IF attempt < FailedAt THEN attempt + 1 ELSE FailedAt
    IN  /\ pc = "connect"
        /\ pc' = "backoff"
        /\ attempt' = failed
        /\ linked' = FALSE
        /\ state' = IF failed < FailedAt THEN "reconnecting" ELSE "failed"
        /\ UNCHANGED <<reason, cycles, left, bad, rescan, stop, stopper, orphan>>

\* The delay is over, or a stop cuts it short.
BackoffEnds ==
    /\ pc = "backoff"
    /\ TryConnect(attempt)
    /\ UNCHANGED <<reason, attempt, cycles, left, bad, rescan, stop, linked, stopper, orphan>>

\* cpu_identity answers or not; then the first discovery.  read_failures is a
\* local of the poll loop that follows.
Identified ==
    /\ pc = "identify"
    /\ pc' = "discover"
    /\ reason' = "connect"
    /\ cycles' = 0
    /\ UNCHANGED <<attempt, left, bad, rescan, stop, state, linked, stopper, orphan>>

Discovered ==
    /\ pc = "discover"
    /\ pc' = "apply"
    /\ UNCHANGED <<reason, attempt, cycles, left, bad, rescan, stop, state, linked, stopper, orphan>>

\* discover raises: the loop goes on without.
DiscoveryFails ==
    /\ pc = "discover"
    /\ AfterDiscovery
    /\ UNCHANGED <<attempt, stop, linked, stopper, orphan>>

Applied ==
    /\ pc = "apply"
    /\ AfterDiscovery
    /\ UNCHANGED <<attempt, stop, linked, stopper, orphan>>

\* apply_discovery, or the listing after it, raises: no handler there.
ApplyRaises ==
    /\ pc = "apply"
    /\ Dies
    /\ UNCHANGED <<reason, attempt, cycles, left, bad, rescan, stop, linked, stopper, orphan>>

\* A read is published, good or failed, and the next begins unless a stop has
\* been requested.
ReadEnds(good) ==
    /\ pc = "read"
    /\ bad' = (bad /\ ~good)
    /\ \/ /\ left > 1
          /\ left' = left - 1
          /\ pc' = IF stop THEN "hangup" ELSE "read"
          /\ UNCHANGED <<cycles, state>>
       \/ /\ left = 1
          /\ EndCycle(bad /\ ~good)
    /\ UNCHANGED <<reason, attempt, rescan, stop, linked, stopper, orphan>>

\* get_connected answers yes, or no (or raises).
CheckEnds(connected) ==
    /\ pc = "check"
    /\ pc' = IF connected THEN "pause" ELSE "hangup"
    /\ state' = IF connected THEN state ELSE "reconnecting"
    /\ UNCHANGED <<reason, attempt, cycles, left, bad, rescan, stop, linked, stopper, orphan>>

PauseEnds ==
    /\ pc = "pause"
    /\ PollHead
    /\ UNCHANGED <<attempt, stop, linked, stopper, orphan>>

\* Mutant: the loop is re-entered without closing the session.
HangupSkipped ==
    /\ pc = "hangup"
    /\ TryConnect(0)
    /\ UNCHANGED <<reason, attempt, cycles, left, bad, rescan, stop, linked, stopper, orphan>>

\* The session is closed; "reconnecting" is overwritten at the loop's head.
HangupEnds ==
    /\ pc = "hangup"
    /\ linked' = FALSE
    /\ TryConnect(0)
    /\ UNCHANGED <<reason, attempt, cycles, left, bad, rescan, stop, stopper, orphan>>

ClosingEnds ==
    /\ pc = "closing"
    /\ linked' = FALSE
    /\ pc' = "done"
    /\ state' = "stopped"
    /\ UNCHANGED <<reason, attempt, cycles, left, bad, rescan, stop, stopper, orphan>>

LoopStep ==
    \/ Begin \/ ConnectOk \/ ConnectFails \/ BackoffEnds \/ Identified
    \/ Discovered \/ DiscoveryFails \/ Applied \/ ApplyRaises
    \/ \E good \in BOOLEAN : ReadEnds(good)
    \/ \E connected \in BOOLEAN : CheckEnds(connected)
    \/ PauseEnds \/ HangupEnds \/ ClosingEnds

-----------------------------------------------------------------------------
(* Callers. *)

RequestRescan ==
    /\ stopper = "none"
    /\ ~rescan
    /\ rescan' = TRUE
    /\ UNCHANGED <<loopVars, stop, state, linked, stopper, orphan>>

\* stop: both events, then it waits for the task.
Stop ==
    /\ stopper = "none"
    /\ stop' = TRUE
    /\ rescan' = TRUE
    /\ stopper' = "waiting"
    /\ UNCHANGED <<loopVars, state, linked, orphan>>

\* Mutant: only a loop that ended by itself is noticed.
StopSeenDone ==
    /\ stopper = "waiting"
    /\ pc = "done"
    /\ stopper' = "draining"
    /\ UNCHANGED <<loopVars, rescan, stop, state, linked, orphan>>

StopSeen ==
    /\ stopper = "waiting"
    /\ pc \in Ended
    /\ stopper' = "draining"
    /\ UNCHANGED <<loopVars, rescan, stop, state, linked, orphan>>

\* Mutant: a stop that had to cancel leaves the client to itself.
StopGivesUp ==
    /\ stopper = "waiting"
    /\ pc \in Awaits
    /\ pc' = "cancelled"
    /\ orphan' = IF pc \in PlcCalls THEN pc ELSE "none"
    /\ stopper' = "stopped"
    /\ UNCHANGED <<reason, attempt, cycles, left, bad, rescan, stop, state, linked>>

\* The wait times out and the task is cancelled at its await; a call on the PLC
\* thread runs on.
StopCancels ==
    /\ stopper = "waiting"
    /\ pc \in Awaits
    /\ pc' = "cancelled"
    /\ orphan' = IF pc \in PlcCalls THEN pc ELSE "none"
    /\ stopper' = "draining"
    /\ UNCHANGED <<reason, attempt, cycles, left, bad, rescan, stop, state, linked>>

OrphanEnds ==
    /\ orphan # "none"
    /\ orphan' = "none"
    /\ linked' \in CASE orphan = "connect"              -> BOOLEAN
                     [] orphan \in {"hangup", "closing"} -> {FALSE}
                     [] OTHER                           -> {linked}
    /\ UNCHANGED <<loopVars, rescan, stop, state, stopper>>

\* Mutant: stop closes the client without queueing behind the thread's call.
DrainsAtOnce ==
    /\ stopper = "draining"
    /\ linked' = FALSE
    /\ stopper' = "stopped"
    /\ state' = "stopped"
    /\ UNCHANGED <<loopVars, rescan, stop, orphan>>

\* The disconnect queued on the PLC thread runs, behind the call it was busy
\* with; the executor is shut down.
Drains ==
    /\ stopper = "draining"
    /\ orphan = "none"
    /\ linked' = FALSE
    /\ stopper' = "stopped"
    /\ state' = "stopped"
    /\ UNCHANGED <<loopVars, rescan, stop, orphan>>

Next ==
    \/ LoopStep
    \/ RequestRescan
    \/ Stop \/ StopSeen \/ StopCancels \/ OrphanEnds \/ Drains

Spec == Init /\ [][Next]_vars

\* Every Snap7 call, wait and thread comes to an end (the calls have timeouts),
\* and a PLC that is tried again and again can be connected to again and again.
Fairness ==
    /\ WF_vars(LoopStep)
    /\ SF_vars(ConnectOk)
    /\ WF_vars(OrphanEnds)
    /\ WF_vars(StopSeen \/ StopCancels)
    /\ WF_vars(Drains)

FairSpec == Spec /\ Fairness

-----------------------------------------------------------------------------
\* The status page does not claim a link that is closed: "connected" is shown
\* only while the handle is open, or on the way out of a stop, and "stopped"
\* or "failed" never hide an open one that the loop still owns.
HealthIsTruthful ==
    /\ state = "connected" => linked \/ stop
    /\ state = "stopped" => ~linked
    /\ state = "failed" => ~linked \/ pc = "dead"

\* When stop() returns, the session to the PLC is closed, although the task may
\* have been cancelled in the middle of a connect; and nothing opens it again.
StoppedIsClosed ==
    stopper = "stopped" => ~linked /\ orphan = "none" /\ pc \in Ended /\ state = "stopped"

\* A handle is open only where the loop will close it: in a session, in a call
\* that is being abandoned, or in a loop that has died, for stop to close.
NoHandleLeaks ==
    linked => \/ pc \in Awaits \ {"begin", "connect", "backoff", "closing"}
              \/ stopper = "draining"
              \/ pc = "dead"

\* Why they hold: a call outlives its coroutine only while stop() waits for it,
\* and a connect is under way only under a state that admits it.
StopInv ==
    /\ stop <=> stopper # "none"
    /\ stopper \in {"draining", "stopped"} => pc \in Ended
    /\ pc = "cancelled" => stopper \in {"draining", "stopped"}
    /\ orphan # "none" => pc = "cancelled" /\ stopper = "draining"
    /\ pc = "connect" \/ orphan = "connect" => state \in {"connecting", "reconnecting"}
    /\ pc \in {"closing", "done"} => stop /\ ~linked

\* request_rescan is honoured "at the next opportunity": the request is taken,
\* across reconnects, unless the worker is stopped or its loop has died.
RescanHappens == rescan ~> (~rescan \/ stop \/ pc = "dead")

\* stop() comes back, whatever the loop is waiting for.
StopReturns == stop ~> (stopper = "stopped")

\* The supervision contract (worker.py, architecture 4): any failure is retried,
\* the loop ends only when it is stopped.
LoopSurvives == pc \in Ended => stop
=============================================================================
