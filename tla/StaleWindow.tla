---------------------------- MODULE StaleWindow ----------------------------
(***************************************************************************)
(* The timing of the sync loop, seen from one exposed area: how old the    *)
(* bytes DeviceWise reads can get, and how long an area stays readable     *)
(* after the operator hides it.  Time is counted in ticks of a clock that  *)
(* does not go back; an age says how long ago something happened.          *)
(***************************************************************************)
EXTENDS Integers

CONSTANTS
    Timeout,    \* stale_timeout_seconds
    Interval,   \* interval_ms, with the time the event loop takes to wake up
    MaxTick,    \* bound on the time one sync_once takes, with its return
    MaxFails    \* bound on the passes in a row that raise

ASSUME TimingAssumption ==
    /\ Timeout \in Nat /\ Interval \in Nat
    /\ MaxTick \in Nat /\ MaxFails \in Nat

VARIABLES
    pc,         \* _supervise: asleep, or in sync_once before / after build_plan
    clock,      \* time since pc's sleep, or sync_once, began
    wake,       \* _wake
    read,       \* age of the newest good read that fresh() returns
    unread,     \* time since fresh() has returned nothing
    entry,      \* age of the bytes planned for the area
    buffer,     \* age of the bytes registered on the virtual CPU
    refused,    \* history: the last pass was to publish the area at a size that
                \* register refuses at once
    hidden,     \* time since the area was hidden
    fails       \* passes that have raised, in a row

vars == <<pc, clock, wake, read, unread, entry, buffer, refused, hidden, fails>>

\* No such bytes, or no such moment.
Never == -1
Ages == Nat \cup {Never}
Older(age) == IF age = Never THEN Never ELSE age + 1

Asleep == pc = "sleep"

\* The time one sync tick takes, and the longest the loop may go without one
\* that succeeds.
Round == Interval + MaxTick
Window == MaxTick + (MaxFails + 1) * Round

TypeOK ==
    /\ pc \in {"sleep", "plan", "act", "return"}
    /\ clock \in 0..(IF Asleep THEN Interval ELSE MaxTick)
    /\ wake \in BOOLEAN
    /\ read \in 0..Timeout \cup {Never}
    /\ unread \in Ages /\ (unread = Never <=> read # Never)
    /\ entry \in Ages
    /\ buffer \in Ages
    /\ refused \in BOOLEAN
    /\ hidden \in Ages
    /\ fails \in 0..MaxFails

Init ==
    /\ pc = "plan" /\ clock = 0
    /\ wake = FALSE
    /\ read = Never /\ entry = Never /\ buffer = Never /\ hidden = Never
    /\ unread = 0 /\ refused = FALSE
    /\ fails = 0

-----------------------------------------------------------------------------
\* The time since an area was barred; when it is withdrawn it no longer matters
\* and stops at Window.
Longer(age) == IF age >= Window /\ buffer = Never THEN age ELSE Older(age)

\* Mutant: is_fresh only asks whether the read was good.
AdvanceStillFresh ==
    /\ Asleep => clock < Interval /\ ~wake
    /\ ~Asleep => clock < MaxTick
    /\ clock' = clock + 1
    /\ read' = Older(read) /\ unread' = Longer(unread)
    /\ entry' = Older(entry)
    /\ buffer' = IF refused THEN buffer ELSE Older(buffer)
    /\ hidden' = Longer(hidden)
    /\ UNCHANGED <<pc, wake, refused, fails>>

\* Time passes, never beyond the moment the loop has to act.  is_fresh: a read
\* past the timeout is not returned again.  Bytes kept by a refusal have no
\* bounded age, and it is not counted.
Advance ==
    /\ Asleep => clock < Interval /\ ~wake
    /\ ~Asleep => clock < MaxTick
    /\ clock' = clock + 1
    /\ IF read = Timeout THEN read' = Never /\ unread' = 0
                         ELSE read' = Older(read) /\ unread' = Longer(unread)
    /\ entry' = Older(entry)
    /\ buffer' = IF refused THEN buffer ELSE Older(buffer)
    /\ hidden' = Longer(hidden)
    /\ UNCHANGED <<pc, wake, refused, fails>>

\* The sleep times out or is woken.
BeginTick ==
    /\ Asleep
    /\ clock = Interval \/ wake
    /\ pc' = "plan"
    /\ clock' = 0
    /\ UNCHANGED <<wake, read, unread, entry, buffer, refused, hidden, fails>>

\* Mutant: build_plan does not look at the exposure.
PlanUnseen ==
    /\ pc = "plan"
    /\ pc' = "act"
    /\ entry' = read
    /\ UNCHANGED <<clock, wake, read, unread, buffer, refused, hidden, fails>>

\* Mutant: without a fresh read the bytes published last are planned again.
PlanLastRead ==
    /\ pc = "plan"
    /\ pc' = "act"
    /\ entry' = IF hidden # Never THEN Never ELSE IF read = Never THEN buffer ELSE read
    /\ UNCHANGED <<clock, wake, read, unread, buffer, refused, hidden, fails>>

\* build_plan reads the row and the snapshot.
Plan ==
    /\ pc = "plan"
    /\ pc' = "act"
    /\ entry' = IF hidden # Never THEN Never ELSE read
    /\ UNCHANGED <<clock, wake, read, unread, buffer, refused, hidden, fails>>

\* build_plan raises: the pass is over, nothing is published or withdrawn.
PlanFails ==
    /\ pc = "plan"
    /\ fails < MaxFails
    /\ pc' = "return"
    /\ fails' = fails + 1
    /\ UNCHANGED <<clock, wake, read, unread, entry, buffer, refused, hidden>>

\* Mutant: an area that is not planned keeps its registration.
ActRegistersOnly ==
    /\ pc = "act"
    /\ pc' = "return"
    /\ buffer' = IF entry = Never THEN buffer ELSE entry
    /\ refused' = FALSE
    /\ entry' = Never
    /\ fails' = 0
    /\ UNCHANGED <<clock, wake, read, unread, hidden>>

\* The area is withdrawn, or registered and updated; when Snap7 refuses it, it
\* has been withdrawn as well.  A size out of range is refused before that: the
\* old registration stays as it was.
Act ==
    /\ pc = "act"
    /\ pc' = "return"
    /\ \/ buffer' \in {entry, Never} /\ refused' = FALSE
       \/ entry # Never /\ buffer # Never /\ refused' = TRUE /\ UNCHANGED buffer
    /\ entry' = Never
    /\ fails' = 0
    /\ UNCHANGED <<clock, wake, read, unread, hidden>>

\* _sleep, back on the event loop, clears the event first: what was requested
\* since the pass began is forgotten.
EnterSleep ==
    /\ pc = "return"
    /\ pc' = "sleep"
    /\ clock' = 0
    /\ wake' = FALSE
    /\ UNCHANGED <<read, unread, entry, buffer, refused, hidden, fails>>

-----------------------------------------------------------------------------
\* The worker publishes a good read, or a failed one.
GoodRead ==
    /\ read' = 0 /\ unread' = Never
    /\ UNCHANGED <<pc, clock, wake, entry, buffer, refused, hidden, fails>>

FailedRead ==
    /\ read' = Never
    /\ unread' = IF read = Never THEN unread ELSE 0
    /\ UNCHANGED <<pc, clock, wake, entry, buffer, refused, hidden, fails>>

\* set_exposure: the row, and request_refresh.
Hide ==
    /\ hidden = Never
    /\ hidden' = 0
    /\ wake' = TRUE
    /\ UNCHANGED <<pc, clock, read, unread, entry, buffer, refused, fails>>

Show ==
    /\ hidden # Never
    /\ hidden' = Never
    /\ wake' = TRUE
    /\ UNCHANGED <<pc, clock, read, unread, entry, buffer, refused, fails>>

Next ==
    \/ Advance
    \/ BeginTick \/ Plan \/ PlanFails \/ Act \/ EnterSleep
    \/ GoodRead \/ FailedRead
    \/ Hide \/ Show

Spec == Init /\ [][Next]_vars

-----------------------------------------------------------------------------
\* No area is backed by anything but a current read (sync.py): what DeviceWise
\* reads was good no longer ago than the stale timeout and the time until the
\* loop looks again - a pass that planned it just in time, then the passes that
\* raise, each after its sleep.  Only bytes that a refused change of size has
\* left behind may be older.
BufferIsCurrent == buffer # Never /\ ~refused => buffer <= Timeout + Window

\* An area without a current read is withdrawn (sync.py), whatever was refused
\* before.  A size that register refuses is one the client refuses to read
\* (MAX_REGISTERED_BYTES, MAX_AREA_BYTES), so this ends a refusal as well.
UnreadIsWithdrawn == buffer # Never /\ unread # Never => unread <= Window

\* A hidden area is withdrawn (set_exposure): at the latest by the pass after
\* the one that was under way, although the request made during that one is
\* lost.
HiddenIsWithdrawn == buffer # Never /\ hidden # Never => hidden <= Window

\* Why the bounds hold: how far the ages have got, phase by phase.
Elapsed ==
    CASE pc = "sleep"         -> MaxTick + fails * Round + clock
      [] pc \in {"plan", "act"} -> MaxTick + fails * Round + Interval + clock
      [] pc = "return"        -> fails * Round + clock

AgeInv ==
    /\ entry # Never => pc = "act" /\ entry <= Timeout + clock
    /\ entry # Never /\ hidden # Never => hidden <= clock
    /\ entry # Never /\ unread # Never => unread <= clock
    /\ buffer # Never /\ ~refused => buffer <= Timeout + Elapsed
    /\ buffer # Never /\ unread # Never => unread <= Elapsed
    /\ buffer # Never /\ hidden # Never => hidden <= Elapsed
=============================================================================
