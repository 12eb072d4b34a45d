------------------------------ MODULE LoginGate -----------------------------
(***************************************************************************)
(* What time does to sign-in: the sliding window of auth/service.py's      *)
(* RateLimiter, the lockout of an account (Database.record_login_failure), *)
(* and the two expiries of a session (auth/sessions.py).  One account and  *)
(* its newest session stand for all: neither limit looks at another one.   *)
(*                                                                         *)
(* Time is a count of ticks; what the code keeps as timestamps is kept     *)
(* here as ages and as time left.  The handlers of one process do not      *)
(* interleave, but the statements of record_login_failure are committed    *)
(* one by one, and a restart or the console's `unlock` may come between.   *)
(***************************************************************************)
EXTENDS Integers, Sequences, FiniteSets

CONSTANTS
    Sources,        \* client addresses
    Limit, Window,  \* login_rate_max_attempts, login_rate_window_seconds
    MaxKeys,        \* sources the limiter tracks before it evicts
    MaxFailures, Lockout,   \* login_max_failures, login_lockout_minutes
    Idles,          \* the values session_idle_timeout_minutes takes
    Absolute,       \* session_absolute_timeout_hours
    Slack,          \* an expiry is rewritten only when it moves by more
    Nil

ASSUME GateAssumption ==
    /\ {Limit, Window, MaxFailures, Lockout, Absolute} \subseteq Nat \ {0}
    /\ Slack \in Nat /\ MaxKeys \in Nat /\ Idles \subseteq Nat \ {0}
    /\ Nil \notin [age : Nat, left : Nat, quiet : Nat, idle : Nat, most : Nat]

VARIABLES
    hits,       \* [Sources -> ages of the attempts in the limiter, oldest first]
    fails,      \* failed_attempts, up to MaxFailures (only >= is asked)
    lock,       \* time left until locked_until, 0 when it is past or NULL
    step,       \* where record_login_failure is
    idle,       \* the idle timeout in force
    sess,       \* the session's row, or Nil
    admitted,   \* history: ages of the attempts let through since the limiter
                \* last forgot the source
    since,      \* history: age of the last wrong password
    torn        \* history: a restart cut record_login_failure off

vars == <<hits, fails, lock, step, idle, sess, admitted, since, torn>>

Lesser(a, b) == IF a <= b THEN a ELSE b
Greater(a, b) == IF a >= b THEN a ELSE b

\* idle: the timeout in force when it was last used; most: the longest one in
\* force at any use (both history, as is quiet, the time since the last use).
Session == [age : Nat, left : Nat, quiet : Nat, idle : Nat, most : Nat]

TypeOK ==
    /\ hits \in [Sources -> Seq(0..Window + 1)]
    /\ \A s \in Sources : Len(hits[s]) <= Limit
    /\ fails \in 0..MaxFailures /\ lock \in 0..Lockout
    /\ step \in {"idle", "counted", "over"}
    /\ idle \in Idles /\ sess \in Session \cup {Nil}
    /\ admitted \in [Sources -> Seq(0..Window)]
    /\ since \in 0..Lockout /\ torn \in BOOLEAN

Init ==
    /\ hits = [s \in Sources |-> <<>>] /\ admitted = hits
    /\ fails = 0 /\ lock = 0 /\ step = "idle" /\ since = Lockout /\ torn = FALSE
    /\ idle \in Idles /\ sess = Nil

-----------------------------------------------------------------------------
\* RateLimiter.

\* Mutant: an attempt counts only for half of the window.
CurrentHalf(age) == 2 * age <= Window

Current(age) == age <= Window

Tracked == {s \in Sources : hits[s] # <<>>}

\* _evict: only sources whose newest attempt has left the window.
Kept ==
    [s \in Sources |->
        IF /\ Cardinality(Tracked) > MaxKeys
           /\ hits[s] # <<>> /\ ~Current(hits[s][Len(hits[s])])
        THEN <<>> ELSE hits[s]]

\* What `popleft` leaves: everything from the first attempt that is not to go.
FromFirst(ages, those) ==
    IF those = {} THEN <<>>
    ELSE SubSeq(ages, CHOOSE i \in those : \A j \in those : i <= j, Len(ages))

Bucket(s) == FromFirst(Kept[s], {i \in DOMAIN Kept[s] : Current(Kept[s][i])})
UnderLimit(s) == Len(Bucket(s)) < Limit

\* Mutant: what has left the window is counted out, but kept.
RegisteredUnpopped(s) ==
    /\ hits' = [Kept EXCEPT ![s] = Append(@, 0)]
    /\ admitted' = [admitted EXCEPT ![s] = Append(@, 0)]

Registered(s) ==
    /\ hits' = [Kept EXCEPT ![s] = Append(Bucket(s), 0)]
    /\ admitted' = [admitted EXCEPT ![s] = Append(@, 0)]

Ready == step = "idle"

\* Over the limit: nothing of the account is looked at.
TurnedAway(s) ==
    /\ Ready /\ ~UnderLimit(s)
    /\ hits' = [Kept EXCEPT ![s] = Bucket(s)]
    /\ UNCHANGED <<fails, lock, step, idle, sess, admitted, since, torn>>

\* An unknown name, a disabled account, or one that is locked.
NotVerified(s) ==
    /\ Ready /\ UnderLimit(s) /\ Registered(s)
    /\ UNCHANGED <<fails, lock, step, idle, sess, since, torn>>

-----------------------------------------------------------------------------
\* The lockout.

\* A wrong password: the first statement of record_login_failure.
Wrong(s) ==
    /\ Ready /\ UnderLimit(s) /\ lock = 0 /\ Registered(s)
    /\ fails' = Lesser(fails + 1, MaxFailures)
    /\ step' = "counted" /\ since' = 0
    /\ UNCHANGED <<lock, idle, sess, torn>>

\* Mutant: the lock needs one failure more than the threshold.
ReadBackAbove ==
    /\ step = "counted"
    /\ step' = IF fails > MaxFailures THEN "over" ELSE "idle"
    /\ UNCHANGED <<hits, fails, lock, idle, sess, admitted, since, torn>>

\* The counter is read back.
ReadBack ==
    /\ step = "counted"
    /\ step' = IF fails >= MaxFailures THEN "over" ELSE "idle"
    /\ UNCHANGED <<hits, fails, lock, idle, sess, admitted, since, torn>>

LockSet ==
    /\ step = "over" /\ step' = "idle"
    /\ lock' = Lockout /\ torn' = FALSE
    /\ UNCHANGED <<hits, fails, idle, sess, admitted, since>>

\* unlock_user and update_password, by a handler or by the console.
Forgive ==
    /\ fails' = 0 /\ lock' = 0 /\ torn' = FALSE
    /\ UNCHANGED <<hits, step, idle, sess, admitted, since>>

-----------------------------------------------------------------------------
\* Sessions.

Expiry(age) == Lesser(idle, Absolute - age)

\* The right password: the lockout and the source's attempts are forgotten.
Right(s) ==
    /\ Ready /\ UnderLimit(s) /\ lock = 0
    /\ hits' = [Kept EXCEPT ![s] = <<>>]
    /\ admitted' = [admitted EXCEPT ![s] = <<>>]
    /\ fails' = 0 /\ torn' = FALSE
    /\ sess' = [age |-> 0, left |-> Expiry(0), quiet |-> 0, idle |-> idle, most |-> idle]
    /\ UNCHANGED <<lock, step, idle, since>>

Valid == sess # Nil /\ sess.left > 0 /\ sess.age < Absolute

\* Mutant: the expiry is not written again.
TouchedNever(left, expiry) == left

\* A request with the session's cookie; validate moves the expiry only when
\* it moves by more than Slack.
Touched(left, expiry) == IF expiry - left > Slack THEN expiry ELSE left

Use ==
    /\ Ready /\ Valid
    /\ sess' = [sess EXCEPT !.left = Touched(@, Expiry(sess.age)), !.quiet = 0,
                            !.idle = idle, !.most = Greater(@, idle)]
    /\ UNCHANGED <<hits, fails, lock, step, idle, admitted, since, torn>>

\* A request that comes too late; the row is deleted.
UseTooLate ==
    /\ Ready /\ sess # Nil /\ ~Valid
    /\ sess' = Nil
    /\ UNCHANGED <<hits, fails, lock, step, idle, admitted, since, torn>>

-----------------------------------------------------------------------------
\* apply_settings: a new limiter takes the place of the old one.
Reload(i) ==
    /\ Ready /\ idle' = i
    /\ hits' = [s \in Sources |-> <<>>] /\ admitted' = hits'
    /\ UNCHANGED <<fails, lock, step, sess, since, torn>>

\* The process ends and starts again: the limiter is in memory, the rows stay,
\* and sessions that have run out are purged.
Restart ==
    /\ step' = "idle" /\ torn' = (torn \/ step # "idle")
    /\ hits' = [s \in Sources |-> <<>>] /\ admitted' = hits'
    /\ sess' = IF sess # Nil /\ sess.left = 0 THEN Nil ELSE sess
    /\ UNCHANGED <<fails, lock, idle, since>>

Recent(ages) == FromFirst(ages, {i \in DOMAIN ages : ages[i] <= Window})
Older(age) == Lesser(age + 1, Window + 1)
Aged(ages) == [i \in DOMAIN ages |-> Older(ages[i])]

\* Statements take no time; a session that has run out stands still.
Tick ==
    /\ Ready
    /\ hits' = [s \in Sources |-> Aged(hits[s])]
    /\ admitted' = [s \in Sources |-> Recent(Aged(admitted[s]))]
    /\ lock' = Greater(lock - 1, 0) /\ since' = Lesser(since + 1, Lockout)
    /\ sess' = IF sess # Nil /\ sess.left > 0
               THEN [sess EXCEPT !.age = @ + 1, !.left = @ - 1, !.quiet = @ + 1]
               ELSE sess
    /\ UNCHANGED <<fails, step, idle, torn>>

Next ==
    \/ \E s \in Sources : TurnedAway(s) \/ NotVerified(s) \/ Wrong(s) \/ Right(s)
    \/ ReadBack \/ LockSet \/ Forgive
    \/ Use \/ UseTooLate
    \/ \E i \in Idles : Reload(i)
    \/ Restart \/ Tick

Spec == Init /\ [][Next]_vars

-----------------------------------------------------------------------------
\* No source gets more than Limit attempts through to the accounts in any
\* window, counted since the limiter last forgot it: by its own successful
\* login, new settings, or a restart.
RateBound == \A s \in Sources : Len(admitted[s]) <= Limit

\* Past the threshold every wrong password locks the account for the whole
\* lockout, also the first one after a lock has run out, and nothing shortens
\* the lock but an unlock or a new password.  The exception is a failure whose
\* statements a restart cut off, until the next wrong password.
LockHolds ==
    fails >= MaxFailures /\ Ready /\ ~torn => lock + since >= Lockout

\* A session never outlives its absolute lifetime; unused it ends no later
\* than the longest idle timeout it was used under, and no sooner than Slack
\* before the one of its last use (or the end of its lifetime).
SessionBounds ==
    sess # Nil =>
        /\ sess.age + sess.left <= Absolute
        /\ sess.left + sess.quiet <= sess.most
        /\ sess.left + sess.quiet + Slack >=
               Lesser(sess.idle, Absolute - (sess.age - sess.quiet))

\* Why: the limiter holds every attempt it let through in the window, oldest
\* first, and what it lets through it holds.
LimiterInv ==
    \A s \in Sources :
        /\ \A i, j \in DOMAIN hits[s] : i <= j => hits[s][i] >= hits[s][j]
        /\ admitted[s] = Recent(hits[s])
=============================================================================
