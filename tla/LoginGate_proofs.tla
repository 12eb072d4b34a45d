-------------------------- MODULE LoginGate_proofs --------------------------
(***************************************************************************)
(* The lockout, the expiry of sessions and the limiter's window, proved    *)
(* for every threshold, lockout, timeout, limit and window.                *)
(***************************************************************************)
EXTENDS LoginGate, SequenceTheorems, WellFoundedInduction, TLAPS

\* What the two proofs need to know of the state: everything but the limiter.
ClockTypes ==
    /\ fails \in 0..MaxFailures /\ lock \in 0..Lockout
    /\ step \in {"idle", "counted", "over"}
    /\ idle \in Idles /\ sess \in Session \cup {Nil}
    /\ since \in 0..Lockout /\ torn \in BOOLEAN

GateInv == ClockTypes /\ LockHolds /\ SessionBounds

LEMMA Bounds ==
    /\ MaxFailures \in Nat /\ MaxFailures > 0 /\ Lockout \in Nat /\ Lockout > 0
    /\ Absolute \in Nat /\ Absolute > 0 /\ Slack \in Nat
    /\ \A i \in Idles : i \in Nat /\ i > 0
BY GateAssumption

LEMMA NilIsNoSession == Nil \notin Session
BY GateAssumption DEF Session

LEMMA Fields ==
    ASSUME NEW s \in Session
    PROVE  /\ s.age \in Nat /\ s.left \in Nat /\ s.quiet \in Nat /\ s.idle \in Nat
           /\ s.most \in Nat
BY DEF Session

LEMMA InitGate == Init => GateInv
<1>. SUFFICES ASSUME Init PROVE GateInv  OBVIOUS
<1>1. fails \in 0..MaxFailures /\ lock \in 0..Lockout /\ since \in 0..Lockout
  BY Bounds DEF Init
<1>2. ~(fails >= MaxFailures)  BY Bounds DEF Init
<1>3. sess = Nil /\ torn = FALSE /\ step = "idle" /\ idle \in Idles  BY DEF Init
<1>. QED  BY <1>1, <1>2, <1>3 DEF GateInv, ClockTypes, LockHolds, SessionBounds

-----------------------------------------------------------------------------
(* The lockout. *)

LockVars == <<fails, lock, step, since, torn>>

LEMMA StepLock ==
    ASSUME ClockTypes, LockHolds, [Next]_vars
    PROVE  /\ fails' \in 0..MaxFailures /\ lock' \in 0..Lockout
           /\ step' \in {"idle", "counted", "over"}
           /\ since' \in 0..Lockout /\ torn' \in BOOLEAN
           /\ LockHolds'
<1>. DEFINE Goal == /\ fails' \in 0..MaxFailures /\ lock' \in 0..Lockout
                    /\ step' \in {"idle", "counted", "over"}
                    /\ since' \in 0..Lockout /\ torn' \in BOOLEAN
                    /\ LockHolds'
<1>. USE Bounds DEF ClockTypes, LockHolds, Ready
<1>1. CASE UNCHANGED LockVars  BY <1>1 DEF LockVars
<1>2. ASSUME NEW s \in Sources, Wrong(s) PROVE Goal
  <2>1. fails' = Lesser(fails + 1, MaxFailures) /\ lock' = lock /\ torn' = torn
        /\ step' = "counted" /\ since' = 0
    BY <1>2 DEF Wrong
  <2>2. fails' \in 0..MaxFailures  BY <2>1 DEF Lesser
  <2>. QED  BY <2>1, <2>2
<1>3. ASSUME NEW s \in Sources, Right(s) PROVE Goal
  <2>1. torn' \in BOOLEAN /\ step' = step /\ fails' = 0 /\ lock' = lock /\ since' = since
    BY <1>3 DEF Right
  <2>2. fails' \in 0..MaxFailures /\ ~(fails' >= MaxFailures)  BY <2>1
  <2>. QED  BY <2>1, <2>2
<1>4. CASE ReadBack  BY <1>4 DEF ReadBack
<1>5. CASE LockSet
  <2>1. torn' \in BOOLEAN /\ step' = "idle" /\ fails' = fails /\ lock' = Lockout
        /\ since' = since
    BY <1>5 DEF LockSet
  <2>2. lock' \in 0..Lockout /\ lock' + since' >= Lockout  BY <2>1
  <2>. QED  BY <2>1, <2>2
<1>6. CASE Forgive
  <2>1. torn' \in BOOLEAN /\ step' = step /\ fails' = 0 /\ lock' = 0 /\ since' = since
    BY <1>6 DEF Forgive
  <2>2. fails' \in 0..MaxFailures /\ lock' \in 0..Lockout /\ ~(fails' >= MaxFailures)  BY <2>1
  <2>. QED  BY <2>1, <2>2
<1>7. CASE Restart  BY <1>7 DEF Restart
<1>8. CASE Tick
  <2>1. /\ lock' = Greater(lock - 1, 0) /\ since' = Lesser(since + 1, Lockout)
        /\ UNCHANGED <<fails, step, torn>>
    BY <1>8 DEF Tick
  <2>2. lock' \in 0..Lockout /\ since' \in 0..Lockout  BY <2>1 DEF Greater, Lesser
  <2>3. lock + since >= Lockout => lock' + since' >= Lockout
    BY <2>1 DEF Greater, Lesser
  <2>. QED  BY <2>1, <2>2, <2>3
<1>9. ASSUME NEW s \in Sources, TurnedAway(s) \/ NotVerified(s) PROVE Goal
  BY <1>1, <1>9 DEF TurnedAway, NotVerified, LockVars
<1>10. ASSUME Use \/ UseTooLate \/ (\E i \in Idles : Reload(i)) \/ UNCHANGED vars PROVE Goal
  BY <1>1, <1>10 DEF Use, UseTooLate, Reload, vars, LockVars
<1>. QED
  BY <1>2, <1>3, <1>4, <1>5, <1>6, <1>7, <1>8, <1>9, <1>10 DEF Next

-----------------------------------------------------------------------------
(* Sessions. *)

\* A freshly opened session.
LEMMA Opened ==
    ASSUME idle \in Idles, NEW s,
           s = [age |-> 0, left |-> Expiry(0), quiet |-> 0, idle |-> idle, most |-> idle]
    PROVE  /\ s \in Session /\ s.age + s.left <= Absolute /\ s.left + s.quiet <= s.most
           /\ s.left + s.quiet + Slack >= Lesser(s.idle, Absolute - (s.age - s.quiet))
<1>1. Expiry(0) \in Nat /\ Expiry(0) <= Absolute /\ Expiry(0) <= idle
      /\ Expiry(0) = Lesser(idle, Absolute - 0)
  BY Bounds DEF Expiry, Lesser
<1>2. s \in Session  BY <1>1, Bounds DEF Session
<1>3. Lesser(s.idle, Absolute - (s.age - s.quiet)) = Expiry(0)
  BY <1>1, Bounds DEF Lesser
<1>. QED  BY <1>1, <1>2, <1>3, Bounds

LEMMA StepSession ==
    ASSUME ClockTypes, SessionBounds, [Next]_vars
    PROVE  idle' \in Idles /\ sess' \in Session \cup {Nil} /\ SessionBounds'
<1>. DEFINE Goal == idle' \in Idles /\ sess' \in Session \cup {Nil} /\ SessionBounds'
<1>0. idle \in Idles /\ sess \in Session \cup {Nil} /\ idle \in Nat
  BY Bounds DEF ClockTypes
<1>1. ASSUME UNCHANGED sess, idle' \in Idles PROVE Goal
  BY <1>0, <1>1 DEF SessionBounds
<1>2. ASSUME sess' = Nil, idle' \in Idles PROVE Goal
  BY <1>2 DEF SessionBounds
<1>3. ASSUME NEW s \in Sources, Right(s) PROVE Goal
  <2>1. sess' = [age |-> 0, left |-> Expiry(0), quiet |-> 0, idle |-> idle, most |-> idle]
        /\ idle' = idle
    BY <1>3 DEF Right
  <2>2. /\ sess' \in Session /\ sess'.age + sess'.left <= Absolute
        /\ sess'.left + sess'.quiet <= sess'.most
        /\ sess'.left + sess'.quiet + Slack >=
              Lesser(sess'.idle, Absolute - (sess'.age - sess'.quiet))
    BY <1>0, <2>1, Opened
  <2>. QED  BY <1>0, <2>1, <2>2 DEF SessionBounds, Lesser
<1>4. CASE Use
  <2>. DEFINE e == Expiry(sess.age)
              l == Touched(sess.left, e)
              m == Greater(sess.most, idle)
  <2>1. sess \in Session /\ sess # Nil /\ sess.age < Absolute
    BY <1>0, <1>4 DEF Use, Valid
  <2>2. /\ sess.age \in Nat /\ sess.left \in Nat /\ sess.quiet \in Nat /\ sess.idle \in Nat
        /\ sess.most \in Nat
    BY <2>1, Fields
  <2>3. sess' = [sess EXCEPT !.left = l, !.quiet = 0, !.idle = idle, !.most = m]
        /\ idle' = idle
    BY <1>4 DEF Use
  <2>4. sess.age + sess.left <= Absolute /\ sess.left + sess.quiet <= sess.most
    BY <2>1 DEF SessionBounds
  <2>5. e \in Nat /\ e <= idle /\ sess.age + e <= Absolute /\ e = Lesser(idle, Absolute - sess.age)
    BY <1>0, <2>1, <2>2, Bounds DEF Expiry, Lesser
  <2>. HIDE DEF e
  <2>6. l \in Nat /\ sess.age + l <= Absolute /\ l + Slack >= e
    BY <2>2, <2>4, <2>5, Bounds DEF Touched
  <2>7. m \in Nat /\ l <= m
    BY <1>0, <2>2, <2>4, <2>5, Bounds DEF Touched, Greater
  <2>. HIDE DEF l, m
  <2>8. /\ sess'.age = sess.age /\ sess'.left = l /\ sess'.quiet = 0 /\ sess'.idle = idle
        /\ sess'.most = m /\ sess' \in Session
    BY <1>0, <2>1, <2>3, <2>6, <2>7 DEF Session
  <2>9. Lesser(sess'.idle, Absolute - (sess'.age - sess'.quiet)) = e
    BY <2>2, <2>5, <2>8, Bounds DEF Lesser
  <2>10. /\ sess'.age + sess'.left <= Absolute /\ sess'.left + sess'.quiet <= sess'.most
         /\ sess'.left + sess'.quiet + Slack >= e
    BY <2>6, <2>7, <2>8, Bounds
  <2>. QED  BY <1>0, <2>3, <2>8, <2>9, <2>10 DEF SessionBounds, Lesser
<1>5. CASE Tick
  <2>1. CASE sess = Nil \/ ~(sess.left > 0)  BY <1>0, <1>1, <1>5, <2>1 DEF Tick
  <2>2. CASE sess # Nil /\ sess.left > 0
    <3>1. sess' = [sess EXCEPT !.age = @ + 1, !.left = @ - 1, !.quiet = @ + 1] /\ idle' = idle
      BY <1>5, <2>2 DEF Tick
    <3>2. /\ sess \in Session
          /\ sess.age \in Nat /\ sess.left \in Nat /\ sess.quiet \in Nat /\ sess.idle \in Nat
          /\ sess.most \in Nat
      BY <1>0, <2>2, Fields
    <3>3. /\ sess'.age = sess.age + 1 /\ sess'.left = sess.left - 1
          /\ sess'.quiet = sess.quiet + 1 /\ sess'.idle = sess.idle /\ sess'.most = sess.most
          /\ sess' \in Session
      <4>1. sess.age + 1 \in Nat /\ sess.left - 1 \in Nat /\ sess.quiet + 1 \in Nat
        BY <2>2, <3>2
      <4>. QED  BY <3>1, <3>2, <4>1 DEF Session
    <3>4. /\ sess.age + sess.left <= Absolute /\ sess.left + sess.quiet <= sess.most
          /\ sess.left + sess.quiet + Slack >=
                Lesser(sess.idle, Absolute - (sess.age - sess.quiet))
      BY <2>2 DEF SessionBounds
    <3>5. sess'.age - sess'.quiet = sess.age - sess.quiet  BY <3>2, <3>3
    <3>6. /\ sess'.age + sess'.left = sess.age + sess.left
          /\ sess'.left + sess'.quiet = sess.left + sess.quiet
      BY <3>2, <3>3
    <3>7. Lesser(sess'.idle, Absolute - (sess'.age - sess'.quiet))
            = Lesser(sess.idle, Absolute - (sess.age - sess.quiet))
      BY <3>3, <3>5
    <3>. QED  BY <1>0, <3>1, <3>3, <3>4, <3>6, <3>7 DEF SessionBounds, Lesser
  <2>. QED  BY <2>1, <2>2
<1>6. CASE Restart
  <2>1. idle' \in Idles /\ (UNCHANGED sess \/ sess' = Nil)  BY <1>0, <1>6 DEF Restart
  <2>. QED  BY <1>1, <1>2, <2>1
<1>7. CASE UseTooLate  BY <1>0, <1>2, <1>7 DEF UseTooLate
<1>8. ASSUME NEW i \in Idles, Reload(i) PROVE Goal  BY <1>1, <1>8 DEF Reload
<1>9. ASSUME NEW s \in Sources, TurnedAway(s) \/ NotVerified(s) \/ Wrong(s) PROVE Goal
  BY <1>0, <1>1, <1>9 DEF TurnedAway, NotVerified, Wrong
<1>10. ASSUME ReadBack \/ LockSet \/ Forgive \/ UNCHANGED vars PROVE Goal
  BY <1>0, <1>1, <1>10 DEF ReadBack, LockSet, Forgive, vars
<1>. QED
  BY <1>3, <1>4, <1>5, <1>6, <1>7, <1>8, <1>9, <1>10 DEF Next

-----------------------------------------------------------------------------
(* The limiter. *)

LEMMA Limits ==
    /\ Limit \in Nat /\ Limit > 0 /\ Window \in Nat /\ Window > 0 /\ MaxKeys \in Nat
BY GateAssumption

\* A set of numbers that is not empty has a least element.
LEMMA Least ==
    ASSUME NEW T, T \subseteq Nat, T # {}
    PROVE  \E m \in T : \A n \in T : m <= n
<1>. DEFINE less == OpToRel(<, Nat)
<1>1. PICK m \in T : \A n \in T : ~(<<n, m>> \in less)
  BY NatLessThanWellFounded, WFMin
<1>2. \A n \in T : n < m => <<n, m>> \in less  BY DEF OpToRel
<1>. HIDE DEF less
<1>3. \A n \in T : ~(n < m)  BY <1>1, <1>2
<1>. QED  BY <1>3

LEMMA Narrower ==
    ASSUME NEW S, NEW T, NEW q \in Seq(S), \A i \in 1..Len(q) : q[i] \in T
    PROVE  q \in Seq(T)
<1>1. Len(q) \in Nat /\ q \in [1..Len(q) -> T]  OBVIOUS
<1>. QED  BY <1>1

Ages == 0..Window + 1

Falling(q) == \A i, j \in DOMAIN q : i <= j => q[i] >= q[j]

\* p is what is left of q when its first n have gone, which are those past the window.
Cut(q, p, n) ==
    /\ p \in Seq(Ages) /\ Len(p) = Len(q) - n
    /\ \A i \in 1..Len(p) : p[i] = q[n + i]
    /\ \A i \in 1..n : ~(q[i] <= Window)
    /\ n < Len(q) => q[n + 1] <= Window

LEMMA RecentCuts ==
    ASSUME NEW q \in Seq(Ages)
    PROVE  \E n \in 0..Len(q) : Cut(q, Recent(q), n)
<1>. DEFINE those == {i \in DOMAIN q : q[i] <= Window}
<1>0. /\ Len(q) \in Nat /\ DOMAIN q = 1..Len(q) /\ \A i \in 1..Len(q) : q[i] \in Ages
      /\ Ages \subseteq Nat
  BY Limits DEF Ages
<1>1. CASE those = {}
  <2>1. Recent(q) = <<>>  BY <1>1 DEF Recent, FromFirst
  <2>2. \A i \in 1..Len(q) : ~(q[i] <= Window)  BY <1>0, <1>1
  <2>3. <<>> \in Seq(Ages) /\ Len(<<>>) = 0  OBVIOUS
  <2>4. Len(q) \in 0..Len(q) /\ 0 = Len(q) - Len(q) /\ ~(Len(q) < Len(q)) /\ 1..0 = {}
    BY <1>0
  <2>5. Cut(q, Recent(q), Len(q))  BY <2>1, <2>2, <2>3, <2>4 DEF Cut
  <2>. QED  BY <2>4, <2>5
<1>2. CASE those # {}
  <2>. DEFINE first == CHOOSE i \in those : \A j \in those : i <= j
  <2>1. those \subseteq Nat  BY <1>0
  <2>2. \E i \in those : \A j \in those : i <= j  BY <1>2, <2>1, Least
  <2>3. first \in those /\ \A j \in those : first <= j  BY <2>2
  <2>4. Recent(q) = SubSeq(q, first, Len(q))  BY <1>2 DEF Recent, FromFirst
  <2>. HIDE DEF first
  <2>5. first \in 1..Len(q) /\ q[first] <= Window  BY <1>0, <2>3
  <2>6. \A i \in 1..first - 1 : ~(q[i] <= Window)
    <3>. SUFFICES ASSUME NEW i \in 1..first - 1, q[i] <= Window PROVE FALSE  OBVIOUS
    <3>1. i \in those  BY <1>0, <2>5
    <3>. QED  BY <2>3, <2>5, <3>1
  <2>7. /\ SubSeq(q, first, Len(q)) \in Seq(Ages)
        /\ Len(SubSeq(q, first, Len(q))) = Len(q) - (first - 1)
        /\ \A i \in 1..Len(q) - first + 1 : SubSeq(q, first, Len(q))[i] = q[first + i - 1]
    BY <1>0, <2>5, SubSeqProperties
  <2>8. \A i \in 1..Len(q) - first + 1 : first + i - 1 = (first - 1) + i  BY <1>0, <2>5
  <2>9. first - 1 \in 0..Len(q) /\ (first - 1) + 1 = first  BY <1>0, <2>5
  <2>10. Cut(q, Recent(q), first - 1)
    <3>1. Len(Recent(q)) = Len(q) - first + 1  BY <1>0, <2>4, <2>5, <2>7
    <3>2. \A i \in 1..Len(Recent(q)) : Recent(q)[i] = q[(first - 1) + i]
      BY <2>4, <2>7, <2>8, <3>1
    <3>. QED  BY <2>4, <2>5, <2>6, <2>7, <2>9, <3>2 DEF Cut
  <2>. QED  BY <2>9, <2>10
<1>. QED  BY <1>1, <1>2

\* There is only one cut.
LEMMA CutIsRecent ==
    ASSUME NEW q \in Seq(Ages), NEW p, NEW n \in 0..Len(q), Cut(q, p, n)
    PROVE  p = Recent(q)
<1>1. PICK m \in 0..Len(q) : Cut(q, Recent(q), m)  BY RecentCuts
<1>2. Len(q) \in Nat  OBVIOUS
<1>3. m = n
  <2>1. ~(m < n)
    <3>. SUFFICES ASSUME m < n PROVE FALSE  OBVIOUS
    <3>1. m + 1 \in 1..n /\ m < Len(q)  BY <1>2
    <3>. QED  BY <1>1, <3>1 DEF Cut
  <2>2. ~(n < m)
    <3>. SUFFICES ASSUME n < m PROVE FALSE  OBVIOUS
    <3>1. n + 1 \in 1..m /\ n < Len(q)  BY <1>2
    <3>. QED  BY <1>1, <3>1 DEF Cut
  <2>. QED  BY <2>1, <2>2
<1>4. /\ p \in Seq(Ages) /\ Recent(q) \in Seq(Ages) /\ Len(p) = Len(Recent(q))
      /\ \A i \in 1..Len(p) : p[i] = Recent(q)[i]
  BY <1>1, <1>3 DEF Cut
<1>. QED  BY <1>4, SeqEqual

\* What the window keeps of falling ages is falling and in the window.
LEMMA RecentProperties ==
    ASSUME NEW q \in Seq(Ages), Falling(q)
    PROVE  /\ Recent(q) \in Seq(0..Window) /\ Falling(Recent(q))
           /\ Len(Recent(q)) <= Len(q) /\ Recent(Recent(q)) = Recent(q)
<1>1. PICK n \in 0..Len(q) : Cut(q, Recent(q), n)  BY RecentCuts
<1>. DEFINE p == Recent(q)
<1>2. /\ p \in Seq(Ages) /\ Len(p) = Len(q) - n /\ Len(p) \in Nat /\ Len(q) \in Nat
      /\ \A i \in 1..Len(p) : p[i] = q[n + i]
      /\ n < Len(q) => q[n + 1] <= Window
  BY <1>1 DEF Cut
<1>. HIDE DEF p
<1>3. \A i \in 1..Len(p) : n + i \in DOMAIN q  BY <1>2
<1>4. \A i, j \in 1..Len(p) : i <= j => p[i] >= p[j]
  <2>. SUFFICES ASSUME NEW i \in 1..Len(p), NEW j \in 1..Len(p), i <= j PROVE p[i] >= p[j]
    OBVIOUS
  <2>1. n + i \in DOMAIN q /\ n + j \in DOMAIN q /\ n + i <= n + j  BY <1>2, <1>3
  <2>2. q[n + i] >= q[n + j]  BY <2>1 DEF Falling
  <2>. QED  BY <1>2, <2>2
<1>5. \A i \in 1..Len(p) : p[i] \in 0..Window
  <2>. TAKE i \in 1..Len(p)
  <2>1. 1 \in 1..Len(p) /\ n < Len(q) /\ p[1] = q[n + 1] /\ 1 <= i  BY <1>2
  <2>2. p[1] >= p[i] /\ p[1] <= Window  BY <1>2, <1>4, <2>1
  <2>3. p[i] \in Ages /\ p[1] \in Ages  BY <1>2, <2>1
  <2>. QED  BY <2>2, <2>3, Limits DEF Ages
<1>6. p \in Seq(0..Window)  BY <1>2, <1>5, Narrower
<1>7. Cut(p, p, 0)
  <2>1. 0 < Len(p) => p[0 + 1] <= Window  BY <1>2, <1>5, Limits
  <2>2. \A i \in 1..Len(p) : p[i] = p[0 + i]  BY <1>2
  <2>. QED  BY <1>2, <2>1, <2>2 DEF Cut
<1>8. p = Recent(p)  BY <1>2, <1>7, CutIsRecent
<1>9. DOMAIN p = 1..Len(p) /\ Len(p) <= Len(q)  BY <1>2
<1>10. Falling(p)  BY <1>4, <1>9 DEF Falling
<1>. QED  BY <1>6, <1>8, <1>9, <1>10 DEF p

\* A new attempt joins those of the window.
LEMMA RecentAppend ==
    ASSUME NEW q \in Seq(0..Window), Falling(q)
    PROVE  /\ Append(q, 0) \in Seq(0..Window) /\ Append(q, 0) \in Seq(Ages)
           /\ Falling(Append(q, 0)) /\ Len(Append(q, 0)) = Len(q) + 1
           /\ Recent(Append(q, 0)) = Append(q, 0)
<1>. DEFINE p == Append(q, 0)
<1>0. 0 \in 0..Window /\ 0..Window \subseteq Ages  BY Limits DEF Ages
<1>1. /\ p \in Seq(0..Window) /\ Len(p) = Len(q) + 1 /\ Len(q) \in Nat
      /\ \A i \in 1..Len(q) : p[i] = q[i]
      /\ p[Len(q) + 1] = 0
  BY <1>0, AppendProperties
<1>. HIDE DEF p
<1>2. \A i \in 1..Len(p) : p[i] \in 0..Window  BY <1>1, ElementOfSeq
<1>3. p \in Seq(Ages)
  <2>1. \A i \in 1..Len(p) : p[i] \in Ages  BY <1>0, <1>2
  <2>. QED  BY <1>1, <2>1, Narrower
<1>4. \A i, j \in 1..Len(p) : i <= j => p[i] >= p[j]
  <2>. SUFFICES ASSUME NEW i \in 1..Len(p), NEW j \in 1..Len(p), i <= j PROVE p[i] >= p[j]
    OBVIOUS
  <2>1. CASE j = Len(q) + 1  BY <1>1, <1>2, <2>1, Limits
  <2>2. CASE j # Len(q) + 1
    <3>1. i \in 1..Len(q) /\ j \in 1..Len(q)  BY <1>1, <2>2
    <3>. QED  BY <1>1, <3>1 DEF Falling
  <2>. QED  BY <2>1, <2>2
<1>5. Cut(p, p, 0)
  <2>1. 0 < Len(p) => p[0 + 1] <= Window  BY <1>1, <1>2, Limits
  <2>2. \A i \in 1..Len(p) : p[i] = p[0 + i]  BY <1>1
  <2>. QED  BY <1>1, <1>3, <2>1, <2>2 DEF Cut
<1>6. p = Recent(p)  BY <1>1, <1>3, <1>5, CutIsRecent
<1>. QED  BY <1>1, <1>3, <1>4, <1>6 DEF p, Falling

\* Falling ages whose newest is past the window have all left it.
LEMMA RecentGone ==
    ASSUME NEW q \in Seq(Ages), Falling(q), q # <<>> => ~(q[Len(q)] <= Window)
    PROVE  Recent(q) = <<>>
<1>1. Len(q) \in Nat /\ \A i \in 1..Len(q) : q[i] \in Nat  BY Limits DEF Ages
<1>2. \A i \in 1..Len(q) : ~(q[i] <= Window)
  <2>. TAKE i \in 1..Len(q)
  <2>1. q # <<>> /\ Len(q) \in 1..Len(q) /\ i <= Len(q)  BY <1>1
  <2>2. q[i] >= q[Len(q)]  BY <2>1 DEF Falling
  <2>. QED  BY <1>1, <2>1, <2>2, Limits
<1>3. Cut(q, <<>>, Len(q))  BY <1>1, <1>2 DEF Cut
<1>. QED  BY <1>1, <1>3, CutIsRecent

LEMMA AgedProperties ==
    ASSUME NEW q \in Seq(Ages)
    PROVE  /\ Aged(q) \in Seq(Ages) /\ Len(Aged(q)) = Len(q)
           /\ \A i \in 1..Len(q) : Aged(q)[i] = Older(q[i])
           /\ Falling(q) => Falling(Aged(q))
<1>1. /\ Len(q) \in Nat /\ DOMAIN q = 1..Len(q)
      /\ \A i \in 1..Len(q) : q[i] \in Ages /\ q[i] \in Nat
  BY Limits DEF Ages
<1>2. \A a \in Ages : Older(a) \in Ages  BY Limits DEF Older, Lesser, Ages
<1>3. \A a, b \in Ages : a >= b => Older(a) >= Older(b)  BY Limits DEF Older, Lesser, Ages
<1>4. Aged(q) = [i \in 1..Len(q) |-> Older(q[i])]  BY <1>1 DEF Aged
<1>5. \A i \in 1..Len(q) : Aged(q)[i] = Older(q[i]) /\ Aged(q)[i] \in Ages
  BY <1>1, <1>2, <1>4
<1>6. Aged(q) \in Seq(Ages) /\ Len(Aged(q)) = Len(q)
  <2>1. Aged(q) \in [1..Len(q) -> Ages]  BY <1>4, <1>5
  <2>. QED  BY <1>1, <2>1
<1>7. Falling(q) => Falling(Aged(q))
  <2>. SUFFICES ASSUME Falling(q), NEW i \in 1..Len(q), NEW j \in 1..Len(q), i <= j
                PROVE  Aged(q)[i] >= Aged(q)[j]
    BY <1>1, <1>4 DEF Falling
  <2>1. q[i] >= q[j]  BY <1>1 DEF Falling
  <2>. QED  BY <1>1, <1>3, <1>5, <2>1
<1>. QED  BY <1>5, <1>6, <1>7

\* Time takes from the window what it takes from all that was kept.
LEMMA RecentAged ==
    ASSUME NEW q \in Seq(Ages), Falling(q)
    PROVE  Recent(Aged(Recent(q))) = Recent(Aged(q))
<1>. DEFINE p == Recent(q)
            a == Aged(p)
            b == Aged(q)
<1>1. PICK n \in 0..Len(q) : Cut(q, p, n)  BY RecentCuts
<1>2. /\ p \in Seq(Ages) /\ Len(p) = Len(q) - n /\ Len(p) \in Nat /\ Len(q) \in Nat
      /\ \A i \in 1..Len(p) : p[i] = q[n + i]
      /\ \A i \in 1..n : ~(q[i] <= Window)
  BY <1>1 DEF Cut
<1>. HIDE DEF p
<1>3. /\ a \in Seq(Ages) /\ Len(a) = Len(p)
      /\ \A i \in 1..Len(p) : a[i] = Older(p[i])
  BY <1>2, AgedProperties
<1>4. /\ b \in Seq(Ages) /\ Len(b) = Len(q)
      /\ \A i \in 1..Len(q) : b[i] = Older(q[i])
  BY AgedProperties
<1>. HIDE DEF a, b
<1>5. PICK m \in 0..Len(a) : Cut(a, Recent(a), m)  BY <1>3, RecentCuts
<1>6. /\ Recent(a) \in Seq(Ages) /\ Len(Recent(a)) = Len(a) - m
      /\ \A i \in 1..Len(Recent(a)) : Recent(a)[i] = a[m + i]
      /\ \A i \in 1..m : ~(a[i] <= Window)
      /\ m < Len(a) => a[m + 1] <= Window
  BY <1>5 DEF Cut
<1>7. \A i \in 1..Len(p) : n + i \in 1..Len(q) /\ a[i] = b[n + i]
  BY <1>2, <1>3, <1>4
<1>8. Cut(b, Recent(a), n + m)
  <2>1. Len(Recent(a)) = Len(b) - (n + m) /\ Len(a) \in Nat /\ m \in Nat /\ n \in Nat
    BY <1>2, <1>3, <1>4, <1>6
  <2>2. \A i \in 1..Len(Recent(a)) : Recent(a)[i] = b[(n + m) + i]
    <3>. TAKE i \in 1..Len(Recent(a))
    <3>1. m + i \in 1..Len(p) /\ n + (m + i) = (n + m) + i  BY <1>3, <1>6, <2>1
    <3>2. a[m + i] = b[n + (m + i)]  BY <1>7, <3>1
    <3>. QED  BY <1>6, <3>1, <3>2
  <2>3. \A i \in 1..n + m : ~(b[i] <= Window)
    <3>. TAKE i \in 1..n + m
    <3>1. CASE i <= n
      <4>1. i \in 1..n /\ i \in 1..Len(q)  BY <2>1, <3>1
      <4>2. ~(q[i] <= Window) /\ b[i] = Older(q[i]) /\ q[i] \in Ages  BY <1>2, <1>4, <4>1
      <4>. QED  BY <4>2, Limits DEF Older, Lesser, Ages
    <3>2. CASE i > n
      <4>1. i - n \in 1..m /\ i - n \in 1..Len(p) /\ n + (i - n) = i  BY <1>3, <2>1, <3>2
      <4>2. a[i - n] = b[i]  BY <1>7, <4>1
      <4>. QED  BY <1>6, <4>1, <4>2
    <3>. QED  BY <2>1, <3>1, <3>2
  <2>4. n + m < Len(b) => b[(n + m) + 1] <= Window
    <3>. SUFFICES ASSUME n + m < Len(b) PROVE b[(n + m) + 1] <= Window  OBVIOUS
    <3>1. m < Len(a) /\ m + 1 \in 1..Len(p) /\ n + (m + 1) = (n + m) + 1
      BY <1>2, <1>3, <1>4, <2>1
    <3>. QED  BY <1>6, <1>7, <3>1
  <2>. QED  BY <1>6, <2>1, <2>2, <2>3, <2>4 DEF Cut
<1>9. n + m \in 0..Len(b)  BY <1>2, <1>3, <1>4
<1>10. Recent(a) = Recent(b)  BY <1>4, <1>8, <1>9, CutIsRecent
<1>. QED  BY <1>10 DEF a, b, p

\* What the limiter keeps of a source, h, and what it let through in the window, a.
Good(h, a) ==
    h \in Seq(Ages) /\ Len(h) <= Limit /\ Falling(h) /\ a = Recent(h) /\ a \in Seq(0..Window)

LimiterTypes == hits \in [Sources -> Seq(Ages)] /\ admitted \in [Sources -> Seq(0..Window)]

LimiterGood == LimiterTypes /\ \A s \in Sources : Good(hits[s], admitted[s])

LEMMA GoodEmpty == Good(<<>>, <<>>)
<1>1. <<>> \in Seq(Ages) /\ Len(<<>>) = 0 /\ DOMAIN <<>> = {} /\ <<>> \in Seq(0..Window)
  OBVIOUS
<1>2. Falling(<<>>)  BY <1>1 DEF Falling
<1>3. Recent(<<>>) = <<>>  BY <1>1, <1>2, RecentGone
<1>. QED  BY <1>1, <1>2, <1>3, Limits DEF Good

\* Eviction forgets nothing that is in the window.
LEMMA GoodKept ==
    ASSUME LimiterGood
    PROVE  /\ \A s \in Sources : Good(Kept[s], admitted[s]) /\ Bucket(s) = admitted[s]
           /\ Kept \in [Sources -> Seq(Ages)]
<1>1. ASSUME NEW s \in Sources PROVE Good(Kept[s], admitted[s])
  <2>1. Good(hits[s], admitted[s])  BY DEF LimiterGood
  <2>2. CASE Kept[s] = hits[s]  BY <2>1, <2>2
  <2>3. CASE Kept[s] # hits[s]
    <3>1. Kept[s] = <<>> /\ hits[s] # <<>> /\ ~Current(hits[s][Len(hits[s])])
      BY <2>3, Zenon DEF Kept
    <3>2. Recent(hits[s]) = <<>>  BY <2>1, <3>1, RecentGone DEF Good, Current
    <3>. QED  BY <2>1, <3>1, <3>2, GoodEmpty DEF Good
  <2>. QED  BY <2>2, <2>3
<1>2. ASSUME NEW s \in Sources PROVE Bucket(s) = admitted[s]
  <2>1. Bucket(s) = Recent(Kept[s])  BY DEF Bucket, Recent, Current
  <2>. QED  BY <1>1, <2>1 DEF Good
<1>3. Kept \in [Sources -> Seq(Ages)]
  <2>1. Kept = [s \in Sources |-> Kept[s]]  BY DEF Kept
  <2>2. \A s \in Sources : Kept[s] \in Seq(Ages)  BY <1>1 DEF Good
  <2>. HIDE DEF Kept
  <2>. QED  BY <2>1, <2>2, Zenon
<1>. QED  BY <1>1, <1>2, <1>3

\* One source is replaced, the others are at most evicted.
LEMMA GoodExcept ==
    ASSUME LimiterGood, NEW s \in Sources, NEW h, NEW a, Good(h, a),
           hits' = [Kept EXCEPT ![s] = h], admitted' = [admitted EXCEPT ![s] = a]
    PROVE  LimiterGood'
<1>1. h \in Seq(Ages) /\ a \in Seq(0..Window)  BY DEF Good
<1>2. /\ Kept \in [Sources -> Seq(Ages)] /\ admitted \in [Sources -> Seq(0..Window)]
      /\ \A t \in Sources : Good(Kept[t], admitted[t])
  BY GoodKept DEF LimiterGood, LimiterTypes
<1>. HIDE DEF Kept
<1>3. LimiterTypes'  BY <1>1, <1>2, Zenon DEF LimiterTypes
<1>4. \A t \in Sources : Good(hits'[t], admitted'[t])
  <2>. TAKE t \in Sources
  <2>1. CASE t = s
    <3>1. hits'[t] = h /\ admitted'[t] = a  BY <1>2, <2>1, Zenon
    <3>. QED  BY <3>1
  <2>2. CASE t # s
    <3>1. hits'[t] = Kept[t] /\ admitted'[t] = admitted[t]  BY <1>2, <2>2, Zenon
    <3>. QED  BY <1>2, <3>1
  <2>. QED  BY <2>1, <2>2
<1>. QED  BY <1>3, <1>4 DEF LimiterGood, Good, Falling, Recent

LEMMA GoodRegistered ==
    ASSUME LimiterGood, NEW s \in Sources, UnderLimit(s), Registered(s)
    PROVE  LimiterGood'
<1>. DEFINE b == Bucket(s)
<1>1. b = admitted[s] /\ Len(b) < Limit /\ Good(hits[s], admitted[s])
  BY GoodKept DEF UnderLimit, LimiterGood
<1>2. /\ hits' = [Kept EXCEPT ![s] = Append(b, 0)]
      /\ admitted' = [admitted EXCEPT ![s] = Append(admitted[s], 0)]
  BY DEF Registered
<1>. HIDE DEF b
<1>3. b \in Seq(0..Window) /\ Falling(b)  BY <1>1, RecentProperties DEF Good
<1>4. Good(Append(b, 0), Append(b, 0))
  <2>1. /\ Append(b, 0) \in Seq(0..Window) /\ Append(b, 0) \in Seq(Ages)
        /\ Falling(Append(b, 0)) /\ Len(Append(b, 0)) = Len(b) + 1
        /\ Recent(Append(b, 0)) = Append(b, 0)
    BY <1>3, RecentAppend
  <2>2. Len(b) + 1 <= Limit  BY <1>1, <1>3, Limits
  <2>. QED  BY <2>1, <2>2 DEF Good
<1>. QED  BY <1>1, <1>2, <1>4, GoodExcept

LEMMA GoodForgotten ==
    ASSUME hits' = [s \in Sources |-> <<>>], admitted' = hits' PROVE LimiterGood'
<1>1. \A s \in Sources : hits'[s] = <<>> /\ admitted'[s] = <<>>  OBVIOUS
<1>2. <<>> \in Seq(Ages) /\ <<>> \in Seq(0..Window)  OBVIOUS
<1>3. LimiterTypes'  BY <1>2, Zenon DEF LimiterTypes
<1>4. \A s \in Sources : Good(hits'[s], admitted'[s])  BY <1>1, GoodEmpty
<1>. QED  BY <1>3, <1>4 DEF LimiterGood, Good, Falling, Recent

LEMMA StepLimiter ==
    ASSUME LimiterGood, [Next]_vars PROVE LimiterGood'
<1>1. ASSUME UNCHANGED <<hits, admitted>> PROVE LimiterGood'
  BY <1>1 DEF LimiterGood, LimiterTypes, Good, Falling, Recent
<1>2. ASSUME NEW s \in Sources, TurnedAway(s) PROVE LimiterGood'
  <2>1. Good(hits[s], admitted[s]) /\ Bucket(s) = admitted[s]
    BY GoodKept DEF LimiterGood
  <2>2. Good(Bucket(s), admitted[s])
    <3>1. /\ hits[s] \in Seq(Ages) /\ Falling(hits[s]) /\ Len(hits[s]) <= Limit
          /\ admitted[s] = Recent(hits[s]) /\ admitted[s] \in Seq(0..Window)
      BY <2>1 DEF Good
    <3>2. /\ Falling(admitted[s]) /\ Len(admitted[s]) <= Len(hits[s])
          /\ Recent(admitted[s]) = admitted[s]
      BY <3>1, RecentProperties
    <3>3. admitted[s] \in Seq(Ages)
      <4>1. 0..Window \subseteq Ages  BY Limits DEF Ages
      <4>. QED  BY <3>1, <4>1, SeqMonotonic
    <3>4. Len(admitted[s]) <= Limit  BY <3>1, <3>2, <3>3, Limits
    <3>. QED  BY <2>1, <3>1, <3>2, <3>3, <3>4 DEF Good
  <2>3. hits' = [Kept EXCEPT ![s] = Bucket(s)] /\ admitted' = admitted
    BY <1>2 DEF TurnedAway
  <2>4. admitted' = [admitted EXCEPT ![s] = admitted[s]]
    BY <2>3, Zenon DEF LimiterGood, LimiterTypes
  <2>. QED  BY <2>2, <2>3, <2>4, GoodExcept
<1>3. ASSUME NEW s \in Sources, NotVerified(s) \/ Wrong(s) PROVE LimiterGood'
  <2>1. UnderLimit(s) /\ Registered(s)  BY <1>3, Zenon DEF NotVerified, Wrong
  <2>. QED  BY <2>1, GoodRegistered
<1>4. ASSUME NEW s \in Sources, Right(s) PROVE LimiterGood'
  <2>1. /\ hits' = [Kept EXCEPT ![s] = <<>>]
        /\ admitted' = [admitted EXCEPT ![s] = <<>>]
    BY <1>4, Zenon DEF Right
  <2>. QED  BY <2>1, GoodEmpty, GoodExcept
<1>5. ASSUME Restart \/ \E i \in Idles : Reload(i) PROVE LimiterGood'
  BY <1>5, GoodForgotten DEF Restart, Reload
<1>6. CASE Tick
  <2>1. /\ hits' = [s \in Sources |-> Aged(hits[s])]
        /\ admitted' = [s \in Sources |-> Recent(Aged(admitted[s]))]
    BY <1>6, Zenon DEF Tick
  <2>2. ASSUME NEW s \in Sources PROVE Good(hits'[s], admitted'[s])
    <3>1. hits'[s] = Aged(hits[s]) /\ admitted'[s] = Recent(Aged(admitted[s]))
      BY <2>1, <2>2, Zenon
    <3>2. /\ hits[s] \in Seq(Ages) /\ Falling(hits[s]) /\ Len(hits[s]) <= Limit
          /\ admitted[s] = Recent(hits[s])
      BY <2>2 DEF LimiterGood, Good
    <3>3. /\ Aged(hits[s]) \in Seq(Ages) /\ Len(Aged(hits[s])) = Len(hits[s])
          /\ Falling(Aged(hits[s]))
      BY <3>2, AgedProperties
    <3>4. Recent(Aged(admitted[s])) = Recent(Aged(hits[s]))
      BY <3>2, RecentAged
    <3>5. Recent(Aged(hits[s])) \in Seq(0..Window)  BY <3>3, RecentProperties
    <3>. QED  BY <3>1, <3>2, <3>3, <3>4, <3>5 DEF Good
  <2>3. \A s \in Sources : hits'[s] \in Seq(Ages) /\ admitted'[s] \in Seq(0..Window)
    BY <2>2 DEF Good
  <2>4. LimiterTypes'
    <3>1. hits' = [s \in Sources |-> hits'[s]] /\ admitted' = [s \in Sources |-> admitted'[s]]
      BY <2>1, Zenon
    <3>. QED  BY <2>3, <3>1, Zenon DEF LimiterTypes
  <2>. QED  BY <2>2, <2>4 DEF LimiterGood, Good, Falling, Recent
<1>7. ASSUME ReadBack \/ LockSet \/ Forgive \/ Use \/ UseTooLate \/ UNCHANGED vars
      PROVE  LimiterGood'
  BY <1>1, <1>7 DEF ReadBack, LockSet, Forgive, Use, UseTooLate, vars
<1>. QED  BY <1>2, <1>3, <1>4, <1>5, <1>6, <1>7 DEF Next

LEMMA LimiterInvariant == Spec => []LimiterGood
<1>1. Init => LimiterGood
  <2>. SUFFICES ASSUME Init PROVE LimiterGood  OBVIOUS
  <2>1. hits = [s \in Sources |-> <<>>] /\ admitted = hits  BY DEF Init
  <2>2. <<>> \in Seq(Ages) /\ <<>> \in Seq(0..Window)  OBVIOUS
  <2>3. LimiterTypes  BY <2>1, <2>2, Zenon DEF LimiterTypes
  <2>. QED  BY <2>1, <2>3, GoodEmpty DEF LimiterGood
<1>. QED  BY <1>1, StepLimiter, PTL DEF Spec

LEMMA GoodIsInvariant == ASSUME LimiterGood PROVE LimiterInv /\ RateBound
<1>. SUFFICES ASSUME NEW s \in Sources
              PROVE  /\ Falling(hits[s]) /\ admitted[s] = Recent(hits[s])
                     /\ Len(admitted[s]) <= Limit
  BY DEF LimiterInv, RateBound, Falling
<1>1. /\ hits[s] \in Seq(Ages) /\ Falling(hits[s]) /\ Len(hits[s]) <= Limit
      /\ admitted[s] = Recent(hits[s]) /\ admitted[s] \in Seq(0..Window)
  BY DEF LimiterGood, Good
<1>2. Len(admitted[s]) <= Len(hits[s])  BY <1>1, RecentProperties
<1>. QED  BY <1>1, <1>2, Limits

-----------------------------------------------------------------------------
LEMMA GateInvariant == Spec => []GateInv
<1>1. GateInv /\ [Next]_vars => GateInv'
  BY StepLock, StepSession DEF GateInv, ClockTypes
<1>. QED  BY <1>1, InitGate, PTL DEF Spec

\* Past the threshold an account is locked for the whole lockout counted from the
\* last wrong password, for every threshold and lockout, whatever restarts,
\* unlocks and new settings come between.
THEOREM LockoutHolds == Spec => []LockHolds
<1>1. GateInv => LockHolds  BY DEF GateInv
<1>. QED  BY <1>1, GateInvariant, PTL

\* A session ends within its absolute lifetime and its idle timeouts, and no more
\* than Slack early, for all timeouts and every change of them.
THEOREM SessionsEndInTime == Spec => []SessionBounds
<1>1. GateInv => SessionBounds  BY DEF GateInv
<1>. QED  BY <1>1, GateInvariant, PTL

\* Every state of the sign-in is of its type; the limiter keeps no more than Limit
\* attempts of a source, whatever addresses come and go.
THEOREM GateTypes == Spec => []TypeOK
<1>1. GateInv /\ LimiterGood => TypeOK
  <2>. SUFFICES ASSUME GateInv, LimiterGood PROVE TypeOK  OBVIOUS
  <2>1. \A s \in Sources : Len(hits[s]) <= Limit  BY DEF LimiterGood, Good
  <2>2. hits \in [Sources -> Seq(0..Window + 1)] /\ admitted \in [Sources -> Seq(0..Window)]
    BY DEF LimiterGood, LimiterTypes, Ages
  <2>. QED  BY <2>1, <2>2, Zenon DEF GateInv, ClockTypes, TypeOK
<1>. QED  BY <1>1, GateInvariant, LimiterInvariant, PTL

\* No source gets more than Limit attempts through in any window, whatever the limit
\* and the window, and however often the limiter evicts other sources
\* (RateLimiter.check, _evict): eviction never forgives an attempt that counts.
THEOREM RateIsBounded == Spec => []RateBound
<1>. QED  BY GoodIsInvariant, LimiterInvariant, PTL
=============================================================================
