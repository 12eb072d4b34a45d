------------------------ MODULE StaleWindow_proofs ------------------------
(***************************************************************************)
(* The windows of StaleWindow, proved for every timeout, interval,         *)
(* length of a pass and number of passes that may raise in a row.          *)
(***************************************************************************)
EXTENDS StaleWindow, TLAPS

\* A pass that raises costs one round more.
LEMMA Rounds ==
    ASSUME NEW n \in 0..MaxFails
    PROVE  /\ Round \in Nat
           /\ n * Round \in Nat
           /\ (n + 1) * Round = n * Round + Round
           /\ n * Round <= MaxFails * Round
           /\ (MaxFails + 1) * Round = MaxFails * Round + Round
           /\ 0 * Round = 0
<1>. DEFINE R == Round
<1>1. R \in Nat  BY TimingAssumption DEF Round
<1>. HIDE DEF R
<1>2. n * R \in Nat /\ (n + 1) * R = n * R + R /\ 0 * R = 0  BY <1>1, TimingAssumption
<1>3. (MaxFails + 1) * R = MaxFails * R + R  BY <1>1, TimingAssumption
<1>4. n * R <= MaxFails * R  BY <1>1, TimingAssumption
<1>. QED  BY <1>1, <1>2, <1>3, <1>4 DEF R

LEMMA InitAges == Init => TypeOK /\ AgeInv
<1>. SUFFICES ASSUME Init PROVE TypeOK /\ AgeInv  OBVIOUS
<1>. USE TimingAssumption DEF Init
<1>1. clock \in 0..(IF Asleep THEN Interval ELSE MaxTick)  BY DEF Asleep
<1>2. Never \in Ages  BY DEF Ages
<1>3. wake \in BOOLEAN /\ refused \in BOOLEAN /\ unread \in Ages  BY DEF Ages
<1>4. TypeOK  BY <1>1, <1>2, <1>3 DEF TypeOK, Never
<1>5. AgeInv  BY DEF AgeInv, Never
<1>. QED  BY <1>4, <1>5

LEMMA OlderAge == ASSUME NEW age \in Ages PROVE Older(age) \in Ages
BY DEF Ages, Older, Never

\* Once it has begun, the time since an area was barred does not become unknown.
LEMMA LongerAge ==
    ASSUME NEW age \in Ages
    PROVE  Longer(age) \in Ages /\ (Longer(age) = Never <=> age = Never)
BY DEF Ages, Longer, Older, Never

LEMMA ReadAge == ASSUME NEW age \in 0..Timeout \cup {Never} PROVE age \in Ages
BY TimingAssumption DEF Ages

LEMMA StepType == ASSUME TypeOK, [Next]_vars PROVE TypeOK'
<1>. USE TimingAssumption DEF TypeOK
<1>1. CASE Advance
  <2>1. clock' \in 0..(IF Asleep' THEN Interval ELSE MaxTick)
    BY <1>1 DEF Advance, Asleep
  <2>2. /\ read' \in 0..Timeout \cup {Never}
        /\ unread' \in Ages /\ (unread' = Never <=> read' # Never)
    <3>1. CASE read = Timeout
      <4>1. read' = Never /\ unread' = 0  BY <1>1, <3>1 DEF Advance
      <4>. QED  BY <4>1 DEF Ages, Never
    <3>2. CASE read # Timeout
      <4>1. read' = Older(read) /\ unread' = Longer(unread)  BY <1>1, <3>2 DEF Advance
      <4>2. Older(read) \in 0..Timeout \cup {Never} /\ (Older(read) = Never <=> read = Never)
        BY <3>2 DEF Older, Never
      <4>. QED  BY <4>1, <4>2, LongerAge
    <3>. QED  BY <3>1, <3>2
  <2>3. entry' \in Ages /\ hidden' \in Ages  BY <1>1, OlderAge, LongerAge DEF Advance
  <2>4. buffer' \in Ages  BY <1>1, OlderAge DEF Advance
  <2>5. wake' \in BOOLEAN /\ refused' \in BOOLEAN  BY <1>1 DEF Advance
  <2>. QED  BY <1>1, <2>1, <2>2, <2>3, <2>4, <2>5 DEF Advance
<1>. USE DEF Ages, Never, Asleep
<1>2. CASE BeginTick  BY <1>2 DEF BeginTick
<1>3. CASE Plan
  <2>1. entry' \in Ages  BY <1>3, ReadAge DEF Plan
  <2>. QED  BY <1>3, <2>1 DEF Plan
<1>4. CASE PlanFails  BY <1>4 DEF PlanFails
<1>5. CASE Act
  <2>1. buffer' \in Ages /\ refused' \in BOOLEAN  BY <1>5 DEF Act
  <2>. QED  BY <1>5, <2>1 DEF Act
<1>6. CASE EnterSleep
  <2>1. wake' \in BOOLEAN  BY <1>6 DEF EnterSleep
  <2>. QED  BY <1>6, <2>1 DEF EnterSleep
<1>7. CASE GoodRead \/ FailedRead  BY <1>7 DEF GoodRead, FailedRead
<1>8. CASE Hide \/ Show
  <2>1. wake' \in BOOLEAN  BY <1>8 DEF Hide, Show
  <2>. QED  BY <1>8, <2>1 DEF Hide, Show
<1>9. CASE UNCHANGED vars  BY <1>9 DEF vars
<1>. QED  BY <1>1, <1>2, <1>3, <1>4, <1>5, <1>6, <1>7, <1>8, <1>9 DEF Next

LEMMA StepAges == ASSUME TypeOK, AgeInv, [Next]_vars PROVE AgeInv'
<1>. DEFINE P == fails * Round
<1>0. /\ Round \in Nat /\ P \in Nat /\ (fails + 1) * Round = P + Round /\ 0 * Round = 0
      /\ Round = Interval + MaxTick
  BY Rounds DEF TypeOK, Round
<1>. USE TimingAssumption, <1>0 DEF TypeOK, AgeInv, Elapsed, Ages, Never, Older, Longer, Asleep
\* All ages grow as the clock does.
<1>1. CASE Advance
  <2>1. P' = P  BY <1>1 DEF Advance
  <2>. HIDE DEF P
  <2>. QED  BY <1>1, <2>1 DEF Advance, P
\* The sleep has lasted an interval at most.
<1>2. CASE BeginTick  BY <1>2 DEF BeginTick
<1>3. CASE Plan  BY <1>3 DEF Plan
\* The next round starts from here.
<1>4. CASE PlanFails  BY <1>4 DEF PlanFails
<1>5. CASE Act  BY <1>5 DEF Act
<1>6. CASE EnterSleep  BY <1>6 DEF EnterSleep
<1>7. CASE GoodRead \/ FailedRead  BY <1>7 DEF GoodRead, FailedRead
<1>8. CASE Hide \/ Show  BY <1>8 DEF Hide, Show
<1>9. CASE UNCHANGED vars  BY <1>9 DEF vars
<1>. QED  BY <1>1, <1>2, <1>3, <1>4, <1>5, <1>6, <1>7, <1>8, <1>9 DEF Next

THEOREM AgesBounded == Spec => [](TypeOK /\ AgeInv)
BY InitAges, StepType, StepAges, PTL DEF Spec

LEMMA WithinWindow == TypeOK => Elapsed \in Nat /\ Window \in Nat /\ Elapsed <= Window
<1>. SUFFICES ASSUME TypeOK PROVE Elapsed \in Nat /\ Window \in Nat /\ Elapsed <= Window
  OBVIOUS
<1>1. /\ Round \in Nat /\ fails * Round \in Nat
      /\ fails * Round <= MaxFails * Round
      /\ (MaxFails + 1) * Round = MaxFails * Round + Round
  BY Rounds DEF TypeOK
<1>2. MaxFails * Round \in Nat  BY <1>1, TimingAssumption
<1>. DEFINE P == fails * Round
            Q == MaxFails * Round
<1>3. /\ Elapsed = CASE pc = "sleep"           -> MaxTick + P + clock
                     [] pc \in {"plan", "act"} -> MaxTick + P + Interval + clock
                     [] pc = "return"          -> P + clock
      /\ Window = MaxTick + Q + Interval + MaxTick
  BY <1>1, <1>2, TimingAssumption DEF Elapsed, Window, Round
<1>. HIDE DEF P, Q
<1>4. P \in Nat /\ Q \in Nat /\ P <= Q  BY <1>1, <1>2 DEF P, Q
<1>. QED  BY <1>3, <1>4, TimingAssumption DEF TypeOK, Asleep

\* However reads fail and passes raise, DeviceWise is never served bytes older
\* than the stale timeout and one window.
THEOREM BufferStaysCurrent == Spec => []BufferIsCurrent
<1>1. TypeOK /\ AgeInv => BufferIsCurrent
  BY WithinWindow, TimingAssumption
  DEF TypeOK, AgeInv, BufferIsCurrent, Ages, Window, Round
<1>. QED  BY <1>1, AgesBounded, PTL

\* Whenever the operator hides an area, it is withdrawn within one window.
THEOREM HiddenGoes == Spec => []HiddenIsWithdrawn
<1>1. TypeOK /\ AgeInv => HiddenIsWithdrawn
  <2>. SUFFICES ASSUME TypeOK, AgeInv, buffer # Never, hidden # Never PROVE hidden <= Window
    BY DEF HiddenIsWithdrawn
  <2>1. hidden \in Nat /\ Window \in Nat /\ Elapsed <= Window /\ Elapsed \in Nat
    BY WithinWindow DEF TypeOK, Ages
  <2>. QED  BY <2>1 DEF AgeInv
<1>. QED  BY <1>1, AgesBounded, PTL

\* Whatever register refuses, an area without a current read is withdrawn within
\* one window.
THEOREM UnreadGoes == Spec => []UnreadIsWithdrawn
<1>1. TypeOK /\ AgeInv => UnreadIsWithdrawn
  <2>. SUFFICES ASSUME TypeOK, AgeInv, buffer # Never, unread # Never PROVE unread <= Window
    BY DEF UnreadIsWithdrawn
  <2>1. unread \in Nat /\ Window \in Nat /\ Elapsed <= Window /\ Elapsed \in Nat
    BY WithinWindow DEF TypeOK, Ages
  <2>. QED  BY <2>1 DEF AgeInv
<1>. QED  BY <1>1, AgesBounded, PTL

\* The loop's clock stays within the sleep or the pass it is in, a read is never
\* older than the stale timeout, and nothing is unread but when there is no read
\* (_supervise, is_fresh).
THEOREM WindowTypes == Spec => []TypeOK
<1>1. TypeOK /\ AgeInv => TypeOK
  OBVIOUS
<1>. QED  BY <1>1, AgesBounded, PTL
=============================================================================
