---------------------- MODULE ConnectionWorker_proofs ----------------------
(***************************************************************************)
(* The safety of the worker's session: what the health says of the handle, *)
(* and that stop() leaves it closed, for cycles of any length.             *)
(***************************************************************************)
EXTENDS ConnectionWorker, TLAPS

SessionInv == HealthIsTruthful /\ StoppedIsClosed /\ NoHandleLeaks /\ StopInv

\* Where the coroutine can be after each stretch of it.
LEMMA TryConnectEnds ==
    ASSUME NEW failed, TryConnect(failed)
    PROVE  \/ stop /\ pc' = "closing" /\ state' = state
           \/ ~stop /\ pc' = "connect" /\ state' \in {"connecting", "reconnecting"}
BY DEF TryConnect

LEMMA BeginCycleEnds ==
    ASSUME NEW n \in 0..MaxAreas, BeginCycle(n)
    PROVE  /\ pc' \in {"hangup", "check", "read"}
           /\ state' = state \/ (pc' = "hangup" /\ state' = "reconnecting")
BY AreasAssumption DEF BeginCycle, EndCycle

LEMMA DiscoveryEnds ==
    ASSUME AfterDiscovery \/ PollHead
    PROVE  \/ /\ pc' \in {"hangup", "check", "read", "discover"}
              /\ state' = state \/ (pc' = "hangup" /\ state' = "reconnecting")
           \/ pc' = "dead" /\ state' = "failed"
<1>1. CASE \E n \in 0..MaxAreas : BeginCycle(n)  BY <1>1, BeginCycleEnds
<1>2. CASE DiesBeforeCycle  BY <1>2 DEF DiesBeforeCycle, Dies
<1>3. CASE \E why \in {"rescan", "interval"} : Discovering(why)  BY <1>3 DEF Discovering
<1>4. CASE pc' = "hangup" /\ state' = state  BY <1>4
<1>. QED  BY <1>1, <1>2, <1>3, <1>4 DEF AfterDiscovery, PollHead

LEMMA InitSession == Init => TypeOK /\ SessionInv
<1>. SUFFICES ASSUME Init PROVE TypeOK /\ SessionInv  OBVIOUS
<1>1. bad \in BOOLEAN /\ rescan \in BOOLEAN /\ stop \in BOOLEAN /\ linked \in BOOLEAN
  BY DEF Init
<1>2. TypeOK
  BY <1>1, AreasAssumption DEF Init, TypeOK, Awaits, State, FailedAt, ReadFailuresBeforeReconnect
<1>3. SessionInv
  BY DEF Init, SessionInv, HealthIsTruthful, StoppedIsClosed, NoHandleLeaks, StopInv
<1>. QED  BY <1>2, <1>3

\* A step of the coroutine, which is not there once it was cancelled.
LEMMA LoopKeepsSession == ASSUME TypeOK, SessionInv, LoopStep PROVE SessionInv'
<1>. USE DEF SessionInv, HealthIsTruthful, StoppedIsClosed, NoHandleLeaks, StopInv, Awaits, Ended
<1>0. UNCHANGED <<stop, stopper, orphan>> /\ pc \in Awaits
  BY DEF LoopStep, Begin, ConnectOk, ConnectFails, BackoffEnds, Identified, Discovered,
     DiscoveryFails, Applied, ApplyRaises, ReadEnds, CheckEnds, PauseEnds, HangupEnds, ClosingEnds
<1>00. orphan = "none" /\ stopper \in {"none", "waiting"}
  BY <1>0 DEF TypeOK
<1>1. CASE Begin  BY <1>0, <1>00, <1>1, TryConnectEnds DEF Begin
<1>2. CASE ConnectOk  BY <1>0, <1>00, <1>2 DEF ConnectOk
<1>3. CASE ConnectFails  BY <1>0, <1>00, <1>3 DEF ConnectFails
<1>4. CASE BackoffEnds  BY <1>0, <1>00, <1>4, TryConnectEnds DEF BackoffEnds
<1>5. CASE Identified  BY <1>0, <1>00, <1>5 DEF Identified
<1>6. CASE Discovered  BY <1>0, <1>00, <1>6 DEF Discovered
<1>7. CASE DiscoveryFails  BY <1>0, <1>00, <1>7, DiscoveryEnds DEF DiscoveryFails
<1>8. CASE Applied  BY <1>0, <1>00, <1>8, DiscoveryEnds DEF Applied
<1>9. CASE ApplyRaises  BY <1>0, <1>00, <1>9 DEF ApplyRaises, Dies
<1>10. ASSUME NEW good \in BOOLEAN, ReadEnds(good) PROVE SessionInv'
  <2>1. /\ pc' \in {"hangup", "check", "read"}
        /\ state' = state \/ (pc' = "hangup" /\ state' = "reconnecting")
        /\ linked' = linked
    BY <1>10 DEF ReadEnds, EndCycle
  <2>. QED  BY <1>0, <1>00, <1>10, <2>1 DEF ReadEnds
<1>11. ASSUME NEW connected \in BOOLEAN, CheckEnds(connected) PROVE SessionInv'
  BY <1>0, <1>00, <1>11 DEF CheckEnds
<1>12. CASE PauseEnds  BY <1>0, <1>00, <1>12, DiscoveryEnds DEF PauseEnds
<1>13. CASE HangupEnds  BY <1>0, <1>00, <1>13, TryConnectEnds DEF HangupEnds
<1>14. CASE ClosingEnds  BY <1>0, <1>00, <1>14 DEF ClosingEnds
<1>. QED
  BY <1>1, <1>2, <1>3, <1>4, <1>5, <1>6, <1>7, <1>8, <1>9, <1>10, <1>11, <1>12, <1>13, <1>14
  DEF LoopStep

LEMMA CallersKeepSession ==
    ASSUME SessionInv,
           RequestRescan \/ Stop \/ StopSeen \/ StopCancels \/ OrphanEnds \/ Drains
    PROVE  SessionInv'
<1>. USE DEF SessionInv, HealthIsTruthful, StoppedIsClosed, NoHandleLeaks, StopInv, Awaits, Ended,
     loopVars
<1>1. CASE RequestRescan  BY <1>1 DEF RequestRescan
<1>2. CASE Stop  BY <1>2 DEF Stop
<1>3. CASE StopSeen  BY <1>3 DEF StopSeen
<1>4. CASE StopCancels  BY <1>4 DEF StopCancels, PlcCalls
<1>5. CASE OrphanEnds
  <2>1. orphan = "connect" \/ linked' = linked \/ ~linked'
    BY <1>5 DEF OrphanEnds
  <2>. QED  BY <1>5, <2>1 DEF OrphanEnds
<1>6. CASE Drains  BY <1>6 DEF Drains
<1>. QED  BY <1>1, <1>2, <1>3, <1>4, <1>5, <1>6

-----------------------------------------------------------------------------
(* Type correctness.  The count of failed cycles stays in range because the  *)
(* poll loop is left when it reaches its limit.                              *)

Polling == {"discover", "apply", "read", "check", "pause"}
CycleInv == pc \in Polling => cycles < ReadFailuresBeforeReconnect

LEMMA CycleType ==
    ASSUME TypeOK, NEW allFailed, EndCycle(allFailed),
           cycles < ReadFailuresBeforeReconnect
    PROVE  /\ cycles' \in 0..ReadFailuresBeforeReconnect
           /\ left' \in 0..MaxAreas
           /\ pc' \in {"hangup", "check"}
           /\ pc' = "check" => cycles' < ReadFailuresBeforeReconnect
           /\ state' \in State
BY AreasAssumption DEF TypeOK, EndCycle, ReadFailuresBeforeReconnect, State

LEMMA BeginCycleType ==
    ASSUME TypeOK, NEW n \in 0..MaxAreas, BeginCycle(n), cycles < ReadFailuresBeforeReconnect
    PROVE  /\ cycles' \in 0..ReadFailuresBeforeReconnect
           /\ left' \in 0..MaxAreas
           /\ pc' \in {"hangup", "check", "read"}
           /\ pc' # "hangup" => cycles' < ReadFailuresBeforeReconnect
           /\ bad' \in BOOLEAN
           /\ state' \in State
<1>1. CASE n = 0
  <2>1. bad' \in BOOLEAN  BY <1>1 DEF BeginCycle, TypeOK
  <2>2. /\ cycles' = 0
        /\ left' = 0
        /\ pc' = "check"
        /\ state' = state
    BY <1>1 DEF BeginCycle, EndCycle, ReadFailuresBeforeReconnect
  <2>. QED  BY <2>1, <2>2, AreasAssumption DEF TypeOK, ReadFailuresBeforeReconnect
<1>2. CASE n > 0
  <2>0. n # 0  BY <1>2
  <2>1. bad' \in BOOLEAN  BY <2>0 DEF BeginCycle
  <2>2. /\ left' = n
        /\ UNCHANGED <<cycles, state>>
        /\ pc' \in {"hangup", "read"}
    BY <2>0 DEF BeginCycle
  <2>. QED  BY <2>1, <2>2 DEF TypeOK
<1>. QED  BY <1>1, <1>2, AreasAssumption

\* Both ways the coroutine can go on from a discovery or from its pause.
LEMMA AfterType ==
    ASSUME TypeOK, PollHead \/ AfterDiscovery, cycles < ReadFailuresBeforeReconnect,
           UNCHANGED <<attempt, stop, linked, stopper, orphan>>
    PROVE  TypeOK' /\ CycleInv'
<1>. DEFINE Goal ==
       /\ cycles' \in 0..ReadFailuresBeforeReconnect
       /\ left' \in 0..MaxAreas
       /\ pc' \in {"hangup", "check", "read", "discover", "dead"}
       /\ pc' \notin {"hangup", "dead"} => cycles' < ReadFailuresBeforeReconnect
       /\ state' \in State
<1>0. bad \in BOOLEAN /\ bad' = bad => bad' \in BOOLEAN
  OBVIOUS
<1>1. ASSUME NEW n \in 0..MaxAreas, BeginCycle(n) PROVE Goal /\ bad' \in BOOLEAN
  BY <1>1, BeginCycleType
<1>2. ASSUME DiesBeforeCycle PROVE Goal /\ bad' \in BOOLEAN
  <2>1. bad' \in BOOLEAN  BY <1>0, <1>2 DEF DiesBeforeCycle, TypeOK
  <2>2. Goal  BY <1>2 DEF DiesBeforeCycle, Dies, TypeOK, State
  <2>. QED  BY <2>1, <2>2
<1>3. ASSUME NEW why \in {"rescan", "interval"}, Discovering(why)
      PROVE  Goal /\ bad' \in BOOLEAN
  <2>1. bad' \in BOOLEAN  BY <1>0, <1>3 DEF Discovering, TypeOK
  <2>2. Goal  BY <1>3 DEF Discovering, TypeOK
  <2>. QED  BY <2>1, <2>2
<1>4. ASSUME pc' = "hangup", UNCHANGED <<cycles, left, bad, state>>
      PROVE  Goal /\ bad' \in BOOLEAN
  <2>1. bad' \in BOOLEAN  BY <1>0, <1>4 DEF TypeOK
  <2>2. Goal  BY <1>4 DEF TypeOK
  <2>. QED  BY <2>1, <2>2
<1>. HIDE DEF Goal
<1>5. Goal /\ bad' \in BOOLEAN
  <2>1. ASSUME PollHead PROVE Goal /\ bad' \in BOOLEAN
    <3>1. CASE stop  BY <1>4, <2>1, <3>1 DEF PollHead
    <3>2. CASE ~stop
      <4>1. \/ Discovering("rescan") \/ Discovering("interval")
            \/ \E n \in 0..MaxAreas : BeginCycle(n)
            \/ DiesBeforeCycle
        BY <2>1, <3>2 DEF PollHead
      <4>. QED  BY <1>1, <1>2, <1>3, <4>1
    <3>. QED  BY <3>1, <3>2
  <2>2. \/ PollHead
        \/ \E n \in 0..MaxAreas : BeginCycle(n)
        \/ DiesBeforeCycle
    BY DEF AfterDiscovery
  <2>. QED  BY <1>1, <1>2, <2>1, <2>2
<1>6. reason' \in {"connect", "rescan", "interval"}
  BY DEF PollHead, AfterDiscovery, Discovering, TypeOK
<1>7. rescan' \in BOOLEAN
  BY DEF PollHead, AfterDiscovery, TypeOK
<1>8. TypeOK'
  BY <1>5, <1>6, <1>7 DEF TypeOK, Goal, Awaits, Ended
<1>9. CycleInv'
  BY <1>5 DEF CycleInv, Goal, Polling
<1>. QED  BY <1>8, <1>9

LEMMA ConnectType == ASSUME TypeOK, NEW failed, TryConnect(failed)
                     PROVE  pc' \in {"closing", "connect"} /\ state' \in State
BY DEF TypeOK, TryConnect, State

LEMMA StepType == ASSUME TypeOK, CycleInv, [Next]_vars PROVE TypeOK' /\ CycleInv'
<1>. USE DEF CycleInv, Polling
<1>1. CASE Begin \/ BackoffEnds
  BY <1>1, ConnectType DEF Begin, BackoffEnds, TypeOK, Awaits
<1>2. CASE ConnectOk
  <2>1. linked' \in BOOLEAN  BY <1>2 DEF ConnectOk
  <2>. QED  BY <1>2, <2>1 DEF ConnectOk, TypeOK, Awaits, State, FailedAt
<1>3. CASE ConnectFails
  <2>1. linked' \in BOOLEAN  BY <1>3 DEF ConnectFails
  <2>. QED  BY <1>3, <2>1 DEF ConnectFails, TypeOK, Awaits, State, FailedAt
<1>4. CASE Identified
  BY <1>4 DEF Identified, TypeOK, Awaits, ReadFailuresBeforeReconnect
<1>5. CASE Discovered  BY <1>5 DEF Discovered, TypeOK, Awaits
<1>6. CASE DiscoveryFails  BY <1>6, AfterType DEF DiscoveryFails
<1>7. CASE Applied  BY <1>7, AfterType DEF Applied
<1>8. CASE ApplyRaises  BY <1>8 DEF ApplyRaises, Dies, TypeOK, Ended, State
<1>9. ASSUME NEW good \in BOOLEAN, ReadEnds(good) PROVE TypeOK' /\ CycleInv'
  <2>1. bad' \in BOOLEAN  BY <1>9 DEF ReadEnds, TypeOK
  <2>2. CASE left > 1
    <3>1. left' = left - 1 /\ pc' \in {"hangup", "read"} /\ UNCHANGED <<cycles, state>>
      BY <1>9, <2>2 DEF ReadEnds
    <3>2. left' \in 0..MaxAreas  BY <2>2, <3>1, AreasAssumption DEF TypeOK
    <3>. QED  BY <1>9, <2>1, <3>1, <3>2 DEF ReadEnds, TypeOK, Awaits
  <2>3. CASE left = 1
    <3>1. EndCycle(bad /\ ~good)  BY <1>9, <2>3 DEF ReadEnds
    <3>2. /\ cycles' \in 0..ReadFailuresBeforeReconnect
          /\ left' \in 0..MaxAreas
          /\ pc' \in {"hangup", "check"}
          /\ pc' = "check" => cycles' < ReadFailuresBeforeReconnect
          /\ state' \in State
      BY <1>9, <3>1, CycleType DEF ReadEnds
    <3>. QED  BY <1>9, <2>1, <3>2 DEF ReadEnds, TypeOK, Awaits
  <2>. QED  BY <1>9, <2>2, <2>3 DEF ReadEnds
<1>10. ASSUME NEW connected \in BOOLEAN, CheckEnds(connected) PROVE TypeOK' /\ CycleInv'
  BY <1>10 DEF CheckEnds, TypeOK, Awaits, State
<1>11. CASE PauseEnds  BY <1>11, AfterType DEF PauseEnds
<1>12. CASE HangupEnds
  <2>1. linked' \in BOOLEAN  BY <1>12 DEF HangupEnds
  <2>. QED  BY <1>12, <2>1, ConnectType DEF HangupEnds, TypeOK, Awaits
<1>13. CASE ClosingEnds
  <2>1. linked' \in BOOLEAN  BY <1>13 DEF ClosingEnds
  <2>. QED  BY <1>13, <2>1 DEF ClosingEnds, TypeOK, Ended, State
<1>14. CASE RequestRescan \/ Stop
  <2>1. rescan' \in BOOLEAN /\ stop' \in BOOLEAN
    BY <1>14 DEF RequestRescan, Stop, TypeOK
  <2>. QED  BY <1>14, <2>1 DEF RequestRescan, Stop, TypeOK, loopVars
<1>15. CASE StopSeen \/ StopCancels
  BY <1>15 DEF StopSeen, StopCancels, TypeOK, loopVars, Ended
<1>16. CASE OrphanEnds
  <2>1. linked' \in BOOLEAN  BY <1>16 DEF OrphanEnds, TypeOK
  <2>. QED  BY <1>16, <2>1 DEF OrphanEnds, TypeOK, loopVars
<1>17. CASE Drains
  <2>1. linked' \in BOOLEAN  BY <1>17 DEF Drains
  <2>. QED  BY <1>17, <2>1 DEF Drains, TypeOK, loopVars, State
<1>18. CASE UNCHANGED vars  BY <1>18 DEF vars, loopVars, TypeOK
<1>. QED
  BY <1>1, <1>2, <1>3, <1>4, <1>5, <1>6, <1>7, <1>8, <1>9, <1>10, <1>11, <1>12, <1>13, <1>14,
     <1>15, <1>16, <1>17, <1>18
  DEF Next, LoopStep

\* The worker's locals and health stay in range; the failed cycles in a row
\* never exceed the limit at which the link is given up.
THEOREM WorkerTypes == Spec => [](TypeOK /\ CycleInv)
<1>1. Init => CycleInv  BY DEF Init, CycleInv, Polling
<1>. QED  BY <1>1, InitSession, StepType, PTL DEF Spec

THEOREM SessionInvariant == Spec => []SessionInv
<1>1. ASSUME TypeOK, SessionInv, [Next]_vars PROVE SessionInv'
  <2>1. CASE UNCHANGED vars
    BY <1>1, <2>1
    DEF vars, loopVars, SessionInv, HealthIsTruthful, StoppedIsClosed, NoHandleLeaks, StopInv
  <2>. QED  BY <1>1, <2>1, LoopKeepsSession, CallersKeepSession DEF Next
<1>. QED  BY <1>1, InitSession, WorkerTypes, PTL DEF Spec

\* When stop() has returned, the PLC session is closed and stays closed, even
\* if the task was cancelled while the thread was still connecting.
THEOREM StopClosesSession == Spec => []StoppedIsClosed
BY SessionInvariant, PTL DEF SessionInv

\* The health never shows a link that is closed, nor hides one that is open.
THEOREM HealthTellsTheLink == Spec => []HealthIsTruthful
BY SessionInvariant, PTL DEF SessionInv

\* A Snap7 handle is open only where the loop, or stop(), is going to close it.
THEOREM HandlesAreOwned == Spec => []NoHandleLeaks
BY SessionInvariant, PTL DEF SessionInv
=============================================================================
