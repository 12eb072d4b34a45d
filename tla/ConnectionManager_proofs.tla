---------------------- MODULE ConnectionManager_proofs ----------------------
(***************************************************************************)
(* The safety of the pool of workers: for any number of connections, of    *)
(* handlers and of changes, and however long the queue for the lock.       *)
(***************************************************************************)
EXTENDS ConnectionManager, TLAPS

USE DEF Free

-----------------------------------------------------------------------------
(* The queue of the lock. *)

LEMMA AppendFacts ==
    ASSUME NEW S, NEW q \in Seq(S), NEW x \in S
    PROVE  /\ Append(q, x) \in Seq(S)
           /\ Append(q, x) # <<>>
           /\ Len(q) \in Nat
           /\ Len(Append(q, x)) = Len(q) + 1
           /\ \A i \in 1..Len(q) : Append(q, x)[i] = q[i]
           /\ Append(q, x)[Len(q) + 1] = x
OBVIOUS

LEMMA TailFacts ==
    ASSUME NEW S, NEW q \in Seq(S), q # <<>>
    PROVE  /\ Tail(q) \in Seq(S)
           /\ Len(q) \in Nat /\ Len(q) > 0
           /\ Len(Tail(q)) = Len(q) - 1
           /\ \A i \in 1..(Len(q) - 1) : Tail(q)[i] = q[i + 1]
           /\ Head(q) = q[1]
OBVIOUS

LEMMA EmptyFacts ==
    ASSUME NEW S, NEW q \in Seq(S), Len(q) = 0
    PROVE  q = <<>>
OBVIOUS

\* Taking one's place in the queue, or the lock.
LEMMA EnterQueue ==
    ASSUME TypeOK, QueueInv, NEW t \in Tasks, Idle(t), Enter(t), halting' = halting
    PROVE  /\ QueueInv'
           /\ lock' \in Tasks \cup {Nobody}
           /\ queue' \in Seq(Tasks \cup {Exit})
<1>. DEFINE S == Tasks \cup {Exit}
<1>0. queue \in Seq(S) /\ t \in S /\ t # Nobody  BY TasksAssumption DEF TypeOK
<1>1. CASE Free
  BY <1>0, <1>1, TasksAssumption DEF Enter, Hold, QueueInv, TypeOK
<1>2. CASE ~Free
  <2>1. queue' = Append(queue, t) /\ UNCHANGED <<lock, todo>>  BY <1>2 DEF Enter
  <2>2. \A i \in 1..Len(queue) : queue[i] # t  BY DEF Idle
  <2>3. lock # t  BY DEF Idle
  <2>. HIDE DEF S
  <2>4. /\ queue' \in Seq(S)
        /\ Len(queue) \in Nat
        /\ Len(queue') = Len(queue) + 1
        /\ \A i \in 1..Len(queue) : queue'[i] = queue[i]
        /\ queue'[Len(queue) + 1] = t
    BY <1>0, <2>1, AppendFacts
  <2>5. \A i, j \in 1..Len(queue') : queue'[i] = queue'[j] => i = j
    BY <2>2, <2>4 DEF QueueInv
  <2>6. \A i \in 1..Len(queue') : queue'[i] # lock'
    BY <2>1, <2>3, <2>4 DEF QueueInv
  <2>7. QueueInv'  BY <2>1, <2>5, <2>6 DEF QueueInv
  <2>. QED  BY <2>1, <2>4, <2>7 DEF S, TypeOK
<1>. QED  BY <1>1, <1>2

\* Leaving the head of the queue, for the lock or for the end.
LEMMA LeaveQueue ==
    ASSUME TypeOK, QueueInv, queue # <<>>, queue' = Tail(queue)
    PROVE  /\ \A i, j \in 1..Len(queue') : queue'[i] = queue'[j] => i = j
           /\ \A i \in 1..Len(queue') : queue'[i] # Head(queue)
           /\ \A i \in 1..Len(queue') : i + 1 \in 1..Len(queue) /\ queue'[i] = queue[i + 1]
           /\ Len(queue') = Len(queue) - 1 /\ Len(queue) \in Nat
           /\ queue' \in Seq(Tasks \cup {Exit})
<1>. DEFINE S == Tasks \cup {Exit}
<1>0. queue \in Seq(S)  BY DEF TypeOK
<1>. HIDE DEF S
<1>1. /\ queue' \in Seq(S)
      /\ Len(queue) \in Nat /\ Len(queue) > 0
      /\ Len(queue') = Len(queue) - 1
      /\ \A i \in 1..(Len(queue) - 1) : queue'[i] = queue[i + 1]
      /\ Head(queue) = queue[1]
  BY <1>0, TailFacts
<1>2. \A i \in 1..Len(queue') : i + 1 \in 1..Len(queue) /\ queue'[i] = queue[i + 1]
  BY <1>1
<1>3. \A i, j \in 1..Len(queue') : queue'[i] = queue'[j] => i = j
  BY <1>1, <1>2 DEF QueueInv
<1>4. \A i \in 1..Len(queue') : queue'[i] # Head(queue)
  BY <1>1, <1>2 DEF QueueInv
<1>. QED  BY <1>1, <1>2, <1>3, <1>4 DEF S

-----------------------------------------------------------------------------
(* Type correctness. *)

LEMMA EnabledIsRow ==
    ASSUME NEW row \in Row \cup {None}, Enabled(row)
    PROVE  row \in Row /\ Signature(row) \in Wires
BY DEF Enabled, Row, Signature, Wires

LEMMA LaunchedType ==
    ASSUME TypeOK, NEW c \in Conns, Enabled(desired[c]), Launched(c)
    PROVE  /\ workers' \in [Conns -> Row \cup {None}]
           /\ signed' \in [Conns -> Wires \cup {None}]
           /\ health' \subseteq Conns
<1>1. desired[c] \in Row /\ Signature(desired[c]) \in Wires  BY EnabledIsRow DEF TypeOK
<1>. QED  BY <1>1 DEF TypeOK, Launched

LEMMA AliveType ==
    ASSUME TypeOK, PoolInv, NEW c \in Conns
    PROVE  /\ [alive EXCEPT ![c] = alive[c] + 1] \in [Conns -> Nat]
           /\ halting = c \/ c \in leaving => [alive EXCEPT ![c] = alive[c] - 1] \in [Conns -> Nat]
<1>1. alive \in [Conns -> Nat]  BY DEF TypeOK
<1>2. halting = c \/ c \in leaving => alive[c] = 1  BY DEF PoolInv
<1>. QED  BY <1>1, <1>2

LEMMA ApplyType ==
    ASSUME TypeOK, QueueInv, NEW t \in Tasks, NEW c \in Conns \cup {Nobody}, Idle(t), Apply(t, c),
           halting' = halting, db' \in [Conns -> Row \cup {None}]
    PROVE  /\ lock' \in Tasks \cup {Nobody}
           /\ queue' \in Seq(Tasks \cup {Exit})
           /\ desired' \in [Conns -> Row \cup {None}]
           /\ todo' \subseteq Conns
           /\ health' \subseteq Conns
           /\ dropping' \in [Tasks -> Conns \cup {Nobody}]
<1>1. CASE Enter(t) /\ dropping' = [dropping EXCEPT ![t] = c] /\ health' = health
  BY <1>1, EnterQueue DEF Enter, Hold, TypeOK
<1>2. CASE health' = health \ {c} /\ UNCHANGED <<lock, queue, desired, todo, dropping>>
  BY <1>2 DEF TypeOK
<1>. QED  BY <1>1, <1>2 DEF Apply

LEMMA InitType == Init => TypeOK
<1>. SUFFICES ASSUME Init PROVE TypeOK  OBVIOUS
<1>1. queue \in Seq(Tasks \cup {Exit})  BY DEF Init
<1>2. started \in BOOLEAN  BY DEF Init
<1>3. saves \in 0..MaxSaves  BY SavesAssumption DEF Init
<1>4. alive \in [Conns -> Nat]  BY DEF Init
<1>. QED  BY <1>1, <1>2, <1>3, <1>4 DEF Init, TypeOK

LEMMA TypeStep == ASSUME TypeOK, QueueInv, PoolInv, [Next]_vars PROVE TypeOK'
<1>. USE DEF poolVars, holderVars
<1>1. ASSUME NEW t \in Tasks, Start(t) PROVE TypeOK'
  BY <1>1, EnterQueue DEF Start, Enter, Hold, TypeOK
<1>2. ASSUME NEW t \in Tasks, Acquire(t) PROVE TypeOK'
  BY <1>2, LeaveQueue DEF Acquire, Hold, TypeOK
<1>3. ASSUME NEW t \in Tasks, NEW c \in Conns, NEW row \in Row, Save(t, c, row) PROVE TypeOK'
  <2>1. db' \in [Conns -> Row \cup {None}]  BY <1>3 DEF Save, TypeOK
  <2>2. saves' \in 0..MaxSaves  BY <1>3, SavesAssumption DEF Save, TypeOK
  <2>. QED  BY <1>3, <2>1, <2>2, ApplyType DEF Save, TypeOK
<1>4. ASSUME NEW t \in Tasks, NEW c \in Conns, Delete(t, c) PROVE TypeOK'
  <2>1. db' \in [Conns -> Row \cup {None}]  BY <1>4 DEF Delete, TypeOK
  <2>2. saves' \in 0..MaxSaves  BY <1>4, SavesAssumption DEF Delete, TypeOK
  <2>. QED  BY <1>4, <2>1, <2>2, ApplyType DEF Delete, TypeOK
<1>5. ASSUME NEW c \in Conns, Launch(c) PROVE TypeOK'
  BY <1>5, LaunchedType, AliveType DEF Launch, HolderOnly, TypeOK
<1>6. ASSUME NEW c \in Conns, Skip(c) PROVE TypeOK'
  BY <1>6 DEF Skip, HolderOnly, TypeOK
<1>7. ASSUME NEW c \in Conns, Refresh(c) PROVE TypeOK'
  BY <1>7 DEF Refresh, HolderOnly, TypeOK
<1>8. ASSUME NEW c \in Conns, Halt(c) PROVE TypeOK'
  BY <1>8 DEF Halt, HolderOnly, TypeOK
<1>9. ASSUME NEW c \in Conns, Halted(c) PROVE TypeOK'
  <2>1. /\ workers' \in [Conns -> Row \cup {None}]
        /\ signed' \in [Conns -> Wires \cup {None}]
        /\ health' \subseteq Conns
    BY <1>9, LaunchedType DEF Halted, TypeOK
  <2>2. alive' \in [Conns -> Nat]
    BY <1>9, AliveType DEF Halted, TypeOK
  <2>. QED  BY <1>9, <2>1, <2>2 DEF Halted, HolderOnly, TypeOK
<1>10. ASSUME NEW t \in Tasks, Release(t) PROVE TypeOK'
  BY <1>10 DEF Release, TypeOK
<1>11. CASE Stop
  <2>. DEFINE S == Tasks \cup {Exit}
  <2>0. queue \in Seq(S) /\ Exit \in S  BY DEF TypeOK
  <2>. HIDE DEF S
  <2>1. queue' \in Seq(S)  BY <1>11, <2>0, AppendFacts DEF Stop
  <2>. USE DEF S
  <2>. QED  BY <1>11, <2>1 DEF Stop, Collect, TypeOK
<1>12. CASE StopAcquires
  BY <1>12, LeaveQueue DEF StopAcquires, Collect, TypeOK
<1>13. ASSUME NEW c \in Conns, Left(c) PROVE TypeOK'
  BY <1>13, AliveType DEF Left, TypeOK
<1>14. CASE StopReturns  BY <1>14 DEF StopReturns, TypeOK
<1>15. CASE UNCHANGED vars  BY <1>15 DEF vars, TypeOK
<1>. QED
  BY <1>1, <1>2, <1>3, <1>4, <1>5, <1>6, <1>7, <1>8, <1>9, <1>10, <1>11, <1>12, <1>13, <1>14, <1>15
  DEF Next, HolderStep, StopStep

-----------------------------------------------------------------------------
(* The queue and the end. *)

\* What a step of the lock's holder leaves alone, as far as the queue sees it.
LEMMA HolderFrame ==
    ASSUME NEW c \in Conns, Launch(c) \/ Skip(c) \/ Refresh(c) \/ Halt(c) \/ Halted(c)
    PROVE  /\ UNCHANGED <<db, used, started, lock, queue, desired, dropping, closing, leaving>>
           /\ todo' \subseteq todo
BY DEF Launch, Skip, Refresh, Halt, Halted, HolderOnly

LEMMA QueueStep == ASSUME TypeOK, QueueInv, StopInv, [Next]_vars PROVE QueueInv'
<1>. USE DEF poolVars, holderVars
<1>0. Nobody \notin Tasks /\ Nobody # Exit  BY TasksAssumption
<1>1. ASSUME NEW t \in Tasks, Start(t) PROVE QueueInv'
  BY <1>1, EnterQueue DEF Start
<1>2. ASSUME NEW t \in Tasks, Acquire(t) PROVE QueueInv'
  BY <1>0, <1>2, LeaveQueue DEF Acquire, Hold, QueueInv
<1>3. ASSUME NEW t \in Tasks, NEW c \in Conns \cup {Nobody}, Idle(t), Apply(t, c), halting' = halting
      PROVE  QueueInv'
  <2>1. CASE Enter(t)  BY <1>3, <2>1, EnterQueue
  <2>2. CASE UNCHANGED <<lock, queue, desired, todo>>  BY <1>3, <2>2 DEF QueueInv
  <2>. QED  BY <1>3, <2>1, <2>2 DEF Apply
<1>4. ASSUME NEW t \in Tasks, NEW c \in Conns, NEW row \in Row, Save(t, c, row) PROVE QueueInv'
  BY <1>3, <1>4 DEF Save
<1>5. ASSUME NEW t \in Tasks, NEW c \in Conns, Delete(t, c) PROVE QueueInv'
  BY <1>3, <1>5 DEF Delete
<1>6. ASSUME NEW c \in Conns, Launch(c) \/ Skip(c) \/ Refresh(c) \/ Halt(c) \/ Halted(c)
      PROVE  QueueInv'
  <2>1. lock = Nobody => halting' = Nobody
    BY <1>6, ConnsAssumption DEF Launch, Skip, Refresh, Halt, Halted, InTurn, Holding, QueueInv
  <2>. QED  BY <1>6, <2>1, HolderFrame DEF QueueInv
<1>7. ASSUME NEW t \in Tasks, Release(t) PROVE QueueInv'
  <2>1. \A i \in 1..Len(queue) : queue[i] # Nobody
    BY <1>0 DEF TypeOK
  <2>. QED  BY <1>7, <2>1 DEF Release, Holding, QueueInv
<1>8. CASE Stop
  <2>1. CASE queue' = queue  BY <1>8, <2>1 DEF Stop, QueueInv
  <2>2. CASE queue' = Append(queue, Exit)
    <3>. DEFINE S == Tasks \cup {Exit}
    <3>0. queue \in Seq(S) /\ Exit \in S /\ lock # Exit  BY <1>0, TasksAssumption DEF TypeOK
    <3>1. \A i \in 1..Len(queue) : queue[i] # Exit  BY <1>8 DEF Stop, StopInv
    <3>. HIDE DEF S
    <3>2. /\ Len(queue) \in Nat
          /\ Len(queue') = Len(queue) + 1
          /\ \A i \in 1..Len(queue) : queue'[i] = queue[i]
          /\ queue'[Len(queue) + 1] = Exit
      BY <2>2, <3>0, AppendFacts
    <3>3. \A i, j \in 1..Len(queue') : queue'[i] = queue'[j] => i = j
      BY <3>1, <3>2 DEF QueueInv
    <3>4. \A i \in 1..Len(queue') : queue'[i] # lock
      BY <3>0, <3>2 DEF QueueInv
    <3>. QED  BY <1>8, <3>3, <3>4 DEF Stop, QueueInv
  <2>. QED  BY <1>8, <2>1, <2>2 DEF Stop
<1>9. CASE StopAcquires
  <2>1. \A i \in 1..Len(queue') : queue'[i] # Nobody
    BY <1>0, <1>9, LeaveQueue DEF StopAcquires, TypeOK
  <2>. QED  BY <1>9, <2>1, LeaveQueue DEF StopAcquires, QueueInv
<1>10. ASSUME NEW c \in Conns, Left(c) PROVE QueueInv'
  BY <1>10 DEF Left, QueueInv
<1>11. CASE StopReturns  BY <1>11 DEF StopReturns, QueueInv
<1>12. CASE UNCHANGED vars  BY <1>12 DEF vars, QueueInv
<1>. QED
  BY <1>1, <1>2, <1>4, <1>5, <1>6, <1>7, <1>8, <1>9, <1>10, <1>11, <1>12
  DEF Next, HolderStep, StopStep

\* stop's turn comes after everybody else's.
LEMMA ExitIsLast ==
    ASSUME TypeOK, StopInv, StopAcquires
    PROVE  closing = "waiting" /\ queue' = <<>>
<1>. DEFINE S == Tasks \cup {Exit}
<1>0. queue \in Seq(S) /\ queue # <<>>  BY DEF TypeOK, StopAcquires
<1>. HIDE DEF S
<1>1. Len(queue) \in Nat /\ Len(queue) > 0 /\ queue[1] = Exit
  BY <1>0, TailFacts DEF StopAcquires
<1>6. 1 \in 1..Len(queue)  BY <1>1
<1>2. closing = "waiting"
  <2>2. closing # "no"  BY <1>1, <1>6 DEF StopInv
  <2>3. closing \notin {"stopping", "stopped"}  BY <1>0 DEF StopInv
  <2>. QED  BY <2>2, <2>3 DEF TypeOK
<1>3. Len(queue) = 1  BY <1>1, <1>2, <1>6 DEF StopInv
<1>4. queue' \in Seq(S) /\ Len(queue') = 0
  BY <1>0, <1>3, TailFacts DEF StopAcquires
<1>5. queue' = <<>>  BY <1>4, EmptyFacts
<1>. QED  BY <1>2, <1>5

LEMMA StopStepInv ==
    ASSUME TypeOK, QueueInv, StopInv, PoolInv, [Next]_vars
    PROVE  StopInv'
<1>. USE DEF poolVars, holderVars
<1>0. Nobody \notin Tasks /\ Exit \notin Tasks  BY TasksAssumption
<1>1. ASSUME NEW t \in Tasks, Start(t) PROVE StopInv'
  <2>1. queue' = queue  BY <1>1 DEF Start, Enter, StopInv
  <2>. QED  BY <1>1, <2>1 DEF Start, StopInv
<1>2. ASSUME NEW t \in Tasks, Acquire(t) PROVE StopInv'
  <2>1. closing = "no" => started /\ \A i \in 1..Len(queue') : queue'[i] # Exit
    BY <1>2, LeaveQueue DEF Acquire, StopInv
  <2>0. /\ \A i \in 1..Len(queue') : i + 1 \in 1..Len(queue) /\ queue'[i] = queue[i + 1]
        /\ Len(queue') = Len(queue) - 1 /\ Len(queue) \in Nat
    BY <1>2, LeaveQueue DEF Acquire
  <2>2. closing = "waiting" => \A i \in 1..Len(queue') : queue'[i] = Exit => i = Len(queue')
    <3>1. SUFFICES ASSUME closing = "waiting", NEW i \in 1..Len(queue'), queue'[i] = Exit
                   PROVE  i = Len(queue')
      OBVIOUS
    <3>2. i + 1 = Len(queue)  BY <2>0, <3>1 DEF StopInv
    <3>. QED  BY <2>0, <3>2
  <2>3. closing \notin {"stopping", "stopped"}  BY <1>2 DEF Acquire, StopInv
  <2>. QED  BY <1>2, <2>1, <2>2, <2>3 DEF Acquire, StopInv
<1>3. ASSUME NEW t \in Tasks, NEW c \in Conns \cup {Nobody}, Idle(t), Apply(t, c),
             UNCHANGED <<started, workers, closing, leaving>>
      PROVE  StopInv'
  <2>1. CASE started /\ Enter(t)
    <3>. DEFINE S == Tasks \cup {Exit}
    <3>0. queue \in Seq(S) /\ t \in S /\ closing = "no"  BY <2>1 DEF TypeOK, StopInv
    <3>. HIDE DEF S
    <3>1. \A i \in 1..Len(queue') : queue'[i] # Exit
      <4>1. CASE queue' = queue  BY <3>0, <4>1 DEF StopInv
      <4>2. CASE queue' = Append(queue, t)
        <5>1. /\ Len(queue) \in Nat
              /\ Len(queue') = Len(queue) + 1
              /\ \A i \in 1..Len(queue) : queue'[i] = queue[i]
              /\ queue'[Len(queue) + 1] = t
          BY <3>0, <4>2, AppendFacts
        <5>. QED  BY <1>0, <3>0, <5>1 DEF StopInv
      <4>. QED  BY <2>1, <4>1, <4>2 DEF Enter
    <3>. QED  BY <1>3, <2>1, <3>0, <3>1 DEF StopInv
  <2>2. CASE ~started /\ health' = health \ {c} /\ UNCHANGED <<lock, queue>>
    BY <1>3, <2>2 DEF StopInv
  <2>. QED  BY <1>3, <2>1, <2>2 DEF Apply
<1>4. ASSUME NEW t \in Tasks, NEW c \in Conns, NEW row \in Row, Save(t, c, row) PROVE StopInv'
  BY <1>3, <1>4 DEF Save
<1>5. ASSUME NEW t \in Tasks, NEW c \in Conns, Delete(t, c) PROVE StopInv'
  BY <1>3, <1>5 DEF Delete
<1>6. ASSUME NEW c \in Conns, Launch(c) \/ Skip(c) \/ Refresh(c) \/ Halt(c) \/ Halted(c)
      PROVE  StopInv'
  <2>1. lock # Nobody
    BY <1>6, ConnsAssumption DEF Launch, Skip, Refresh, Halt, Halted, InTurn, Holding, QueueInv
  <2>. QED  BY <1>6, <2>1, HolderFrame DEF StopInv
<1>7. ASSUME NEW t \in Tasks, Release(t) PROVE StopInv'
  BY <1>7 DEF Release, Holding, StopInv
<1>8. CASE Stop
  <2>1. CASE Free /\ Collect  BY <1>8, <2>1 DEF Stop, Collect, StopInv
  <2>2. CASE ~Free /\ queue' = Append(queue, Exit) /\ closing' = "waiting" /\ leaving' = leaving
    <3>. DEFINE S == Tasks \cup {Exit}
    <3>0. queue \in Seq(S) /\ Exit \in S  BY DEF TypeOK
    <3>1. leaving = {} /\ \A i \in 1..Len(queue) : queue[i] # Exit  BY <1>8 DEF Stop, StopInv
    <3>. HIDE DEF S
    <3>2. /\ Len(queue) \in Nat
          /\ Len(queue') = Len(queue) + 1
          /\ \A i \in 1..Len(queue) : queue'[i] = queue[i]
      BY <2>2, <3>0, AppendFacts
    <3>3. \A i \in 1..Len(queue') : queue'[i] = Exit => i = Len(queue')
      BY <3>1, <3>2
    <3>. QED  BY <1>8, <2>2, <3>1, <3>3 DEF Stop, StopInv
  <2>. QED  BY <1>8, <2>1, <2>2 DEF Stop
<1>9. CASE StopAcquires
  <2>2. closing = "waiting"  BY <1>9, ExitIsLast
  <2>5. queue' = <<>>  BY <1>9, ExitIsLast
  <2>6. started' = FALSE  BY <1>9, <2>2 DEF StopAcquires, StopInv, TypeOK
  <2>. QED  BY <1>9, <2>5, <2>6 DEF StopAcquires, Collect, StopInv
<1>10. ASSUME NEW c \in Conns, Left(c) PROVE StopInv'
  BY <1>10 DEF Left, StopInv, TypeOK
<1>11. CASE StopReturns  BY <1>11 DEF StopReturns, StopInv
<1>12. CASE UNCHANGED vars  BY <1>12 DEF vars, StopInv
<1>. QED
  BY <1>1, <1>2, <1>4, <1>5, <1>6, <1>7, <1>8, <1>9, <1>10, <1>11, <1>12
  DEF Next, HolderStep, StopStep

-----------------------------------------------------------------------------
(* The pool. *)

\* A connection the holder has nothing left to do for.
Done(c) ==
    IF Enabled(desired[c])
    THEN workers[c] = desired[c] /\ signed[c] = Signature(desired[c])
    ELSE workers[c] = None

\* The accounting of one connection's workers.
Counted(c) ==
    /\ alive[c] = IF workers[c] # None \/ halting = c \/ c \in leaving THEN 1 ELSE 0
    /\ workers[c] # None => halting # c /\ c \notin leaving
    /\ halting = c => c \notin leaving /\ c \notin todo

LEMMA PoolParts ==
    PoolInv <=> /\ \A c \in Conns : Counted(c)
                /\ lock # Nobody => \A c \in Conns \ (todo \cup {halting}) : Done(c)
                /\ started /\ lock # Nobody /\ queue = <<>> => desired = db
BY DEF PoolInv, Counted, Done

\* A step that takes the lock has dealt with nothing yet but what is not there.
LEMMA HoldKeepsPool ==
    ASSUME PoolInv, QueueInv, lock = Nobody, NEW t \in Tasks, Hold(t),
           UNCHANGED <<halting, workers, signed, alive, leaving>>
    PROVE  PoolInv'
<1>1. halting = Nobody  BY DEF QueueInv
<1>2. \A c \in Conns : Counted(c)'
  BY <1>1, ConnsAssumption, PoolParts DEF Counted
<1>3. \A c \in Conns \ (todo' \cup {halting'}) : Done(c)'
  BY DEF Hold, Done, Enabled
<1>4. desired' = db'  BY DEF Hold
<1>. QED  BY <1>2, <1>3, <1>4, PoolParts DEF PoolInv, Counted, Done

LEMMA ApplyKeepsPool ==
    ASSUME TypeOK, PoolInv, QueueInv, NEW t \in Tasks, NEW c \in Conns \cup {Nobody}, Apply(t, c),
           UNCHANGED <<started, halting, workers, signed, alive, leaving>>
    PROVE  PoolInv'
<1>1. CASE Free /\ Hold(t)  BY <1>1, HoldKeepsPool
<1>2. CASE queue' = Append(queue, t) /\ UNCHANGED <<lock, desired, todo>>
  <2>. DEFINE S == Tasks \cup {Exit}
  <2>0. queue \in Seq(S) /\ t \in S  BY DEF TypeOK
  <2>. HIDE DEF S
  <2>1. queue' # <<>>  BY <1>2, <2>0, AppendFacts
  <2>. QED  BY <1>2, <2>1 DEF PoolInv
<1>3. CASE ~started /\ UNCHANGED <<lock, queue, desired, todo>>
  BY <1>3 DEF PoolInv
<1>. QED  BY <1>1, <1>2, <1>3 DEF Apply, Enter

LEMMA PoolStep == ASSUME TypeOK, QueueInv, StopInv, PoolInv, [Next]_vars PROVE PoolInv'
<1>. USE DEF poolVars, holderVars
<1>1. ASSUME NEW t \in Tasks, Start(t) PROVE PoolInv'
  <2>1. Free  BY <1>1 DEF Start, StopInv
  <2>. QED  BY <1>1, <2>1, HoldKeepsPool DEF Start, Enter
<1>2. ASSUME NEW t \in Tasks, Acquire(t) PROVE PoolInv'
  BY <1>2, HoldKeepsPool DEF Acquire
<1>3. ASSUME NEW t \in Tasks, NEW c \in Conns, NEW row \in Row, Save(t, c, row) PROVE PoolInv'
  BY <1>3, ApplyKeepsPool DEF Save
<1>4. ASSUME NEW t \in Tasks, NEW c \in Conns, Delete(t, c) PROVE PoolInv'
  BY <1>4, ApplyKeepsPool DEF Delete
<1>5. ASSUME NEW c \in Conns, Launch(c) \/ Skip(c) \/ Refresh(c) \/ Halt(c) \/ Halted(c)
      PROVE  PoolInv'
  <2>0. /\ UNCHANGED <<db, started, lock, queue, desired, leaving>>
        /\ lock # Nobody /\ leaving = {}
    <3>1. lock # Nobody
      BY <1>5, ConnsAssumption DEF Launch, Skip, Refresh, Halt, Halted, InTurn, Holding, QueueInv
    <3>2. leaving = {}  BY <3>1 DEF StopInv, TypeOK
    <3>. QED  BY <1>5, <3>1, <3>2, HolderFrame
  <2>1. \A d \in Conns : d # c =>
            /\ workers'[d] = workers[d] /\ signed'[d] = signed[d] /\ alive'[d] = alive[d]
            /\ d \in todo' <=> d \in todo
            /\ halting' = d <=> halting = d
    BY <1>5, ConnsAssumption
    DEF Launch, Skip, Refresh, Halt, Halted, Launched, InTurn, Holding, HolderOnly, TypeOK
  <2>2. \A d \in Conns : d # c => Counted(d)'
    BY <2>0, <2>1, PoolParts DEF Counted
  <2>3. \A d \in Conns \ (todo' \cup {halting'}) : d # c => Done(d)'
    BY <2>0, <2>1, PoolParts DEF Done
  <2>4. Counted(c)' /\ (c \notin todo' \cup {halting'} => Done(c)')
    <3>0. Counted(c) /\ alive \in [Conns -> Nat] /\ c # Nobody
          /\ workers \in [Conns -> Row \cup {None}] /\ signed \in [Conns -> Wires \cup {None}]
      BY ConnsAssumption, PoolParts DEF TypeOK
    <3>1. CASE Launch(c)
      <4>1. desired[c] # None /\ halting = Nobody /\ alive[c] = 0
        BY <2>0, <3>0, <3>1 DEF Launch, InTurn, Holding, Enabled, Counted
      <4>. QED  BY <2>0, <3>0, <3>1, <4>1 DEF Launch, Launched, Counted, Done
    <3>2. CASE Skip(c)
      BY <2>0, <3>0, <3>2 DEF Skip, InTurn, Holding, Counted, Done
    <3>3. CASE Refresh(c)
      <4>1. desired[c] # None /\ halting = Nobody /\ alive[c] = 1
        BY <2>0, <3>0, <3>3 DEF Refresh, InTurn, Holding, Enabled, Counted
      <4>. QED  BY <2>0, <3>0, <3>3, <4>1 DEF Refresh, Counted, Done
    <3>4. CASE Halt(c)
      BY <2>0, <3>0, <3>4 DEF Halt, InTurn, Holding, Counted
    <3>5. CASE Halted(c)
      <4>1. workers[c] = None /\ alive[c] = 1 /\ c \notin todo
        BY <3>0, <3>5 DEF Halted, Counted
      <4>2. CASE Enabled(desired[c])
        <5>1. desired[c] # None  BY <4>2 DEF Enabled
        <5>2. Launched(c) /\ UNCHANGED alive  BY <3>5, <4>2, <5>1 DEF Halted
        <5>. QED  BY <2>0, <3>0, <3>5, <4>1, <4>2, <5>1, <5>2 DEF Halted, Launched, Counted, Done
      <4>3. CASE ~Enabled(desired[c])
        <5>1. alive' = [alive EXCEPT ![c] = alive[c] - 1] /\ workers' = workers
          BY <3>5, <4>3 DEF Halted
        <5>. QED  BY <2>0, <3>0, <3>5, <4>1, <4>3, <5>1 DEF Halted, Counted, Done
      <4>. QED  BY <4>2, <4>3
    <3>. QED  BY <1>5, <3>1, <3>2, <3>3, <3>4, <3>5
  <2>5. started' /\ lock' # Nobody /\ queue' = <<>> => desired' = db'
    BY <2>0 DEF PoolInv
  <2>6. \A d \in Conns : Counted(d)'  BY <2>2, <2>4
  <2>7. \A d \in Conns \ (todo' \cup {halting'}) : Done(d)'  BY <2>3, <2>4
  <2>. QED  BY <2>5, <2>6, <2>7, PoolParts DEF PoolInv, Counted, Done
<1>6. ASSUME NEW t \in Tasks, Release(t) PROVE PoolInv'
  BY <1>6 DEF Release, PoolInv
<1>7. ASSUME lock = Nobody, leaving = {}, Collect, ~started', UNCHANGED <<lock, holderVars, alive>>
      PROVE  PoolInv'
  BY <1>7 DEF Collect, QueueInv, PoolInv
<1>8. CASE Stop
  <2>1. CASE Free /\ Collect  BY <1>7, <1>8, <2>1 DEF Stop, StopInv
  <2>2. CASE UNCHANGED <<leaving, workers, signed>>  BY <1>8, <2>2 DEF Stop, PoolInv
  <2>. QED  BY <1>8, <2>1, <2>2 DEF Stop
<1>9. CASE StopAcquires
  <2>1. leaving = {} /\ ~started  BY <1>9, ExitIsLast DEF StopInv
  <2>. QED  BY <1>7, <1>9, <2>1 DEF StopAcquires
<1>10. ASSUME NEW c \in Conns, Left(c) PROVE PoolInv'
  BY <1>10 DEF Left, PoolInv, TypeOK
<1>11. CASE StopReturns  BY <1>11 DEF StopReturns, PoolInv
<1>12. CASE UNCHANGED vars  BY <1>12 DEF vars, PoolInv
<1>. QED
  BY <1>1, <1>2, <1>3, <1>4, <1>5, <1>6, <1>8, <1>9, <1>10, <1>11, <1>12
  DEF Next, HolderStep, StopStep

-----------------------------------------------------------------------------
(* The pool and the rows. *)

LEMMA MatchStep ==
    ASSUME TypeOK, QueueInv, StopInv, PoolInv, PoolMatchesRows, TypeOK', PoolInv', [Next]_vars
    PROVE  PoolMatchesRows'
<1>. USE DEF poolVars, holderVars
<1>1. ASSUME NEW t \in Tasks, Enter(t) PROVE ~Free'
  <2>1. CASE Free  BY <1>1, <2>1, TasksAssumption DEF Enter, Hold
  <2>2. CASE ~Free
    <3>. DEFINE S == Tasks \cup {Exit}
    <3>1. queue \in Seq(S) /\ t \in S  BY DEF TypeOK
    <3>. HIDE DEF S
    <3>. QED  BY <1>1, <2>2, <3>1, AppendFacts DEF Enter
  <2>. QED  BY <2>1, <2>2
<1>2. ASSUME NEW t \in Tasks, Start(t) PROVE PoolMatchesRows'
  BY <1>1, <1>2 DEF Start, PoolMatchesRows
<1>3. ASSUME NEW t \in Tasks, Acquire(t) PROVE PoolMatchesRows'
  BY <1>3, TasksAssumption DEF Acquire, Hold, PoolMatchesRows
<1>4. ASSUME NEW t \in Tasks, NEW c \in Conns, NEW row \in Row, Save(t, c, row)
      PROVE  PoolMatchesRows'
  BY <1>1, <1>4 DEF Save, Apply, PoolMatchesRows
<1>5. ASSUME NEW t \in Tasks, NEW c \in Conns, Delete(t, c) PROVE PoolMatchesRows'
  BY <1>1, <1>5 DEF Delete, Apply, PoolMatchesRows
<1>6. ASSUME NEW c \in Conns, Launch(c) \/ Skip(c) \/ Refresh(c) \/ Halt(c) \/ Halted(c)
      PROVE  PoolMatchesRows'
  <2>1. lock' # Nobody
    BY <1>6, ConnsAssumption, HolderFrame
    DEF Launch, Skip, Refresh, Halt, Halted, InTurn, Holding, QueueInv
  <2>. QED  BY <2>1 DEF PoolMatchesRows
<1>7. ASSUME NEW t \in Tasks, Release(t) PROVE PoolMatchesRows'
  <2>. SUFFICES ASSUME started', Free' PROVE PoolMatchesRows'
    BY DEF PoolMatchesRows
  <2>1. /\ lock # Nobody /\ todo = {} /\ halting = Nobody /\ queue = <<>> /\ started
        /\ UNCHANGED <<db, workers, signed, alive, leaving, halting>>
    BY <1>7 DEF Release, Holding
  <2>2. desired = db /\ leaving = {}  BY <2>1 DEF PoolInv, StopInv
  <2>3. \A c \in Conns : Counted(c) /\ Done(c)  BY <2>1, ConnsAssumption, PoolParts
  <2>4. \A c \in Conns : Enabled(db[c]) => db[c] # None  BY DEF Enabled
  <2>. QED
    BY <2>1, <2>2, <2>3, <2>4, ConnsAssumption DEF PoolMatchesRows, Counted, Done
<1>8. CASE Stop  BY <1>8 DEF Stop, PoolMatchesRows
<1>9. CASE StopAcquires
  <2>1. ~started  BY <1>9, ExitIsLast DEF StopInv
  <2>. QED  BY <1>9, <2>1 DEF StopAcquires, PoolMatchesRows
<1>10. ASSUME NEW c \in Conns, Left(c) PROVE PoolMatchesRows'
  <2>1. ~started  BY <1>10 DEF Left, StopInv
  <2>. QED  BY <1>10, <2>1 DEF Left, PoolMatchesRows
<1>11. CASE StopReturns  BY <1>11 DEF StopReturns, PoolMatchesRows
<1>12. CASE UNCHANGED vars  BY <1>12 DEF vars, PoolMatchesRows
<1>. QED
  BY <1>2, <1>3, <1>4, <1>5, <1>6, <1>7, <1>8, <1>9, <1>10, <1>11, <1>12
  DEF Next, HolderStep, StopStep

-----------------------------------------------------------------------------
(* What is left of a deleted connection. *)

\* A place in the queue is kept when somebody joins it.
LEMMA JoinKeepsPending ==
    ASSUME TypeOK, NEW t \in Tasks, Idle(t), ~Free, Enter(t),
           NEW c \in Conns, Pending(c), \A u \in Tasks : u # t => dropping'[u] = dropping[u]
    PROVE  Pending(c)'
<1>. DEFINE S == Tasks \cup {Exit}
<1>1. queue \in Seq(S) /\ t \in S  BY DEF TypeOK
<1>. HIDE DEF S
<1>2. /\ queue' = Append(queue, t) /\ UNCHANGED <<lock, desired>>
  BY DEF Enter
<1>3. /\ Len(queue) \in Nat /\ Len(queue') = Len(queue) + 1
      /\ \A i \in 1..Len(queue) : queue'[i] = queue[i]
  BY <1>1, <1>2, AppendFacts
<1>4. PICK u \in Tasks :
        /\ dropping[u] = c
        /\ (\E i \in 1..Len(queue) : queue[i] = u) \/ (lock = u /\ desired[c] = None)
  BY DEF Pending
<1>5. u # t  BY <1>4 DEF Idle
<1>6. (\E i \in 1..Len(queue) : queue[i] = u) => \E i \in 1..Len(queue') : queue'[i] = u
  BY <1>3
<1>. QED  BY <1>2, <1>4, <1>5, <1>6 DEF Pending

LEMMA ApplyKeepsTrace ==
    ASSUME TypeOK, QueueInv, TraceInv, NEW t \in Tasks, NEW gone \in Conns \cup {Nobody},
           Idle(t), Apply(t, gone), \A c \in Conns : db'[c] = None => db[c] = None \/ c = gone,
           UNCHANGED <<started, halting, workers>>, \A c \in Conns : db'[c] # None => c \in used',
           gone \in Conns => db'[gone] = None
    PROVE  TraceInv'
<1>. SUFFICES ASSUME started, NEW c \in Conns, Shows(c)', db'[c] = None
              PROVE  Pending(c)'
  BY DEF TraceInv
<1>1. Enter(t) /\ dropping' = [dropping EXCEPT ![t] = gone] /\ health' = health
  BY DEF Apply
<1>2. CASE Free
  <2>1. lock' = t /\ desired' = db' /\ lock = Nobody  BY <1>1, <1>2 DEF Enter, Hold
  <2>2. CASE c = gone
    <3>1. dropping'[t] = c /\ desired'[c] = None  BY <1>1, <2>1, <2>2 DEF TypeOK
    <3>. QED  BY <2>1, <3>1 DEF Pending
  <2>3. CASE c # gone
    <3>1. Shows(c) /\ db[c] = None  BY <1>1, <2>1, <2>3 DEF Shows
    <3>2. Pending(c)  BY <3>1 DEF TraceInv
    <3>3. FALSE
      <4>1. Len(queue) = 0  BY <1>2
      <4>. QED  BY <2>1, <3>2, <4>1, TasksAssumption DEF Pending
    <3>. QED  BY <3>3
  <2>. QED  BY <2>2, <2>3
<1>3. CASE ~Free
  <2>. DEFINE S == Tasks \cup {Exit}
  <2>1. queue' = Append(queue, t) /\ UNCHANGED <<lock, desired>>  BY <1>1, <1>3 DEF Enter
  <2>2. CASE c = gone
    <3>1. queue \in Seq(S) /\ t \in S  BY DEF TypeOK
    <3>. HIDE DEF S
    <3>2. Len(queue') \in 1..Len(queue') /\ queue'[Len(queue')] = t
      BY <2>1, <3>1, AppendFacts
    <3>3. dropping'[t] = c  BY <1>1, <2>2 DEF TypeOK
    <3>. QED  BY <3>2, <3>3 DEF Pending
  <2>3. CASE c # gone
    <3>1. Shows(c) /\ db[c] = None  BY <1>1, <2>1, <2>3 DEF Shows
    <3>2. Pending(c)  BY <3>1 DEF TraceInv
    <3>3. \A u \in Tasks : u # t => dropping'[u] = dropping[u]  BY <1>1 DEF TypeOK
    <3>. QED  BY <1>1, <1>3, <3>2, <3>3, JoinKeepsPending
  <2>. QED  BY <2>2, <2>3
<1>. QED  BY <1>2, <1>3

LEMMA TraceStep ==
    ASSUME TypeOK, QueueInv, StopInv, PoolInv, TraceInv, TypeOK', PoolInv', [Next]_vars
    PROVE  TraceInv'
<1>. USE DEF poolVars, holderVars
<1>1. ASSUME NEW t \in Tasks, Start(t) PROVE TraceInv'
  <2>1. lock = Nobody /\ Hold(t) /\ UNCHANGED <<db, used, health, workers, halting>>
        /\ health = {} /\ \A c \in Conns : workers[c] = None
    BY <1>1 DEF Start, Enter, StopInv
  <2>2. \A c \in Conns : Shows(c)' => db'[c] # None
    BY <2>1, ConnsAssumption DEF Shows, Hold, QueueInv
  <2>. QED  BY <2>1, <2>2 DEF TraceInv
<1>2. ASSUME NEW t \in Tasks, Acquire(t) PROVE TraceInv'
  <2>. SUFFICES ASSUME started, NEW c \in Conns, Shows(c)', db[c] = None
                PROVE  Pending(c)'
    BY <1>2 DEF Acquire, TraceInv
  <2>1. lock = Nobody /\ lock' = t /\ desired' = db /\ Head(queue) = t /\ queue # <<>>
        /\ queue' = Tail(queue) /\ UNCHANGED <<health, workers, halting, dropping>>
    BY <1>2 DEF Acquire, Hold
  <2>2. Pending(c)
    BY <2>1 DEF Shows, TraceInv
  <2>3. PICK u \in Tasks : dropping[u] = c /\ \E i \in 1..Len(queue) : queue[i] = u
    BY <2>1, <2>2, TasksAssumption DEF Pending
  <2>4. CASE u = t  BY <2>1, <2>3, <2>4 DEF Pending
  <2>5. CASE u # t
    <3>. DEFINE S == Tasks \cup {Exit}
    <3>0. queue \in Seq(S)  BY DEF TypeOK
    <3>. HIDE DEF S
    <3>1. /\ Len(queue) \in Nat /\ Len(queue') = Len(queue) - 1
          /\ \A i \in 1..(Len(queue) - 1) : queue'[i] = queue[i + 1]
          /\ Head(queue) = queue[1]
      BY <2>1, <3>0, TailFacts
    <3>2. PICK i \in 1..Len(queue) : queue[i] = u  BY <2>3
    <3>3. i # 1  BY <2>1, <2>5, <3>1, <3>2
    <3>4. i - 1 \in 1..Len(queue') /\ queue'[i - 1] = u  BY <3>1, <3>2, <3>3
    <3>. QED  BY <2>1, <2>3, <3>4 DEF Pending
  <2>. QED  BY <2>4, <2>5
<1>3. ASSUME NEW t \in Tasks, NEW c \in Conns, NEW row \in Row, Save(t, c, row) PROVE TraceInv'
  <2>1. \A d \in Conns : db'[d] = None => db[d] = None
    BY <1>3, RowAssumption DEF Save, TypeOK
  <2>2. \A d \in Conns : db'[d] # None => d \in used'
    BY <1>3 DEF Save, TypeOK, TraceInv
  <2>. QED  BY <1>3, <2>1, <2>2, ConnsAssumption, ApplyKeepsTrace DEF Save
<1>4. ASSUME NEW t \in Tasks, NEW c \in Conns, Delete(t, c) PROVE TraceInv'
  <2>1. /\ \A d \in Conns : db'[d] = None => db[d] = None \/ d = c
        /\ db'[c] = None
    BY <1>4 DEF Delete, TypeOK
  <2>2. \A d \in Conns : db'[d] # None => d \in used'
    BY <1>4 DEF Delete, TypeOK, TraceInv
  <2>. QED  BY <1>4, <2>1, <2>2, ApplyKeepsTrace DEF Delete
<1>5. ASSUME NEW c \in Conns, Launch(c) \/ Skip(c) \/ Refresh(c) \/ Halt(c) \/ Halted(c)
      PROVE  TraceInv'
  <2>0. /\ UNCHANGED <<db, used, started, lock, queue, desired, dropping>>
        /\ lock # Nobody
    BY <1>5, ConnsAssumption, HolderFrame
    DEF Launch, Skip, Refresh, Halt, Halted, InTurn, Holding, QueueInv
  <2>1. \A d \in Conns : Shows(d)' => Shows(d)
    <3>1. \A d \in Conns : d # c =>
             /\ d \in health' <=> d \in health
             /\ workers'[d] = workers[d]
             /\ halting' = d => halting = d
      BY <1>5, ConnsAssumption
      DEF Launch, Skip, Refresh, Halt, Halted, Launched, InTurn, Holding, TypeOK
    <3>2. Shows(c)' => Shows(c)
      BY <1>5, <2>0
      DEF Launch, Skip, Refresh, Halt, Halted, Launched, Enabled, InTurn, Holding, Shows
    <3>. QED  BY <2>0, <3>1, <3>2 DEF Shows
  <2>2. \A d \in Conns : Pending(d) => Pending(d)'  BY <2>0 DEF Pending
  <2>. QED  BY <2>0, <2>1, <2>2 DEF TraceInv
<1>6. ASSUME NEW t \in Tasks, Release(t) PROVE TraceInv'
  <2>1. /\ lock = t /\ lock # Nobody /\ todo = {} /\ halting = Nobody /\ lock' = Nobody
        /\ health' = health \ {dropping[t]}
        /\ dropping' = [dropping EXCEPT ![t] = Nobody]
        /\ UNCHANGED <<db, used, started, queue, halting, workers>>
    BY <1>6 DEF Release, Holding
  <2>. SUFFICES ASSUME started, NEW c \in Conns, Shows(c)', db[c] = None
                PROVE  Pending(c)'
    BY <2>1 DEF TraceInv
  <2>2. Shows(c) /\ c # Nobody  BY <2>1, ConnsAssumption DEF Shows
  <2>3. PICK u \in Tasks :
          /\ dropping[u] = c
          /\ (\E i \in 1..Len(queue) : queue[i] = u) \/ (lock = u /\ desired[c] = None)
    BY <2>2 DEF TraceInv, Pending
  <2>4. CASE u = t
    <3>1. \A i \in 1..Len(queue) : queue[i] # u  BY <2>1, <2>4 DEF QueueInv
    <3>2. desired[c] = None  BY <2>3, <3>1
    <3>3. workers[c] = None  BY <2>1, <2>2, <3>2, PoolParts DEF Done, Enabled
    <3>4. c \notin health'  BY <2>1, <2>3, <2>4
    <3>. QED  BY <2>1, <2>2, <3>3, <3>4 DEF Shows
  <2>5. CASE u # t
    <3>1. \E i \in 1..Len(queue) : queue[i] = u  BY <2>1, <2>3, <2>5
    <3>. QED  BY <2>1, <2>3, <2>5, <3>1 DEF Pending
  <2>. QED  BY <2>4, <2>5
<1>7. CASE Stop  BY <1>7 DEF Stop, TraceInv
<1>8. CASE StopAcquires
  <2>1. ~started  BY <1>8, ExitIsLast DEF StopInv
  <2>. QED  BY <1>8, <2>1 DEF StopAcquires, TraceInv
<1>9. ASSUME NEW c \in Conns, Left(c) PROVE TraceInv'
  <2>1. ~started  BY <1>9 DEF Left, StopInv
  <2>. QED  BY <1>9, <2>1 DEF Left, TraceInv
<1>10. CASE StopReturns
  <2>1. ~started  BY <1>10 DEF StopReturns, StopInv
  <2>. QED  BY <1>10, <2>1 DEF StopReturns, TraceInv
<1>11. CASE UNCHANGED vars  BY <1>11 DEF vars, TraceInv, Shows, Pending
<1>. QED
  BY <1>1, <1>2, <1>3, <1>4, <1>5, <1>6, <1>7, <1>8, <1>9, <1>10, <1>11
  DEF Next, HolderStep, StopStep

-----------------------------------------------------------------------------
\* The pool stays of its kind, and the accounts of queue, stop, workers and
\* deletions stay right, whatever the handlers do and in whichever order.
THEOREM ManagerInvariant == Spec => [](TypeOK /\ IInv)
<1>1. Init => TypeOK /\ IInv
  <2>. SUFFICES ASSUME Init PROVE TypeOK /\ IInv  OBVIOUS
  <2>1. TypeOK  BY InitType
  <2>2. QueueInv  BY DEF Init, QueueInv
  <2>3. StopInv  BY DEF Init, StopInv
  <2>4. PoolInv  BY ConnsAssumption DEF Init, PoolInv
  <2>5. TraceInv  BY DEF Init, TraceInv
  <2>6. PoolMatchesRows  BY DEF Init, PoolMatchesRows
  <2>. QED  BY <2>1, <2>2, <2>3, <2>4, <2>5, <2>6 DEF IInv
<1>2. TypeOK /\ IInv /\ [Next]_vars => (TypeOK /\ IInv)'
  BY TypeStep, QueueStep, StopStepInv, PoolStep, TraceStep, MatchStep DEF IInv
<1>. QED  BY <1>1, <1>2, PTL DEF Spec

\* Hot reload: when no apply_config is under way, the workers are those of the
\* enabled connections, each with its newest row.
THEOREM HotReloadConverges == Spec => []PoolMatchesRows
<1>1. IInv => PoolMatchesRows  BY DEF IInv
<1>. QED  BY <1>1, ManagerInvariant, PTL

\* No PLC ever has two workers.
THEOREM NeverTwoWorkers == Spec => []OneWorkerEach
<1>1. TypeOK /\ IInv => OneWorkerEach
  <2>. SUFFICES ASSUME IInv, NEW c \in Conns PROVE alive[c] <= 1
    BY DEF OneWorkerEach
  <2>1. alive[c] = 0 \/ alive[c] = 1  BY DEF IInv, PoolInv
  <2>. QED  BY <2>1
<1>. QED  BY <1>1, ManagerInvariant, PTL

\* When stop has returned no worker runs, and none is started any more.
THEOREM StopLeavesNothing == Spec => []StopIsFinal
<1>1. TypeOK /\ IInv => StopIsFinal
  BY ConnsAssumption DEF IInv, PoolInv, QueueInv, StopInv, StopIsFinal
<1>. QED  BY <1>1, ManagerInvariant, PTL

\* The status page forgets a deleted connection.
THEOREM DeletedIsForgotten == Spec => []NoGhosts
<1>1. TypeOK /\ IInv => NoGhosts
  <2>. SUFFICES ASSUME TypeOK, IInv, started, Free, NEW c \in health PROVE db[c] # None
    BY DEF NoGhosts
  <2>1. Len(queue) = 0 /\ c \in Conns  BY DEF TypeOK
  <2>2. ~Pending(c)  BY <2>1, TasksAssumption DEF Pending
  <2>. QED  BY <2>1, <2>2 DEF IInv, TraceInv, Shows
<1>. QED  BY <1>1, ManagerInvariant, PTL

\* The manager's tables only ever hold configured connections, and its queue
\* only tasks it knows how to run (ConnectionManager).
THEOREM ManagerTypes == Spec => []TypeOK
<1>1. TypeOK /\ IInv => TypeOK
  OBVIOUS
<1>. QED  BY <1>1, ManagerInvariant, PTL
=============================================================================
