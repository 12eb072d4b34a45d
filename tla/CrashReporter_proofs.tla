------------------------ MODULE CrashReporter_proofs ------------------------
(***************************************************************************)
(* The crash reporter's promises, proved for every number of threads, of   *)
(* snapshots and of deaths.                                                *)
(***************************************************************************)
EXTENDS CrashReporter, Integers, FiniteSetTheorems, WellFoundedInduction, TLAPS

-----------------------------------------------------------------------------
(* Counting. *)

LEMMA Bounds == Loop \in Threads /\ MaxFiles \in Nat /\ MaxStamp \in Nat /\ MaxDeaths \in Nat
BY CrashAssumption

\* A set of numbers that is not empty has a least element.
LEMMA Least ==
    ASSUME NEW T, T \subseteq Nat, T # {}
    PROVE  \E m \in T : \A n \in T : m <= n
<1>. DEFINE less == OpToRel(<, Nat)
<1>1. PICK m \in T : \A n \in T : ~(<<n, m>> \in less)
  BY NatLessThanWellFounded, WFMin
<1>2. \A n \in T : n < m => <<n, m>> \in less  BY DEF OpToRel
<1>. HIDE DEF less
<1>3. \A n \in T : ~(n < m)  BY <1>1, <1>2
<1>4. \A n \in T : m <= n  BY <1>3
<1>. QED  BY <1>4

\* ... and a greatest one, when it is bounded.
LEMMA Greatest ==
    ASSUME NEW b \in Nat, NEW T, T \subseteq 0..b, T # {}
    PROVE  \E m \in T : \A n \in T : n <= m
<1>. DEFINE below == {b - n : n \in T}
<1>0. \A n \in T : n \in Nat /\ b - n \in Nat  OBVIOUS
<1>1. below \subseteq Nat /\ below # {}  BY <1>0
<1>2. PICK d \in below : \A e \in below : d <= e  BY <1>1, Least
<1>3. PICK m \in T : d = b - m  BY <1>2
<1>4. \A n \in T : b - m <= b - n  BY <1>2, <1>3
<1>5. \A n \in T : n <= m  BY <1>4
<1>. QED  BY <1>5

\* A part of a finite set has no more elements than the set.
LEMMA Part ==
    ASSUME NEW S, IsFiniteSet(S), NEW T, T \subseteq S
    PROVE  /\ IsFiniteSet(T) /\ Cardinality(T) \in Nat /\ Cardinality(S) \in Nat
           /\ Cardinality(T) <= Cardinality(S)
<1>1. T \in SUBSET S  OBVIOUS
<1>2. IsFiniteSet(T) /\ Cardinality(T) <= Cardinality(S)  BY <1>1, FS_Subset
<1>. QED  BY <1>2, FS_CardinalityType

LEMMA UpTo == ASSUME NEW b \in Nat
              PROVE  \A S \in SUBSET (1..b) : IsFiniteSet(S) /\ Cardinality(S) \in Nat
<1>1. IsFiniteSet(1..b)  BY FS_Interval
<1>. QED  BY <1>1, Part

\* A longer interval.
LEMMA Longer == \A a, b \in Nat : b >= a => \A n \in 1..(a - 1) : n \in 1..(b - 1)
OBVIOUS

\* All but the files beyond the limit are at most MaxFiles.
LEMMA WithinLimit ==
    ASSUME NEW b \in Nat, NEW S, S \subseteq 1..b
    PROVE  Cardinality(S \ Beyond(S)) <= MaxFiles
<1>. DEFINE rest == S \ Beyond(S)
<1>1. IsFiniteSet(rest) /\ Cardinality(rest) \in Nat  BY UpTo
<1>2. CASE rest = {}  BY <1>2, FS_EmptySet, Bounds
<1>3. CASE rest # {}
  <2>0. \A n \in rest : n \in S /\ n \in Nat  OBVIOUS
  <2>1. PICK m \in rest : \A n \in rest : m <= n  BY <1>3, <2>0, Least
  <2>. DEFINE newer == {g \in S : g > m}
  <2>2. newer \in SUBSET (1..b)  OBVIOUS
  <2>3. IsFiniteSet(newer) /\ Cardinality(newer) \in Nat  BY <2>2, UpTo
  <2>4. ~(Cardinality(newer) >= MaxFiles)  BY <2>1 DEF Beyond
  <2>5. ASSUME NEW n \in rest \ {m} PROVE n \in newer
    <3>1. n \in S /\ n \in Nat /\ m \in Nat /\ m <= n /\ n # m  BY <2>0, <2>1
    <3>2. n > m  BY <3>1
    <3>. QED  BY <3>1, <3>2
  <2>. HIDE DEF newer, rest
  <2>6. Cardinality(rest \ {m}) <= Cardinality(newer)  BY <2>3, <2>5, Part
  <2>7. Cardinality(rest \ {m}) = Cardinality(rest) - 1  BY <1>1, <2>1, FS_RemoveElement
  <2>8. Cardinality(rest) <= MaxFiles  BY <1>1, <2>3, <2>4, <2>6, <2>7, Bounds
  <2>. QED  BY <2>8 DEF rest
<1>. QED  BY <1>2, <1>3

\* A file beyond the limit has MaxFiles newer ones.
LEMMA BeyondIsOld ==
    ASSUME NEW b \in Nat, NEW S, S \subseteq 1..b, NEW f \in Beyond(S)
    PROVE  f \in S /\ f + MaxFiles <= b
<1>. DEFINE newer == {g \in S : g > f}
<1>1. f \in S /\ f \in 1..b /\ Cardinality(newer) >= MaxFiles  BY DEF Beyond
<1>2. ASSUME NEW g \in newer PROVE g \in f + 1 .. b
  <2>1. g \in 1..b /\ g > f  OBVIOUS
  <2>. QED  BY <1>1, <2>1
<1>3. IsFiniteSet(f + 1 .. b) /\ Cardinality(f + 1 .. b) = b - f
  <2>1. f + 1 \in Int /\ b \in Int  BY <1>1
  <2>2. IsFiniteSet(f + 1 .. b)
        /\ Cardinality(f + 1 .. b) = IF f + 1 > b THEN 0 ELSE b - (f + 1) + 1
    BY <2>1, FS_Interval
  <2>. QED  BY <1>1, <2>2
<1>. HIDE DEF newer
<1>4. Cardinality(newer) <= b - f /\ Cardinality(newer) \in Nat  BY <1>2, <1>3, Part
<1>. QED  BY <1>1, <1>4, Bounds

-----------------------------------------------------------------------------
(* Types. *)

LEMMA StampRange == ASSUME TypeOK
                    PROVE  /\ next \in Nat /\ next > 0
                           /\ files \subseteq 1..MaxStamp
<1>1. next \in Nat /\ next > 0 /\ next <= MaxStamp + 1  BY Bounds DEF TypeOK
<1>2. ASSUME NEW f \in files PROVE f \in 1..MaxStamp
  <2>1. f \in 1..(next - 1)  BY DEF TypeOK
  <2>. QED  BY <1>1, <2>1, Bounds
<1>3. \A f \in files : f \in 1..MaxStamp  BY <1>2
<1>. QED  BY <1>1, <1>3

LEMMA InitTypes == Init => TypeOK
<1>. SUFFICES ASSUME Init PROVE TypeOK  OBVIOUS
<1>1. next \in 1..(MaxStamp + 1) /\ 0 \in 0..MaxStamp /\ 0 \in 0..MaxDeaths  BY Bounds DEF Init
<1>2. /\ listed \in [Threads -> SUBSET (1..MaxStamp)]
      /\ victims \in [Threads -> SUBSET (1..MaxStamp)]
  BY DEF Init
<1>3. own \in [Threads -> 0..MaxStamp] /\ pc \in [Threads -> Steps]
  BY <1>1 DEF Init, Steps
<1>4. deaths \in 0..MaxDeaths  BY <1>1 DEF Init
<1>. QED  BY <1>1, <1>2, <1>3, <1>4 DEF Init, TypeOK, Phases

LEMMA StepTypes == ASSUME TypeOK, [Next]_vars PROVE TypeOK'
<1>. USE DEF TypeOK, Phases, Steps
<1>0. files \subseteq 1..MaxStamp /\ next \in Nat  BY StampRange
<1>1. ASSUME NEW t \in Threads, Fault(t) PROVE TypeOK'  BY <1>1 DEF Fault
<1>2. ASSUME NEW t \in Threads, Write(t) PROVE TypeOK'
  <2>1. next' \in 1..(MaxStamp + 1) /\ next \in 0..MaxStamp  BY <1>2, Bounds DEF Write
  <2>2. files' \subseteq 1..(next' - 1)  BY <1>0, <1>2 DEF Write
  <2>. QED  BY <1>2, <2>1, <2>2 DEF Write
<1>3. ASSUME NEW t \in Threads, WriteFails(t) PROVE TypeOK'
  <2>1. CASE UNCHANGED <<files, next, spoilt>>  BY <1>3, <2>1 DEF WriteFails
  <2>2. CASE /\ next <= MaxStamp /\ files' = files \cup {next} /\ next' = next + 1
             /\ spoilt' = spoilt \cup {next}
    <3>1. next' \in 1..(MaxStamp + 1) /\ next \in 1..MaxStamp  BY <2>2, Bounds
    <3>2. files' \subseteq 1..(next' - 1)  BY <1>0, <2>2
    <3>3. spoilt' \subseteq 1..MaxStamp /\ resisted \subseteq files'  BY <2>2, <3>1
    <3>. QED  BY <1>3, <3>1, <3>2, <3>3 DEF WriteFails
  <2>. QED  BY <1>3, <2>1, <2>2 DEF WriteFails
<1>4. CASE ShowPage  BY <1>4, Bounds DEF ShowPage
<1>5. ASSUME NEW t \in Threads, Glob(t) PROVE TypeOK'  BY <1>0, <1>5 DEF Glob
<1>6. ASSUME NEW t \in Threads, Sort(t) PROVE TypeOK'
  <2>1. Beyond(listed[t]) \subseteq 1..MaxStamp  BY DEF Beyond
  <2>. QED  BY <1>6, <2>1, Bounds DEF Sort, Returns
<1>7. ASSUME NEW t \in Threads, SortFails(t) PROVE TypeOK'
  <2>1. CASE own[t] = 0  BY <1>7, <2>1 DEF SortFails
  <2>2. CASE own[t] # 0
    <3>1. own[t] \in 1..MaxStamp  BY <2>2, Bounds
    <3>2. spoilt' \subseteq 1..MaxStamp
      <4>1. spoilt' = spoilt \cup {own[t]}  BY <1>7, <2>2 DEF SortFails
      <4>. QED  BY <3>1, <4>1
    <3>3. own' \in [Threads -> 0..MaxStamp] /\ pc' \in [Threads -> Steps]
          /\ listed' \in [Threads -> SUBSET (1..MaxStamp)]
      BY <1>7, <2>2, Bounds DEF SortFails, Returns
    <3>. QED  BY <1>7, <3>2, <3>3 DEF SortFails
  <2>. QED  BY <2>1, <2>2
<1>8. ASSUME NEW t \in Threads, Delete(t) PROVE TypeOK'
  BY <1>8 DEF Delete
<1>9. ASSUME NEW t \in Threads, Pruned(t) PROVE TypeOK'
  <2>1. spoilt' \subseteq spoilt  BY <1>9 DEF Pruned
  <2>2. own' \in [Threads -> 0..MaxStamp] /\ pc' \in [Threads -> Steps]
        /\ listed' \in [Threads -> SUBSET (1..MaxStamp)]
    BY <1>9, Bounds DEF Pruned, Returns
  <2>. QED  BY <1>9, <2>1, <2>2 DEF Pruned
<1>10. CASE Build  BY <1>10, Bounds DEF Build
<1>11. CASE Consume  BY <1>11 DEF Consume, folder
<1>12. CASE MarkRunning  BY <1>12 DEF MarkRunning, folder
<1>13. CASE Close  BY <1>13 DEF Close, folder
<1>14. CASE MarkStopped \/ Exit  BY <1>14 DEF MarkStopped, Exit, folder
<1>15. CASE Die
  <2>1. ASSUME NEW f \in spoilt' PROVE f \in 1..MaxStamp
    <3>1. f \in spoilt \/ (f # 0 /\ \E t \in Threads : f = own[t])  BY <1>15 DEF Die
    <3>2. ASSUME NEW t \in Threads, f = own[t], f # 0 PROVE f \in 1..MaxStamp
      <4>1. own[t] \in 0..MaxStamp  OBVIOUS
      <4>. QED  BY <3>2, <4>1, Bounds
    <3>3. f \in spoilt => f \in 1..MaxStamp  OBVIOUS
    <3>. QED  BY <3>1, <3>2, <3>3
  <2>2. deaths' \in 0..MaxDeaths  BY <1>15, Bounds DEF Die
  <2>3. /\ pc' \in [Threads -> Steps] /\ own' \in [Threads -> 0..MaxStamp]
        /\ listed' \in [Threads -> SUBSET (1..MaxStamp)]
        /\ victims' \in [Threads -> SUBSET (1..MaxStamp)]
    BY <1>15, Bounds DEF Die
  <2>4. \A f \in spoilt' : f \in 1..MaxStamp  BY <2>1
  <2>5. files' \subseteq 1..(next' - 1) /\ next' \in 1..(MaxStamp + 1)  BY <1>15 DEF Die
  <2>. QED  BY <1>15, <2>2, <2>3, <2>4, <2>5 DEF Die
<1>16. CASE UNCHANGED vars  BY <1>16 DEF vars
<1>. QED
  BY <1>1, <1>2, <1>3, <1>4, <1>5, <1>6, <1>7, <1>8, <1>9, <1>10, <1>11, <1>12, <1>13, <1>14,
     <1>15, <1>16 DEF Next

\* The reporter's state keeps its types: no more files than were written, and
\* every thread at a step of write_snapshot or list_snapshots.
THEOREM ReporterTypes == Spec => []TypeOK
BY InitTypes, StepTypes, PTL DEF Spec

-----------------------------------------------------------------------------
(* The marker. *)

LEMMA StepMarker == ASSUME TypeOK, MarkerInv, [Next]_vars PROVE MarkerInv'
<1>. USE DEF MarkerInv
<1>1. ASSUME UNCHANGED <<phase, marker, owed, stuck, marked>> PROVE MarkerInv'
  BY <1>1
<1>2. CASE \E t \in Threads :
          \/ Fault(t) \/ Write(t) \/ WriteFails(t) \/ Glob(t)
          \/ Sort(t) \/ SortFails(t) \/ Delete(t) \/ Pruned(t)
  BY <1>1, <1>2 DEF Fault, Write, WriteFails, Glob, Sort, SortFails, Delete, Pruned
<1>3. CASE ShowPage  BY <1>1, <1>3 DEF ShowPage
<1>4. CASE Build  BY <1>4 DEF Build
<1>5. CASE Consume  BY <1>5 DEF Consume
<1>6. CASE MarkRunning  BY <1>6 DEF MarkRunning
<1>7. CASE Close  BY <1>7 DEF Close
<1>8. CASE MarkStopped \/ Exit  BY <1>8 DEF MarkStopped, Exit
<1>9. CASE Die  BY <1>9 DEF Die
<1>10. CASE UNCHANGED vars  BY <1>1, <1>10 DEF vars
<1>. QED
  BY <1>2, <1>3, <1>4, <1>5, <1>6, <1>7, <1>8, <1>9, <1>10 DEF Next

LEMMA MarkerInvariant == Spec => []MarkerInv
<1>1. Init => MarkerInv  BY DEF Init, MarkerInv
<1>. QED  BY <1>1, StepMarker, ReporterTypes, PTL DEF Spec

\* A run that died with its marker written has been reported by the time a later
\* start gets as far as serving, however many starts die in between.
THEOREM DeathIsReported == Spec => []UncleanIsReported
<1>1. MarkerInv => UncleanIsReported  BY DEF MarkerInv, UncleanIsReported
<1>. QED  BY <1>1, MarkerInvariant, PTL

\* No start reports an unclean shutdown that there was not, unless a marker could
\* not be deleted.
THEOREM ReportsAreTrue == Spec => []NoFalseAlarm
<1>1. MarkerInv => NoFalseAlarm  BY DEF MarkerInv, NoFalseAlarm
<1>. QED  BY <1>1, MarkerInvariant, PTL

-----------------------------------------------------------------------------
(* Pruning. *)

\* The steps of one thread in the reporter.
ReporterStep(t) ==
    Fault(t) \/ Write(t) \/ WriteFails(t) \/ Glob(t)
    \/ Sort(t) \/ SortFails(t) \/ Delete(t) \/ Pruned(t)

\* What a step leaves of a thread's listing: other threads write newer files and
\* delete, and neither adds a file older than one of the listing.
LEMMA Untouched ==
    ASSUME TypeOK, NEW u \in Threads, ListingInv(u), next' \in Nat, next' >= next,
           pc'[u] = pc[u], listed'[u] = listed[u], victims'[u] = victims[u],
           own'[u] = own[u], files' \subseteq files \cup {next},
           files' \cap resisted \subseteq resisted'
    PROVE  ListingInv(u)'
<1>. DEFINE L == listed[u]
            V == victims[u]
<1>0. next \in Nat /\ own[u] \in Nat /\ MaxFiles \in Nat  BY StampRange, Bounds DEF TypeOK
<1>1. pc'[u] \in {"idle", "write"} => own'[u] = 0  BY DEF ListingInv
<1>2. own'[u] < next'  BY <1>0 DEF ListingInv
<1>3. ASSUME NEW n \in L PROVE n \in 1..(next - 1) /\ n \in 1..(next' - 1)
  <2>1. n \in 1..(next - 1)  BY DEF ListingInv
  <2>. QED  BY <1>0, <2>1, Longer
<1>4. ASSUME pc'[u] \in {"stat", "delete"}, NEW n \in L \cup {own[u]},
             NEW f \in files', f \in 1..n
      PROVE  f \in L
  <2>1. n \in Nat /\ n < next
    <3>1. CASE n \in L  BY <1>0, <1>3, <3>1
    <3>2. CASE n = own[u]  BY <1>0, <3>2 DEF ListingInv
    <3>. QED  BY <3>1, <3>2
  <2>2. f # next  BY <1>0, <1>4, <2>1
  <2>3. f \in files  BY <1>4, <2>2
  <2>4. files \cap 1..n \subseteq L  BY <1>4 DEF ListingInv
  <2>. QED  BY <1>4, <2>3, <2>4
<1>5. ASSUME pc'[u] = "delete", NEW f \in files', f \in L
      PROVE  f \in (L \ Beyond(L)) \cup V \cup resisted'
  <2>1. f \in 1..(next - 1)  BY <1>3, <1>5
  <2>2. f # next  BY <1>0, <2>1
  <2>3. f \in files  BY <1>5, <2>2
  <2>. QED  BY <1>5, <2>3 DEF ListingInv
<1>6. ASSUME NEW f \in V PROVE f + MaxFiles < next'
  <2>1. f + MaxFiles < next  BY DEF ListingInv
  <2>2. f \in Nat  BY DEF TypeOK
  <2>. QED  BY <1>0, <2>1, <2>2
<1>7. \A n \in L : n \in 1..(next' - 1)  BY <1>3
<1>8. pc'[u] \in {"stat", "delete"} =>
        \A n \in L \cup {own[u]} : files' \cap 1..n \subseteq L
  BY <1>4
<1>9. pc'[u] = "delete" => files' \cap L \subseteq (L \ Beyond(L)) \cup V \cup resisted'
  BY <1>5
<1>10. \A f \in V : f + MaxFiles < next'  BY <1>6
<1>. QED  BY <1>1, <1>2, <1>7, <1>8, <1>9, <1>10 DEF ListingInv, Beyond

\* What the acting thread's own step does to its listing.
LEMMA ActorsListing ==
    ASSUME TypeOK, TypeOK', NEW t \in Threads, ListingInv(t), ReporterStep(t)
    PROVE  ListingInv(t)'
<1>0. /\ next \in Nat /\ next > 0 /\ MaxFiles \in Nat /\ own[t] \in Nat
      /\ files \subseteq 1..(next - 1)
  BY StampRange, Bounds DEF TypeOK
<1>1. CASE Fault(t)  BY <1>1 DEF Fault, ListingInv, TypeOK, Beyond
<1>2. CASE Write(t)
  <2>1. \A n \in listed[t] : n \in 1..(next' - 1)
    <3>1. \A n \in listed[t] : n \in 1..(next - 1)  BY DEF ListingInv
    <3>. QED  BY <1>0, <1>2, <3>1 DEF Write
  <2>2. \A f \in victims[t] : f + MaxFiles < next'
    <3>1. \A f \in victims[t] : f \in Nat /\ f + MaxFiles < next  BY DEF ListingInv, TypeOK
    <3>. QED  BY <1>0, <1>2, <3>1 DEF Write
  <2>3. own'[t] < next' /\ pc'[t] = "list"  BY <1>0, <1>2 DEF Write, TypeOK
  <2>4. listed'[t] = listed[t] /\ victims'[t] = victims[t]  BY <1>2 DEF Write
  <2>. QED  BY <2>1, <2>2, <2>3, <2>4 DEF ListingInv
<1>3. CASE WriteFails(t)
  <2>1. /\ pc'[t] = "idle" /\ own'[t] = 0 /\ listed'[t] = listed[t] /\ victims'[t] = victims[t]
    BY <1>3 DEF WriteFails, ListingInv, TypeOK
  <2>2. next' \in Nat /\ next' >= next  BY <1>0, <1>3 DEF WriteFails
  <2>3. \A n \in listed[t] : n \in 1..(next' - 1)
    <3>1. \A n \in listed[t] : n \in 1..(next - 1)  BY DEF ListingInv
    <3>. QED  BY <1>0, <2>2, <3>1, Longer
  <2>4. \A f \in victims[t] : f + MaxFiles < next'
    <3>1. \A f \in victims[t] : f \in Nat /\ f + MaxFiles < next  BY DEF ListingInv, TypeOK
    <3>. QED  BY <1>0, <2>2, <3>1
  <2>. QED  BY <1>0, <2>1, <2>2, <2>3, <2>4 DEF ListingInv
<1>4. CASE Glob(t)
  <2>1. /\ pc'[t] = "stat" /\ listed'[t] = files /\ own'[t] = own[t]
        /\ victims'[t] = victims[t] /\ next' = next /\ files' = files
    BY <1>4 DEF Glob, TypeOK
  <2>. QED  BY <1>0, <2>1 DEF ListingInv
<1>5. CASE Sort(t)
  <2>1. CASE own[t] = 0
    <3>1. /\ pc'[t] = "idle" /\ listed'[t] = {} /\ own'[t] = 0
          /\ victims'[t] = victims[t] /\ next' = next
      BY <1>5, <2>1 DEF Sort, Returns, TypeOK
    <3>. QED  BY <1>0, <3>1 DEF ListingInv
  <2>2. CASE own[t] # 0
    <3>1. /\ pc[t] = "stat" /\ pc'[t] = "delete" /\ listed'[t] = listed[t]
          /\ own'[t] = own[t] /\ victims'[t] = Beyond(listed[t])
          /\ next' = next /\ files' = files
      BY <1>5, <2>2 DEF Sort, TypeOK
    <3>2. listed[t] \subseteq 1..(next - 1) /\ next - 1 \in Nat  BY <1>0 DEF ListingInv
    <3>3. ASSUME NEW f \in victims'[t] PROVE f + MaxFiles < next'
      <4>1. f \in listed[t] /\ f + MaxFiles <= next - 1  BY <3>1, <3>2, BeyondIsOld
      <4>2. f \in Nat  BY <3>2, <4>1
      <4>. QED  BY <1>0, <3>1, <4>1, <4>2
    <3>4. files' \cap listed'[t] \subseteq (listed'[t] \ Beyond(listed'[t])) \cup victims'[t]
      BY <3>1 DEF Beyond
    <3>. QED  BY <3>1, <3>3, <3>4 DEF ListingInv, Beyond
  <2>. QED  BY <2>1, <2>2
<1>6. CASE SortFails(t)
  <2>1. /\ own'[t] = 0 /\ listed'[t] = {} /\ victims'[t] = victims[t] /\ next' = next
        /\ pc'[t] \in {"write", "idle"}
    BY <1>6 DEF SortFails, Returns, TypeOK
  <2>. QED  BY <1>0, <2>1 DEF ListingInv
<1>7. CASE Delete(t)
  <2>1. PICK f \in victims[t] :
          /\ victims' = [victims EXCEPT ![t] = @ \ {f}]
          /\ \/ files' = files \ {f} /\ resisted' = resisted \ {f}
             \/ files' = files /\ resisted' = resisted \cup {f}
    BY <1>7 DEF Delete
  <2>2. victims'[t] = victims[t] \ {f}  BY <2>1 DEF TypeOK
  <2>3. pc'[t] = pc[t] /\ listed'[t] = listed[t] /\ own'[t] = own[t] /\ next' = next
    BY <1>7 DEF Delete
  <2>. QED  BY <2>1, <2>2, <2>3 DEF ListingInv, Beyond
<1>8. CASE Pruned(t)
  <2>1. /\ own'[t] = 0 /\ listed'[t] = {} /\ victims'[t] = victims[t] /\ next' = next
        /\ pc'[t] = "idle"
    BY <1>8 DEF Pruned, Returns, TypeOK
  <2>. QED  BY <1>0, <2>1 DEF ListingInv
<1>. QED  BY <1>1, <1>2, <1>3, <1>4, <1>5, <1>6, <1>7, <1>8 DEF ReporterStep

LEMMA StepListing ==
    ASSUME TypeOK, PruneInv, [Next]_vars, NEW u \in Threads
    PROVE  ListingInv(u)'
<1>0. TypeOK' /\ ListingInv(u) /\ next \in Nat /\ next' \in Nat
  BY StepTypes, StampRange DEF PruneInv, TypeOK
<1>1. ASSUME NEW t \in Threads, ReporterStep(t) PROVE ListingInv(u)'
  <2>1. CASE u = t  BY <1>0, <1>1, <2>1, ActorsListing
  <2>2. CASE u # t
    <3>1. /\ pc'[u] = pc[u] /\ listed'[u] = listed[u] /\ victims'[u] = victims[u]
          /\ own'[u] = own[u]
      BY <1>1, <2>2
      DEF ReporterStep, Fault, Write, WriteFails, Glob, Sort, SortFails, Delete, Pruned,
          Returns, TypeOK
    <3>2. /\ next' >= next /\ files' \subseteq files \cup {next}
          /\ files' \cap resisted \subseteq resisted'
      BY <1>0, <1>1
      DEF ReporterStep, Fault, Write, WriteFails, Glob, Sort, SortFails, Delete, Pruned
    <3>. QED  BY <1>0, <3>1, <3>2, Untouched
  <2>. QED  BY <2>1, <2>2
<1>2. CASE UNCHANGED <<files, next, pc, listed, victims, own, resisted>>
  <2>1. next' >= next  BY <1>0, <1>2
  <2>. QED  BY <1>0, <1>2, <2>1, Untouched
<1>3. CASE ShowPage \/ Build
  <2>1. own' = own /\ listed' = listed /\ victims' = victims /\ files' = files /\ next' = next
        /\ resisted' = resisted
    <3>1. CASE Build  BY <3>1 DEF Build
    <3>2. CASE ShowPage
      <4>1. own[Loop] = 0  BY <3>2, Bounds DEF ShowPage, PruneInv, ListingInv
      <4>2. own' = own  BY <3>2, <4>1, Bounds DEF ShowPage, TypeOK
      <4>. QED  BY <3>2, <4>2 DEF ShowPage
    <3>. QED  BY <1>3, <3>1, <3>2
  <2>2. pc'[u] = pc[u] \/ (pc[u] = "idle" /\ pc'[u] \in {"list", "write"})
    <3>1. CASE ShowPage  BY <3>1, Bounds DEF ShowPage, TypeOK
    <3>2. CASE Build
      <4>1. pc[u] = "idle"  BY <3>2 DEF Build, PruneInv, AllIdle
      <4>. QED  BY <3>2, <4>1, Bounds DEF Build, TypeOK
    <3>. QED  BY <1>3, <3>1, <3>2
  <2>3. CASE pc'[u] = pc[u]
    <3>1. next' >= next  BY <1>0, <2>1
    <3>. QED  BY <1>0, <2>1, <2>3, <3>1, Untouched
  <2>4. CASE pc[u] = "idle" /\ pc'[u] \in {"list", "write"}
    BY <1>0, <2>1, <2>4 DEF ListingInv
  <2>. QED  BY <2>2, <2>3, <2>4
<1>4. CASE Die
  <2>1. /\ pc'[u] = "idle" /\ listed'[u] = {} /\ victims'[u] = {} /\ own'[u] = 0
        /\ next' = next
    BY <1>4 DEF Die
  <2>2. 0 < next'  BY <2>1, StampRange
  <2>. QED  BY <2>1, <2>2 DEF ListingInv
<1>. QED
  BY <1>1, <1>2, <1>3, <1>4
  DEF Next, ReporterStep, Consume, MarkRunning, Close, MarkStopped, Exit, folder, vars

\* A count that no step raises stays within the limit.
LEMMA StillWithin ==
    ASSUME TypeOK, NEW n \in Nat, Within(n),
           (files' \ resisted') \cap 1..n \subseteq (files \ resisted) \cap 1..n
    PROVE  Within(n)'
<1>1. (files \ resisted) \cap 1..n \in SUBSET (1..n)  OBVIOUS
<1>2. IsFiniteSet((files \ resisted) \cap 1..n)  BY <1>1, UpTo
<1>. DEFINE before == (files \ resisted) \cap 1..n
            after == (files' \ resisted') \cap 1..n
<1>. HIDE DEF before, after
<1>3. Cardinality(after) <= Cardinality(before)
      /\ Cardinality(before) \in Nat /\ Cardinality(after) \in Nat
  BY <1>2, Part DEF before, after
<1>4. Cardinality(before) <= MaxFiles  BY DEF before, Within
<1>5. Cardinality(after) <= MaxFiles  BY <1>3, <1>4, Bounds
<1>. QED  BY <1>5 DEF after, Within

\* Every prefix of the order that no failed or running pruning is charged with
\* holds at most MaxFiles snapshots that can be deleted, after a step as before it.
LEMMA StepCounted ==
    ASSUME TypeOK, PruneInv, [Next]_vars, NEW n \in 1..(next' - 1)
    PROVE  Charged(n)' \/ Within(n)'
<1>0. n \in Nat /\ n > 0 /\ next \in Nat /\ next' \in Nat
  BY StepTypes, StampRange DEF TypeOK
<1>1. ASSUME n < next, files' \subseteq files \cup {next}, files' \cap resisted \subseteq resisted',
             Charged(n) => Charged(n)'
      PROVE  Charged(n)' \/ Within(n)'
  <2>1. n \in 1..(next - 1)  BY <1>0, <1>1
  <2>2. Charged(n) \/ Within(n)  BY <2>1 DEF PruneInv
  <2>3. (files' \ resisted') \cap 1..n \subseteq (files \ resisted) \cap 1..n  BY <1>0, <1>1
  <2>. QED  BY <1>0, <1>1, <2>2, <2>3, StillWithin
<1>2. CASE UNCHANGED <<files, next, own, spoilt, resisted>>
  <2>1. Charged(n) => Charged(n)'  BY <1>2 DEF Charged
  <2>. QED  BY <1>0, <1>1, <1>2, <2>1
<1>3. ASSUME NEW t \in Threads, Write(t)
      PROVE  Charged(n)' \/ Within(n)'
  <2>1. own[t] = 0  BY <1>3 DEF Write, PruneInv, ListingInv
  <2>2. own'[t] = next /\ \A u \in Threads : u # t => own'[u] = own[u]
    BY <1>3 DEF Write, TypeOK
  <2>3. CASE n = next  BY <2>2, <2>3 DEF Charged
  <2>4. CASE n # next
    <3>1. n < next  BY <1>0, <1>3, <2>4 DEF Write
    <3>2. Charged(n) => Charged(n)'  BY <1>0, <1>3, <2>1, <2>2 DEF Charged, Write
    <3>3. files' \subseteq files \cup {next} /\ resisted' = resisted  BY <1>3 DEF Write
    <3>. QED  BY <1>1, <3>1, <3>2, <3>3
  <2>. QED  BY <2>3, <2>4
\* A file left by a failed write is charged from the start.
<1>12. ASSUME NEW t \in Threads, WriteFails(t)
       PROVE  Charged(n)' \/ Within(n)'
  <2>1. own' = own /\ resisted' = resisted  BY <1>12 DEF WriteFails
  <2>2. CASE UNCHANGED <<files, next, spoilt>>  BY <1>2, <2>1, <2>2
  <2>3. CASE files' = files \cup {next} /\ next' = next + 1 /\ spoilt' = spoilt \cup {next}
    <3>1. CASE n = next  BY <2>3, <3>1 DEF Charged
    <3>2. CASE n # next
      <4>1. n < next  BY <1>0, <2>3, <3>2
      <4>2. Charged(n) => Charged(n)'  BY <2>1, <2>3 DEF Charged
      <4>. QED  BY <1>1, <2>1, <2>3, <4>1, <4>2
    <3>. QED  BY <3>1, <3>2
  <2>. QED  BY <1>12, <2>2, <2>3 DEF WriteFails
<1>4. ASSUME NEW t \in Threads, Sort(t)
      PROVE  Charged(n)' \/ Within(n)'
  <2>1. own' = own  BY <1>4 DEF Sort, Returns, TypeOK
  <2>. QED  BY <1>2, <1>4, <2>1 DEF Sort
<1>5. ASSUME NEW t \in Threads, SortFails(t)
      PROVE  Charged(n)' \/ Within(n)'
  <2>1. \A u \in Threads : u # t => own'[u] = own[u]  BY <1>5 DEF SortFails, Returns, TypeOK
  <2>2. own[t] = 0 => own' = own /\ spoilt' = spoilt  BY <1>5 DEF SortFails
  <2>3. own[t] # 0 => spoilt' = spoilt \cup {own[t]}  BY <1>5 DEF SortFails
  <2>4. Charged(n) => Charged(n)'  BY <2>1, <2>2, <2>3 DEF Charged
  <2>. QED  BY <1>0, <1>1, <1>5, <2>4 DEF SortFails
<1>6. ASSUME NEW t \in Threads, Delete(t)
      PROVE  Charged(n)' \/ Within(n)'
  <2>1. own' = own /\ spoilt' = spoilt /\ next' = next  BY <1>6 DEF Delete
  <2>2. files' \subseteq files /\ files' \cap resisted \subseteq resisted'
    BY <1>6 DEF Delete
  <2>3. Charged(n) => Charged(n)'  BY <2>1 DEF Charged
  <2>. QED  BY <1>0, <1>1, <2>1, <2>2, <2>3
<1>7. ASSUME NEW t \in Threads, Pruned(t)
      PROVE  Charged(n)' \/ Within(n)'
  <2>1. \A u \in Threads : u # t => own'[u] = own[u]  BY <1>7 DEF Pruned, Returns, TypeOK
  <2>2. /\ files' = files /\ next' = next /\ resisted' = resisted
        /\ spoilt' = spoilt \ listed[t]
    BY <1>7 DEF Pruned
  <2>3. CASE n \in listed[t] \cup {own[t]}
    <3>1. ListingInv(t) /\ pc[t] = "delete" /\ victims[t] = {}
      BY <1>7 DEF Pruned, PruneInv
    <3>2. files \cap 1..n \subseteq listed[t]  BY <2>3, <3>1 DEF ListingInv
    <3>. DEFINE L == listed[t]
    <3>3. (files \ resisted) \cap 1..n \subseteq L \ Beyond(L)
      BY <3>1, <3>2 DEF ListingInv
    <3>4. L \subseteq 1..(next - 1) /\ next - 1 \in Nat
      BY <1>0, <3>1, StampRange DEF ListingInv
    <3>5. L \ Beyond(L) \in SUBSET (1..(next - 1))  BY <3>4
    <3>6. IsFiniteSet(L \ Beyond(L))  BY <3>4, <3>5, UpTo
    <3>7. Cardinality(L \ Beyond(L)) <= MaxFiles  BY <3>4, WithinLimit
    <3>. DEFINE kept == L \ Beyond(L)
                here == (files \ resisted) \cap 1..n
    <3>8. IsFiniteSet(kept) /\ Cardinality(kept) <= MaxFiles /\ here \subseteq kept
      BY <3>3, <3>6, <3>7
    <3>. HIDE DEF kept, here
    <3>9. /\ Cardinality(here) \in Nat /\ Cardinality(kept) \in Nat
          /\ Cardinality(here) <= Cardinality(kept)
      BY <3>8, Part
    <3>10. Cardinality(here) <= MaxFiles  BY <3>8, <3>9, Bounds
    <3>. QED  BY <2>2, <3>10 DEF here, Within
  <2>4. CASE n \notin listed[t] \cup {own[t]}
    <3>1. Charged(n) => Charged(n)'  BY <2>1, <2>2, <2>4 DEF Charged
    <3>. QED  BY <1>0, <1>1, <2>2, <3>1
  <2>. QED  BY <2>3, <2>4
<1>8. CASE ShowPage
  <2>1. own[Loop] = 0  BY <1>8, Bounds DEF ShowPage, PruneInv, ListingInv
  <2>2. own' = own  BY <1>8, <2>1, Bounds DEF ShowPage, TypeOK
  <2>. QED  BY <1>2, <1>8, <2>2 DEF ShowPage
<1>9. CASE Die
  <2>1. Charged(n) => Charged(n)'  BY <1>0, <1>9 DEF Charged, Die
  <2>. QED  BY <1>0, <1>1, <1>9, <2>1 DEF Die
<1>10. ASSUME NEW t \in Threads, Fault(t) \/ Glob(t)
       PROVE  UNCHANGED <<files, next, own, spoilt, resisted>>
  BY <1>10 DEF Fault, Glob
<1>11. ASSUME Build \/ Consume \/ MarkRunning \/ Close \/ MarkStopped \/ Exit \/ UNCHANGED vars
       PROVE  UNCHANGED <<files, next, own, spoilt, resisted>>
  BY <1>11 DEF Build, Consume, MarkRunning, Close, MarkStopped, Exit, folder, vars
<1>. QED
  BY <1>2, <1>3, <1>4, <1>5, <1>6, <1>7, <1>8, <1>9, <1>10, <1>11, <1>12 DEF Next

LEMMA StepPruning == ASSUME TypeOK, PruneInv, [Next]_vars PROVE PruneInv'
<1>1. phase' = "off" => AllIdle'
  <2>1. ASSUME NEW t \in Threads, ReporterStep(t) PROVE phase' = "off" => AllIdle'
    <3>1. phase' = phase
      BY <2>1
      DEF ReporterStep, Fault, Write, WriteFails, Glob, Sort, SortFails, Delete, Pruned
    <3>2. phase = "off" => pc[t] = "idle"  BY DEF PruneInv, AllIdle
    <3>. QED
      BY <2>1, <3>1, <3>2
      DEF ReporterStep, Fault, Serving, Write, WriteFails, Glob, Sort, SortFails, Delete, Pruned
  <2>2. CASE ShowPage \/ Build \/ Consume \/ MarkRunning \/ Close \/ MarkStopped
    BY <2>2 DEF ShowPage, Build, Consume, MarkRunning, Close, MarkStopped
  <2>3. CASE Exit \/ Die \/ UNCHANGED vars
    BY <2>3 DEF Exit, Die, AllIdle, folder, vars, PruneInv
  <2>. QED  BY <2>1, <2>2, <2>3 DEF Next, ReporterStep
<1>2. \A t \in Threads : ListingInv(t)'  BY StepListing
<1>3. \A n \in 1..(next' - 1) : Charged(n)' \/ Within(n)'
  BY StepCounted
<1>. QED  BY <1>1, <1>2, <1>3 DEF PruneInv

LEMMA InitPruning == Init => PruneInv
BY DEF Init, PruneInv, ListingInv, AllIdle

LEMMA PruneInvariant == Spec => [](TypeOK /\ PruneInv)
<1>1. TypeOK /\ PruneInv /\ [Next]_vars => (TypeOK /\ PruneInv)'
  BY StepTypes, StepPruning
<1>. QED  BY <1>1, InitTypes, InitPruning, PTL DEF Spec

\* Whatever threads prune at the same time and wherever the process dies, the
\* newest MaxFiles snapshots are kept: a victim has MaxFiles newer ones.
THEOREM NewestAreKept == Spec => []KeepsNewest
<1>1. Init => KeepsNewest  BY DEF Init, KeepsNewest
<1>2. ASSUME TypeOK, PruneInv, KeepsNewest, [Next]_vars PROVE KeepsNewest'
  <2>0. next \in Nat /\ MaxFiles \in Nat  BY <1>2, StampRange, Bounds
  <2>1. CASE UNCHANGED <<files, next>>  BY <1>2, <2>1 DEF KeepsNewest
  <2>2. ASSUME files' = files \cup {next}, next' = next + 1 PROVE KeepsNewest'
    <3>1. files' = files \cup {next} /\ next' = next + 1  BY <2>2
    <3>2. ASSUME NEW n \in 1..(next' - 1), n + MaxFiles >= next' PROVE n \in files'
      <4>1. n \in Nat /\ n > 0 /\ n <= next  BY <2>0, <3>1
      <4>2. CASE n = next  BY <3>1, <4>2
      <4>3. CASE n < next
        <5>1. n \in 1..(next - 1) /\ n + MaxFiles >= next  BY <2>0, <3>1, <3>2, <4>1, <4>3
        <5>. QED  BY <1>2, <3>1, <5>1 DEF KeepsNewest
      <4>. QED  BY <2>0, <4>1, <4>2, <4>3
    <3>. QED  BY <3>2 DEF KeepsNewest
  <2>3. ASSUME NEW t \in Threads, Delete(t) PROVE KeepsNewest'
    <3>1. PICK f \in victims[t] : files \ {f} \subseteq files'  BY <2>3 DEF Delete
    <3>2. next' = next  BY <2>3 DEF Delete
    <3>3. f + MaxFiles < next  BY <1>2 DEF PruneInv, ListingInv
    <3>4. f \in Nat  BY <1>2 DEF TypeOK
    <3>5. ASSUME NEW n \in 1..(next' - 1), n + MaxFiles >= next' PROVE n \in files'
      <4>1. n \in files  BY <1>2, <3>2, <3>5 DEF KeepsNewest
      <4>2. n # f  BY <2>0, <3>2, <3>3, <3>4, <3>5
      <4>. QED  BY <3>1, <4>1, <4>2
    <3>. QED  BY <3>5 DEF KeepsNewest
  <2>4. ASSUME NEW t \in Threads,
               Fault(t) \/ Glob(t) \/ Sort(t) \/ SortFails(t) \/ Pruned(t)
        PROVE  UNCHANGED <<files, next>>
    BY <2>4 DEF Fault, Glob, Sort, SortFails, Pruned
  <2>6. ASSUME NEW t \in Threads, Write(t) \/ WriteFails(t) PROVE KeepsNewest'
    BY <2>1, <2>2, <2>6 DEF Write, WriteFails
  <2>5. ASSUME ShowPage \/ Build \/ Consume \/ MarkRunning \/ Close \/ MarkStopped \/ Exit
                  \/ Die \/ UNCHANGED vars
        PROVE  UNCHANGED <<files, next>>
    BY <2>5 DEF ShowPage, Build, Consume, MarkRunning, Close, MarkStopped, Exit, Die, folder, vars
  <2>. QED  BY <1>2, <2>1, <2>3, <2>4, <2>5, <2>6 DEF Next
<1>. QED  BY <1>1, <1>2, PruneInvariant, PTL DEF Spec

\* With no thread in the reporter the folder holds MaxFiles snapshots, and at most
\* one more for each whose pruning failed, was cut off or never ran, and for each
\* that could not be deleted: of those that could be, there are at most MaxFiles
\* below the newest one that nothing is charged with, and all others are charged.
THEOREM FolderStaysSmall == Spec => []FolderBounded
<1>. DEFINE lasting == files \ resisted
<1>1. ASSUME TypeOK, PruneInv, AllIdle
      PROVE  /\ Cardinality(lasting) <= MaxFiles + Cardinality(spoilt)
             /\ Cardinality(lasting) \in Nat /\ Cardinality(spoilt) \in Nat
  <2>0. /\ next \in Nat /\ next > 0 /\ MaxFiles \in Nat /\ MaxStamp \in Nat
        /\ lasting \subseteq 1..(next - 1)
    BY <1>1, StampRange, Bounds DEF TypeOK
  <2>1. IsFiniteSet(spoilt) /\ Cardinality(spoilt) \in Nat
    <3>1. spoilt \in SUBSET (1..MaxStamp)  BY <1>1 DEF TypeOK
    <3>. QED  BY <2>0, <3>1, UpTo
  <2>2. \A n \in lasting : Charged(n) => n \in spoilt
    <3>1. \A t \in Threads : own[t] = 0  BY <1>1 DEF AllIdle, PruneInv, ListingInv
    <3>2. \A n \in lasting : n # 0  BY <2>0
    <3>. QED  BY <3>1, <3>2 DEF Charged
  <2>3. \A n \in 1..(next - 1) : Charged(n) \/ Cardinality(lasting \cap 1..n) <= MaxFiles
    BY <1>1 DEF PruneInv, Within
  <2>. HIDE DEF lasting
  <2>. DEFINE free == {n \in lasting : ~Charged(n)}
  <2>4. CASE free = {}
    <3>1. lasting \subseteq spoilt  BY <2>2, <2>4
    <3>2. Cardinality(lasting) <= Cardinality(spoilt) /\ Cardinality(lasting) \in Nat
      BY <2>1, <3>1, Part
    <3>. QED  BY <2>0, <2>1, <3>2
  <2>5. CASE free # {}
    <3>1. \A n \in free : n \in 0..next
      <4>1. \A n \in lasting : n \in 1..(next - 1)  BY <2>0
      <4>. QED  BY <2>0, <4>1
    <3>2. PICK m \in free : \A n \in free : n <= m  BY <2>0, <2>5, <3>1, Greatest
    <3>3. m \in 1..(next - 1) /\ m \in Nat /\ ~Charged(m)  BY <2>0, <3>2
    <3>4. Cardinality(lasting \cap 1..m) <= MaxFiles  BY <2>3, <3>3
    <3>. DEFINE old == lasting \cap 1..m
    <3>5. IsFiniteSet(old) /\ Cardinality(old) \in Nat
      <4>1. old \in SUBSET (1..m)  OBVIOUS
      <4>. QED  BY <3>3, <4>1, UpTo
    <3>6. ASSUME NEW n \in lasting PROVE n \in old \cup spoilt
      <4>1. n \in Nat /\ n > 0  BY <2>0
      <4>2. CASE n <= m  BY <3>3, <4>1, <4>2
      <4>3. CASE ~(n <= m)
        <5>1. Charged(n)  BY <3>2, <4>3
        <5>. QED  BY <2>2, <5>1
      <4>. QED  BY <4>2, <4>3
    <3>7. Cardinality(old) <= MaxFiles  BY <3>4
    <3>. HIDE DEF old
    <3>8. /\ IsFiniteSet(old \cup spoilt)
          /\ Cardinality(old \cup spoilt) =
               Cardinality(old) + Cardinality(spoilt) - Cardinality(old \cap spoilt)
      BY <2>1, <3>5, FS_Union
    <3>9. Cardinality(old \cap spoilt) \in Nat
      <4>1. old \cap spoilt \subseteq spoilt  OBVIOUS
      <4>. QED  BY <2>1, <4>1, Part
    <3>10. /\ Cardinality(lasting) <= Cardinality(old \cup spoilt)
           /\ Cardinality(lasting) \in Nat /\ Cardinality(old \cup spoilt) \in Nat
      <4>1. lasting \subseteq old \cup spoilt  BY <3>6
      <4>. QED  BY <3>8, <4>1, Part
    <3>. QED  BY <2>0, <2>1, <3>5, <3>7, <3>8, <3>9, <3>10
  <2>. QED  BY <2>4, <2>5
<1>2. ASSUME TypeOK, PruneInv, AllIdle
      PROVE  Cardinality(files) <= MaxFiles + Cardinality(spoilt) + Cardinality(resisted)
  <2>0. MaxStamp \in Nat /\ MaxFiles \in Nat /\ files \subseteq 1..MaxStamp
    BY <1>2, StampRange, Bounds
  <2>1. files \in SUBSET (1..MaxStamp)  BY <2>0
  <2>2. IsFiniteSet(files)  BY <2>0, <2>1, UpTo
  <2>3. resisted \subseteq files  BY <1>2 DEF TypeOK
  <2>4. /\ Cardinality(lasting) = Cardinality(files) - Cardinality(files \cap resisted)
        /\ Cardinality(files) \in Nat
    BY <2>2, FS_Difference, FS_CardinalityType
  <2>5. files \cap resisted = resisted /\ Cardinality(resisted) \in Nat
    BY <2>2, <2>3, Part
  <2>6. /\ Cardinality(lasting) <= MaxFiles + Cardinality(spoilt)
        /\ Cardinality(lasting) \in Nat /\ Cardinality(spoilt) \in Nat
    BY <1>1, <1>2
  <2>7. Cardinality(lasting) = Cardinality(files) - Cardinality(resisted)
    BY <2>4, <2>5
  <2>. HIDE DEF lasting
  <2>. QED  BY <2>0, <2>4, <2>5, <2>6, <2>7
<1>3. TypeOK /\ PruneInv => FolderBounded  BY <1>2 DEF FolderBounded
<1>. QED  BY <1>3, PruneInvariant, PTL
=============================================================================
