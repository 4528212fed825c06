-------------------------- MODULE HomeTemplateProofs --------------------------
(***************************************************************************)
(* HomeTemplate's types, the distance between snapshots and what retention *)
(* keeps, for every interval, retention and number of faults.              *)
(***************************************************************************)
EXTENDS HomeTemplate, WellFoundedInduction, FiniteSetTheorems, TLAPS

\* A set of times that is not empty has a newest one: the times before MaxTime are
\* well-founded.
LEMMA NewestType ==
  ASSUME NEW S \in SUBSET Times
  PROVE  Newest(S) \in 0..MaxTime /\ Newest(S) \in S \cup {0}
<1>1. CASE S = {}
  BY <1>1, ConstantsAssumption DEF Newest
<1>2. CASE S # {}
  <2> DEFINE T == {n \in Nat : \E s \in S : n = MaxTime - s}
  <2>1. PICK s0 \in S : TRUE
    BY <1>2
  <2>2. T # {} /\ T \subseteq Nat
    <3>1. MaxTime - s0 \in T
      BY <2>1, ConstantsAssumption DEF Times
    <3> QED
      BY <3>1
  <2>3. \E x \in T : \A y \in T : ~ (<<y, x>> \in OpToRel(<, Nat))
    BY <2>2, NatLessThanWellFounded, WFMin
  <2>4. PICK x \in T : \A y \in T : ~ (<<y, x>> \in OpToRel(<, Nat))
    BY <2>3
  <2>5. \A y \in T : ~(y < x)
    BY <2>2, <2>4 DEF OpToRel
  <2>6. \E s \in S : \A t \in S : t <= s
    <3>1. PICK s \in S : x = MaxTime - s
      BY <2>4
    <3>2. ASSUME NEW t \in S
          PROVE  t <= s
      <4>1. MaxTime - t \in T
        BY <3>2, ConstantsAssumption DEF Times
      <4>2. ~(MaxTime - t < x)
        BY <4>1, <2>5
      <4> QED
        BY <4>2, <3>1, ConstantsAssumption DEF Times
    <3> QED
      BY <3>2
  <2> HIDE DEF T
  <2>7. Newest(S) = CHOOSE s \in S : \A t \in S : t <= s
    BY <1>2 DEF Newest
  <2>8. Newest(S) \in S
    BY <2>6, <2>7
  <2>9. S \subseteq 1..MaxTime
    BY DEF Times
  <2>10. Newest(S) \in 0..MaxTime
    <3> DEFINE n == Newest(S)
    <3>1. n \in 1..MaxTime
      BY <2>8, <2>9
    <3> HIDE DEF n
    <3>2. MaxTime \in Nat
      BY ConstantsAssumption
    <3>3. n \in 0..MaxTime
      BY <3>1, <3>2
    <3> QED
      BY <3>3 DEF n
  <2> QED
    BY <2>8, <2>10
<1> QED
  BY <1>1, <1>2

\* An end of Reconcile leaves the local variables with their types.
LEMMA ReturnType ==
  ASSUME Return
  PROVE  /\ pc' \in PC /\ pc' # "create"
         /\ ht' \in Status /\ listed' \subseteq Times /\ usable' \subseteq listed'
  <1>1. Unset \in Status
    BY ConstantsAssumption DEF Unset, Status
  <1> QED
    BY <1>1 DEF Return, PC, Times

LEMMA FaultType ==
  ASSUME faults \in 0..MaxFaults, Fault
  PROVE  faults' \in 0..MaxFaults
  BY ConstantsAssumption DEF Fault

LEMMA AfterType ==
  ASSUME timer \in 0..MaxTime + Interval, NEW due \in 0..MaxTime + Interval, After(due)
  PROVE  timer' \in 0..MaxTime + Interval
  BY DEF After

\* A time of the clock is a time a timer may have.
LEMMA ClockTimer ==
  ASSUME clock \in Times
  PROVE  clock \in 0..MaxTime + Interval
  BY ConstantsAssumption DEF Times

\* The types are an invariant of the controller: in particular a snapshot is deleted
\* from those that are ready when it is deleted.
THEOREM TypeCorrect == Spec => []TypeOK
<1>1. Init => TypeOK
  <2> SUFFICES ASSUME Init PROVE TypeOK
    OBVIOUS
  <2>1. Unset \in Status
    BY ConstantsAssumption DEF Unset, Status
  <2>2. clock \in Times /\ timer \in 0..MaxTime + Interval /\ faults \in 0..MaxFaults
    BY ConstantsAssumption DEF Init, Times
  <2> QED
    BY <2>1, <2>2 DEF Init, TypeOK, PC
<1>2. TypeOK /\ [Next]_vars => TypeOK'
  <2> SUFFICES ASSUME TypeOK, [Next]_vars PROVE TypeOK'
    OBVIOUS
  <2>1. CASE EnsurePVC
    <3>1. faults' \in 0..MaxFaults
      BY <2>1, FaultType DEF EnsurePVC, TypeOK
    <3>2. ht' \in Status /\ pc' \in PC /\ pvc' \in BOOLEAN /\ queued' \in BOOLEAN
      BY <2>1 DEF EnsurePVC, TypeOK, PC
    <3> QED
      BY <2>1, <3>1, <3>2 DEF EnsurePVC, TypeOK
  <2>2. CASE RecordPVC
    <3>1. faults' \in 0..MaxFaults
      BY <2>2, FaultType DEF RecordPVC, TypeOK
    <3>2. status' \in Status /\ ht' \in Status
      BY <2>2 DEF RecordPVC, TypeOK, Status
    <3> QED
      BY <2>2, <3>1, <3>2 DEF RecordPVC, TypeOK, PC
  <2>3. CASE listVolumeSnapshots
    <3>1. CASE Fault /\ Return /\ After(clock)
      BY <2>3, <3>1, FaultType, ReturnType, AfterType, ClockTimer
         DEF listVolumeSnapshots, TypeOK
    <3>2. CASE ~(Fault /\ Return /\ After(clock))
      BY <2>3, <3>2 DEF listVolumeSnapshots, TypeOK, PC
    <3> QED
      BY <3>1, <3>2
  <2>4. CASE createVolumeSnapshot
    <3>1. faults' \in 0..MaxFaults
      BY <2>4, FaultType DEF createVolumeSnapshot, TypeOK
    <3>2. timer' \in 0..MaxTime + Interval
      BY <2>4, AfterType, ClockTimer DEF createVolumeSnapshot, TypeOK
    <3>3. snaps' \subseteq Times /\ ready' \subseteq snaps'
      BY <2>4 DEF createVolumeSnapshot, TypeOK
    <3>4. Return /\ queued' \in BOOLEAN
      BY <2>4 DEF createVolumeSnapshot, TypeOK, Retry
    <3> QED
      BY <2>4, <3>1, <3>2, <3>3, <3>4, ReturnType DEF createVolumeSnapshot, TypeOK
  <2>5. CASE Publish
    <3>1. faults' \in 0..MaxFaults
      BY <2>5, FaultType DEF Publish, TypeOK
    <3>2. Newest(usable) \in 0..MaxTime
      BY NewestType DEF TypeOK
    <3>3. status' \in Status /\ ht' \in Status
      BY <2>5, <3>2 DEF Publish, TypeOK, Status
    <3> QED
      BY <2>5, <3>1, <3>3 DEF Publish, TypeOK, PC
  <2>6. CASE enforceSnapshotRetention
    <3>1. faults' \in 0..MaxFaults
      BY <2>6, FaultType DEF enforceSnapshotRetention, TypeOK
    <3>2. snaps' \subseteq snaps
      BY <2>6 DEF enforceSnapshotRetention
    <3>3. snaps' \subseteq Times /\ ready' \subseteq snaps'
      BY <2>6, <3>2 DEF enforceSnapshotRetention, TypeOK
    <3>4. UNCHANGED <<clock, status, cache, pvc, queued, timer, ht, listed, usable>>
      BY <2>6 DEF enforceSnapshotRetention, local
    <3>5. pc' \in PC
      BY <2>6 DEF enforceSnapshotRetention, PC
    <3> QED
      BY <3>1, <3>3, <3>4, <3>5 DEF TypeOK
  <2>7. CASE Requeue
    <3> DEFINE n == Newest(listed)
    <3>1. n \in 0..MaxTime
      BY NewestType DEF TypeOK
    <3>2. (n + Interval > clock /\ After(n + Interval)) \/ timer' = timer
      BY <2>7 DEF Requeue
    <3> HIDE DEF n
    <3>3. n + Interval \in 0..MaxTime + Interval
      BY <3>1, ConstantsAssumption
    <3>4. timer' \in 0..MaxTime + Interval
      BY <3>2, <3>3, AfterType DEF TypeOK
    <3>5. Return
      BY <2>7 DEF Requeue
    <3> QED
      BY <2>7, <3>4, <3>5, ReturnType DEF Requeue, TypeOK
  <2>8. CASE Sync
    BY <2>8 DEF Sync, TypeOK, local
  <2>9. CASE FireTimer
    <3>1. timer' \in 0..MaxTime + Interval
      BY <2>9, ConstantsAssumption DEF FireTimer
    <3> QED
      BY <2>9, <3>1 DEF FireTimer, TypeOK, local
  <2>10. CASE Restart
    <3>1. timer' \in 0..MaxTime + Interval
      BY <2>10, ConstantsAssumption DEF Restart
    <3>2. Return /\ queued' = TRUE
      BY <2>10 DEF Restart, Retry
    <3> QED
      BY <2>10, <3>1, <3>2, FaultType, ReturnType DEF Restart, TypeOK
  <2>11. CASE SnapshotReady
    BY <2>11 DEF SnapshotReady, TypeOK, local
  <2>12. CASE Tick
    <3>1. clock' \in Times
      BY <2>12, ConstantsAssumption DEF Tick, TypeOK, Times
    <3> QED
      BY <2>12, <3>1 DEF Tick, TypeOK, local
  <2>13. CASE UNCHANGED vars
    BY <2>13 DEF vars, local, TypeOK
  <2>14. CASE Resync
    BY <2>14 DEF Resync, TypeOK, local
  <2> QED
    BY <2>1, <2>2, <2>3, <2>4, <2>5, <2>6, <2>7, <2>8, <2>9, <2>10, <2>11, <2>12, <2>13,
       <2>14 DEF Next, Reconcile
<1> QED
  BY <1>1, <1>2, PTL DEF Spec

\* Every snapshot is of the past, and between the decision to create one and its
\* creation none is younger than the interval and the five minutes.
SpacingInv ==
  /\ Spacing
  /\ \A s \in snaps : s <= clock
  /\ pc = "create" => \A s \in snaps : clock - s >= Interval /\ clock - s >= Stampede

\* What an action that creates no snapshot keeps.
LEMMA SpacingKept ==
  ASSUME SpacingInv, TypeOK, snaps' \subseteq snaps, clock' = clock,
         pc' = "create" => pc = "create"
  PROVE  SpacingInv'
  BY DEF SpacingInv, Spacing

\* "Avoid stampeding": no two snapshots are closer than the interval and than the five
\* minutes, wherever calls fail, answers are lost and the operator ends.
THEOREM SpacingHolds == Spec => []Spacing
<1>1. Init => SpacingInv
  BY DEF Init, SpacingInv, Spacing
<1>2. TypeOK /\ SpacingInv /\ [Next]_vars => SpacingInv'
  <2> SUFFICES ASSUME TypeOK, SpacingInv, [Next]_vars PROVE SpacingInv'
    OBVIOUS
  <2>1. CASE EnsurePVC
    BY <2>1, SpacingKept DEF EnsurePVC
  <2>2. CASE RecordPVC
    BY <2>2, SpacingKept DEF RecordPVC
  <2>3. CASE listVolumeSnapshots
    <3>1. CASE pc' = "create"
      <4>1. NeedNew(snaps) /\ snaps' = snaps /\ clock' = clock
        BY <2>3, <3>1 DEF listVolumeSnapshots, Return
      <4> QED
        BY <4>1 DEF SpacingInv, Spacing, NeedNew
    <3>2. CASE pc' # "create"
      BY <2>3, <3>2, SpacingKept DEF listVolumeSnapshots
    <3> QED
      BY <3>1, <3>2
  <2>4. CASE createVolumeSnapshot
    <3>1. pc = "create" /\ pc' # "create" /\ clock' = clock
      BY <2>4 DEF createVolumeSnapshot, Retry, Return
    <3>2. snaps' \subseteq snaps \cup {clock}
      BY <2>4 DEF createVolumeSnapshot
    <3>3. clock \in Int /\ snaps \subseteq Int
      BY DEF TypeOK, Times
    <3>4. ASSUME NEW s \in snaps', NEW t \in snaps', s < t
          PROVE  t - s >= Interval /\ t - s >= Stampede
      <4>1. CASE s \in snaps /\ t \in snaps
        BY <3>4, <4>1 DEF SpacingInv, Spacing
      <4>2. CASE s \in snaps /\ t = clock
        BY <3>1, <4>2 DEF SpacingInv
      <4>3. CASE s = clock /\ t \in snaps
        BY <3>3, <3>4, <4>3 DEF SpacingInv
      <4> QED
        BY <3>2, <3>3, <3>4, <4>1, <4>2, <4>3
    <3>5. \A s \in snaps' : s <= clock'
      BY <3>1, <3>2, <3>3 DEF SpacingInv
    <3> QED
      BY <3>1, <3>4, <3>5 DEF SpacingInv, Spacing
  <2>5. CASE Publish
    BY <2>5, SpacingKept DEF Publish
  <2>6. CASE enforceSnapshotRetention
    <3>1. snaps' \subseteq snaps
      BY <2>6 DEF enforceSnapshotRetention
    <3> QED
      BY <2>6, <3>1, SpacingKept DEF enforceSnapshotRetention
  <2>7. CASE Requeue
    BY <2>7, SpacingKept DEF Requeue, Return
  <2>8. CASE Sync
    BY <2>8, SpacingKept DEF Sync
  <2>9. CASE FireTimer
    BY <2>9, SpacingKept DEF FireTimer
  <2>10. CASE Restart
    BY <2>10, SpacingKept DEF Restart, Retry, Return
  <2>11. CASE SnapshotReady
    BY <2>11, SpacingKept DEF SnapshotReady
  <2>12. CASE Tick
    <3>1. clock' = clock + 1 /\ snaps' = snaps /\ pc' = pc
      BY <2>12 DEF Tick
    <3>2. clock \in Int /\ snaps \subseteq Int /\ Interval \in Int /\ Stampede \in Int
      BY ConstantsAssumption DEF TypeOK, Times
    <3> QED
      BY <3>1, <3>2 DEF SpacingInv, Spacing
  <2>13. CASE UNCHANGED vars
    BY <2>13, SpacingKept DEF vars
  <2>14. CASE Resync
    BY <2>14, SpacingKept DEF Resync
  <2> QED
    BY <2>1, <2>2, <2>3, <2>4, <2>5, <2>6, <2>7, <2>8, <2>9, <2>10, <2>11, <2>12, <2>13,
       <2>14 DEF Next, Reconcile
<1>3. SpacingInv => Spacing
  BY DEF SpacingInv
<1> QED
  BY <1>1, <1>2, <1>3, TypeCorrect, PTL DEF Spec

-----------------------------------------------------------------------------
(* Retention *)

\* What a pass has listed and not yet gone through for deletion is still there.
ListInv == pc \in {"publish", "retention"} => listed \subseteq snaps

LEMMA ListStep == TypeOK /\ ListInv /\ [Next]_vars => ListInv'
<1> SUFFICES ASSUME TypeOK, ListInv, [Next]_vars, pc' \in {"publish", "retention"}
             PROVE  listed' \subseteq snaps'
  BY DEF ListInv
<1>1. CASE listVolumeSnapshots
  BY <1>1 DEF listVolumeSnapshots, Return
<1>2. CASE Publish
  BY <1>2 DEF Publish, ListInv
<1>3. CASE UNCHANGED <<pc, listed, snaps>>
  BY <1>3 DEF ListInv
<1>4. listVolumeSnapshots \/ Publish \/ UNCHANGED <<pc, listed, snaps>>
  BY DEF Next, Reconcile, EnsurePVC, RecordPVC, createVolumeSnapshot, enforceSnapshotRetention,
         Requeue, Sync, FireTimer, Resync, Restart, SnapshotReady, Tick, Return, Retry, vars,
         local
<1> QED
  BY <1>1, <1>2, <1>3, <1>4

\* Retention works from a listing of earlier in the pass, and a call may fail in the
\* middle of it: whatever it deletes, the newest snapshots, as many as spec.retention
\* says, are not among them.
THEOREM NewestAlwaysKept == Spec => NewestKept
<1>1. Init => ListInv
  BY DEF Init, ListInv
<1>2. ASSUME TypeOK, ListInv, [Next]_vars
      PROVE  [\A s \in snaps \ snaps' : Cardinality({t \in snaps : t > s}) >= Retention]_vars
  <2> SUFFICES ASSUME NEW s \in snaps \ snaps'
               PROVE  Cardinality({t \in snaps : t > s}) >= Retention
    BY <1>2
  <2>1. enforceSnapshotRetention
    BY <1>2 DEF Next, Reconcile, EnsurePVC, RecordPVC, listVolumeSnapshots, createVolumeSnapshot,
                Publish, Requeue, Sync, FireTimer, Resync, Restart, SnapshotReady, Tick, vars
  <2>2. s \in Surplus(listed) /\ listed \subseteq snaps
    BY <1>2, <2>1 DEF enforceSnapshotRetention, ListInv
  <2> DEFINE old == {t \in listed : t > s}
             new == {t \in snaps : t > s}
  <2>3. Cardinality(old) >= Retention
    BY <2>2 DEF Surplus
  <2>4. old \subseteq new /\ new \subseteq Times
    BY <1>2, <2>2 DEF TypeOK
  <2>5. IsFiniteSet(new)
    <3>1. IsFiniteSet(1..MaxTime)
      BY FS_Interval, ConstantsAssumption
    <3> QED
      BY <2>4, <3>1, FS_Subset DEF Times
  <2> HIDE DEF old, new
  <2>6. Cardinality(old) <= Cardinality(new) /\ Cardinality(old) \in Nat /\ Cardinality(new) \in Nat
    BY <2>4, <2>5, FS_Subset, FS_CardinalityType
  <2>7. Cardinality(new) >= Retention
    BY <2>3, <2>6, ConstantsAssumption
  <2> QED
    BY <2>7 DEF new
<1> QED
  BY <1>1, <1>2, ListStep, TypeCorrect, PTL DEF Spec, NewestKept

===============================================================================
