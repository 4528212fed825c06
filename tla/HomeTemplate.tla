----------------------------- MODULE HomeTemplate -----------------------------
(***************************************************************************)
(* The HomeTemplate controller (HomeTemplateReconciler) for one template:  *)
(* a claim, a rolling set of VolumeSnapshots of it, and the name of the    *)
(* newest ready one in the status, from which Desktops seed their homes.   *)
(*                                                                         *)
(* A snapshot is identified by the time of its creation.  The template is  *)
(* read from the informer's cache, snapshots (unstructured objects) from   *)
(* the API server.  Nothing watches snapshots: that one becomes ready      *)
(* starts no Reconcile.                                                    *)
(***************************************************************************)
EXTENDS Integers, FiniteSets

CONSTANTS
  Interval,   \* spec.intervalSeconds
  Stampede,   \* the five minutes in which no second snapshot is made
  Retention,  \* spec.retention
  ClassGiven, \* spec.storageClassName is set; if not, the cluster fills one in
  Crossing,   \* a Reconcile that creates nothing may last until a snapshot is due
  MaxTime,    \* bound: end of the clock
  MaxFaults   \* bound: failed calls, ends of the operator

ASSUME ConstantsAssumption ==
  /\ {Interval, Stampede, Retention, MaxTime} \subseteq Nat \ {0}
  /\ MaxFaults \in Nat
  /\ Crossing \in BOOLEAN /\ ClassGiven \in BOOLEAN

VARIABLES
  clock,
  status,  \* the HomeTemplate's status at the API server
  cache,   \* the same in the informer's cache
  pvc,     \* the template's claim exists
  snaps,   \* the snapshots
  ready,   \* those that are readyToUse
  queued,  \* the template is in the workqueue
  timer,   \* RequeueAfter: when it is added again, 0: never
  pc, ht, listed, usable,  \* Reconcile: its copy of the status, of snaps and of ready
  faults

local == <<ht, listed, usable>>
vars == <<clock, status, cache, pvc, snaps, ready, queued, timer, pc, local, faults>>

Times == 1..MaxTime

\* templatePVC is set; latestSnapshot and lastSnapshotTime, 0: none.
Status == [pvc: BOOLEAN, latest: 0..MaxTime]

Unset == [pvc |-> FALSE, latest |-> 0]

\* The newest of a set of snapshots, 0: none.
Newest(S) == IF S = {} THEN 0 ELSE CHOOSE s \in S : \A t \in S : t <= s

Fault == faults < MaxFaults /\ faults' = faults + 1

Return == pc' = "idle" /\ ht' = Unset /\ listed' = {} /\ usable' = {}

Retry == Return /\ queued' = TRUE

\* RequeueAfter: of two timers the earlier counts.
After(due) == timer' = IF timer = 0 \/ due < timer THEN due ELSE timer

-----------------------------------------------------------------------------
(* HomeTemplateReconciler.Reconcile *)

\* The update of the claim that is there writes the spec's class; none over the one the
\* cluster has filled in changes an immutable field, and the API server refuses it.
ClassRefused == pvc /\ ~ClassGiven

\* Get and the claim, whose creation is an event. After an error it is tried again.
EnsurePVC ==
  /\ pc = "idle" /\ queued
  /\ \/ /\ ~ClassRefused
        /\ pvc' = TRUE /\ queued' = ~pvc /\ ht' = cache /\ pc' = "pvc" /\ UNCHANGED faults
     \/ ClassRefused /\ UNCHANGED <<pvc, queued, ht, pc, faults>>
     \/ Fault /\ UNCHANGED <<pvc, queued, ht, pc>>
  /\ UNCHANGED <<clock, status, cache, snaps, ready, timer, listed, usable>>

\* status.templatePVC; an error is dropped.
RecordPVC ==
  /\ pc = "pvc"
  /\ pc' = "list"
  /\ \/ ht.pvc /\ UNCHANGED <<status, ht, faults>>
     \/ ~ht.pvc /\ status' = [status EXCEPT !.pvc = TRUE] /\ ht' = status' /\ UNCHANGED faults
     \/ ~ht.pvc /\ ht' = [ht EXCEPT !.pvc = TRUE] /\ Fault /\ UNCHANGED status
  /\ UNCHANGED <<clock, cache, pvc, snaps, ready, queued, timer, listed, usable>>

\* Mutant: a snapshot that is not ready does not count.
NeedNewReady(S) ==
  \A s \in S \cap ready : clock - s >= Interval /\ clock - s >= Stampede

\* needNew: the newest snapshot, ready or not, and so every snapshot, is that old.
NeedNew(S) == \A s \in S : clock - s >= Interval /\ clock - s >= Stampede

\* listVolumeSnapshots: an error is tried again after a while.
listVolumeSnapshots ==
  /\ pc = "list"
  /\ \/ /\ listed' = snaps /\ usable' = ready
        /\ pc' = IF NeedNew(snaps) THEN "create" ELSE "publish"
        /\ UNCHANGED <<timer, ht, faults>>
     \/ Fault /\ Return /\ After(clock)
  /\ UNCHANGED <<clock, status, cache, pvc, snaps, ready, queued>>

\* createVolumeSnapshot: the answer may be lost although the snapshot is there.
createVolumeSnapshot ==
  /\ pc = "create"
  /\ \/ /\ snaps' = snaps \cup {clock}
        /\ Return
        /\ After(clock)
        /\ UNCHANGED <<queued, faults>>
     \/ /\ Fault
        /\ snaps' \in {snaps, snaps \cup {clock}}
        /\ Retry
        /\ UNCHANGED timer
  /\ UNCHANGED <<clock, status, cache, pvc, ready>>

\* Mutant: only the first ready snapshot is published.
PublishFirst ==
  /\ pc = "publish"
  /\ pc' = "retention"
  /\ status' = [status EXCEPT !.latest = IF ht.latest = 0 THEN Newest(usable) ELSE @]
  /\ UNCHANGED <<clock, cache, pvc, snaps, ready, queued, timer, local, faults>>

\* The newest ready snapshot is published if the copy of the status names another;
\* an error is dropped.
Publish ==
  LET newest == Newest(usable)
  IN  /\ pc = "publish"
      /\ pc' = "retention"
      /\ \/ ht.latest = newest /\ UNCHANGED <<status, ht, faults>>
         \/ /\ ht.latest # newest
            /\ status' = [status EXCEPT !.latest = newest]
            /\ ht' = status'
            /\ UNCHANGED faults
         \/ ht.latest # newest /\ Fault /\ UNCHANGED <<status, ht>>
      /\ UNCHANGED <<clock, cache, pvc, snaps, ready, queued, timer, listed, usable>>

\* Mutant: only ready snapshots are counted and deleted.
SurplusReady(S) == {s \in S \cap ready : Cardinality({t \in S \cap ready : t > s}) >= Retention}

\* Mutant: the list is sorted the other way round, and the oldest ones are kept.
SurplusOldest(S) == {s \in S : Cardinality({t \in S : t < s}) >= Retention}

\* All but the newest ones.
Surplus(S) == {s \in S : Cardinality({t \in S : t > s}) >= Retention}

\* enforceSnapshotRetention: of the listed snapshots the oldest are deleted, but
\* those whose deletion fails.
enforceSnapshotRetention ==
  /\ pc = "retention"
  /\ \/ /\ snaps' = snaps \ Surplus(listed)
        /\ UNCHANGED faults
     \/ /\ Fault
        /\ \E kept \in SUBSET Surplus(listed) : snaps' = snaps \ (Surplus(listed) \ kept)
  /\ ready' = ready \cap snaps'
  /\ pc' = "requeue"
  /\ UNCHANGED <<clock, status, cache, pvc, queued, timer, local>>

\* Mutant: the next Reconcile is left to the events.
RequeueNever ==
  /\ pc = "requeue"
  /\ Return
  /\ UNCHANGED <<clock, status, cache, pvc, snaps, ready, queued, timer, faults>>

\* "Requeue on cadence boundary", if it is not behind already.
Requeue ==
  LET next == Newest(listed) + Interval
  IN  /\ pc = "requeue"
      /\ Return
      /\ \/ next > clock /\ After(next)
         \/ next <= clock /\ UNCHANGED timer
      /\ UNCHANGED <<clock, status, cache, pvc, snaps, ready, queued, faults>>

Reconcile ==
  \/ EnsurePVC \/ RecordPVC \/ listVolumeSnapshots \/ createVolumeSnapshot
  \/ Publish \/ enforceSnapshotRetention \/ Requeue

-----------------------------------------------------------------------------
(* The operator's machinery, storage and time *)

Sync ==
  /\ cache # status
  /\ cache' = status
  /\ queued' = TRUE
  /\ UNCHANGED <<clock, status, pvc, snaps, ready, timer, pc, local, faults>>

\* At the end of the clock every timer is due.
FireTimer ==
  /\ timer # 0
  /\ clock >= timer \/ clock = MaxTime
  /\ timer' = 0
  /\ queued' = TRUE
  /\ UNCHANGED <<clock, status, cache, pvc, snaps, ready, pc, local, faults>>

\* The informer's periodic resync, every ten hours: nothing waits for it.
Resync ==
  /\ ~queued
  /\ queued' = TRUE
  /\ UNCHANGED <<clock, status, cache, pvc, snaps, ready, timer, pc, local, faults>>

Restart ==
  /\ Fault
  /\ Retry
  /\ timer' = 0
  /\ cache' = status
  /\ UNCHANGED <<clock, status, pvc, snaps, ready>>

SnapshotReady ==
  /\ \E s \in snaps \ ready : ready' = ready \cup {s}
  /\ UNCHANGED <<clock, status, cache, pvc, snaps, queued, timer, pc, local, faults>>

Tick ==
  /\ clock < MaxTime
  /\ pc \in {"publish", "retention", "requeue"} /\ clock + 1 = Newest(listed) + Interval
       => Crossing
  /\ clock' = clock + 1
  /\ UNCHANGED <<status, cache, pvc, snaps, ready, queued, timer, pc, local, faults>>

-----------------------------------------------------------------------------

Init ==
  /\ clock = 1
  /\ status = Unset /\ cache = Unset
  /\ pvc = FALSE
  /\ snaps = {} /\ ready = {}
  /\ queued = TRUE
  /\ timer = 0
  /\ pc = "idle" /\ ht = Unset /\ listed = {} /\ usable = {}
  /\ faults = 0

Next ==
  \/ Reconcile \/ Sync \/ FireTimer \/ Resync \/ Restart \/ SnapshotReady \/ Tick

Spec == Init /\ [][Next]_vars

\* The operator's worker, its informer and its timers go on and time passes; a
\* snapshot need not become ready.
Fairness ==
  WF_vars(Reconcile) /\ WF_vars(Sync) /\ WF_vars(FireTimer) /\ WF_vars(Tick)

FairSpec == Spec /\ Fairness

-----------------------------------------------------------------------------
(* Properties *)

PC == {"idle", "pvc", "list", "create", "publish", "retention", "requeue"}

TypeOK ==
  /\ clock \in Times
  /\ status \in Status /\ cache \in Status /\ ht \in Status
  /\ pvc \in BOOLEAN /\ queued \in BOOLEAN
  /\ snaps \subseteq Times /\ ready \subseteq snaps
  /\ listed \subseteq Times /\ usable \subseteq listed
  /\ timer \in 0..MaxTime + Interval
  /\ pc \in PC
  /\ faults \in 0..MaxFaults

\* "Avoid stampeding": although calls fail, answers are lost and the operator is
\* restarted in the middle, no two snapshots are closer than the interval and than
\* the five minutes.
Spacing ==
  \A s, t \in snaps : s < t => t - s >= Interval /\ t - s >= Stampede

\* "IntervalSeconds controls how often a new snapshot is created": when the newest
\* snapshot is that old another one is created, although calls fail; unless the
\* interval is shorter than the five minutes, a Reconcile crosses the boundary or the
\* storage class is omitted.
Cadence ==
  LET Overdue == snaps # {} /\ clock >= Newest(snaps) + Interval
  IN  Overdue ~> ~Overdue

\* "Retention controls how many snapshots to retain": although deletions fail and
\* the pass that creates a snapshot deletes none, their number comes down again.
RetentionMet == Cardinality(snaps) > Retention ~> Cardinality(snaps) <= Retention

\* Retention works from a listing of earlier in the pass, and deletions may fail in the
\* middle of it: what is deleted has newer snapshots, as many as spec.retention says,
\* and so the newest ones stay.
NewestKept ==
  [][\A s \in snaps \ snaps' : Cardinality({t \in snaps : t > s}) >= Retention]_vars

\* "Update status with latest ready snapshot name": a snapshot that is ready is
\* published, a newer one is, or it is deleted, although no event tells of it.
Published ==
  LET Behind == status.latest < Newest(ready)
  IN  Behind ~> ~Behind

-----------------------------------------------------------------------------
(* What a comment or a document says and the code does not do *)

\* "Seed a Desktop home from the latest ready snapshot": the status names a snapshot
\* that exists. Retention deletes the newest ready one when newer ones are not ready.
LatestExists == status.latest # 0 => status.latest \in snaps

===============================================================================
