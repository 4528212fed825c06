---------------------------- MODULE DesktopProofs -----------------------------
(***************************************************************************)
(* Proofs about Desktop for any timeouts, any number of edits and faults   *)
(* and any number of retained homes: its type invariant, and that          *)
(* retention deletes neither the home the Deployment mounts nor one of the *)
(* newest others.                                                          *)
(*                                                                         *)
(* The types hold only together with how the parts of an object are        *)
(* related, in the Desktop, in the cache and in the working copy alike: a  *)
(* home's revision is bounded because each reset takes one and is the      *)
(* answer to a request, and a timer because no activity lies in the future *)
(* of the pass that has seen it.                                           *)
(***************************************************************************)
EXTENDS Desktop, FiniteSetTheorems, TLAPS

-----------------------------------------------------------------------------
(* The inductive invariant *)

\* A copy of the Desktop at time t, after n edits: the request that is recorded is not
\* after the one that is pending, and there was one for every home but the first.
Good(o, t, n) ==
  /\ o \in Object
  /\ o.reset <= n /\ o.lastReset <= n
  /\ o.claim <= o.lastReset + 1
  /\ o.reset # 0 => o.lastReset <= o.reset
  /\ o.touched <= t /\ o.lastActive <= t

\* The request that is pending in one copy is not after the one that is pending in another.
Behind(o, p) == o.reset # 0 /\ p.reset # 0 => o.reset <= p.reset

BoundsOK == clock \in 1..MaxTime /\ edits \in 0..MaxEdits /\ faults \in 0..MaxFaults

ObjectsOK ==
  /\ Good(desk, clock, edits) /\ Good(cache, clock, edits) /\ Good(d, clock, edits)
  /\ Behind(cache, desk) /\ Behind(d, desk)

HomesOK == Homes \subseteq 1..MaxEdits + 1 /\ old \subseteq Homes /\ InOrder

FlagsOK == snap \in BOOLEAN /\ queued \in BOOLEAN /\ susp \in BOOLEAN

TokensOK ==
  /\ secret \in 0..MaxTime + TokenTTL /\ token \in 0..MaxTime + TokenTTL
  /\ deploy \in [replicas: {0, 1}, home: 0..MaxEdits + 1, token: 0..MaxTime + TokenTTL]

\* From RecordClaim on there is a home, RecordReset has a request to record, and
\* retention looks at the home that was just mounted.
PassOK ==
  /\ pc \in {"idle", "relay", "claim", "reset", "record", "home", "deploy", "retention",
             "requeue"}
  /\ now \in 0..MaxTime /\ home \in 0..MaxEdits + 1
  /\ pc # "idle" => desk.lastActive <= now /\ d.lastActive <= now
  /\ pc \notin {"idle", "relay", "claim"} => home >= 1
  /\ pc = "record" => NeedReset(d)
  /\ pc = "retention" => deploy.home = home

TimerOK == timer \in 0..MaxTime + IdleTimeout

DesktopInv ==
  /\ BoundsOK /\ ObjectsOK /\ HomesOK /\ FlagsOK /\ TokensOK /\ PassOK /\ TimerOK

LEMMA Constants ==
  /\ PerSecond \in Nat \ {0} /\ PerSecond <= MaxTime /\ Seeded \in BOOLEAN
  /\ IdleTimeout \in Nat /\ RenewBefore \in Nat /\ MaxEdits \in Nat /\ MaxFaults \in Nat
  /\ TokenTTL \in Nat \ {0} /\ Retain \in Nat \ {0} /\ MaxTime \in Nat \ {0}
  BY ConstantsAssumption

LEMMA InvariantTypes == DesktopInv => TypeOK
<1> SUFFICES ASSUME DesktopInv PROVE TypeOK
  OBVIOUS
<1>1. {desk, cache, d} \subseteq Object
  BY DEF DesktopInv, ObjectsOK, Good
<1>2. {snap, queued, susp} \subseteq BOOLEAN
  BY Zenon DEF DesktopInv, FlagsOK
<1>3. {secret, token} \subseteq 0..MaxTime + TokenTTL
  BY DEF DesktopInv, TokensOK
<1> QED
  BY <1>1, <1>2, <1>3 DEF DesktopInv, BoundsOK, HomesOK, TokensOK, PassOK, TimerOK, TypeOK

-----------------------------------------------------------------------------
(* Changes of an object *)

LEMMA CreatedGood ==
  ASSUME NEW t \in Nat, NEW n \in Nat
  PROVE  Good(Created, t, n) /\ Created.reset = 0 /\ Created.lastActive = 0
  BY Constants DEF Good, Created, Object

LEMMA GoodLater ==
  ASSUME NEW t \in Nat, NEW n \in Nat, NEW o, Good(o, t, n),
         NEW u \in Nat, NEW m \in Nat, t <= u, n <= m
  PROVE  Good(o, u, m)
  BY Constants DEF Good, Object

LEMMA GoodActive ==
  ASSUME NEW t \in Nat, NEW n \in Nat, NEW o, Good(o, t, n), NEW v \in 0..t, t <= MaxTime
  PROVE  LET new == [o EXCEPT !.lastActive = v]
         IN  Good(new, t, n) /\ new.reset = o.reset /\ new.lastActive = v
  BY Constants DEF Good, Object

LEMMA GoodClaim ==
  ASSUME NEW t \in Nat, NEW n \in Nat, NEW o, Good(o, t, n)
  PROVE  LET new == [o EXCEPT !.claim = 1]
         IN  Good(new, t, n) /\ new.reset = o.reset /\ new.lastActive = o.lastActive
  BY Constants DEF Good, Object

\* o with the reset that e asks for recorded.
Recorded(new, o, e) ==
  /\ new \in Object /\ new.claim = e.claim + 1 /\ new.lastReset = e.reset
  /\ new.reset = o.reset /\ new.lastActive = o.lastActive /\ new.touched = o.touched

LEMMA ResetRecorded ==
  ASSUME NEW t, NEW n \in 0..MaxEdits, NEW o, Good(o, t, n), NEW e, Good(e, t, n), NeedReset(e),
         NEW new, new = [o EXCEPT !.claim = e.claim + 1, !.lastReset = e.reset]
  PROVE  Recorded(new, o, e) /\ e.claim + 1 \in 1..MaxEdits + 1
<1>1. e.claim + 1 \in 1..MaxEdits + 1 /\ e.claim + 1 \in 0..MaxEdits + 1
  BY Constants DEF Good, Object, NeedReset
<1>2. o \in Object /\ e.reset \in 0..MaxEdits
  BY DEF Good, Object
<1> QED
  BY <1>1, <1>2 DEF Object, Recorded

LEMMA GoodReset ==
  ASSUME NEW t \in Nat, NEW n \in 0..MaxEdits, NEW o, Good(o, t, n), NEW e, Good(e, t, n),
         NeedReset(e), Behind(e, o), NEW new, Recorded(new, o, e)
  PROVE  Good(new, t, n)
<1>1. e.claim + 1 <= e.reset + 1 /\ e.reset <= n
  BY Constants DEF Good, Object, NeedReset
<1>2. o.reset # 0 => e.reset <= o.reset
  BY DEF Behind, NeedReset
<1> QED
  BY <1>1, <1>2 DEF Good, Recorded

\* The fields the edits do not change.
SameStatus(new, o) ==
  new.lastReset = o.lastReset /\ new.claim = o.claim /\ new.lastActive = o.lastActive

LEMMA GoodFields ==
  ASSUME NEW t \in 0..MaxTime, NEW n \in Nat, NEW o, Good(o, t, n), n < MaxEdits,
         NEW new \in Object, SameStatus(new, o),
         new.touched \in {o.touched, t}, new.reset \in {o.reset, n + 1, 0}
  PROVE  Good(new, t, n + 1)
  BY Constants DEF Good, Object, SameStatus

LEMMA GoodEdits ==
  ASSUME NEW t \in 0..MaxTime, NEW n \in Nat, NEW o, Good(o, t, n), n < MaxEdits, NEW b \in BOOLEAN
  PROVE  /\ Good([o EXCEPT !.touched = t], t, n + 1)
         /\ Good([o EXCEPT !.suspended = TRUE], t, n + 1)
         /\ Good([o EXCEPT !.suspended = FALSE, !.touched = t], t, n + 1)
         /\ Good([o EXCEPT !.reset = n + 1, !.source = b], t, n + 1)
         /\ Good([o EXCEPT !.reset = 0, !.source = FALSE], t, n + 1)
         /\ Good([o EXCEPT !.relay = b], t, n + 1)
<1>0. o \in Object /\ n + 1 \in 0..MaxEdits /\ 0 \in 0..MaxEdits
  BY Constants DEF Good
<1>1. Good([o EXCEPT !.touched = t], t, n + 1)
  <2> DEFINE new == [o EXCEPT !.touched = t]
  <2>1. new \in Object
    BY <1>0, Zenon DEF Object
  <2>2. /\ SameStatus(new, o)
        /\ new.touched = t
        /\ new.reset = o.reset
    BY <1>0 DEF Object, SameStatus
  <2> HIDE DEF new
  <2>3. Good(new, t, n + 1)
    BY <2>1, <2>2, GoodFields
  <2> QED
    BY <2>3 DEF new
<1>2. Good([o EXCEPT !.suspended = TRUE], t, n + 1)
  <2> DEFINE new == [o EXCEPT !.suspended = TRUE]
  <2>1. new \in Object
    BY <1>0, Zenon DEF Object
  <2>2. /\ SameStatus(new, o)
        /\ new.touched = o.touched
        /\ new.reset = o.reset
    BY <1>0 DEF Object, SameStatus
  <2> HIDE DEF new
  <2>3. Good(new, t, n + 1)
    BY <2>1, <2>2, GoodFields
  <2> QED
    BY <2>3 DEF new
<1>3. Good([o EXCEPT !.suspended = FALSE, !.touched = t], t, n + 1)
  <2> DEFINE new == [o EXCEPT !.suspended = FALSE, !.touched = t]
  <2>1. new \in Object
    BY <1>0, Zenon DEF Object
  <2>2. /\ SameStatus(new, o)
        /\ new.touched = t
        /\ new.reset = o.reset
    BY <1>0 DEF Object, SameStatus
  <2> HIDE DEF new
  <2>3. Good(new, t, n + 1)
    BY <2>1, <2>2, GoodFields
  <2> QED
    BY <2>3 DEF new
<1>4. Good([o EXCEPT !.reset = n + 1, !.source = b], t, n + 1)
  <2> DEFINE new == [o EXCEPT !.reset = n + 1, !.source = b]
  <2>1. new \in Object
    BY <1>0, Zenon DEF Object
  <2>2. /\ SameStatus(new, o)
        /\ new.touched = o.touched
        /\ new.reset = n + 1
    BY <1>0 DEF Object, SameStatus
  <2> HIDE DEF new
  <2>3. Good(new, t, n + 1)
    BY <2>1, <2>2, GoodFields
  <2> QED
    BY <2>3 DEF new
<1>5. Good([o EXCEPT !.reset = 0, !.source = FALSE], t, n + 1)
  <2> DEFINE new == [o EXCEPT !.reset = 0, !.source = FALSE]
  <2>1. new \in Object
    BY <1>0, Zenon DEF Object
  <2>2. /\ SameStatus(new, o)
        /\ new.touched = o.touched
        /\ new.reset = 0
    BY <1>0 DEF Object, SameStatus
  <2> HIDE DEF new
  <2>3. Good(new, t, n + 1)
    BY <2>1, <2>2, GoodFields
  <2> QED
    BY <2>3 DEF new
<1>6. Good([o EXCEPT !.relay = b], t, n + 1)
  <2> DEFINE new == [o EXCEPT !.relay = b]
  <2>1. new \in Object
    BY <1>0, Zenon DEF Object
  <2>2. /\ SameStatus(new, o)
        /\ new.touched = o.touched
        /\ new.reset = o.reset
    BY <1>0 DEF Object, SameStatus
  <2> HIDE DEF new
  <2>3. Good(new, t, n + 1)
    BY <2>1, <2>2, GoodFields
  <2> QED
    BY <2>3 DEF new
<1> QED
  BY <1>1, <1>2, <1>3, <1>4, <1>5, <1>6

-----------------------------------------------------------------------------
(* The order of the homes *)

LEMMA EnsureHomeOrder ==
  ASSUME HomesOK, NEW r \in 1..MaxEdits + 1, EnsureHome(r), UNCHANGED old
  PROVE  HomesOK'
<1>1. CASE r \in Homes
  BY <1>1 DEF EnsureHome, HomesOK, InOrder, Homes
<1>2. CASE r \notin Homes
  <2>1. /\ Homes' = Homes \cup {r}
        /\ homes'[r] = Homes
        /\ \A x \in Homes : homes'[x] = homes[x]
    BY <1>2 DEF EnsureHome, Create, Homes
  <2>2. ASSUME NEW x \in Homes'
        PROVE  /\ homes'[x] \subseteq Homes' \ {x}
               /\ \A y \in Homes' \ {x} : x \in homes'[y] \/ y \in homes'[x]
               /\ \A y \in homes'[x] : homes'[y] \subseteq homes'[x]
    <3>1. CASE x = r
      BY <1>2, <2>1, <3>1 DEF HomesOK, InOrder
    <3>2. CASE x \in Homes
      BY <1>2, <2>1, <3>2 DEF HomesOK, InOrder
    <3> QED
      BY <2>1, <3>1, <3>2
  <2>3. InOrder'
    BY <2>2 DEF InOrder
  <2> QED
    BY <2>1, <2>3 DEF HomesOK
<1> QED
  BY <1>1, <1>2

LEMMA DeletionOrder ==
  ASSUME HomesOK, NEW gone, homes' = [r \in Homes \ gone |-> homes[r] \ gone],
         old' = old \ gone
  PROVE  HomesOK' /\ Homes' = Homes \ gone
<1>1. Homes' = Homes \ gone /\ \A x \in Homes' : homes'[x] = homes[x] \ gone
  BY DEF Homes
<1>2. ASSUME NEW x \in Homes'
      PROVE  /\ homes'[x] \subseteq Homes' \ {x}
             /\ \A y \in Homes' \ {x} : x \in homes'[y] \/ y \in homes'[x]
             /\ \A y \in homes'[x] : homes'[y] \subseteq homes'[x]
  BY <1>1 DEF HomesOK, InOrder
<1>3. InOrder'
  BY <1>2 DEF InOrder
<1> QED
  BY <1>1, <1>3 DEF HomesOK

LEMMA HomesFinite ==
  ASSUME HomesOK, NEW r, NEW active
  PROVE  /\ IsFiniteSet(Homes) /\ IsFiniteSet(Newer(r, active))
         /\ Cardinality(Newer(r, active)) \in Nat
<1>1. IsFiniteSet(1..MaxEdits + 1)
  BY Constants, FS_Interval
<1>2. IsFiniteSet(Homes)
  BY <1>1, FS_Subset DEF HomesOK
<1>3. Newer(r, active) \subseteq Homes
  BY DEF Newer
<1> QED
  BY <1>2, <1>3, FS_Subset, FS_CardinalityType

\* Of two homes the newer one has fewer that are newer still.
LEMMA NewerShrinks ==
  ASSUME HomesOK, NEW active, NEW x \in Homes, NEW y \in Newer(x, active)
  PROVE  /\ Newer(y, active) \subseteq Newer(x, active)
         /\ y \notin Newer(y, active)
         /\ Cardinality(Newer(y, active)) < Cardinality(Newer(x, active))
<1>1. Newer(y, active) \subseteq Newer(x, active) /\ y \notin Newer(y, active)
  BY DEF HomesOK, InOrder, Newer
<1>2. IsFiniteSet(Newer(x, active))
  BY HomesFinite
<1>3. /\ Cardinality(Newer(y, active)) <= Cardinality(Newer(x, active))
      /\ Cardinality(Newer(y, active)) # Cardinality(Newer(x, active))
  BY <1>1, <1>2, FS_Subset
<1>4. Cardinality(Newer(x, active)) \in Nat /\ Cardinality(Newer(y, active)) \in Nat
  BY HomesFinite
<1> QED
  BY <1>1, <1>3, <1>4

\* A home that is not kept is older than Retain homes that are: the ranks of the homes
\* that are newer than it run from 0 without a gap.
LEMMA KeptAreNewer ==
  ASSUME HomesOK, NEW active, NEW r \in Homes \ Keep(active)
  PROVE  /\ IsFiniteSet(Newer(r, active) \cap Keep(active))
         /\ Cardinality(Newer(r, active) \cap Keep(active)) >= Retain
<1> DEFINE S == Newer(r, active)
           n == Cardinality(S)
           rank == [x \in S |-> Cardinality(Newer(x, active))]
           T == {x \in S : rank[x] < Retain}
<1>1. IsFiniteSet(S) /\ n \in Nat /\ n >= Retain
  <2>1. IsFiniteSet(S) /\ n \in Nat
    BY HomesFinite
  <2>2. ~(n < Retain)
    BY DEF Keep
  <2> QED
    BY <2>1, <2>2, Constants
<1>2. S \subseteq Homes /\ active \notin S
  BY DEF Newer
<1>3. ASSUME NEW x \in S PROVE rank[x] \in 0..n - 1
  <2>1. rank[x] < n /\ rank[x] \in Nat
    BY NewerShrinks, HomesFinite
  <2> QED
    BY <1>1, <2>1
<1>4. ASSUME NEW x \in S, NEW y \in S, x # y PROVE rank[x] # rank[y]
  <2>1. y \in Newer(x, active) \/ x \in Newer(y, active)
    BY <1>2, <1>4 DEF HomesOK, InOrder, Newer
  <2>2. rank[y] < rank[x] \/ rank[x] < rank[y]
    BY <1>2, <2>1, NewerShrinks
  <2> QED
    BY <1>3, <2>2
<1>5. rank \in Injection(S, 0..n - 1)
  BY <1>3, <1>4 DEF Injection, IsInjective
<1>6. IsFiniteSet(0..n - 1) /\ Cardinality(0..n - 1) = n
  BY <1>1, FS_Interval
<1>7. rank \in Surjection(S, 0..n - 1)
  BY <1>5, <1>6, FS_Injection
<1> DEFINE f == [x \in T |-> rank[x]]
<1>8. f \in Surjection(T, 0..Retain - 1)
  <2>1. ASSUME NEW v \in 0..Retain - 1 PROVE \E x \in T : f[x] = v
    <3>1. v \in 0..n - 1
      BY <1>1, Constants
    <3>2. PICK x \in S : rank[x] = v
      BY <1>7, <3>1 DEF Surjection
    <3>3. x \in T
      BY <3>2, Constants
    <3> QED
      BY <3>2, <3>3
  <2>2. f \in [T -> 0..Retain - 1]
    BY <1>1, <1>3, Constants
  <2> QED
    BY <2>1, <2>2 DEF Surjection
<1>9. T \subseteq S /\ IsFiniteSet(T)
  BY <1>1, FS_Subset
<1>10. Cardinality(T) >= Retain
  <2>1. Cardinality(0..Retain - 1) = Retain
    BY Constants, FS_Interval
  <2>2. Cardinality(0..Retain - 1) <= Cardinality(T)
    BY <1>8, <1>9, FS_Surjection
  <2> QED
    BY <1>9, <2>1, <2>2, Constants, FS_CardinalityType
<1>11. T \subseteq S \cap Keep(active)
  BY <1>2 DEF Keep
<1>12. IsFiniteSet(S \cap Keep(active))
  BY <1>1, FS_Subset
<1>13. Cardinality(T) <= Cardinality(S \cap Keep(active))
  BY <1>11, <1>12, FS_Subset
<1> QED
  BY <1>9, <1>10, <1>12, <1>13, Constants, FS_CardinalityType

-----------------------------------------------------------------------------
(* Every step keeps the invariant: bounds, flags, tokens and homes *)

LEMMA CountersStep ==
  ASSUME [Next]_vars
  PROVE  /\ clock' = clock \/ (clock < MaxTime /\ clock' = clock + 1)
         /\ edits' = edits \/ (edits < MaxEdits /\ edits' = edits + 1)
         /\ faults' = faults \/ Fault
<1> USE DEF Next, Reconcile, vars
<1>1. clock' = clock \/ (clock < MaxTime /\ clock' = clock + 1)
  BY DEF Begin, Relay, RecordClaim, Reset, RecordReset, SeedHome, ApplyDeployment, EnforceRetention,
         Requeue,
         Sync, FireTimer, Resync, Restart, HourPasses, SnapshotReady, Tick, touchDesktop, Suspend, Resume, RequestReset, CancelReset, SetRelay, Edit
<1>2. edits' = edits \/ (edits < MaxEdits /\ edits' = edits + 1)
  BY DEF Begin, Relay, RecordClaim, Reset, RecordReset, SeedHome, ApplyDeployment, EnforceRetention,
         Requeue,
         Sync, FireTimer, Resync, Restart, HourPasses, SnapshotReady, Tick, touchDesktop, Suspend, Resume, RequestReset, CancelReset, SetRelay, Edit
<1>3. faults' = faults \/ Fault
  BY DEF Begin, Relay, RecordClaim, Reset, RecordReset, SeedHome, ApplyDeployment, EnforceRetention,
         Requeue,
         Sync, FireTimer, Resync, Restart, HourPasses, SnapshotReady, Tick, touchDesktop, Suspend, Resume, RequestReset, CancelReset, SetRelay, Edit
<1> QED
  BY <1>1, <1>2, <1>3

LEMMA BoundsStep ==
  ASSUME BoundsOK, [Next]_vars
  PROVE  BoundsOK' /\ clock <= clock' /\ edits <= edits'
  BY CountersStep, Constants DEF BoundsOK, Fault

LEMMA FlagsStep ==
  ASSUME FlagsOK, [Next]_vars
  PROVE  FlagsOK'
<1> USE DEF FlagsOK
<1>1. ASSUME Return \/ susp' = susp \/ (\E o : susp' = ShouldSuspend(o))
      PROVE  susp' \in BOOLEAN
  BY <1>1, Zenon DEF Return, ShouldSuspend
<1>2. CASE Reconcile
  <2>1. Return \/ susp' = susp \/ (\E o : susp' = ShouldSuspend(o))
    BY <1>2 DEF Reconcile, Begin, Relay, RecordClaim, Reset, RecordReset, SeedHome, ApplyDeployment, EnforceRetention,
         Requeue, Retry, local
  <2>2. snap' = snap
    BY <1>2 DEF Reconcile, Begin, Relay, RecordClaim, Reset, RecordReset, SeedHome, ApplyDeployment, EnforceRetention,
         Requeue
  <2>3. queued' \in BOOLEAN
    <3>1. CASE Begin \/ RecordClaim \/ RecordReset \/ EnforceRetention \/ Requeue
      BY <3>1 DEF Begin, RecordClaim, RecordReset, EnforceRetention, Requeue
    <3>2. CASE Relay
      BY <3>2, Zenon DEF Relay, Retry
    <3>3. CASE ApplyDeployment
      BY <3>3, Zenon DEF ApplyDeployment, Retry
    <3>4. CASE Reset \/ SeedHome
      BY <3>4, Zenon DEF Reset, SeedHome, Retry, EnsureHome
    <3> QED
      BY <1>2, <3>1, <3>2, <3>3, <3>4 DEF Reconcile
  <2> QED
    BY <1>1, <2>1, <2>2, <2>3
<1>3. CASE ~Reconcile
  BY <1>1, <1>3 DEF Next, vars, local, Retry, Return, Sync, FireTimer, Resync, Restart, HourPasses, SnapshotReady, Tick,
                    touchDesktop, Suspend, Resume, RequestReset, CancelReset, SetRelay, Edit
<1> QED
  BY <1>2, <1>3

LEMMA TokensStep ==
  ASSUME BoundsOK, TokensOK, PassOK, [Next]_vars
  PROVE  TokensOK'
<1> USE DEF TokensOK
<1>1. CASE Relay
  <2>1. RelayToken \in 0..MaxTime + TokenTTL
    BY Constants DEF RelayToken, BoundsOK
  <2>2. secret' \in {secret, RelayToken, 0} /\ token' \in {RelayToken, 0} /\ deploy' = deploy
    BY <1>1 DEF Relay, Retry, Return
  <2> QED
    BY <2>1, <2>2, Constants
<1>2. CASE ApplyDeployment
  <2>1. secret' = secret /\ token' \in {token, 0}
    BY <1>2 DEF ApplyDeployment, Retry, Return
  <2>2. \/ deploy' = deploy
        \/ deploy' = [replicas |-> IF susp THEN 0 ELSE 1, home |-> home, token |-> token]
    BY <1>2 DEF ApplyDeployment
  <2>3. (IF susp THEN 0 ELSE 1) \in {0, 1}
    OBVIOUS
  <2>4. deploy' \in [replicas: {0, 1}, home: 0..MaxEdits + 1, token: 0..MaxTime + TokenTTL]
    BY <2>2, <2>3 DEF PassOK
  <2> QED
    BY <2>1, <2>4, Constants
<1>3. CASE ~(Relay \/ ApplyDeployment)
  <2>1. secret' = secret /\ token' \in {token, 0} /\ deploy' = deploy
    BY <1>3 DEF Next, vars, Reconcile, Begin, Relay, RecordClaim, Reset, RecordReset, SeedHome, ApplyDeployment, EnforceRetention,
         Requeue, object, local, Return, Retry,
         Sync, FireTimer, Resync, Restart, HourPasses, SnapshotReady, Tick, touchDesktop, Suspend, Resume, RequestReset, CancelReset, SetRelay, Edit
  <2> QED
    BY <2>1, Constants
<1> QED
  BY <1>1, <1>2, <1>3

\* The homes that Reset and SeedHome create have a revision within the bounds.
LEMMA NewHome ==
  ASSUME DesktopInv
  PROVE  /\ NeedReset(d) => d.claim + 1 \in 1..MaxEdits + 1
         /\ pc = "home" => home \in 1..MaxEdits + 1
<1>1. ASSUME NeedReset(d) PROVE d.claim + 1 \in 1..MaxEdits + 1
  BY <1>1, Constants DEF DesktopInv, BoundsOK, ObjectsOK, Good, Object, NeedReset
<1>2. pc = "home" => home \in 1..MaxEdits + 1
  BY Constants DEF DesktopInv, PassOK
<1> QED
  BY <1>1, <1>2

LEMMA HomesStep ==
  ASSUME DesktopInv, [Next]_vars
  PROVE  HomesOK'
<1>0. HomesOK
  BY DEF DesktopInv
<1>1. ASSUME UNCHANGED <<homes, old>> PROVE HomesOK'
  BY <1>0, <1>1 DEF HomesOK, InOrder, Homes
<1>2. CASE Reset
  <2>1. UNCHANGED <<homes, old>> \/ (NeedReset(d) /\ EnsureHome(d.claim + 1) /\ UNCHANGED old)
    BY <1>2 DEF Reset
  <2> QED
    BY <1>0, <1>1, <2>1, NewHome, EnsureHomeOrder
<1>3. CASE SeedHome
  <2>1. UNCHANGED <<homes, old>> \/ (pc = "home" /\ EnsureHome(home) /\ UNCHANGED old)
    BY <1>3 DEF SeedHome
  <2> QED
    BY <1>0, <1>1, <2>1, NewHome, EnsureHomeOrder
<1>4. CASE EnforceRetention
  BY <1>0, <1>4, DeletionOrder DEF EnforceRetention
<1>5. CASE HourPasses
  BY <1>0, <1>5 DEF HourPasses, HomesOK, InOrder, Homes
<1>6. CASE ~(Reset \/ SeedHome \/ EnforceRetention \/ HourPasses)
  <2>1. UNCHANGED <<homes, old>>
    BY <1>6 DEF Next, vars, Reconcile, Begin, Relay, RecordClaim, Reset, RecordReset, SeedHome, ApplyDeployment, EnforceRetention,
         Requeue,
         Sync, FireTimer, Resync, Restart, HourPasses, SnapshotReady, Tick, touchDesktop, Suspend, Resume, RequestReset, CancelReset, SetRelay, Edit
  <2> QED
    BY <1>1, <2>1
<1> QED
  BY <1>2, <1>3, <1>4, <1>5, <1>6

-----------------------------------------------------------------------------
(* Every step keeps the invariant: the copies of the Desktop *)

\* Steps that copy the Desktop or leave it alone.
LEMMA ObjectsCopied ==
  ASSUME BoundsOK, ObjectsOK, [Next]_vars,
         desk' = desk, cache' \in {cache, desk}, d' \in {d, desk, cache, Created}
  PROVE  ObjectsOK'
<1>1. clock \in Nat /\ edits \in Nat /\ clock' \in Nat /\ edits' \in Nat /\ clock <= clock' /\ edits <= edits'
  BY BoundsStep, Constants DEF BoundsOK
<1>2. Good(Created, clock, edits) /\ Created.reset = 0
  BY <1>1, CreatedGood
<1>3. ASSUME NEW o \in {desk, cache, d, Created} PROVE Good(o, clock', edits')
  <2>1. Good(o, clock, edits)
    BY <1>2 DEF ObjectsOK
  <2> QED
    BY <1>1, <2>1, GoodLater
<1>4. Good(desk', clock', edits') /\ Good(cache', clock', edits') /\ Good(d', clock', edits')
  BY <1>3
<1>5. ASSUME NEW o \in {desk, cache, d, Created} PROVE Behind(o, desk')
  <2>1. Behind(desk, desk)
    BY DEF Behind, ObjectsOK, Good, Object
  <2>2. Behind(Created, desk)
    BY <1>2 DEF Behind
  <2> QED
    BY <2>1, <2>2 DEF ObjectsOK
<1>6. Behind(cache', desk') /\ Behind(d', desk')
  BY <1>5
<1> QED
  BY <1>4, <1>6 DEF ObjectsOK

\* Steps that write the status; the request in the Desktop stays what it is.
LEMMA ObjectsWritten ==
  ASSUME ObjectsOK, UNCHANGED <<clock, edits, cache>>,
         Good(desk', clock, edits), desk'.reset = desk.reset,
         Good(d', clock, edits), d'.reset \in {d.reset, desk.reset, cache.reset}
  PROVE  ObjectsOK'
<1>1. desk.reset <= desk.reset
  BY DEF ObjectsOK, Good, Object
<1>2. Behind(d', desk') /\ Behind(cache', desk')
  BY <1>1 DEF ObjectsOK, Behind
<1> QED
  BY <1>2 DEF ObjectsOK

LEMMA ObjectsOfEdit ==
  ASSUME BoundsOK, ObjectsOK, NEW new, Edit(new), Good(new, clock, edits + 1),
         new.reset \in {desk.reset, edits + 1, 0}
  PROVE  ObjectsOK'
<1>1. clock \in Nat /\ edits \in Nat /\ edits' = edits + 1 /\ desk' = new
      /\ UNCHANGED <<clock, cache, d>>
  BY DEF BoundsOK, Edit, local
<1>2. Good(cache, clock, edits + 1) /\ Good(d, clock, edits + 1)
  BY <1>1, GoodLater DEF ObjectsOK
<1>3. ASSUME NEW o \in {cache, d} PROVE Behind(o, new)
  <2>1. o.reset \in Nat /\ o.reset <= edits /\ Behind(o, desk) /\ desk.reset \in Nat
    BY Constants DEF ObjectsOK, Good, Object
  <2> QED
    BY <1>1, <2>1 DEF Behind
<1> QED
  BY <1>1, <1>2, <1>3 DEF ObjectsOK

LEMMA ObjectsOfEdits ==
  ASSUME BoundsOK, ObjectsOK,
         touchDesktop \/ Suspend \/ Resume \/ RequestReset \/ CancelReset \/ SetRelay
  PROVE  ObjectsOK' /\ desk'.lastActive = desk.lastActive
<1>0. desk \in Object
  BY DEF ObjectsOK, Good
<1>1. clock \in 0..MaxTime /\ edits \in Nat /\ Good(desk, clock, edits)
  BY Constants DEF BoundsOK, ObjectsOK, Good
<1>2. edits < MaxEdits
  BY DEF touchDesktop, Suspend, Resume, RequestReset, CancelReset, SetRelay, Edit
<1>3. ASSUME NEW new, Edit(new), Good(new, clock, edits + 1),
             new.reset \in {desk.reset, edits + 1, 0}, new.lastActive = desk.lastActive
      PROVE  ObjectsOK' /\ desk'.lastActive = desk.lastActive
  BY <1>3, ObjectsOfEdit DEF Edit
<1>4. CASE touchDesktop
  <2> DEFINE new == [desk EXCEPT !.touched = clock]
  <2>1. new.reset = desk.reset /\ new.lastActive = desk.lastActive
    BY ONLY <1>0 DEF Object
  <2>2. Edit(new) /\ Good(new, clock, edits + 1)
    BY <1>1, <1>2, <1>4, GoodEdits, Zenon DEF touchDesktop
  <2> HIDE DEF new
  <2> QED
    BY <1>3, <2>1, <2>2
<1>5. CASE Suspend
  <2> DEFINE new == [desk EXCEPT !.suspended = TRUE]
  <2>1. new.reset = desk.reset /\ new.lastActive = desk.lastActive
    BY ONLY <1>0 DEF Object
  <2>2. Edit(new) /\ Good(new, clock, edits + 1)
    BY <1>1, <1>2, <1>5, GoodEdits, Zenon DEF Suspend
  <2> HIDE DEF new
  <2> QED
    BY <1>3, <2>1, <2>2
<1>6. CASE Resume
  <2> DEFINE new == [desk EXCEPT !.suspended = FALSE, !.touched = clock]
  <2>1. new.reset = desk.reset /\ new.lastActive = desk.lastActive
    BY ONLY <1>0 DEF Object
  <2>2. Edit(new) /\ Good(new, clock, edits + 1)
    BY <1>1, <1>2, <1>6, GoodEdits, Zenon DEF Resume
  <2> HIDE DEF new
  <2> QED
    BY <1>3, <2>1, <2>2
<1>7. CASE RequestReset
  <2>1. PICK source \in BOOLEAN : Edit([desk EXCEPT !.reset = edits + 1, !.source = source])
    BY <1>7 DEF RequestReset
  <2> DEFINE new == [desk EXCEPT !.reset = edits + 1, !.source = source]
  <2>2. new.reset = edits + 1 /\ new.lastActive = desk.lastActive
    BY ONLY <1>0 DEF Object
  <2>3. Good(new, clock, edits + 1)
    BY <1>1, <1>2, GoodEdits, Zenon
  <2>4. Edit(new)
    BY <2>1
  <2> HIDE DEF new
  <2> QED
    BY <1>3, <2>2, <2>3, <2>4
<1>8. CASE CancelReset
  <2> DEFINE new == [desk EXCEPT !.reset = 0, !.source = FALSE]
  <2>1. new.reset = 0 /\ new.lastActive = desk.lastActive
    BY ONLY <1>0 DEF Object
  <2>2. Edit(new) /\ Good(new, clock, edits + 1)
    BY <1>1, <1>2, <1>8, GoodEdits, Zenon DEF CancelReset
  <2> HIDE DEF new
  <2> QED
    BY <1>3, <2>1, <2>2
<1>9. CASE SetRelay
  <2>1. PICK relay \in BOOLEAN : Edit([desk EXCEPT !.relay = relay])
    BY <1>9 DEF SetRelay
  <2> DEFINE new == [desk EXCEPT !.relay = relay]
  <2>2. new.reset = desk.reset /\ new.lastActive = desk.lastActive
    BY ONLY <1>0 DEF Object
  <2>3. Good(new, clock, edits + 1)
    BY <1>1, <1>2, GoodEdits, Zenon
  <2>4. Edit(new)
    BY <2>1
  <2> HIDE DEF new
  <2> QED
    BY <1>3, <2>2, <2>3, <2>4
<1> QED
  BY <1>4, <1>5, <1>6, <1>7, <1>8, <1>9

LEMMA ObjectsOfBegin ==
  ASSUME BoundsOK, ObjectsOK, Begin, [Next]_vars
  PROVE  ObjectsOK' /\ desk'.lastActive <= clock /\ d'.lastActive <= clock
<1>1. clock \in Nat /\ clock <= MaxTime /\ edits \in Nat
      /\ Good(desk, clock, edits) /\ Good(cache, clock, edits)
  BY Constants DEF BoundsOK, ObjectsOK
<1>2. cache.touched \in 0..clock
  BY <1>1 DEF Good, Object
<1>3. Truncate(cache.touched) \in 0..clock
  BY <1>1, <1>2, Constants DEF Truncate
<1>4. UNCHANGED <<clock, edits, cache>>
  BY DEF Begin
<1>5. CASE desk' = desk /\ d' = cache
  <2>1. ObjectsOK'
    BY <1>4, <1>5, ObjectsCopied
  <2> QED
    BY <1>1, <1>5, <2>1 DEF Good
<1>6. CASE desk' = [desk EXCEPT !.lastActive = Truncate(cache.touched)] /\ d' = desk'
  <2>1. Good(desk', clock, edits) /\ desk'.reset = desk.reset
    BY <1>1, <1>3, <1>6, GoodActive
  <2>2. ObjectsOK'
    BY <1>4, <1>6, <2>1, ObjectsWritten
  <2> QED
    BY <1>6, <2>1, <2>2 DEF Good
<1>7. CASE desk' = desk /\ d' = [cache EXCEPT !.lastActive = cache.touched]
  <2>1. Good(d', clock, edits) /\ d'.reset = cache.reset
    BY <1>1, <1>2, <1>7, GoodActive
  <2>2. ObjectsOK'
    BY <1>1, <1>4, <1>7, <2>1, ObjectsWritten
  <2> QED
    BY <1>1, <1>7, <2>1, <2>2 DEF Good
<1>8. CASE desk' = desk /\ d' = desk
  <2>1. ObjectsOK'
    BY <1>4, <1>8, ObjectsCopied
  <2> QED
    BY <1>1, <1>8, <2>1 DEF Good
<1> QED
  BY <1>5, <1>6, <1>7, <1>8 DEF Begin, RecordActive

\* The two records change no activity time and give the pass a home.
LEMMA ObjectsOfRecord ==
  ASSUME BoundsOK, ObjectsOK, PassOK, RecordClaim \/ RecordReset
  PROVE  /\ ObjectsOK'
         /\ desk'.lastActive = desk.lastActive
         /\ d'.lastActive \in {d.lastActive, desk.lastActive}
         /\ home' \in 1..MaxEdits + 1
<1>1. clock \in Nat /\ edits \in 0..MaxEdits /\ edits \in Nat
      /\ Good(desk, clock, edits) /\ Good(d, clock, edits) /\ Behind(d, desk) /\ Behind(d, d)
  BY Constants DEF BoundsOK, ObjectsOK, Behind, Good, Object
<1>2. UNCHANGED <<clock, edits, cache>>
  BY DEF RecordClaim, RecordReset
<1>3. CASE RecordClaim
  <2>1. home' \in 1..MaxEdits + 1
    BY <1>1, <1>3, Constants DEF RecordClaim, Good, Object
  <2>2. CASE desk' = desk /\ d' = d
    BY <1>1, <1>2, <2>1, <2>2, ObjectsWritten
  <2>3. CASE desk' = [desk EXCEPT !.claim = 1] /\ d' = desk'
    <3>1. Good(desk', clock, edits) /\ desk'.reset = desk.reset /\ desk'.lastActive = desk.lastActive
      BY <1>1, <2>3, GoodClaim
    <3> QED
      BY <1>2, <2>1, <2>3, <3>1, ObjectsWritten
  <2>4. CASE desk' = desk /\ d' = [d EXCEPT !.claim = 1]
    <3>1. Good(d', clock, edits) /\ d'.reset = d.reset /\ d'.lastActive = d.lastActive
      BY <1>1, <2>4, GoodClaim
    <3> QED
      BY <1>1, <1>2, <2>1, <2>4, <3>1, ObjectsWritten
  <2> QED
    BY <1>3, <2>2, <2>3, <2>4 DEF RecordClaim
<1>4. CASE RecordReset
  <2> DEFINE done(o) == [o EXCEPT !.claim = d.claim + 1, !.lastReset = d.reset]
  <2>0. NeedReset(d)
    BY <1>4 DEF PassOK, RecordReset
  <2>1. home' \in 1..MaxEdits + 1
    <3>1. d.claim + 1 \in 1..MaxEdits + 1
      BY <1>1, <2>0, Constants DEF Good, Object, NeedReset
    <3> QED
      BY <1>4, <3>1 DEF RecordReset
  <2>2. CASE desk' = done(desk) /\ d' = desk'
    <3>0. desk' = [desk EXCEPT !.claim = d.claim + 1, !.lastReset = d.reset]
      BY <2>2
    <3>1. Recorded(desk', desk, d)
      BY <1>1, <2>0, <3>0, ResetRecorded
    <3>2. Good(desk', clock, edits)
      BY <1>1, <2>0, <3>1, GoodReset
    <3>3. desk'.reset = desk.reset /\ desk'.lastActive = desk.lastActive
      BY <3>1 DEF Recorded
    <3> HIDE DEF done
    <3> QED
      BY <1>2, <2>1, <2>2, <3>2, <3>3, ObjectsWritten
  <2>3. CASE desk' = desk /\ d' = done(d)
    <3>0. d' = [d EXCEPT !.claim = d.claim + 1, !.lastReset = d.reset]
      BY <2>3
    <3>1. Recorded(d', d, d)
      BY <1>1, <2>0, <3>0, ResetRecorded
    <3>2. Good(d', clock, edits)
      BY <1>1, <2>0, <3>1, GoodReset
    <3>3. d'.reset = d.reset /\ d'.lastActive = d.lastActive
      BY <3>1 DEF Recorded
    <3> HIDE DEF done
    <3> QED
      BY <1>1, <1>2, <2>1, <2>3, <3>2, <3>3, ObjectsWritten
  <2> QED
    BY <1>4, <2>2, <2>3 DEF RecordReset
<1> QED
  BY <1>3, <1>4

Editing == touchDesktop \/ Suspend \/ Resume \/ RequestReset \/ CancelReset \/ SetRelay

LEMMA ObjectsStep ==
  ASSUME DesktopInv, [Next]_vars
  PROVE  ObjectsOK'
<1>0. BoundsOK /\ ObjectsOK /\ PassOK
  BY DEF DesktopInv
<1>1. CASE Begin
  BY <1>0, <1>1, ObjectsOfBegin
<1>2. CASE RecordClaim \/ RecordReset
  BY <1>0, <1>2, ObjectsOfRecord
<1>3. CASE Editing
  BY <1>0, <1>3, ObjectsOfEdits DEF Editing
<1>4. CASE ~(Begin \/ RecordClaim \/ RecordReset \/ Editing)
  <2>1. desk' = desk /\ cache' \in {cache, desk} /\ d' \in {d, desk, cache, Created}
    BY <1>4 DEF Next, Editing, vars, object, local, Return, Retry, Reconcile, Relay, Reset, SeedHome, ApplyDeployment,
                EnforceRetention, Requeue, Renew, Sync, FireTimer, Resync, Restart, HourPasses, SnapshotReady, Tick
  <2> QED
    BY <1>0, <2>1, ObjectsCopied
<1> QED
  BY <1>1, <1>2, <1>3, <1>4

-----------------------------------------------------------------------------
(* Every step keeps the invariant: the pass and its timer *)

LEMMA PassStep ==
  ASSUME DesktopInv, [Next]_vars
  PROVE  PassOK'
<1>0. BoundsOK /\ ObjectsOK /\ PassOK
  BY DEF DesktopInv
<1>1. CASE Return
  BY <1>1, Constants DEF Return, PassOK
<1>2. CASE Begin
  <2>1. desk'.lastActive <= clock /\ d'.lastActive <= clock
    BY <1>0, <1>2, ObjectsOfBegin
  <2>2. pc' = "relay" /\ now' = clock /\ home' = home
    BY <1>2 DEF Begin
  <2> QED
    BY <1>0, <2>1, <2>2, Constants DEF BoundsOK, PassOK
<1>3. CASE RecordClaim \/ RecordReset
  <2>1. /\ desk'.lastActive = desk.lastActive
        /\ d'.lastActive \in {d.lastActive, desk.lastActive}
        /\ home' \in 1..MaxEdits + 1
    BY <1>0, <1>3, ObjectsOfRecord
  <2>2. pc # "idle" /\ pc' \in {"reset", "home"} /\ now' = now
    BY <1>3 DEF RecordClaim, RecordReset
  <2> QED
    BY <1>0, <2>1, <2>2, Constants DEF PassOK
<1>4. CASE (Relay \/ Reset \/ SeedHome \/ ApplyDeployment \/ EnforceRetention) /\ ~Return
  <2>1. UNCHANGED <<desk, now, home>> /\ d' \in {d, desk}
    BY <1>4 DEF Relay, Reset, SeedHome, ApplyDeployment, EnforceRetention, Retry, Renew, object, local
  <2>2. \/ pc = "relay" /\ pc' = "claim"
        \/ pc = "reset" /\ pc' = "home"
        \/ pc = "reset" /\ pc' = "record" /\ NeedReset(d) /\ d' = d
        \/ pc = "home" /\ pc' = "deploy"
        \/ pc = "deploy" /\ pc' = "retention" /\ deploy'.home = home
        \/ pc = "retention" /\ pc' = "requeue"
    BY <1>4 DEF Relay, Reset, SeedHome, ApplyDeployment, EnforceRetention, Retry, local
  <2> QED
    BY <1>0, <2>1, <2>2 DEF PassOK, NeedReset
<1>5. CASE Editing
  <2>1. desk'.lastActive = desk.lastActive
    BY <1>0, <1>5, ObjectsOfEdits DEF Editing
  <2>2. UNCHANGED <<pc, d, now, home, deploy>>
    BY <1>5 DEF Editing, local, touchDesktop, Suspend, Resume, RequestReset, CancelReset, SetRelay, Edit
  <2> QED
    BY <1>0, <2>1, <2>2 DEF PassOK, NeedReset
<1>6. CASE (Sync \/ FireTimer \/ Resync \/ HourPasses \/ SnapshotReady \/ Tick) \/ UNCHANGED vars
  <2>1. UNCHANGED <<desk, pc, d, now, home, deploy>>
    BY <1>6 DEF vars, object, local, Sync, FireTimer, Resync, HourPasses, SnapshotReady, Tick
  <2> QED
    BY <1>0, <2>1 DEF PassOK, NeedReset
<1>7. Requeue \/ Restart => Return
  BY DEF Requeue, Restart, Retry
<1> QED
  BY <1>1, <1>2, <1>3, <1>4, <1>5, <1>6, <1>7 DEF Next, Reconcile, Editing

LEMMA TimerStep ==
  ASSUME DesktopInv, [Next]_vars
  PROVE  TimerOK'
<1>0. BoundsOK /\ ObjectsOK /\ PassOK /\ TimerOK
  BY DEF DesktopInv
<1>1. CASE Requeue
  <2> DEFINE due == clock + (d.lastActive + IdleTimeout - now)
  <2>1. \/ timer' = timer
        \/ timer' = due /\ d.lastActive + IdleTimeout > now
    <3> DEFINE cond == /\ ~susp /\ IdleTimeout > 0 /\ d.lastActive # 0
                       /\ d.lastActive + IdleTimeout > now
                       /\ timer = 0 \/ due < timer
    <3>1. timer' = IF cond THEN due ELSE timer
      BY <1>0, <1>1, Constants DEF Requeue, BoundsOK, ObjectsOK, Good, Object, PassOK, TimerOK
    <3>2. cond => d.lastActive + IdleTimeout > now
      OBVIOUS
    <3> HIDE DEF cond
    <3> QED
      BY <3>1, <3>2
  <2>2. d.lastActive <= now /\ d.lastActive \in Nat /\ now \in Nat
    BY <1>0, <1>1, Constants DEF Requeue, PassOK, ObjectsOK, Good, Object
  <2>3. ASSUME d.lastActive + IdleTimeout > now PROVE due \in 0..MaxTime + IdleTimeout
    BY <1>0, <2>2, <2>3, Constants DEF BoundsOK
  <2> QED
    BY <1>0, <2>1, <2>3 DEF TimerOK
<1>2. CASE ~Requeue
  <2>1. timer' \in {timer, 0}
    BY <1>2 DEF Next, vars, Reconcile, Begin, Relay, RecordClaim, Reset, RecordReset, SeedHome,
         ApplyDeployment, EnforceRetention, Sync, FireTimer, Resync, Restart, HourPasses, SnapshotReady, Tick,
         touchDesktop, Suspend, Resume, RequestReset, CancelReset, SetRelay, Edit
  <2> QED
    BY <1>0, <2>1, Constants DEF TimerOK
<1> QED
  BY <1>1, <1>2

LEMMA DesktopStep == DesktopInv /\ [Next]_vars => DesktopInv'
<1> SUFFICES ASSUME DesktopInv, [Next]_vars PROVE DesktopInv'
  OBVIOUS
<1>1. BoundsOK /\ FlagsOK /\ TokensOK /\ PassOK
  BY DEF DesktopInv
<1> QED
  BY <1>1, BoundsStep, ObjectsStep, HomesStep, FlagsStep, TokensStep, PassStep, TimerStep
  DEF DesktopInv

LEMMA DesktopInit == Init => DesktopInv
<1> SUFFICES ASSUME Init PROVE DesktopInv
  OBVIOUS
<1>1. BoundsOK
  BY Constants DEF Init, BoundsOK
<1>2. ObjectsOK
  <2>1. clock \in Nat /\ edits \in Nat
    BY <1>1 DEF BoundsOK
  <2>2. Good(Created, clock, edits) /\ Created.reset = 0
    BY <2>1, CreatedGood
  <2> QED
    BY <2>2 DEF Init, ObjectsOK, Behind
<1>3. HomesOK
  BY DEF Init, HomesOK, InOrder, Homes
<1>4. FlagsOK
  BY Zenon DEF Init, FlagsOK
<1>5. TokensOK /\ TimerOK
  BY Constants DEF Init, TokensOK, TimerOK
<1>6. PassOK
  BY Constants DEF Init, PassOK
<1> QED
  BY <1>1, <1>2, <1>3, <1>4, <1>5, <1>6 DEF DesktopInv

-----------------------------------------------------------------------------
(* Theorems *)

\* The Desktop, the cache and the working copy, the homes with their order, tokens,
\* timers and the local variables of Reconcile keep their types: revisions stay
\* within the number of requests and timers within the idle timeout.
THEOREM TypeCorrect == Spec => []TypeOK
<1> QED
  BY InvariantTypes, DesktopInit, DesktopStep, PTL DEF Spec

\* Retention never deletes the mounted home, and what it deletes is older than
\* retainOldClaims others that stay, for any number of homes, requests and faults
\* and however far the cache lags behind.
THEOREM HomeAlwaysKept == Spec => HomeKept
<1>1. ASSUME DesktopInv, [Next]_vars, NEW r \in Homes \ Homes'
      PROVE  /\ r # deploy.home
             /\ Cardinality(Newer(r, deploy.home) \cap Homes') >= Retain
  <2>0. HomesOK
    BY <1>1 DEF DesktopInv
  <2>1. CASE EnforceRetention
    <3>1. PICK gone \in SUBSET (old \ Keep(home)) :
               old' = old \ gone /\ homes' = [x \in Homes \ gone |-> homes[x] \ gone]
      BY <2>1 DEF EnforceRetention
    <3>2. Homes' = Homes \ gone
      BY <3>1 DEF Homes
    <3>3. deploy.home = home
      BY <1>1, <2>1 DEF DesktopInv, PassOK, EnforceRetention
    <3>4. r \in Homes \ Keep(home)
      BY <1>1, <3>2
    <3>5. r # home
      BY <3>4 DEF Keep
    <3> DEFINE kept == Newer(r, home) \cap Keep(home)
               stay == Newer(r, home) \cap Homes'
    <3>6. Cardinality(kept) >= Retain /\ IsFiniteSet(kept)
      BY <2>0, <3>4, KeptAreNewer
    <3>7. kept \subseteq stay
      BY <3>2 DEF Newer
    <3>8. IsFiniteSet(stay)
      BY <2>0, HomesFinite, FS_Subset
    <3>9. Cardinality(kept) <= Cardinality(stay)
      BY <3>7, <3>8, FS_Subset
    <3>10. Cardinality(stay) >= Retain
      BY <3>6, <3>8, <3>9, Constants, FS_CardinalityType
    <3> QED
      BY <3>3, <3>5, <3>10
  <2>2. CASE Reset \/ SeedHome
    <3>1. Homes \subseteq Homes'
      BY <2>2 DEF Reset, SeedHome, EnsureHome, Create, Homes
    <3> QED
      BY <1>1, <3>1
  <2>3. CASE ~(EnforceRetention \/ Reset \/ SeedHome)
    <3>1. homes' = homes
      BY <1>1, <2>3 DEF Next, vars, Reconcile, Begin, Relay, RecordClaim, RecordReset,
         ApplyDeployment, Requeue, Sync, FireTimer, Resync, Restart, HourPasses, SnapshotReady, Tick,
         touchDesktop, Suspend, Resume, RequestReset, CancelReset, SetRelay, Edit
    <3> QED
      BY <1>1, <3>1 DEF Homes
  <2> QED
    BY <2>1, <2>2, <2>3
<1>2. DesktopInv /\ [Next]_vars =>
        [\A r \in Homes \ Homes' :
           /\ r # deploy.home
           /\ Cardinality(Newer(r, deploy.home) \cap Homes') >= Retain]_vars
  BY <1>1
<1> QED
  BY <1>2, DesktopInit, DesktopStep, PTL DEF Spec, HomeKept

=============================================================================
