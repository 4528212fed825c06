------------------------- MODULE NetworkGrantProofs -------------------------
(***************************************************************************)
(* Theorems about NetworkGrant, for every set of grants, every set of TTL  *)
(* values, every cap and every bound.                                      *)
(***************************************************************************)
EXTENDS NetworkGrant, TLAPS

-----------------------------------------------------------------------------
(* The operators keep their types *)

\* A grant created by the broker, or absent, is an object.
LEMMA NewObjectType ==
  ASSUME NEW t \in TTLs, NEW wf \in BOOLEAN, NEW m \in Modes
  PROVE  NewObject(t, wf, m) \in Object
BY DEF NewObject, Object

\* The object of an unused name is an object.
LEMMA NoObjectType == NoObject \in Object /\ NoObject.approvedAt = 0 /\ NoObject.expiresAt = 0
<1>1. (CHOOSE t \in TTLs : TRUE) \in TTLs
  BY ConstantsAssumption
<1> QED
  BY <1>1 DEF NoObject, NewObject, Object, Modes

\* resolveNetworkGrantTTLSeconds returns a positive TTL within the cap.
LEMMA ResolveTTLBound ==
  ASSUME NEW t \in TTLs, TTLAllowed(t)
  PROVE  /\ ResolveTTL(t) \in Nat
         /\ MaxTTLSeconds > 0 => ResolveTTL(t) <= MaxTTLSeconds
BY ConstantsAssumption DEF ResolveTTL, TTLAllowed

\* A merge patch of an object by objects is an object.
LEMMA MergePatchType ==
  ASSUME NEW o \in Object, NEW from \in Object, NEW to \in Object
  PROVE  MergePatch(o, from, to) \in Object
BY DEF MergePatch, Object

\* A status patch leaves the stores well typed, and so is its answer.
LEMMA StatusPatchType ==
  ASSUME TypeOK, NEW needed \in BOOLEAN, NEW to \in Object, StatusPatch(needed, to)
  PROVE  /\ store' \in [Grants -> Object]
         /\ unsynced' \subseteq Grants
         /\ failures' \in 0..MaxFaults
         /\ crashes' = crashes
         /\ Patched(needed, to) \in Object
<1>1. CASE needed /\ store[key].present /\ UNCHANGED faults
           /\ store' = [store EXCEPT ![key] = MergePatch(store[key], grant, to)]
           /\ unsynced' = IF MergePatch(store[key], grant, to) = store[key]
                          THEN unsynced ELSE unsynced \cup {key}
  <2>1. MergePatch(store[key], grant, to) \in Object
    BY MergePatchType DEF TypeOK
  <2> QED
    BY <1>1, <2>1 DEF TypeOK, faults, Patched
<1>2. CASE CallFails /\ UNCHANGED <<store, unsynced>>
  BY <1>2, ConstantsAssumption DEF TypeOK, CallFails, Patched
<1>3. CASE UNCHANGED <<store, unsynced, faults>>
  BY <1>3 DEF TypeOK, faults, Patched
<1> QED
  BY <1>1, <1>2, <1>3 DEF StatusPatch

\* Deleting the policy keeps its type.
LEMMA DeletePolicyType ==
  ASSUME TypeOK, DeletePolicy
  PROVE  /\ cnp' \in [Grants -> Policy]
         /\ failures' \in 0..MaxFaults
         /\ crashes' = crashes
<1>1. NoPolicy \in Policy
  BY DEF NoPolicy, Policy
<1>2. CASE cnp' = [cnp EXCEPT ![key] = NoPolicy] /\ UNCHANGED faults
  BY <1>1, <1>2 DEF TypeOK, faults
<1>3. CASE CallFails /\ UNCHANGED cnp
  BY <1>3, ConstantsAssumption DEF TypeOK, CallFails
<1> QED
  BY <1>2, <1>3 DEF DeletePolicy

-----------------------------------------------------------------------------
(* Type correctness *)

\* Every local of Reconcile has its type again once it returns.
LEMMA ReturnType ==
  ASSUME Return
  PROVE  /\ pc' \in PCs /\ grant' \in Object
         /\ now' \in Nat /\ ttl' \in Nat /\ approvedAt' \in Nat /\ expiresAt' \in Nat
BY NoObjectType DEF Return, PCs

\* Every step of the reconciler keeps the types.
LEMMA WorkerType == TypeOK /\ Worker => TypeOK'
<1> SUFFICES ASSUME TypeOK, Worker PROVE TypeOK'
  OBVIOUS
<1> USE DEF server, worker, faults
<1>1. ASSUME NEW g \in Grants, Reconcile(g) PROVE TypeOK'
  <2>1. CASE cache[g].present
    BY <1>1, <2>1 DEF TypeOK, Reconcile, PCs
  <2>2. CASE ~cache[g].present
    BY <1>1, <2>2, ReturnType DEF TypeOK, Reconcile
  <2> QED
    BY <2>1, <2>2
<1>2. CASE RejectDelete
  BY <1>2, DeletePolicyType DEF TypeOK, RejectDelete, PCs
<1>3. CASE RejectStatus
  <2>1. [grant EXCEPT !.active = FALSE] \in Object /\ grant.active \in BOOLEAN
    BY DEF TypeOK, Object
  <2> QED
    BY <1>3, <2>1, StatusPatchType DEF TypeOK, RejectStatus, PCs
<1>4. CASE RejectCondition
  <2>1. WithCondition(FALSE) \in Object /\ ConditionStale(FALSE) \in BOOLEAN
    BY DEF TypeOK, Object, WithCondition, ConditionStale
  <2> QED
    BY <1>4, <2>1, StatusPatchType, ReturnType DEF TypeOK, RejectCondition
<1>5. CASE AcceptSpec
  <2>1. WithCondition(TRUE) \in Object /\ ConditionStale(TRUE) \in BOOLEAN
    BY DEF TypeOK, Object, WithCondition, ConditionStale
  <2>2. grant' \in Object
    BY <1>5, <2>1, StatusPatchType DEF AcceptSpec
  <2>3. now' \in Nat /\ ttl' \in Nat
    <3>1. CASE pc' = "stampApproval"
      <4>1. TTLAllowed(grant'.ttl) /\ grant'.ttl \in TTLs
        BY <1>5, <2>2, <3>1 DEF AcceptSpec, Object
      <4> QED
        BY <1>5, <3>1, <4>1, ResolveTTLBound DEF AcceptSpec, TypeOK
    <3>2. CASE pc' # "stampApproval"
      BY <1>5, <3>2 DEF AcceptSpec, TypeOK
    <3> QED
      BY <3>1, <3>2
  <2> QED
    BY <1>5, <2>1, <2>2, <2>3, StatusPatchType DEF TypeOK, AcceptSpec, PCs
<1>6. CASE RevokeDelete
  BY <1>6, DeletePolicyType DEF TypeOK, RevokeDelete, PCs
<1>7. CASE RevokeStatus
  <2>1. /\ [grant EXCEPT !.active = FALSE, !.expiresAt = 0, !.approvedAt = 0] \in Object
        /\ (grant.active \/ grant.expiresAt # 0 \/ grant.approvedAt # 0) \in BOOLEAN
    BY DEF TypeOK, Object
  <2> QED
    BY <1>7, <2>1, StatusPatchType, ReturnType DEF TypeOK, RevokeStatus
<1>8. CASE StampApproval
  <2>1. [grant EXCEPT !.approvedAt = now] \in Object /\ grant.approvedAt \in Nat
    BY DEF TypeOK, Object
  <2> QED
    BY <1>8, <2>1, StatusPatchType DEF TypeOK, StampApproval, PCs
<1>9. CASE StampExpiry
  <2>1. /\ approvedAt + ttl \in Nat
        /\ [grant EXCEPT !.expiresAt = approvedAt + ttl] \in Object
        /\ grant.expiresAt \in Nat
    BY DEF TypeOK, Object
  <2> QED
    BY <1>9, <2>1, StatusPatchType DEF TypeOK, StampExpiry, PCs
<1>10. CASE ExpireDelete
  BY <1>10, DeletePolicyType DEF TypeOK, ExpireDelete, PCs
<1>11. CASE ExpireStatus
  <2>1. [grant EXCEPT !.active = FALSE] \in Object /\ grant.active \in BOOLEAN
    BY DEF TypeOK, Object
  <2> QED
    BY <1>11, <2>1, StatusPatchType, ReturnType DEF TypeOK, ExpireStatus
<1>12. CASE ApplyPolicy
  <2>1. CASE CallFails /\ Return /\ queue' = queue \cup {key} /\ UNCHANGED cnp
    BY <1>12, <2>1, ReturnType, ConstantsAssumption DEF TypeOK, ApplyPolicy, BuildEgress, CallFails
  <2>2. CASE /\ cnp' = [cnp EXCEPT ![key] =
                     [present |-> TRUE,
                      sound   |-> grant.mode = "STRICT_FQDN" => grant.wellFormed]]
             /\ pc' = "activate"
             /\ UNCHANGED <<queue, grant, now, ttl, approvedAt, expiresAt, faults>>
    <3>1. [present |-> TRUE,
           sound   |-> grant.mode = "STRICT_FQDN" => grant.wellFormed] \in Policy
      BY DEF Policy
    <3>2. cnp' \in [Grants -> Policy]
      BY <2>2, <3>1 DEF TypeOK
    <3> QED
      BY <1>12, <2>2, <3>2 DEF TypeOK, ApplyPolicy, BuildEgress, PCs
  <2> QED
    BY <1>12, <2>1, <2>2 DEF ApplyPolicy, BuildEgress
<1>13. CASE Activate
  <2>1. [grant EXCEPT !.active = TRUE] \in Object /\ (~grant.active) \in BOOLEAN
    BY DEF TypeOK, Object
  <2>2. timer' \in [Grants -> Nat]
    BY <1>13 DEF TypeOK, Activate, Earliest
  <2> QED
    BY <1>13, <2>1, <2>2, StatusPatchType, ReturnType DEF TypeOK, Activate
<1> QED
  BY <1>1, <1>2, <1>3, <1>4, <1>5, <1>6, <1>7, <1>8, <1>9, <1>10, <1>11, <1>12,
     <1>13 DEF Worker

\* A spec write keeps the types.
LEMMA WriteSpecType ==
  ASSUME TypeOK, NEW g \in Grants, NEW o \in Object, WriteSpec(g, o)
  PROVE  TypeOK'
<1>1. [o EXCEPT !.gen = store[g].gen + 1] \in Object
  BY DEF TypeOK, Object
<1> QED
  BY <1>1 DEF TypeOK, WriteSpec, worker, faults

\* Every other step keeps the types.
LEMMA EnvironmentType == TypeOK /\ Next /\ ~Worker => TypeOK'
<1> SUFFICES ASSUME TypeOK, Next, ~Worker PROVE TypeOK'
  OBVIOUS
<1> USE DEF server, worker, faults
<1>1. ASSUME NEW g \in Grants, NEW t \in TTLs, NEW m \in RequestModes,
             CreateGrant(g, t, m)
      PROVE  TypeOK'
  <2>1. NewObject(t, TRUE, m) \in Object
    BY NewObjectType, ConstantsAssumption DEF Modes
  <2> QED
    BY <1>1, <2>1 DEF TypeOK, CreateGrant
<1>2. ASSUME NEW g \in Grants, NEW t \in TTLs, CreateAutoGrant(g, t)
      PROVE  TypeOK'
  <2>1. [NewObject(t, TRUE, "PROXY_CONNECT")
           EXCEPT !.approved = TRUE, !.named = TRUE] \in Object
    BY DEF NewObject, Object, Modes
  <2> QED
    BY <1>2, <2>1 DEF TypeOK, CreateAutoGrant
<1>3. ASSUME NEW g \in Grants, NEW t \in TTLs, NEW n \in BOOLEAN,
             ApproveGrant(g, n, t)
      PROVE  TypeOK'
  <2>1. [store[g] EXCEPT !.approved = TRUE, !.named = n, !.ttl = t] \in Object
    BY DEF TypeOK, Object
  <2> QED
    BY <1>3, <2>1, WriteSpecType DEF ApproveGrant
<1>4. ASSUME NEW g \in Grants, NEW a \in BOOLEAN, NEW wf \in BOOLEAN,
             EditGrant(g, a, wf)
      PROVE  TypeOK'
  <2>1. [store[g] EXCEPT !.approved = a, !.wellFormed = wf] \in Object
    BY DEF TypeOK, Object
  <2> QED
    BY <1>4, <2>1, WriteSpecType DEF EditGrant
<1>5. ASSUME NEW g \in Grants, DeleteGrant(g) PROVE TypeOK'
  <2>1. [store[g] EXCEPT !.present = FALSE] \in Object
    BY DEF TypeOK, Object
  <2> QED
    BY <1>5, <2>1 DEF TypeOK, DeleteGrant
<1>6. ASSUME NEW g \in Grants, CacheSync(g) \/ TimerFire(g) \/ Resync(g)
      PROVE  TypeOK'
  BY <1>6 DEF TypeOK, CacheSync, TimerFire, Resync
<1>7. ASSUME NEW g \in Grants, CollectPolicy(g) PROVE TypeOK'
  <2>1. NoPolicy \in Policy
    BY DEF NoPolicy, Policy
  <2> QED
    BY <1>7, <2>1 DEF TypeOK, CollectPolicy
<1>8. CASE Restart
  BY <1>8, ReturnType, ConstantsAssumption DEF TypeOK, Restart
<1>9. CASE Tick
  BY <1>9 DEF TypeOK, Tick
<1> QED
  BY <1>1, <1>2, <1>3, <1>4, <1>5, <1>6, <1>7, <1>8, <1>9 DEF Next

\* The initial state is well typed.
LEMMA InitType == Init => TypeOK
BY NoObjectType, ConstantsAssumption
   DEF Init, TypeOK, PCs, NoPolicy, Policy

\* The state of the API server, the informer, the workqueue and the running
\* Reconcile always has the shape TypeOK gives it.
THEOREM TypeCorrect == Spec => []TypeOK
<1>1. TypeOK /\ [Next]_vars => TypeOK'
  <2>1. CASE UNCHANGED vars
    BY <2>1 DEF TypeOK, vars, server, worker, faults
  <2> QED
    BY <2>1, WorkerType, EnvironmentType
<1> QED
  BY <1>1, InitType, PTL DEF Spec

-----------------------------------------------------------------------------
(* The lifetime of a grant is capped *)

\* An object whose stamps lie in the past and within the cap.
Capped(o) == /\ o.approvedAt <= clock
             /\ o.expiresAt <= clock + MaxTTLSeconds

\* The inductive invariant: LifetimeCap also needs the caches, the working copy
\* and the locals of Reconcile, from which expiries and requeues are computed.
CapInv ==
  /\ TypeOK
  /\ MaxTTLSeconds > 0 =>
       /\ \A g \in Grants : Capped(store[g]) /\ Capped(cache[g])
       /\ \A g \in Grants : timer[g] <= clock + MaxTTLSeconds
       /\ Capped(grant)
       /\ now <= clock /\ ttl <= MaxTTLSeconds /\ approvedAt <= clock
       /\ expiresAt <= clock + MaxTTLSeconds

\* A status patch to a capped object leaves every object capped.
LEMMA StatusPatchCap ==
  ASSUME CapInv, MaxTTLSeconds > 0, NEW needed \in BOOLEAN, NEW to \in Object,
         Capped(to), StatusPatch(needed, to)
  PROVE  /\ \A g \in Grants : /\ store'[g].approvedAt <= clock
                               /\ store'[g].expiresAt <= clock + MaxTTLSeconds
         /\ Capped(Patched(needed, to))
<1> DEFINE merged == MergePatch(store[key], grant, to)
<1>1. CASE needed /\ store[key].present /\ UNCHANGED faults
           /\ store' = [store EXCEPT ![key] = merged]
  <2>1. merged \in Object
    BY MergePatchType DEF CapInv, TypeOK
  <2>2. Capped(merged)
    <3>1. store[key] \in Object /\ Capped(store[key])
      BY DEF CapInv, TypeOK
    <3>2. /\ merged.approvedAt = to.approvedAt \/ merged.approvedAt = store[key].approvedAt
          /\ merged.expiresAt = to.expiresAt \/ merged.expiresAt = store[key].expiresAt
      BY <3>1 DEF MergePatch, Object
    <3> QED
      BY <3>1, <3>2 DEF Capped
  <2>3. Patched(needed, to) = merged
    BY <1>1 DEF Patched, faults, CapInv, TypeOK
  <2> QED
    BY <1>1, <2>1, <2>2, <2>3 DEF CapInv, TypeOK, Capped
<1>2. CASE UNCHANGED store
  <2>1. Patched(needed, to) \in {grant, to, store[key]}
    BY <1>2 DEF Patched
  <2> QED
    BY <1>2, <2>1 DEF CapInv, TypeOK, Capped
<1> QED
  BY <1>1, <1>2 DEF StatusPatch

\* The locals are capped once Reconcile returns.
LEMMA ReturnCap ==
  ASSUME Return, clock \in Nat, MaxTTLSeconds \in Nat
  PROVE  /\ Capped(grant')
         /\ now' <= clock /\ ttl' <= MaxTTLSeconds /\ approvedAt' <= clock
         /\ expiresAt' <= clock + MaxTTLSeconds
BY NoObjectType DEF Return, Capped

\* Every step of the reconciler keeps lifetimes capped.
LEMMA WorkerCap == CapInv /\ Worker => CapInv'
<1> SUFFICES ASSUME CapInv, Worker, MaxTTLSeconds > 0
             PROVE  CapInv'
  BY WorkerType DEF CapInv
<1> USE DEF server, worker, faults
<1>0. TypeOK /\ TypeOK' /\ MaxTTLSeconds \in Nat
  BY WorkerType, ConstantsAssumption DEF CapInv
<1>1. ASSUME NEW g \in Grants, Reconcile(g) PROVE CapInv'
  <2>1. CASE cache[g].present
    BY <1>0, <1>1, <2>1 DEF CapInv, Reconcile, Capped
  <2>2. CASE ~cache[g].present
    BY <1>0, <1>1, <2>2, ReturnCap DEF CapInv, TypeOK, Reconcile, Capped
  <2> QED
    BY <2>1, <2>2
<1>2. CASE RejectDelete
  BY <1>0, <1>2 DEF CapInv, RejectDelete, Capped
<1>3. CASE RejectStatus
  <2>1. /\ [grant EXCEPT !.active = FALSE] \in Object /\ grant.active \in BOOLEAN
        /\ Capped([grant EXCEPT !.active = FALSE])
    BY <1>0 DEF TypeOK, Object, CapInv, Capped
  <2> QED
    BY <1>0, <1>3, <2>1, StatusPatchCap DEF CapInv, RejectStatus, Capped
<1>4. CASE RejectCondition
  <2>1. /\ WithCondition(FALSE) \in Object /\ ConditionStale(FALSE) \in BOOLEAN
        /\ Capped(WithCondition(FALSE))
    BY <1>0 DEF TypeOK, Object, CapInv, Capped, WithCondition, ConditionStale
  <2> QED
    BY <1>0, <1>4, <2>1, StatusPatchCap, ReturnCap
       DEF CapInv, TypeOK, RejectCondition, Capped
<1>5. CASE AcceptSpec
  <2>1. /\ WithCondition(TRUE) \in Object /\ ConditionStale(TRUE) \in BOOLEAN
        /\ Capped(WithCondition(TRUE))
    BY <1>0 DEF TypeOK, Object, CapInv, Capped, WithCondition, ConditionStale
  <2>2. now' <= clock /\ ttl' <= MaxTTLSeconds
    <3>1. CASE pc' = "stampApproval"
      <4>1. TTLAllowed(grant'.ttl) /\ grant'.ttl \in TTLs
        BY <1>0, <1>5, <3>1 DEF AcceptSpec, TypeOK, Object
      <4>2. now' = clock /\ ttl' = ResolveTTL(grant'.ttl)
        BY <1>5, <3>1 DEF AcceptSpec
      <4>3. ResolveTTL(grant'.ttl) <= MaxTTLSeconds
        BY <4>1, ResolveTTLBound
      <4> QED
        BY <1>0, <4>2, <4>3 DEF TypeOK
    <3>2. CASE pc' # "stampApproval"
      BY <1>5, <3>2 DEF AcceptSpec, CapInv
    <3> QED
      BY <3>1, <3>2
  <2> QED
    BY <1>0, <1>5, <2>1, <2>2, StatusPatchCap DEF CapInv, AcceptSpec, Capped
<1>6. CASE RevokeDelete
  BY <1>0, <1>6 DEF CapInv, RevokeDelete, Capped
<1>7. CASE RevokeStatus
  <2> DEFINE to == [grant EXCEPT !.active = FALSE, !.expiresAt = 0, !.approvedAt = 0]
  <2>1. to \in Object /\ to.expiresAt = 0 /\ to.approvedAt = 0
    BY <1>0 DEF TypeOK, Object
  <2>2. Capped(to)
    BY <1>0, <2>1 DEF TypeOK, Capped
  <2> QED
    BY <1>0, <1>7, <2>1, <2>2, StatusPatchCap, ReturnCap
       DEF CapInv, TypeOK, RevokeStatus, Capped
<1>8. CASE StampApproval
  <2>1. /\ [grant EXCEPT !.approvedAt = now] \in Object /\ grant.approvedAt \in Nat
        /\ Capped([grant EXCEPT !.approvedAt = now])
    BY <1>0 DEF TypeOK, Object, CapInv, Capped
  <2>2. approvedAt' <= clock
    BY <1>8 DEF CapInv, StampApproval, Capped
  <2> QED
    BY <1>0, <1>8, <2>1, <2>2, StatusPatchCap DEF CapInv, StampApproval, Capped
<1>9. CASE StampExpiry
  <2>0. approvedAt + ttl <= clock + MaxTTLSeconds
    BY <1>0 DEF TypeOK, CapInv
  <2>a. approvedAt + ttl \in Nat
    BY <1>0 DEF TypeOK
  <2>1. /\ [grant EXCEPT !.expiresAt = approvedAt + ttl] \in Object
        /\ grant.expiresAt \in Nat
    BY <1>0, <2>a DEF TypeOK, Object
  <2>2. Capped([grant EXCEPT !.expiresAt = approvedAt + ttl])
    BY <1>0, <2>0, <2>1 DEF TypeOK, Object, CapInv, Capped
  <2>3. expiresAt' <= clock + MaxTTLSeconds
    BY <1>9, <2>0, <2>1 DEF CapInv, StampExpiry, Capped
  <2> QED
    BY <1>0, <1>9, <2>1, <2>2, <2>3, StatusPatchCap DEF CapInv, StampExpiry, Capped
<1>10. CASE ExpireDelete
  BY <1>0, <1>10 DEF CapInv, ExpireDelete, Capped
<1>11. CASE ExpireStatus
  <2>1. /\ [grant EXCEPT !.active = FALSE] \in Object /\ grant.active \in BOOLEAN
        /\ Capped([grant EXCEPT !.active = FALSE])
    BY <1>0 DEF TypeOK, Object, CapInv, Capped
  <2> QED
    BY <1>0, <1>11, <2>1, StatusPatchCap, ReturnCap
       DEF CapInv, TypeOK, ExpireStatus, Capped
<1>12. CASE ApplyPolicy
  <2>1. CASE Return
    BY <1>0, <1>12, <2>1, ReturnCap DEF CapInv, TypeOK, ApplyPolicy, BuildEgress, Capped
  <2>2. CASE UNCHANGED <<grant, now, ttl, approvedAt, expiresAt>>
    BY <1>0, <1>12, <2>2 DEF CapInv, ApplyPolicy, BuildEgress, Capped
  <2> QED
    BY <1>12, <2>1, <2>2 DEF ApplyPolicy, BuildEgress
<1>13. CASE Activate
  <2>1. /\ [grant EXCEPT !.active = TRUE] \in Object /\ (~grant.active) \in BOOLEAN
        /\ Capped([grant EXCEPT !.active = TRUE])
    BY <1>0 DEF TypeOK, Object, CapInv, Capped
  <2>2. \A g \in Grants : timer'[g] <= clock + MaxTTLSeconds
    BY <1>0, <1>13 DEF CapInv, TypeOK, Activate, Earliest
  <2> QED
    BY <1>0, <1>13, <2>1, <2>2, StatusPatchCap, ReturnCap
       DEF CapInv, TypeOK, Activate, Capped
<1> QED
  BY <1>1, <1>2, <1>3, <1>4, <1>5, <1>6, <1>7, <1>8, <1>9, <1>10, <1>11, <1>12,
     <1>13 DEF Worker

\* Every other step keeps lifetimes capped: no spec write touches the stamps.
LEMMA EnvironmentCap == CapInv /\ Next /\ ~Worker => CapInv'
<1> SUFFICES ASSUME CapInv, Next, ~Worker, MaxTTLSeconds > 0
             PROVE  CapInv'
  BY EnvironmentType DEF CapInv
<1> USE DEF server, worker, faults
<1>0. TypeOK /\ TypeOK' /\ MaxTTLSeconds \in Nat
  BY EnvironmentType, ConstantsAssumption DEF CapInv
<1>1. ASSUME NEW g \in Grants, NEW o \in Object, WriteSpec(g, o),
             o.approvedAt = store[g].approvedAt, o.expiresAt = store[g].expiresAt
      PROVE  CapInv'
  <2> DEFINE new == [o EXCEPT !.gen = store[g].gen + 1]
  <2>1. new.approvedAt = store[g].approvedAt /\ new.expiresAt = store[g].expiresAt
    BY <1>1 DEF Object
  <2>2. Capped(new)
    BY <2>1 DEF CapInv, Capped
  <2>3. store' = [store EXCEPT ![g] = new]
    BY <1>1 DEF WriteSpec
  <2> HIDE DEF new
  <2> QED
    BY <1>0, <1>1, <2>2, <2>3 DEF CapInv, TypeOK, WriteSpec, Capped
<1>2. ASSUME NEW g \in Grants, NEW t \in TTLs, NEW m \in RequestModes,
             CreateGrant(g, t, m)
      PROVE  CapInv'
  <2>1. Capped(NewObject(t, TRUE, m))
    BY <1>0 DEF NewObject, Capped, TypeOK
  <2> QED
    BY <1>0, <1>2, <2>1 DEF CapInv, TypeOK, CreateGrant, Capped
<1>3. ASSUME NEW g \in Grants, NEW t \in TTLs, CreateAutoGrant(g, t)
      PROVE  CapInv'
  <2>1. Capped([NewObject(t, TRUE, "PROXY_CONNECT")
                  EXCEPT !.approved = TRUE, !.named = TRUE])
    BY <1>0 DEF NewObject, Capped, TypeOK
  <2> QED
    BY <1>0, <1>3, <2>1 DEF CapInv, TypeOK, CreateAutoGrant, Capped
<1>4. ASSUME NEW g \in Grants, NEW t \in TTLs, NEW n \in BOOLEAN,
             ApproveGrant(g, n, t)
      PROVE  CapInv'
  <2> DEFINE o == [store[g] EXCEPT !.approved = TRUE, !.named = n, !.ttl = t]
  <2>1. /\ o \in Object
        /\ o.approvedAt = store[g].approvedAt /\ o.expiresAt = store[g].expiresAt
    BY <1>0 DEF TypeOK, Object
  <2> QED
    BY <1>1, <1>4, <2>1 DEF ApproveGrant
<1>5. ASSUME NEW g \in Grants, NEW a \in BOOLEAN, NEW wf \in BOOLEAN,
             EditGrant(g, a, wf)
      PROVE  CapInv'
  <2> DEFINE o == [store[g] EXCEPT !.approved = a, !.wellFormed = wf]
  <2>1. /\ o \in Object
        /\ o.approvedAt = store[g].approvedAt /\ o.expiresAt = store[g].expiresAt
    BY <1>0 DEF TypeOK, Object
  <2> QED
    BY <1>1, <1>5, <2>1 DEF EditGrant
<1>6. ASSUME NEW g \in Grants, DeleteGrant(g) PROVE CapInv'
  <2>1. Capped([store[g] EXCEPT !.present = FALSE])
    BY <1>0 DEF CapInv, TypeOK, Object, Capped
  <2> QED
    BY <1>0, <1>6, <2>1 DEF CapInv, TypeOK, DeleteGrant, Capped
<1>7. ASSUME NEW g \in Grants,
             CacheSync(g) \/ TimerFire(g) \/ Resync(g) \/ CollectPolicy(g)
      PROVE  CapInv'
  <2>1. CASE CacheSync(g)
    BY <1>0, <2>1 DEF CapInv, TypeOK, CacheSync, Capped
  <2>2. CASE TimerFire(g)
    BY <1>0, <2>2 DEF CapInv, TypeOK, TimerFire, Capped
  <2>3. CASE Resync(g) \/ CollectPolicy(g)
    BY <1>0, <2>3 DEF CapInv, Resync, CollectPolicy, Capped
  <2> QED
    BY <1>7, <2>1, <2>2, <2>3
<1>8. CASE Restart
  BY <1>0, <1>8, ReturnCap DEF CapInv, TypeOK, Restart, Capped
<1>9. CASE Tick
  <2>1. \A n \in Nat : /\ n <= clock => n <= clock'
                       /\ n <= clock + MaxTTLSeconds => n <= clock' + MaxTTLSeconds
    BY <1>0, <1>9 DEF TypeOK, Tick
  <2>2. ASSUME NEW o \in Object, Capped(o)
        PROVE  o.approvedAt <= clock' /\ o.expiresAt <= clock' + MaxTTLSeconds
    BY <2>1, <2>2 DEF Capped, Object
  <2>3. \A g \in Grants : /\ store'[g].approvedAt <= clock'
                          /\ store'[g].expiresAt <= clock' + MaxTTLSeconds
                          /\ cache'[g].approvedAt <= clock'
                          /\ cache'[g].expiresAt <= clock' + MaxTTLSeconds
    BY <1>0, <1>9, <2>2 DEF CapInv, TypeOK, Tick
  <2>4. grant'.approvedAt <= clock' /\ grant'.expiresAt <= clock' + MaxTTLSeconds
    BY <1>0, <1>9, <2>2 DEF CapInv, TypeOK, Tick
  <2> QED
    BY <1>0, <1>9, <2>1, <2>3, <2>4 DEF CapInv, TypeOK, Tick, Capped
<1> QED
  BY <1>2, <1>3, <1>4, <1>5, <1>6, <1>7, <1>8, <1>9 DEF Next

\* Nothing is stamped initially.
LEMMA InitCap == Init => CapInv
BY InitType, NoObjectType, ConstantsAssumption DEF Init, CapInv, Capped

\* CapInv is an invariant of the specification.
LEMMA CapInvariant == Spec => []CapInv
<1>1. CapInv /\ [Next]_vars => CapInv'
  <2>1. CASE UNCHANGED vars
    BY <2>1 DEF CapInv, TypeOK, Capped, vars, server, worker, faults
  <2> QED
    BY <2>1, WorkerCap, EnvironmentCap
<1> QED
  BY <1>1, InitCap, PTL DEF Spec

\* With a cap configured, no approval, re-approval, stale read, failed call or
\* restart ever gives a grant an expiry, or the controller a requeue, further
\* than the cap from now: resolveNetworkGrantTTLSeconds is the only source of
\* TTLs and every expiry is computed from a past instant.
THEOREM LifetimeCapped == Spec => []LifetimeCap
<1>1. CapInv => LifetimeCap
  BY DEF CapInv, LifetimeCap, Capped
<1> QED
  BY <1>1, CapInvariant, PTL

-----------------------------------------------------------------------------
(* An expiry is not pushed back *)

\* What a merge patch leaves in the expiry.
LEMMA MergePatchExpiry ==
  ASSUME NEW o \in Object, NEW from \in Object, NEW to \in Object
  PROVE  MergePatch(o, from, to).expiresAt =
           IF from.expiresAt # to.expiresAt THEN to.expiresAt ELSE o.expiresAt
BY DEF MergePatch, Object

\* The step of NoExtension, for one grant.
Extended(g) == store[g].expiresAt # 0 /\ store'[g].expiresAt > store[g].expiresAt

\* A status patch that does not raise the expiry of the working copy extends no
\* grant, except from a working copy that did not know the expiry.
LEMMA StatusPatchExtends ==
  ASSUME TypeOK, NEW needed \in BOOLEAN, NEW to \in Object, StatusPatch(needed, to),
         \/ grant.expiresAt = 0 \/ to.expiresAt = grant.expiresAt
         \/ to.expiresAt <= grant.expiresAt,
         NEW g \in Grants, Extended(g)
  PROVE  key = g /\ grant.expiresAt # store[g].expiresAt
<1>0. store[g] \in Object /\ store[key] \in Object /\ grant \in Object
  BY DEF TypeOK
<1>1. store' # store
  BY <1>0 DEF Extended, Object
<1>2. store' = [store EXCEPT ![key] = MergePatch(store[key], grant, to)]
  BY <1>1 DEF StatusPatch
<1>3. key = g
  BY <1>0, <1>2 DEF TypeOK, Extended, Object
<1>4. store'[g].expiresAt =
        IF grant.expiresAt # to.expiresAt THEN to.expiresAt ELSE store[g].expiresAt
  BY <1>0, <1>2, <1>3, MergePatchExpiry DEF TypeOK
<1> QED
  BY <1>0, <1>3, <1>4 DEF Extended, Object

\* Every step of the reconciler respects NoExtension.
LEMMA WorkerExtends ==
  ASSUME TypeOK, Worker, NEW g \in Grants, Extended(g)
  PROVE  key = g /\ grant.expiresAt # store[g].expiresAt
<1>0. store[g] \in Object /\ grant \in Object
  BY DEF TypeOK
<1>1. store' # store
  BY <1>0 DEF Extended, Object
<1>2. CASE RejectStatus
  <2>1. /\ [grant EXCEPT !.active = FALSE] \in Object /\ grant.active \in BOOLEAN
        /\ [grant EXCEPT !.active = FALSE].expiresAt = grant.expiresAt
    BY <1>0 DEF Object
  <2> QED
    BY <1>2, <2>1, StatusPatchExtends DEF RejectStatus
<1>3. CASE RejectCondition
  <2>1. /\ WithCondition(FALSE) \in Object /\ ConditionStale(FALSE) \in BOOLEAN
        /\ WithCondition(FALSE).expiresAt = grant.expiresAt
    BY <1>0 DEF Object, WithCondition, ConditionStale
  <2> QED
    BY <1>3, <2>1, StatusPatchExtends DEF RejectCondition
<1>4. CASE AcceptSpec
  <2>1. /\ WithCondition(TRUE) \in Object /\ ConditionStale(TRUE) \in BOOLEAN
        /\ WithCondition(TRUE).expiresAt = grant.expiresAt
    BY <1>0 DEF Object, WithCondition, ConditionStale
  <2> QED
    BY <1>4, <2>1, StatusPatchExtends DEF AcceptSpec
<1>5. CASE RevokeStatus
  <2> DEFINE to == [grant EXCEPT !.active = FALSE, !.expiresAt = 0, !.approvedAt = 0]
  <2>1. to \in Object /\ to.expiresAt = 0
    BY <1>0 DEF Object
  <2>2. to.expiresAt <= grant.expiresAt
    BY <1>0, <2>1 DEF Object
  <2> QED
    BY <1>5, <2>1, <2>2, StatusPatchExtends DEF RevokeStatus
<1>6. CASE StampApproval
  <2>1. /\ [grant EXCEPT !.approvedAt = now] \in Object
        /\ [grant EXCEPT !.approvedAt = now].expiresAt = grant.expiresAt
    BY <1>0 DEF Object, TypeOK
  <2> QED
    BY <1>6, <2>1, StatusPatchExtends DEF StampApproval
<1>7. CASE StampExpiry
  <2> DEFINE desired == approvedAt + ttl
             late == grant.expiresAt = 0 \/ grant.expiresAt > desired
             to == [grant EXCEPT !.expiresAt = desired]
  <2>1. desired \in Nat
    BY DEF TypeOK
  <2>2. to \in Object /\ to.expiresAt = desired /\ grant.expiresAt \in Nat
    BY <1>0, <2>1 DEF Object
  <2>3. StatusPatch(late, to) /\ late \in BOOLEAN
    BY <1>7 DEF StampExpiry
  <2>4. late
    BY <1>1, <2>3 DEF StatusPatch
  <2>5. grant.expiresAt = 0 \/ to.expiresAt <= grant.expiresAt
    BY <2>1, <2>2, <2>4
  <2> HIDE DEF to, late
  <2> QED
    BY <2>2, <2>3, <2>5, StatusPatchExtends
<1>8. CASE ExpireStatus
  <2>1. /\ [grant EXCEPT !.active = FALSE] \in Object /\ grant.active \in BOOLEAN
        /\ [grant EXCEPT !.active = FALSE].expiresAt = grant.expiresAt
    BY <1>0 DEF Object
  <2> QED
    BY <1>8, <2>1, StatusPatchExtends DEF ExpireStatus
<1>9. CASE Activate
  <2>1. /\ [grant EXCEPT !.active = TRUE] \in Object /\ (~grant.active) \in BOOLEAN
        /\ [grant EXCEPT !.active = TRUE].expiresAt = grant.expiresAt
    BY <1>0 DEF Object
  <2> QED
    BY <1>9, <2>1, StatusPatchExtends DEF Activate
<1> QED
  BY <1>1, <1>2, <1>3, <1>4, <1>5, <1>6, <1>7, <1>8, <1>9
     DEF Worker, Reconcile, RejectDelete, RevokeDelete, ExpireDelete, ApplyPolicy, BuildEgress,
         server

\* No other step raises an expiry.
LEMMA EnvironmentExtends ==
  ASSUME TypeOK, Next, ~Worker, NEW g \in Grants
  PROVE  ~Extended(g)
<1> SUFFICES ASSUME Extended(g) PROVE FALSE
  OBVIOUS
<1>0. store \in [Grants -> Object]
  BY DEF TypeOK
<1>1. store' # store
  BY <1>0 DEF Extended, Object
<1>2. ASSUME NEW h \in Grants, NEW o \in Object,
             store' = [store EXCEPT ![h] = o],
             o.expiresAt = 0 \/ o.expiresAt = store[h].expiresAt
      PROVE  FALSE
  BY <1>0, <1>2 DEF Extended, Object
<1>3. ASSUME NEW h \in Grants, NEW t \in TTLs, NEW m \in RequestModes,
             CreateGrant(h, t, m)
      PROVE  FALSE
  <2>1. NewObject(t, TRUE, m) \in Object /\ NewObject(t, TRUE, m).expiresAt = 0
    BY NewObjectType, ConstantsAssumption DEF Modes, NewObject
  <2> QED
    BY <1>2, <1>3, <2>1 DEF CreateGrant
<1>4. ASSUME NEW h \in Grants, NEW t \in TTLs, CreateAutoGrant(h, t)
      PROVE  FALSE
  <2> DEFINE o == [NewObject(t, TRUE, "PROXY_CONNECT")
                     EXCEPT !.approved = TRUE, !.named = TRUE]
  <2>1. o \in Object /\ o.expiresAt = 0
    BY DEF NewObject, Object, Modes
  <2> QED
    BY <1>2, <1>4, <2>1 DEF CreateAutoGrant
<1>5. ASSUME NEW h \in Grants, NEW o \in Object, WriteSpec(h, o),
             o.expiresAt = store[h].expiresAt
      PROVE  FALSE
  <2> DEFINE new == [o EXCEPT !.gen = store[h].gen + 1]
  <2>1. new \in Object /\ new.expiresAt = store[h].expiresAt
    BY <1>0, <1>5 DEF Object
  <2> QED
    BY <1>2, <1>5, <2>1 DEF WriteSpec
<1>6. ASSUME NEW h \in Grants, NEW t \in TTLs, NEW n \in BOOLEAN,
             ApproveGrant(h, n, t)
      PROVE  FALSE
  <2> DEFINE o == [store[h] EXCEPT !.approved = TRUE, !.named = n, !.ttl = t]
  <2>1. o \in Object /\ o.expiresAt = store[h].expiresAt
    BY <1>0 DEF Object
  <2> QED
    BY <1>5, <1>6, <2>1 DEF ApproveGrant
<1>7. ASSUME NEW h \in Grants, NEW a \in BOOLEAN, NEW wf \in BOOLEAN,
             EditGrant(h, a, wf)
      PROVE  FALSE
  <2> DEFINE o == [store[h] EXCEPT !.approved = a, !.wellFormed = wf]
  <2>1. o \in Object /\ o.expiresAt = store[h].expiresAt
    BY <1>0 DEF Object
  <2> QED
    BY <1>5, <1>7, <2>1 DEF EditGrant
<1>8. ASSUME NEW h \in Grants, DeleteGrant(h) PROVE FALSE
  <2>1. /\ [store[h] EXCEPT !.present = FALSE] \in Object
        /\ [store[h] EXCEPT !.present = FALSE].expiresAt = store[h].expiresAt
    BY <1>0 DEF Object
  <2> QED
    BY <1>2, <1>8, <2>1 DEF DeleteGrant
<1> QED
  BY <1>1, <1>3, <1>4, <1>6, <1>7, <1>8
     DEF Next, CacheSync, TimerFire, Resync, CollectPolicy, Restart, Tick, server

\* A grant is extended only by a Reconcile whose working copy did not know the
\* expiry the server holds: on an up-to-date copy the expiry only moves forward.
THEOREM ExpiryNotExtended == Spec => NoExtension
<1>1. TypeOK /\ [Next]_vars =>
        [\A g \in Grants : Extended(g) => key = g /\ grant.expiresAt # store[g].expiresAt]_vars
  BY WorkerExtends, EnvironmentExtends
<1>2. TypeOK /\ [Next]_vars =>
        [\A g \in Grants :
           store[g].expiresAt # 0 /\ store'[g].expiresAt > store[g].expiresAt
             => key = g /\ grant.expiresAt # store[g].expiresAt]_vars
  BY <1>1 DEF Extended
<1> QED
  BY <1>2, TypeCorrect, PTL DEF Spec, NoExtension

-----------------------------------------------------------------------------
(* The reconciler settles on the right policy *)

\* No event or request is pending for g; Reconcile is working on g.
Quiet(g) == g \notin unsynced /\ g \notin queue
Busy(g)  == pc # "idle" /\ key = g

\* What SettledPolicy says of one grant.
RightPolicy(g) ==
  store[g].present =>
    /\ cnp[g].present => Approved(store[g])
    /\ store[g].active <=> cnp[g].present
    /\ Approved(store[g]) /\ clock <= store[g].expiresAt => cnp[g].present

\* What a Reconcile has established when no event has disturbed it: its working
\* copy is the server's object, and each branch has the reason it was taken for
\* and the effects of the calls made so far.
Undisturbed ==
  /\ grant = store[key] /\ store[key].present
  /\ pc \in {"rejectDelete", "rejectStatus", "rejectCond"} => ~SpecValid(grant)
  /\ pc \notin {"rejectDelete", "rejectStatus", "rejectCond"} => SpecValid(grant)
  /\ pc \in {"revokeDelete", "revokeStatus"} => ~grant.approved
  /\ pc \in {"stampApproval", "stampExpiry", "expireDelete", "expireStatus",
             "apply", "activate"} => grant.approved
  /\ pc \in {"rejectStatus", "rejectCond", "revokeStatus", "expireStatus"}
       => ~cnp[key].present
  /\ pc = "rejectCond" => ~grant.active
  /\ pc \in {"expireDelete", "expireStatus"} => clock > grant.expiresAt
  /\ pc = "activate" => cnp[key].present

\* The inductive invariant: a cache without pending events is current, an
\* undisturbed Reconcile is on the right track, and a grant nobody is working on
\* and nothing is pending for has the right policy.
SettleInv ==
  /\ TypeOK
  /\ now <= clock
  /\ \A g \in Grants : g \notin unsynced => cache[g] = store[g]
  /\ failures = 0 =>
       \A g \in Grants : Quiet(g) => IF Busy(g) THEN Undisturbed ELSE RightPolicy(g)

\* A patch that writes nothing changed nothing.
LEMMA MergePatchIdle ==
  ASSUME NEW o \in Object, NEW to \in Object, MergePatch(o, o, to) = o
  PROVE  /\ to.active = o.active /\ to.approvedAt = o.approvedAt
         /\ to.expiresAt = o.expiresAt
BY DEF MergePatch, Object

\* A status patch of an undisturbed Reconcile that raises no event: nothing had
\* to be written, and the working copy is unchanged.
LEMMA QuietPatch ==
  ASSUME TypeOK, NEW needed \in BOOLEAN, NEW to \in Object, StatusPatch(needed, to),
         failures' = 0, grant = store[key], store[key].present, key \notin unsynced'
  PROVE  /\ store' = store /\ unsynced' = unsynced /\ failures = 0
         /\ Patched(needed, to) = grant
         /\ needed => /\ to.active = grant.active
                      /\ to.approvedAt = grant.approvedAt
                      /\ to.expiresAt = grant.expiresAt
<1>0. store[key] \in Object /\ grant \in Object /\ store \in [Grants -> Object]
      /\ failures \in Nat /\ key \in Grants
  BY ConstantsAssumption DEF TypeOK
<1>1. ~CallFails
  BY <1>0 DEF CallFails
<1>2. CASE ~needed
  BY <1>1, <1>2 DEF StatusPatch, Patched, faults
<1>3. CASE needed
  <2> DEFINE merged == MergePatch(store[key], grant, to)
  <2>1. /\ store' = [store EXCEPT ![key] = merged] /\ UNCHANGED faults
        /\ unsynced' = IF merged = store[key] THEN unsynced ELSE unsynced \cup {key}
    BY <1>1, <1>3 DEF StatusPatch
  <2>2. merged = store[key]
    BY <2>1
  <2>3. store' = store
    BY <1>0, <2>1, <2>2
  <2> QED
    BY <1>0, <1>3, <2>1, <2>2, <2>3, MergePatchIdle DEF Patched, faults
<1> QED
  BY <1>2, <1>3

\* What a status patch leaves alone.
LEMMA PatchFrame ==
  ASSUME TypeOK, NEW needed \in BOOLEAN, NEW to \in Object, StatusPatch(needed, to)
  PROVE  /\ \A g \in Grants : g # key => store'[g] = store[g]
         /\ \A g \in Grants : g # key => (g \in unsynced' <=> g \in unsynced)
         /\ key \notin unsynced' => store' = store /\ key \notin unsynced
         /\ failures' = 0 => failures = 0
<1>0. store \in [Grants -> Object] /\ failures \in Nat /\ key \in Grants
  BY ConstantsAssumption DEF TypeOK
<1> QED
  BY <1>0 DEF StatusPatch, CallFails, faults

\* A step of the reconciler other than the start of a call, seen from the grants
\* it is not working on and from the cache.
Frame ==
  /\ UNCHANGED <<clock, cache, key>>
  /\ \A g \in Grants : g # key => store'[g] = store[g] /\ cnp'[g] = cnp[g]
  /\ \A g \in Grants : g # key => (g \in unsynced' <=> g \in unsynced)
                                /\ (g \in queue' <=> g \in queue)
  /\ key \notin unsynced' => store' = store /\ key \notin unsynced
  /\ key \notin queue' => key \notin queue
  /\ failures' = 0 => failures = 0
  /\ now' <= clock

\* A status patch that leaves the rest of the server alone is such a step.
LEMMA PatchIsFrame ==
  ASSUME SettleInv, NEW needed \in BOOLEAN, NEW to \in Object, StatusPatch(needed, to),
         UNCHANGED <<clock, cnp, cache, queue, key>>, now' \in {now, clock, 0}
  PROVE  Frame
<1>1. now' <= clock
  BY DEF SettleInv, TypeOK
<1> QED
  BY <1>1, PatchFrame DEF SettleInv, Frame

\* To show that a step of the reconciler keeps SettleInv, it is enough to look
\* at its own grant.
LEMMA FrameSettles ==
  ASSUME SettleInv, TypeOK', Frame, pc # "idle",
         failures' = 0 /\ key \notin unsynced' /\ key \notin queue' /\ Undisturbed
           => IF pc' # "idle" THEN Undisturbed' ELSE RightPolicy(key)'
  PROVE  SettleInv'
<1>1. \A g \in Grants : g \notin unsynced' => cache'[g] = store'[g]
  BY DEF SettleInv, Frame, TypeOK
<1>2. ASSUME failures' = 0, NEW g \in Grants, Quiet(g)'
      PROVE  IF Busy(g)' THEN Undisturbed' ELSE RightPolicy(g)'
  <2>1. CASE g = key
    <3>1. Quiet(g) /\ Busy(g) /\ failures = 0
      BY <1>2, <2>1 DEF Frame, Quiet, Busy
    <3>2. Undisturbed
      BY <3>1 DEF SettleInv
    <3> QED
      BY <1>2, <2>1, <3>2 DEF Frame, Quiet, Busy, RightPolicy
  <2>2. CASE g # key
    <3>1. Quiet(g) /\ ~Busy(g) /\ failures = 0 /\ ~Busy(g)'
      BY <1>2, <2>2 DEF Frame, Quiet, Busy
    <3>2. RightPolicy(g)
      BY <3>1 DEF SettleInv
    <3> QED
      BY <2>2, <3>1, <3>2 DEF Frame, RightPolicy, Approved, SpecValid
  <2> QED
    BY <2>1, <2>2
<1> QED
  BY <1>1, <1>2 DEF SettleInv, Frame

\* Deleting the policy, seen from the other grants.
LEMMA DeleteFrame ==
  ASSUME TypeOK, DeletePolicy
  PROVE  /\ \A g \in Grants : g # key => cnp'[g] = cnp[g]
         /\ failures' = 0 => failures = 0 /\ ~cnp'[key].present
<1>0. cnp \in [Grants -> Policy] /\ failures \in Nat /\ key \in Grants
  BY ConstantsAssumption DEF TypeOK
<1> QED
  BY <1>0 DEF DeletePolicy, CallFails, faults, NoPolicy

\* Every step of the reconciler keeps SettleInv.
LEMMA WorkerSettles == SettleInv /\ Worker => SettleInv'
<1> SUFFICES ASSUME SettleInv, Worker PROVE SettleInv'
  OBVIOUS
<1> USE DEF server, worker, faults
<1>0. TypeOK /\ TypeOK'
  BY WorkerType DEF SettleInv
<1>1. ASSUME NEW h \in Grants, Reconcile(h) PROVE SettleInv'
  <2>1. now' <= clock' /\ \A g \in Grants : g \notin unsynced' => cache'[g] = store'[g]
    BY <1>0, <1>1 DEF Reconcile, Return, SettleInv, TypeOK
  <2>2. ASSUME failures' = 0, NEW g \in Grants, Quiet(g)'
        PROVE  IF Busy(g)' THEN Undisturbed' ELSE RightPolicy(g)'
    <3>1. CASE g = h /\ cache[h].present
      <4>1. cache[h] = store[h]
        BY <1>1, <2>2, <3>1 DEF Reconcile, Quiet, SettleInv
      <4>2. Undisturbed'
        BY <1>0, <1>1, <3>1, <4>1 DEF Reconcile, Undisturbed, SpecValid
      <4> QED
        BY <1>1, <3>1, <4>2 DEF Reconcile, Busy
    <3>2. CASE g = h /\ ~cache[h].present
      <4>1. cache[h] = store[h]
        BY <1>1, <2>2, <3>2 DEF Reconcile, Quiet, SettleInv
      <4> QED
        BY <1>1, <3>2, <4>1 DEF Reconcile, Return, Busy, RightPolicy
    <3>3. CASE g # h
      <4>1. RightPolicy(g)
        BY <1>1, <2>2, <3>3 DEF Reconcile, SettleInv, Quiet, Busy
      <4> QED
        BY <1>1, <3>3, <4>1 DEF Reconcile, RightPolicy, Approved, SpecValid, Busy
    <3> QED
      BY <3>1, <3>2, <3>3
  <2> QED
    BY <1>0, <2>1, <2>2 DEF SettleInv
<1>2. CASE RejectDelete
  <2>1. Frame /\ (failures' = 0 => ~cnp'[key].present)
    BY <1>0, <1>2, DeleteFrame DEF RejectDelete, Frame, SettleInv
  <2> QED
    BY <1>0, <1>2, <2>1, FrameSettles DEF RejectDelete, Undisturbed, SpecValid
<1>3. CASE RejectStatus
  <2> DEFINE to == [grant EXCEPT !.active = FALSE]
  <2>1. to \in Object /\ to.active = FALSE /\ grant.active \in BOOLEAN
    BY <1>0 DEF TypeOK, Object
  <2>2. StatusPatch(grant.active, to)
    BY <1>3 DEF RejectStatus
  <2>3. Frame
    BY <1>0, <1>3, <2>1, <2>2, PatchIsFrame DEF RejectStatus
  <2>4. ASSUME failures' = 0, key \notin unsynced', key \notin queue', Undisturbed
        PROVE  pc' # "idle" /\ Undisturbed'
    <3>1. /\ store' = store /\ Patched(grant.active, to) = grant
          /\ grant.active => to.active = grant.active
      BY <1>0, <2>1, <2>2, <2>4, QuietPatch DEF Undisturbed
    <3>2. ~grant.active
      BY <2>1, <3>1
    <3> QED
      BY <1>3, <2>4, <3>1, <3>2 DEF RejectStatus, Undisturbed, SpecValid
  <2> QED
    BY <1>0, <1>3, <2>3, <2>4, FrameSettles DEF RejectStatus
<1>4. CASE RejectCondition
  <2>1. WithCondition(FALSE) \in Object /\ ConditionStale(FALSE) \in BOOLEAN
    BY <1>0 DEF TypeOK, Object, WithCondition, ConditionStale
  <2>2. StatusPatch(ConditionStale(FALSE), WithCondition(FALSE))
    BY <1>4 DEF RejectCondition
  <2>3. Frame
    BY <1>0, <1>4, <2>1, <2>2, PatchIsFrame DEF RejectCondition, Return
  <2>4. ASSUME failures' = 0, key \notin unsynced', key \notin queue', Undisturbed
        PROVE  pc' = "idle" /\ RightPolicy(key)'
    <3>1. store' = store
      BY <1>0, <2>1, <2>2, <2>4, QuietPatch DEF Undisturbed
    <3> QED
      BY <1>0, <1>4, <2>4, <3>1
         DEF RejectCondition, Return, Undisturbed, RightPolicy, Approved, SpecValid, TypeOK, Object, Policy
  <2> QED
    BY <1>0, <1>4, <2>3, <2>4, FrameSettles DEF RejectCondition
<1>5. CASE AcceptSpec
  <2>1. WithCondition(TRUE) \in Object /\ ConditionStale(TRUE) \in BOOLEAN
    BY <1>0 DEF TypeOK, Object, WithCondition, ConditionStale
  <2>2. StatusPatch(ConditionStale(TRUE), WithCondition(TRUE))
    BY <1>5 DEF AcceptSpec
  <2>3. Frame
    BY <1>0, <1>5, <2>1, <2>2, PatchIsFrame DEF AcceptSpec
  <2>4. ASSUME failures' = 0, key \notin unsynced', key \notin queue', Undisturbed
        PROVE  pc' # "idle" /\ Undisturbed'
    <3>1. store' = store /\ grant' = grant
      BY <1>0, <1>5, <2>1, <2>2, <2>4, QuietPatch DEF Undisturbed, AcceptSpec
    <3>2. SpecValid(grant)
      BY <1>5, <2>4 DEF AcceptSpec, Undisturbed
    <3> QED
      BY <1>5, <2>4, <3>1, <3>2 DEF AcceptSpec, Undisturbed, SpecValid
  <2> QED
    BY <1>0, <1>5, <2>3, <2>4, FrameSettles DEF AcceptSpec
<1>6. CASE RevokeDelete
  <2>1. Frame /\ (failures' = 0 => ~cnp'[key].present)
    BY <1>0, <1>6, DeleteFrame DEF RevokeDelete, Frame, SettleInv
  <2> QED
    BY <1>0, <1>6, <2>1, FrameSettles DEF RevokeDelete, Undisturbed, SpecValid
<1>7. CASE RevokeStatus
  <2> DEFINE to == [grant EXCEPT !.active = FALSE, !.expiresAt = 0, !.approvedAt = 0]
             needed == grant.active \/ grant.expiresAt # 0 \/ grant.approvedAt # 0
  <2>1. to \in Object /\ to.active = FALSE /\ needed \in BOOLEAN
    BY <1>0 DEF TypeOK, Object
  <2>2. StatusPatch(needed, to)
    BY <1>7 DEF RevokeStatus
  <2>3. Frame
    BY <1>0, <1>7, <2>1, <2>2, PatchIsFrame DEF RevokeStatus, Return
  <2>4. ASSUME failures' = 0, key \notin unsynced', key \notin queue', Undisturbed
        PROVE  pc' = "idle" /\ RightPolicy(key)'
    <3>1. store' = store /\ (needed => to.active = grant.active)
      BY <1>0, <2>1, <2>2, <2>4, QuietPatch DEF Undisturbed
    <3>2. ~grant.active
      BY <2>1, <3>1
    <3> QED
      BY <1>0, <1>7, <2>4, <3>1, <3>2
         DEF RevokeStatus, Return, Undisturbed, RightPolicy, Approved, SpecValid, TypeOK, Object, Policy
  <2> QED
    BY <1>0, <1>7, <2>3, <2>4, FrameSettles DEF RevokeStatus
<1>8. CASE StampApproval
  <2> DEFINE to == [grant EXCEPT !.approvedAt = now]
  <2>1. to \in Object
    BY <1>0 DEF TypeOK, Object
  <2>2. StatusPatch(grant.approvedAt = 0, to)
    BY <1>8 DEF StampApproval
  <2>3. Frame
    BY <1>0, <1>8, <2>1, <2>2, PatchIsFrame DEF StampApproval
  <2>4. ASSUME failures' = 0, key \notin unsynced', key \notin queue', Undisturbed
        PROVE  pc' # "idle" /\ Undisturbed'
    <3>1. store' = store /\ grant' = grant
      BY <1>0, <1>8, <2>1, <2>2, <2>4, QuietPatch DEF Undisturbed, StampApproval
    <3> QED
      BY <1>8, <2>4, <3>1 DEF StampApproval, Undisturbed, SpecValid
  <2> QED
    BY <1>0, <1>8, <2>3, <2>4, FrameSettles DEF StampApproval
<1>9. CASE StampExpiry
  <2> DEFINE desired == approvedAt + ttl
             late == grant.expiresAt = 0 \/ grant.expiresAt > desired
             to == [grant EXCEPT !.expiresAt = desired]
  <2>0. desired \in Nat
    BY <1>0 DEF TypeOK
  <2>1. to \in Object
    BY <1>0, <2>0 DEF TypeOK, Object
  <2>2. StatusPatch(late, to)
    BY <1>9 DEF StampExpiry
  <2>3. Frame
    BY <1>0, <1>9, <2>1, <2>2, PatchIsFrame DEF StampExpiry
  <2>4. ASSUME failures' = 0, key \notin unsynced', key \notin queue', Undisturbed
        PROVE  pc' # "idle" /\ Undisturbed'
    <3>1. /\ store' = store /\ grant' = grant
          /\ late => to.expiresAt = grant.expiresAt
      BY <1>0, <1>9, <2>1, <2>2, <2>4, QuietPatch DEF Undisturbed, StampExpiry
    <3>2. to.expiresAt = desired
      BY <1>0 DEF TypeOK, Object
    <3>3. expiresAt' = grant.expiresAt
      BY <1>9, <3>1, <3>2 DEF StampExpiry
    <3>4. pc' = "expireDelete" => clock' > grant'.expiresAt
      BY <1>0, <1>9, <3>1, <3>3 DEF StampExpiry, SettleInv, TypeOK, Object
    <3> QED
      BY <1>9, <2>4, <3>1, <3>4 DEF StampExpiry, Undisturbed, SpecValid
  <2> QED
    BY <1>0, <1>9, <2>3, <2>4, FrameSettles DEF StampExpiry
<1>10. CASE ExpireDelete
  <2>1. Frame /\ (failures' = 0 => ~cnp'[key].present)
    BY <1>0, <1>10, DeleteFrame DEF ExpireDelete, Frame, SettleInv
  <2> QED
    BY <1>0, <1>10, <2>1, FrameSettles DEF ExpireDelete, Undisturbed, SpecValid
<1>11. CASE ExpireStatus
  <2> DEFINE to == [grant EXCEPT !.active = FALSE]
  <2>1. to \in Object /\ to.active = FALSE /\ grant.active \in BOOLEAN
    BY <1>0 DEF TypeOK, Object
  <2>2. StatusPatch(grant.active, to)
    BY <1>11 DEF ExpireStatus
  <2>3. Frame
    BY <1>0, <1>11, <2>1, <2>2, PatchIsFrame DEF ExpireStatus, Return
  <2>4. ASSUME failures' = 0, key \notin unsynced', key \notin queue', Undisturbed
        PROVE  pc' = "idle" /\ RightPolicy(key)'
    <3>1. store' = store /\ (grant.active => to.active = grant.active)
      BY <1>0, <2>1, <2>2, <2>4, QuietPatch DEF Undisturbed
    <3>2. ~grant.active
      BY <2>1, <3>1
    <3>3. ~(clock <= store[key].expiresAt)
      BY <1>0, <1>11, <2>4 DEF ExpireStatus, Undisturbed, TypeOK, Object
    <3> QED
      BY <1>0, <1>11, <2>4, <3>1, <3>2, <3>3
         DEF ExpireStatus, Return, Undisturbed, RightPolicy, Approved, SpecValid, TypeOK, Object, Policy
  <2> QED
    BY <1>0, <1>11, <2>3, <2>4, FrameSettles DEF ExpireStatus
<1>12. CASE ApplyPolicy
  <2>1. CASE CallFails
    <3>1. failures' # 0
      BY <1>0, <2>1, ConstantsAssumption DEF TypeOK, CallFails
    <3>2. SettleInv
      OBVIOUS
    <3> QED
      BY <1>0, <1>12, <3>1 DEF ApplyPolicy, BuildEgress, Return, SettleInv, TypeOK
  <2>2. CASE ~CallFails
    <3>1. Frame /\ pc' = "activate" /\ cnp'[key].present /\ UNCHANGED <<grant, store>>
      BY <1>0, <1>12, <2>2 DEF ApplyPolicy, BuildEgress, Frame, SettleInv, TypeOK
    <3> QED
      BY <1>0, <1>12, <3>1, FrameSettles DEF ApplyPolicy, BuildEgress, Frame, Undisturbed, SpecValid
  <2> QED
    BY <2>1, <2>2
<1>13. CASE Activate
  <2> DEFINE to == [grant EXCEPT !.active = TRUE]
  <2>1. to \in Object /\ to.active = TRUE /\ (~grant.active) \in BOOLEAN
    BY <1>0 DEF TypeOK, Object
  <2>2. StatusPatch(~grant.active, to)
    BY <1>13 DEF Activate
  <2>3. Frame
    BY <1>0, <1>13, <2>1, <2>2, PatchIsFrame DEF Activate, Return
  <2>4. ASSUME failures' = 0, key \notin unsynced', key \notin queue', Undisturbed
        PROVE  pc' = "idle" /\ RightPolicy(key)'
    <3>1. store' = store /\ (~grant.active => to.active = grant.active)
      BY <1>0, <2>1, <2>2, <2>4, QuietPatch DEF Undisturbed
    <3>2. grant.active
      BY <2>1, <3>1
    <3> QED
      BY <1>0, <1>13, <2>4, <3>1, <3>2
         DEF Activate, Return, Undisturbed, RightPolicy, Approved, SpecValid, TypeOK, Object, Policy
  <2> QED
    BY <1>0, <1>13, <2>3, <2>4, FrameSettles DEF Activate
<1> QED
  BY <1>1, <1>2, <1>3, <1>4, <1>5, <1>6, <1>7, <1>8, <1>9, <1>10, <1>11, <1>12,
     <1>13 DEF Worker

\* Every other step keeps SettleInv: what it writes raises an event.
LEMMA EnvironmentSettles == SettleInv /\ Next /\ ~Worker => SettleInv'
<1> SUFFICES ASSUME SettleInv, Next, ~Worker PROVE SettleInv'
  OBVIOUS
<1> USE DEF server, worker, faults
<1>0. TypeOK /\ TypeOK'
  BY EnvironmentType DEF SettleInv
<1>1. ASSUME NEW h \in Grants, NEW o,
             store' = [store EXCEPT ![h] = o], unsynced' = unsynced \cup {h},
             UNCHANGED <<clock, cnp, cache, queue, timer, worker, faults>>
      PROVE  SettleInv'
  <2>1. \A g \in Grants : g \notin unsynced' => g # h /\ store'[g] = store[g] /\ g \notin unsynced
    BY <1>0, <1>1 DEF TypeOK
  <2>2. ASSUME failures' = 0, NEW g \in Grants, Quiet(g)'
        PROVE  IF Busy(g)' THEN Undisturbed' ELSE RightPolicy(g)'
    <3>1. store'[g] = store[g] /\ Quiet(g)
      BY <1>1, <2>1, <2>2 DEF Quiet
    <3>2. CASE Busy(g)
      <4>1. Undisturbed
        BY <1>1, <2>2, <3>1, <3>2 DEF SettleInv
      <4> QED
        BY <1>1, <3>1, <3>2, <4>1 DEF Busy, Undisturbed, SpecValid
    <3>3. CASE ~Busy(g)
      <4>1. RightPolicy(g)
        BY <1>1, <2>2, <3>1, <3>3 DEF SettleInv
      <4> QED
        BY <1>1, <3>1, <3>3, <4>1 DEF Busy, RightPolicy, Approved, SpecValid
    <3> QED
      BY <3>2, <3>3
  <2> QED
    BY <1>0, <1>1, <2>1, <2>2 DEF SettleInv
<1>2. ASSUME NEW g \in Grants,
             \/ \E t \in TTLs, m \in RequestModes : CreateGrant(g, t, m)
             \/ \E t \in TTLs : CreateAutoGrant(g, t)
             \/ \E o : WriteSpec(g, o)
             \/ DeleteGrant(g)
      PROVE  SettleInv'
  BY <1>1, <1>2 DEF CreateGrant, CreateAutoGrant, WriteSpec, DeleteGrant
<1>3. ASSUME NEW h \in Grants, TimerFire(h) \/ Resync(h)
      PROVE  SettleInv'
  <2>1. ASSUME failures' = 0, NEW g \in Grants, Quiet(g)'
        PROVE  IF Busy(g)' THEN Undisturbed' ELSE RightPolicy(g)'
    <3>1. Quiet(g)
      BY <1>3, <2>1 DEF TimerFire, Resync, Quiet
    <3> QED
      BY <1>3, <2>1, <3>1
         DEF SettleInv, TimerFire, Resync, Busy, Undisturbed, RightPolicy, Approved, SpecValid
  <2> QED
    BY <1>0, <1>3, <2>1 DEF SettleInv, TimerFire, Resync
<1>4. ASSUME NEW h \in Grants, CacheSync(h) PROVE SettleInv'
  <2>1. \A g \in Grants : g \notin unsynced' => cache'[g] = store'[g]
    BY <1>0, <1>4 DEF SettleInv, CacheSync, TypeOK
  <2>2. ASSUME failures' = 0, NEW g \in Grants, Quiet(g)'
        PROVE  IF Busy(g)' THEN Undisturbed' ELSE RightPolicy(g)'
    <3>1. Quiet(g)
      BY <1>4, <2>2 DEF CacheSync, Quiet
    <3> QED
      BY <1>4, <2>2, <3>1
         DEF SettleInv, CacheSync, Busy, Undisturbed, RightPolicy, Approved, SpecValid
  <2> QED
    BY <1>0, <1>4, <2>1, <2>2 DEF SettleInv, CacheSync
<1>5. ASSUME NEW h \in Grants, CollectPolicy(h) PROVE SettleInv'
  <2>1. ASSUME failures' = 0, NEW g \in Grants, Quiet(g)'
        PROVE  IF Busy(g)' THEN Undisturbed' ELSE RightPolicy(g)'
    <3>1. Quiet(g) /\ failures = 0 /\ (Busy(g)' <=> Busy(g))
      BY <1>5, <2>1 DEF CollectPolicy, Quiet, Busy
    <3>2. CASE g = h
      BY <1>5, <3>1, <3>2 DEF SettleInv, CollectPolicy, Undisturbed, RightPolicy, Busy
    <3>3. CASE g # h
      <4>1. cnp'[g] = cnp[g]
        BY <1>0, <1>5, <3>3 DEF CollectPolicy, TypeOK
      <4> QED
        BY <1>5, <3>1, <4>1
           DEF SettleInv, CollectPolicy, Busy, Undisturbed, RightPolicy, Approved, SpecValid
    <3> QED
      BY <3>2, <3>3
  <2> QED
    BY <1>0, <1>5, <2>1 DEF SettleInv, CollectPolicy
<1>6. CASE Restart
  <2>1. ASSUME NEW g \in Grants, Quiet(g)' PROVE ~Busy(g)' /\ RightPolicy(g)'
    BY <1>6, <2>1 DEF Restart, Return, Quiet, Busy, RightPolicy
  <2> QED
    BY <1>0, <1>6, <2>1 DEF SettleInv, Restart, Return, TypeOK
<1>7. CASE Tick
  <2>1. \A g \in Grants : store[g].expiresAt \in Nat
    BY <1>0 DEF TypeOK, Object
  <2>2. ASSUME failures' = 0, NEW g \in Grants, Quiet(g)'
        PROVE  IF Busy(g)' THEN Undisturbed' ELSE RightPolicy(g)'
    <3>1. Quiet(g) /\ failures = 0 /\ (Busy(g)' <=> Busy(g))
      BY <1>7, <2>2 DEF Tick, Quiet, Busy
    <3>2. CASE Busy(g)
      <4>1. Undisturbed /\ key = g
        BY <3>1, <3>2 DEF SettleInv, Busy
      <4>2. clock > grant.expiresAt => clock' > grant'.expiresAt
        BY <1>0, <1>7, <2>1, <4>1 DEF Tick, Undisturbed, TypeOK
      <4> QED
        BY <1>7, <3>1, <3>2, <4>1, <4>2 DEF Tick, Undisturbed, SpecValid
    <3>3. CASE ~Busy(g)
      <4>1. RightPolicy(g)
        BY <3>1, <3>3 DEF SettleInv
      <4>2. clock' <= store'[g].expiresAt => clock <= store[g].expiresAt
        BY <1>0, <1>7, <2>1 DEF Tick, TypeOK
      <4> QED
        BY <1>7, <3>1, <3>3, <4>1, <4>2 DEF Tick, RightPolicy, Approved, SpecValid
    <3> QED
      BY <3>2, <3>3
  <2>3. now' <= clock'
    BY <1>0, <1>7 DEF SettleInv, Tick, TypeOK
  <2> QED
    BY <1>0, <1>7, <2>2, <2>3 DEF SettleInv, Tick
<1> QED
  BY <1>2, <1>3, <1>4, <1>5, <1>6, <1>7 DEF Next, ApproveGrant, EditGrant

\* Nothing exists initially.
LEMMA InitSettles == Init => SettleInv
<1> SUFFICES ASSUME Init PROVE SettleInv
  OBVIOUS
<1>1. \A g \in Grants : ~Busy(g) /\ RightPolicy(g)
  BY DEF Init, Busy, RightPolicy, NoObject, NewObject
<1> QED
  BY <1>1, InitType DEF Init, SettleInv

\* When no call has failed, a grant the reconciler has caught up with has a
\* policy exactly as its spec and expiry ask, whatever was written while it was
\* being reconciled, however stale the reads and across restarts.
THEOREM SettledRight == Spec => []SettledPolicy
<1>1. SettleInv /\ [Next]_vars => SettleInv'
  <2>1. CASE UNCHANGED vars
    <3>1. TypeOK => TypeOK'
      BY <2>1 DEF TypeOK, vars, server, worker, faults
    <3> QED
      BY <2>1, <3>1
         DEF SettleInv, Quiet, Busy, Undisturbed, RightPolicy, Approved, SpecValid,
             vars, server, worker, faults
  <2> QED
    BY <2>1, WorkerSettles, EnvironmentSettles
<1>2. SettleInv => SettledPolicy
  BY DEF SettleInv, SettledPolicy, Settled, Quiet, Busy, RightPolicy
<1> QED
  BY <1>1, <1>2, InitSettles, PTL DEF Spec

=============================================================================
