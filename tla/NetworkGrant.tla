----------------------------- MODULE NetworkGrant -----------------------------
(***************************************************************************)
(* The life of a NetworkGrant: the capability broker (or a cluster         *)
(* administrator) writes its spec, the operator's NetworkGrantReconciler   *)
(* turns it into a CiliumNetworkPolicy ("cnp") and writes its status.      *)
(*                                                                         *)
(* One worker runs Reconcile, one API call per step, so that spec writes,  *)
(* clock ticks, cache updates, failed calls and operator restarts fall     *)
(* between any two calls.  The reconciler reads the informer cache, which  *)
(* lags the API server, and every successful status patch replaces its     *)
(* working copy by the server's current object (client.Patch decodes the   *)
(* answer into it), spec included.                                         *)
(*                                                                         *)
(* Time is a logical clock starting at 1; 0 stands for Go's zero time.     *)
(***************************************************************************)
EXTENDS Integers

CONSTANTS
  Grants,         \* names of NetworkGrant objects
  TTLs,           \* values of spec.ttlSeconds (int32: may be 0 or negative)
  RequestModes,   \* values of spec.policyMode that requests ask for
  DefaultTTL,     \* networkGrantDefaultTTLSeconds
  MaxTTLSeconds,  \* NetworkGrantReconciler.MaxTTLSeconds, 0 disables the cap
  MaxTime,        \* bound: the clock stops here
  MaxGeneration,  \* bound: spec versions per object
  MaxFaults       \* bound: API calls that fail and operator restarts together

ASSUME ConstantsAssumption ==
  /\ TTLs \subseteq Int /\ TTLs # {}
  /\ RequestModes \subseteq {"STRICT_FQDN", "PROXY_CONNECT"}
  /\ DefaultTTL \in Nat \ {0}
  /\ MaxTTLSeconds \in Nat
  /\ MaxTime \in Nat \ {0}
  /\ MaxGeneration \in Nat \ {0}
  /\ MaxFaults \in Nat

VARIABLES
  clock,      \* time.Now()
  store,      \* API server: the NetworkGrant objects
  cnp,        \* API server: the CiliumNetworkPolicy of each grant
  unsynced,   \* grants with a watch event the informer has not seen
  cache,      \* the operator's informer cache
  queue,      \* the controller's workqueue
  timer,      \* RequeueAfter: when the key is added again, 0 if never
  pc,         \* the API call Reconcile is about to make, "idle" between calls
  key,        \* the request being reconciled
  grant,      \* Reconcile's working copy
  now,        \* Reconcile's now, set once per call
  ttl,        \* Reconcile's ttl
  approvedAt, \* Reconcile's approvedAt
  expiresAt,  \* Reconcile's expiresAt
  failures,   \* API calls that have failed
  crashes     \* operator restarts so far

server == <<store, cnp, unsynced>>
worker == <<pc, key, grant, now, ttl, approvedAt, expiresAt>>
faults == <<failures, crashes>>
vars   == <<clock, server, cache, queue, timer, worker, faults>>

-----------------------------------------------------------------------------
(* Objects *)

Modes == {"STRICT_FQDN", "PROXY_CONNECT"}

\* Spec and status of a NetworkGrant. "wellFormed" stands for the parts of the
\* spec that validation looks at and the approval flow never writes (selector,
\* purpose, mode, protocol, destinations, ports, DNS names); "named" says that
\* approvedBy is not blank; condOK/condGen are the SpecValid condition and its
\* observedGeneration (0: the condition has not been set).
Object == [present: BOOLEAN, gen: Nat,
           approved: BOOLEAN, named: BOOLEAN, ttl: TTLs,
           wellFormed: BOOLEAN, mode: Modes,
           active: BOOLEAN, approvedAt: Nat, expiresAt: Nat,
           condOK: BOOLEAN, condGen: Nat]

\* The policy of a grant; "sound" says that its egress rules, if it has any,
\* come from a spec that passes validation.
Policy == [present: BOOLEAN, sound: BOOLEAN]

NoPolicy == [present |-> FALSE, sound |-> TRUE]

\* A newly created grant: handleCreateNetworkGrant always writes Approved: false.
NewObject(t, wf, m) ==
  [present |-> TRUE, gen |-> 1, approved |-> FALSE, named |-> FALSE, ttl |-> t,
   wellFormed |-> wf, mode |-> m, active |-> FALSE, approvedAt |-> 0,
   expiresAt |-> 0, condOK |-> FALSE, condGen |-> 0]

\* A name that no object has had yet.
NoObject == [NewObject(CHOOSE t \in TTLs : TRUE, TRUE, "STRICT_FQDN")
               EXCEPT !.present = FALSE, !.gen = 0]

PCs == {"idle", "rejectDelete", "rejectStatus", "rejectCond", "accept",
        "revokeDelete", "revokeStatus", "stampApproval", "stampExpiry",
        "expireDelete", "expireStatus", "apply", "activate"}

\* resolveNetworkGrantTTLSeconds: the error case ...
TTLAllowed(requested) ==
  ~(requested > 0 /\ MaxTTLSeconds > 0 /\ requested > MaxTTLSeconds)

\* Mutant: the cap is not applied to the default.
ResolveTTLUncappedDefault(requested) ==
  IF requested > 0 THEN requested ELSE DefaultTTL

\* ... and the value it returns otherwise.
ResolveTTL(requested) ==
  IF requested > 0 THEN requested
  ELSE IF MaxTTLSeconds > 0 /\ DefaultTTL > MaxTTLSeconds
       THEN MaxTTLSeconds ELSE DefaultTTL

\* validateAndResolveNetworkGrantMatchLabels returns no error.
SpecValid(o) ==
  /\ o.wellFormed
  /\ o.approved => o.named
  /\ TTLAllowed(o.ttl)

\* The merge patch client.MergeFrom(from) sends for the working copy "to", as
\* the server applies it to its own object: only fields that differ are written.
MergePatch(o, from, to) ==
  [o EXCEPT
     !.active     = IF from.active # to.active THEN to.active ELSE o.active,
     !.approvedAt = IF from.approvedAt # to.approvedAt
                    THEN to.approvedAt ELSE o.approvedAt,
     !.expiresAt  = IF from.expiresAt # to.expiresAt
                    THEN to.expiresAt ELSE o.expiresAt,
     !.condOK     = IF <<from.condOK, from.condGen>> # <<to.condOK, to.condGen>>
                    THEN to.condOK ELSE o.condOK,
     !.condGen    = IF <<from.condOK, from.condGen>> # <<to.condOK, to.condGen>>
                    THEN to.condGen ELSE o.condGen]

-----------------------------------------------------------------------------
(* API calls of the reconciler *)

CallFails ==
  /\ failures + crashes < MaxFaults
  /\ failures' = failures + 1
  /\ UNCHANGED crashes

\* _ = r.Status().Patch(ctx, &grant, patch) with the working copy changed to
\* "to", made only when "needed": the patch reaches the object, or the object is
\* gone, or the call fails. The error is ignored in each case.
StatusPatch(needed, to) ==
  \/ LET merged == MergePatch(store[key], grant, to) IN
     /\ needed /\ store[key].present
     /\ store' = [store EXCEPT ![key] = merged]
     /\ unsynced' = IF merged = store[key] THEN unsynced ELSE unsynced \cup {key}
     /\ UNCHANGED faults
  \/ needed /\ CallFails /\ UNCHANGED <<store, unsynced>>
  \/ /\ ~needed \/ ~store[key].present
     /\ UNCHANGED <<store, unsynced, faults>>

\* The working copy afterwards: the server's answer if there was one; a failed
\* patch leaves the change in memory.
Patched(needed, to) ==
  IF ~needed THEN grant
  ELSE IF store[key].present /\ failures' = failures THEN store'[key] ELSE to

\* _ = r.Delete(ctx, cnp)
DeletePolicy ==
  \/ /\ cnp' = [cnp EXCEPT ![key] = NoPolicy]
     /\ UNCHANGED faults
  \/ CallFails /\ UNCHANGED cnp

\* setNetworkGrantSpecValidCondition: patches only when the condition, its
\* observedGeneration included, changes.
ConditionStale(ok) == grant.condOK # ok \/ grant.condGen # grant.gen

WithCondition(ok) == [grant EXCEPT !.condOK = ok, !.condGen = grant.gen]

-----------------------------------------------------------------------------
(* NetworkGrantReconciler.Reconcile *)

\* Reconcile returns: its local state is gone.
Return ==
  /\ pc' = "idle"
  /\ grant' = NoObject
  /\ now' = 0 /\ ttl' = 0 /\ approvedAt' = 0 /\ expiresAt' = 0

\* r.Get from the informer cache, then validation of what was read.
Reconcile(g) ==
  /\ pc = "idle"
  /\ g \in queue
  /\ queue' = queue \ {g}
  /\ key' = g
  /\ IF cache[g].present
     THEN /\ grant' = cache[g]
          /\ pc' = IF SpecValid(cache[g]) THEN "accept" ELSE "rejectDelete"
          /\ UNCHANGED <<now, ttl, approvedAt, expiresAt>>
     ELSE Return
  /\ UNCHANGED <<clock, server, cache, timer, faults>>

RejectDelete ==
  /\ pc = "rejectDelete"
  /\ DeletePolicy
  /\ pc' = "rejectStatus"
  /\ UNCHANGED <<clock, store, unsynced, cache, queue, timer, key, grant, now,
                 ttl, approvedAt, expiresAt>>

RejectStatus ==
  LET to == [grant EXCEPT !.active = FALSE]
  IN  /\ pc = "rejectStatus"
      /\ StatusPatch(grant.active, to)
      /\ grant' = Patched(grant.active, to)
      /\ pc' = "rejectCond"
      /\ UNCHANGED <<clock, cnp, cache, queue, timer, key, now, ttl, approvedAt,
                     expiresAt>>

RejectCondition ==
  /\ pc = "rejectCond"
  /\ StatusPatch(ConditionStale(FALSE), WithCondition(FALSE))
  /\ Return
  /\ UNCHANGED <<clock, cnp, cache, queue, timer, key>>

\* The condition is set, then approval and TTL are read from the working copy
\* (which the patch may have refreshed) and the time is taken.
AcceptSpec ==
  /\ pc = "accept"
  /\ StatusPatch(ConditionStale(TRUE), WithCondition(TRUE))
  /\ grant' = Patched(ConditionStale(TRUE), WithCondition(TRUE))
  /\ pc' = IF ~grant'.approved THEN "revokeDelete"
           ELSE IF ~TTLAllowed(grant'.ttl) THEN "rejectDelete"
           ELSE "stampApproval"
  /\ IF pc' = "stampApproval"
     THEN now' = clock /\ ttl' = ResolveTTL(grant'.ttl)
     ELSE UNCHANGED <<now, ttl>>
  /\ UNCHANGED <<clock, cnp, cache, queue, timer, key, approvedAt, expiresAt>>

\* Mutant: the policy is deleted only when status.active says there is one.
RevokeDeleteIfActive ==
  /\ pc = "revokeDelete"
  /\ IF grant.active THEN DeletePolicy ELSE UNCHANGED <<cnp, faults>>
  /\ pc' = "revokeStatus"
  /\ UNCHANGED <<clock, store, unsynced, cache, queue, timer, key, grant, now,
                 ttl, approvedAt, expiresAt>>

RevokeDelete ==
  /\ pc = "revokeDelete"
  /\ DeletePolicy
  /\ pc' = "revokeStatus"
  /\ UNCHANGED <<clock, store, unsynced, cache, queue, timer, key, grant, now,
                 ttl, approvedAt, expiresAt>>

RevokeStatus ==
  /\ pc = "revokeStatus"
  /\ StatusPatch(grant.active \/ grant.expiresAt # 0 \/ grant.approvedAt # 0,
                 [grant EXCEPT !.active = FALSE, !.expiresAt = 0, !.approvedAt = 0])
  /\ Return
  /\ UNCHANGED <<clock, cnp, cache, queue, timer, key>>

StampApproval ==
  LET first == grant.approvedAt = 0
      to    == [grant EXCEPT !.approvedAt = now]
  IN  /\ pc = "stampApproval"
      /\ approvedAt' = IF first THEN now ELSE grant.approvedAt
      /\ StatusPatch(first, to)
      /\ grant' = Patched(first, to)
      /\ pc' = "stampExpiry"
      /\ UNCHANGED <<clock, cnp, cache, queue, timer, key, now, ttl, expiresAt>>

\* Mutant: expiresAt is rewritten whenever it differs from the desired one.
StampExpiryAlways ==
  LET desired == approvedAt + ttl
      late    == grant.expiresAt # desired
      to      == [grant EXCEPT !.expiresAt = desired]
  IN  /\ pc = "stampExpiry"
      /\ expiresAt' = IF late THEN desired ELSE grant.expiresAt
      /\ StatusPatch(late, to)
      /\ grant' = Patched(late, to)
      /\ pc' = IF now > expiresAt' THEN "expireDelete" ELSE "apply"
      /\ UNCHANGED <<clock, cnp, cache, queue, timer, key, now, ttl, approvedAt>>

\* Mutant: the expiry is compared with the approval time instead of now.
StampExpiryNotTested ==
  LET desired == approvedAt + ttl
      late    == grant.expiresAt = 0 \/ grant.expiresAt > desired
      to      == [grant EXCEPT !.expiresAt = desired]
  IN  /\ pc = "stampExpiry"
      /\ expiresAt' = IF late THEN desired ELSE grant.expiresAt
      /\ StatusPatch(late, to)
      /\ grant' = Patched(late, to)
      /\ pc' = IF approvedAt > expiresAt' THEN "expireDelete" ELSE "apply"
      /\ UNCHANGED <<clock, cnp, cache, queue, timer, key, now, ttl, approvedAt>>

\* expiresAt is set, or brought forward when the TTL has become shorter; it is
\* never pushed back. Then the expiry test, against the time taken earlier.
StampExpiry ==
  LET desired == approvedAt + ttl
      late    == grant.expiresAt = 0 \/ grant.expiresAt > desired
      to      == [grant EXCEPT !.expiresAt = desired]
  IN  /\ pc = "stampExpiry"
      /\ expiresAt' = IF late THEN desired ELSE grant.expiresAt
      /\ StatusPatch(late, to)
      /\ grant' = Patched(late, to)
      /\ pc' = IF now > expiresAt' THEN "expireDelete" ELSE "apply"
      /\ UNCHANGED <<clock, cnp, cache, queue, timer, key, now, ttl, approvedAt>>

ExpireDelete ==
  /\ pc = "expireDelete"
  /\ DeletePolicy
  /\ pc' = "expireStatus"
  /\ UNCHANGED <<clock, store, unsynced, cache, queue, timer, key, grant, now,
                 ttl, approvedAt, expiresAt>>

ExpireStatus ==
  /\ pc = "expireStatus"
  /\ StatusPatch(grant.active, [grant EXCEPT !.active = FALSE])
  /\ Return
  /\ UNCHANGED <<clock, cnp, cache, queue, timer, key>>

\* buildCiliumNetworkGrantEgress: the DNS rules come from the validated spec, the
\* egress rules of STRICT_FQDN from the working copy as it is now.
BuildEgress(o) == [present |-> TRUE, sound |-> o.mode = "STRICT_FQDN" => o.wellFormed]

\* controllerutil.CreateOrUpdate of the policy; its error is returned and the
\* key is queued again.
ApplyPolicy ==
  /\ pc = "apply"
  /\ \/ /\ cnp' = [cnp EXCEPT ![key] = BuildEgress(grant)]
        /\ pc' = "activate"
        /\ UNCHANGED <<queue, grant, now, ttl, approvedAt, expiresAt, faults>>
     \/ /\ CallFails
        /\ Return
        /\ queue' = queue \cup {key}
        /\ UNCHANGED cnp
  /\ UNCHANGED <<clock, store, unsynced, cache, timer, key>>

\* The workqueue keeps the earliest time a key is to be added again.
Earliest(t, u) == IF t = 0 \/ u < t THEN u ELSE t

\* status.active, then Result{RequeueAfter: time.Until(expiresAt)}, which asks
\* for nothing when it is not positive.
Activate ==
  /\ pc = "activate"
  /\ StatusPatch(~grant.active, [grant EXCEPT !.active = TRUE])
  /\ timer' = IF clock < expiresAt
              THEN [timer EXCEPT ![key] = Earliest(timer[key], expiresAt)]
              ELSE timer
  /\ Return
  /\ UNCHANGED <<clock, cnp, cache, queue, key>>

Worker ==
  \/ \E g \in Grants : Reconcile(g)
  \/ RejectDelete \/ RejectStatus \/ RejectCondition
  \/ AcceptSpec
  \/ RevokeDelete \/ RevokeStatus
  \/ StampApproval \/ StampExpiry
  \/ ExpireDelete \/ ExpireStatus
  \/ ApplyPolicy \/ Activate

-----------------------------------------------------------------------------
(* The broker and the administrator: spec writes *)

\* A write to the spec of an existing object bumps its generation.
WriteSpec(g, o) ==
  /\ store[g].present
  /\ store[g].gen < MaxGeneration
  /\ store' = [store EXCEPT ![g] = [o EXCEPT !.gen = store[g].gen + 1]]
  /\ unsynced' = unsynced \cup {g}
  /\ UNCHANGED <<clock, cnp, cache, queue, timer, worker, faults>>

\* handleCreateNetworkGrant: the broker validates the destinations (so the
\* object is well formed) but not the TTL.
CreateGrant(g, t, m) ==
  /\ store[g].gen = 0
  /\ store' = [store EXCEPT ![g] = NewObject(t, TRUE, m)]
  /\ unsynced' = unsynced \cup {g}
  /\ UNCHANGED <<clock, cnp, cache, queue, timer, worker, faults>>

\* handleCreateAgentJob: the automatic grant for GitHub, approved from the start.
CreateAutoGrant(g, t) ==
  /\ store[g].gen = 0
  /\ t > 0
  /\ store' = [store EXCEPT ![g] = [NewObject(t, TRUE, "PROXY_CONNECT")
                                      EXCEPT !.approved = TRUE, !.named = TRUE]]
  /\ unsynced' = unsynced \cup {g}
  /\ UNCHANGED <<clock, cnp, cache, queue, timer, worker, faults>>

\* handleApproveNetworkGrant (named may be FALSE: a blank, non-empty approvedBy
\* passes its check) and handleApproveNetworkGrantGitHub; any TTL is stored.
ApproveGrant(g, named, t) ==
  LET o == [store[g] EXCEPT !.approved = TRUE, !.named = named, !.ttl = t]
  IN  o # store[g] /\ WriteSpec(g, o)

\* A direct edit of the object: approval withdrawn, or destinations changed to
\* ones that fail (or pass again) the controller's validation.
EditGrant(g, a, wf) ==
  LET o == [store[g] EXCEPT !.approved = a, !.wellFormed = wf]
  IN  o # store[g] /\ WriteSpec(g, o)

\* Deletion, by the AgentJob controller, the owner's garbage collection or hand.
DeleteGrant(g) ==
  /\ store[g].present
  /\ store' = [store EXCEPT ![g].present = FALSE]
  /\ unsynced' = unsynced \cup {g}
  /\ UNCHANGED <<clock, cnp, cache, queue, timer, worker, faults>>

-----------------------------------------------------------------------------
(* Kubernetes and controller-runtime *)

\* A watch event: the cache takes the current object and the key is queued.
CacheSync(g) ==
  /\ g \in unsynced
  /\ cache' = [cache EXCEPT ![g] = store[g]]
  /\ unsynced' = unsynced \ {g}
  /\ queue' = queue \cup {g}
  /\ UNCHANGED <<clock, store, cnp, timer, worker, faults>>

\* The requeue falls strictly after the instant it was asked for.
TimerFire(g) ==
  /\ timer[g] # 0
  /\ clock > timer[g]
  /\ timer' = [timer EXCEPT ![g] = 0]
  /\ queue' = queue \cup {g}
  /\ UNCHANGED <<clock, server, cache, worker, faults>>

\* The informer's periodic resync (SyncPeriod, 10 hours).
Resync(g) ==
  /\ cache[g].present
  /\ g \notin queue
  /\ queue' = queue \cup {g}
  /\ UNCHANGED <<clock, server, cache, timer, worker, faults>>

\* Garbage collection of a policy whose controller reference is gone.
CollectPolicy(g) ==
  /\ ~store[g].present
  /\ cnp[g].present
  /\ cnp' = [cnp EXCEPT ![g] = NoPolicy]
  /\ UNCHANGED <<clock, store, unsynced, cache, queue, timer, worker, faults>>

\* The operator stops between two API calls and starts again: queue, timers and
\* working state are lost, the informer lists every object afresh.
Restart ==
  /\ failures + crashes < MaxFaults
  /\ crashes' = crashes + 1
  /\ Return
  /\ cache' = store
  /\ unsynced' = {}
  /\ queue' = {g \in Grants : store[g].present}
  /\ timer' = [g \in Grants |-> 0]
  /\ UNCHANGED <<clock, store, cnp, key, failures>>

Tick ==
  /\ clock < MaxTime
  /\ clock' = clock + 1
  /\ UNCHANGED <<server, cache, queue, timer, worker, faults>>

-----------------------------------------------------------------------------

Init ==
  /\ clock = 1
  /\ store = [g \in Grants |-> NoObject]
  /\ cnp = [g \in Grants |-> NoPolicy]
  /\ unsynced = {}
  /\ cache = store
  /\ queue = {}
  /\ timer = [g \in Grants |-> 0]
  /\ pc = "idle"
  /\ key \in Grants
  /\ grant = NoObject
  /\ now = 0 /\ ttl = 0 /\ approvedAt = 0 /\ expiresAt = 0
  /\ failures = 0 /\ crashes = 0

Next ==
  \/ Worker
  \/ \E g \in Grants :
       \/ \E t \in TTLs : \E m \in RequestModes : CreateGrant(g, t, m)
       \/ \E t \in TTLs : CreateAutoGrant(g, t)
       \/ \E t \in TTLs : \E n \in BOOLEAN : ApproveGrant(g, n, t)
       \/ \E a \in BOOLEAN : \E wf \in BOOLEAN : EditGrant(g, a, wf)
       \/ DeleteGrant(g)
       \/ CacheSync(g) \/ TimerFire(g) \/ Resync(g) \/ CollectPolicy(g)
  \/ Restart
  \/ Tick

\* The controller's goroutines, the informer and the garbage collector keep
\* running, and time passes; nobody has to create, approve or edit anything.
Fairness ==
  /\ WF_vars(Worker)
  /\ WF_vars(Tick)
  /\ \A g \in Grants : /\ WF_vars(CacheSync(g))
                        /\ WF_vars(TimerFire(g))
                        /\ WF_vars(Resync(g))
                        /\ WF_vars(CollectPolicy(g))

Spec == Init /\ [][Next]_vars

FairSpec == Spec /\ Fairness

-----------------------------------------------------------------------------
(* Properties *)

TypeOK ==
  /\ clock \in Nat
  /\ store \in [Grants -> Object]
  /\ cnp \in [Grants -> Policy]
  /\ unsynced \subseteq Grants
  /\ cache \in [Grants -> Object]
  /\ queue \subseteq Grants
  /\ timer \in [Grants -> Nat]
  /\ pc \in PCs
  /\ key \in Grants
  /\ grant \in Object
  /\ now \in Nat /\ ttl \in Nat /\ approvedAt \in Nat /\ expiresAt \in Nat
  /\ failures \in 0..MaxFaults
  /\ crashes \in 0..MaxFaults

\* Whatever TTL is requested or approved, however often the grant is approved
\* again, withdrawn or reconciled from a stale cache, and across restarts, no
\* grant ever carries an expiry, and the controller never sleeps, further than
\* the operator's cap from now.
LifetimeCap ==
  MaxTTLSeconds > 0 =>
    \A g \in Grants : /\ store[g].expiresAt <= clock + MaxTTLSeconds
                      /\ timer[g] <= clock + MaxTTLSeconds

\* Reconcile has nothing left to do for g: no event on its way, no request
\* queued, no call in progress.
Settled(g) ==
  /\ g \notin unsynced \cup queue
  /\ pc # "idle" => key # g

Approved(o) == o.present /\ o.approved /\ SpecValid(o)

\* Unless a call failed, once the reconciler has caught up with a grant its
\* policy exists only for an approved and valid spec, status.active says
\* whether it exists, and an approved and valid grant has it until it expires.
SettledPolicy ==
  failures = 0 =>
    \A g \in Grants : Settled(g) /\ store[g].present =>
      /\ cnp[g].present => Approved(store[g])
      /\ store[g].active <=> cnp[g].present
      /\ Approved(store[g]) /\ clock <= store[g].expiresAt => cnp[g].present

\* An expiry is pushed back only by a Reconcile that had not seen it: on a
\* working copy that agrees with the server, neither another approval nor a
\* longer TTL extends a grant (a later expiry needs the approval withdrawn).
NoExtension ==
  [][\A g \in Grants :
       store[g].expiresAt # 0 /\ store'[g].expiresAt > store[g].expiresAt
         => key = g /\ grant.expiresAt # store[g].expiresAt]_vars

\* The grant's policy may be in force.
InForce(g) == Approved(store[g]) /\ (store[g].expiresAt # 0 => clock <= store[g].expiresAt)

\* A policy whose grant is withdrawn, invalid, expired or deleted is removed,
\* also when calls fail and the operator restarts (at the latest by the
\* informer's resync), unless the grant comes into force again.
PolicyRemoved == \A g \in Grants : ~InForce(g) ~> (~cnp[g].present \/ InForce(g))

-----------------------------------------------------------------------------
(* What a comment or a document says and the code does not do *)

\* networkgrant_controller.go:73 "If not approved, ensure policy doesn't exist.":
\* once the reconciler has caught up, an unapproved (valid) grant has no policy.
UnapprovedHasNoPolicy ==
  \A g \in Grants :
    Settled(g) /\ store[g].present /\ SpecValid(store[g]) /\ ~store[g].approved
      => ~cnp[g].present

\* networkgrant_controller.go:58 "the controller must ensure invalid requests
\* never produce enforceable network policy": every egress rule of a policy
\* comes from a spec that passed validation.
InvalidNeverEnforced == \A g \in Grants : cnp[g].present => cnp[g].sound

\* networkgrant_controller.go:191 "Requeue at expiry boundary.": a policy the
\* reconciler has left in place has a wake-up pending.
RequeuedAtExpiry ==
  \A g \in Grants : Settled(g) /\ store[g].present /\ cnp[g].present => timer[g] # 0

=============================================================================
