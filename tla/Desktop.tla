------------------------------- MODULE Desktop -------------------------------
(***************************************************************************)
(* The Desktop controller (DesktopReconciler) for one Desktop: autosuspend,*)
(* the relay token, the home claim with its resets and the retention of    *)
(* old homes, and the Deployment that is made of them.                     *)
(*                                                                         *)
(* Reconcile reads the Desktop from the informer's cache; a status patch   *)
(* that succeeds replaces the working copy d by the server's object, one   *)
(* that fails leaves its change in d.  Children are read as they are: a    *)
(* write based on a stale read is refused, which is a failed call.         *)
(* Authorized keys and the Service depend on nothing that is modelled and  *)
(* are left out; of status.phase and the conditions only that their patch  *)
(* renews the working copy.  The operator is configured for relay mode.    *)
(***************************************************************************)
EXTENDS Integers, FiniteSets

CONSTANTS
  PerSecond,    \* ticks per second: metav1.Time keeps whole seconds
  IdleTimeout,  \* spec.idleTimeoutSeconds in ticks, 0: no autosuspend
  TokenTTL,     \* DesktopRelayJWTTTL
  RenewBefore,  \* renewBefore
  Retain,       \* spec.home.reset.retainOldClaims, at least 1
  Seeded,       \* spec.home.seed names a snapshot or a template
  ClassGiven,   \* spec.home.storageClassName is set; if not, the cluster fills one in
  MaxTime,      \* bound: end of the clock
  MaxEdits,     \* bound: changes of the Desktop by users and ws-proxy
  MaxFaults     \* bound: failed calls, ends of the operator

ASSUME ConstantsAssumption ==
  /\ PerSecond \in Nat \ {0}
  /\ Seeded \in BOOLEAN /\ ClassGiven \in BOOLEAN
  /\ {IdleTimeout, RenewBefore, MaxEdits, MaxFaults} \subseteq Nat
  /\ {TokenTTL, Retain, MaxTime} \subseteq Nat \ {0}
  /\ PerSecond <= MaxTime

VARIABLES
  clock,
  desk,    \* the Desktop at the API server
  cache,   \* the Desktop in the informer's cache
  homes,   \* the home claims' revisions, each with those created before it
  old,     \* the homes that are more than an hour old
  snap,    \* the snapshot that seeds and resets use is ready
  secret,  \* the relay token Secret: when its token expires, 0: none
  deploy,  \* the Deployment
  queued,  \* the Desktop is in the workqueue
  timer,   \* RequeueAfter: when it is added again, 0: never
  pc, d, now, token, susp, home,  \* Reconcile and its local variables
  edits, faults

object == <<desk, cache>>
local == <<d, now, token, susp, home>>
vars == <<clock, object, homes, old, snap, secret, deploy, queued, timer, pc, local,
          edits, faults>>

\* Spec and annotation: suspended, relay, reset (number of the request, 0:
\* none), source (the request names a snapshot or template), touched
\* (last-active-at); status: lastActive, claim (revision, 0: unset), lastReset.
Object ==
  [suspended: BOOLEAN, relay: BOOLEAN,
   reset: 0..MaxEdits, source: BOOLEAN, touched: 0..MaxTime,
   lastActive: 0..MaxTime, claim: 0..MaxEdits + 1, lastReset: 0..MaxEdits]

Created == [suspended |-> FALSE, relay |-> FALSE, reset |-> 0,
            source |-> FALSE, touched |-> 0, lastActive |-> 0, claim |-> 0,
            lastReset |-> 0]

Truncate(t) == t - (t % PerSecond)

Homes == DOMAIN homes

\* The home r is created.
Create(r) == [x \in Homes \cup {r} |-> IF x = r THEN Homes ELSE homes[x]]

\* The homes other than the active one that were created after r.
Newer(r, active) == {x \in Homes \ {active} : r \in homes[x]}

Fault == faults < MaxFaults /\ faults' = faults + 1

\* The end of Reconcile.
Return ==
  pc' = "idle" /\ d' = Created /\ now' = 0 /\ token' = 0 /\ susp' = FALSE /\ home' = 0

\* An error, or a RequeueAfter that does not depend on the clock.
Retry == Return /\ queued' = TRUE

\* A patch of the phase or of a condition, if there is one and it succeeds, answers
\* with the server's object.
Renew == d' \in {d, desk}

-----------------------------------------------------------------------------
(* DesktopReconciler.Reconcile *)

\* Mutant: at the boundary, where the requeue comes, the Desktop does not count as idle.
ShouldSuspendAfter(o) ==
  \/ o.suspended
  \/ IdleTimeout > 0 /\ o.lastActive # 0 /\ clock - o.lastActive > IdleTimeout

\* lastActive and the status hold one pointer, into which the answer of a patch is decoded.
ShouldSuspend(o) ==
  \/ o.suspended
  \/ IdleTimeout > 0 /\ o.lastActive # 0 /\ clock - o.lastActive >= IdleTimeout

\* The status patch for the annotation: whole seconds, and only if those have changed.
RecordActive ==
  IF cache.lastActive = Truncate(cache.touched) THEN desk
  ELSE [desk EXCEPT !.lastActive = Truncate(cache.touched)]

\* Get, and the copy of the annotation into the status, whose error is dropped.
Begin ==
  /\ pc = "idle" /\ queued
  /\ queued' = FALSE
  /\ now' = clock
  /\ \/ /\ cache.lastActive = cache.touched
        /\ d' = cache
        /\ UNCHANGED <<desk, faults>>
     \/ /\ cache.lastActive # cache.touched
        /\ desk' = RecordActive
        /\ d' = desk'
        /\ UNCHANGED faults
     \/ /\ cache.lastActive # cache.touched
        /\ d' = [cache EXCEPT !.lastActive = cache.touched]
        /\ Fault
        /\ UNCHANGED desk
  /\ susp' = ShouldSuspend(d')
  /\ pc' = "relay"
  /\ UNCHANGED <<clock, cache, homes, old, snap, secret, deploy, timer, token, home, edits>>

\* ensureDesktopRelaySecret: the token in the Secret, or a new one shortly before it
\* expires.
RelayToken == IF secret > clock + RenewBefore THEN secret ELSE clock + TokenTTL

\* The token is put into the Secret; without relay mode the Secret is deleted, and an error of
\* that is dropped.
Relay ==
  /\ pc = "relay"
  /\ \/ /\ d.relay
        /\ secret' = RelayToken
        /\ token' = secret'
        /\ Renew
        /\ queued' = (queued \/ d' # d)
        /\ pc' = "claim"
        /\ UNCHANGED <<now, susp, home, faults>>
     \/ d.relay /\ Fault /\ Retry /\ UNCHANGED secret
     \/ /\ ~d.relay
        /\ \/ secret' = 0 /\ UNCHANGED faults
           \/ Fault /\ UNCHANGED secret
        /\ token' = 0
        /\ Renew
        /\ queued' = (queued \/ d' # d)
        /\ pc' = "claim"
        /\ UNCHANGED <<now, susp, home>>
  /\ UNCHANGED <<clock, object, homes, old, snap, deploy, timer, edits>>

\* The first claim is recorded in the status; an error is dropped.
RecordClaim ==
  /\ pc = "claim"
  /\ pc' = "reset"
  /\ \/ d.claim # 0 /\ home' = d.claim /\ UNCHANGED <<desk, d, faults>>
     \/ /\ d.claim = 0
        /\ home' = 1
        /\ \/ /\ desk' = [desk EXCEPT !.claim = 1]
              /\ d' = desk'
              /\ UNCHANGED faults
           \/ /\ d' = [d EXCEPT !.claim = 1]
              /\ Fault
              /\ UNCHANGED desk
  /\ UNCHANGED <<clock, cache, homes, old, snap, secret, deploy, queued, timer, now, token,
                 susp, edits>>

NeedReset(o) == o.reset # 0 /\ o.lastReset # o.reset

\* Mutant: a claim that is there is created again.
EnsureHomeAgain(r) == homes' = Create(r) /\ queued' = (queued \/ r \notin Homes)

\* The update of a claim that is there writes the spec's class; none over the one the
\* cluster has filled in changes an immutable field, and the API server refuses it.
ClassRefused(r) == r \in Homes /\ ~ClassGiven

\* ensureHomePVC: a claim that is there is kept. Its creation is an event.
EnsureHome(r) ==
  IF r \in Homes THEN UNCHANGED <<homes, queued>>
                 ELSE homes' = Create(r) /\ queued' = TRUE

\* resolveDesktopHomeSnapshot, volumeSnapshotReady: what a seed or a reset that names a
\* source, or does not, finds.
HomeSnapshot(named) == CASE ~named -> "none" [] named /\ ~snap -> "pending" [] OTHER -> "ready"

\* Mutant: a reset whose snapshot is not ready is not tried again.
ResetOnce ==
  /\ pc = "reset"
  /\ \/ ~NeedReset(d) /\ pc' = "home" /\ UNCHANGED <<homes, queued, local>>
     \/ NeedReset(d) /\ ~(d.source /\ snap) /\ Return /\ UNCHANGED <<homes, queued>>
     \/ /\ NeedReset(d) /\ d.source /\ snap
        /\ EnsureHome(d.claim + 1)
        /\ pc' = "record"
        /\ UNCHANGED local
  /\ UNCHANGED <<clock, object, old, snap, secret, deploy, timer, edits, faults>>

\* A request without a source ends Reconcile; without a ready snapshot it is
\* tried again.
Reset ==
  /\ pc = "reset"
  /\ \/ ~NeedReset(d) /\ pc' = "home" /\ UNCHANGED <<homes, queued, local, faults>>
     \/ /\ NeedReset(d) /\ HomeSnapshot(d.source) = "none"
        /\ Return
        /\ UNCHANGED <<homes, queued, faults>>
     \/ /\ NeedReset(d) /\ HomeSnapshot(d.source) = "pending"
        /\ Retry
        /\ UNCHANGED <<homes, faults>>
     \/ /\ NeedReset(d) /\ HomeSnapshot(d.source) = "ready" /\ ClassRefused(d.claim + 1)
        /\ Retry
        /\ UNCHANGED <<homes, faults>>
     \/ /\ NeedReset(d) /\ HomeSnapshot(d.source) = "ready" /\ ~ClassRefused(d.claim + 1)
        /\ EnsureHome(d.claim + 1)
        /\ pc' = "record"
        /\ UNCHANGED <<local, faults>>
     \/ NeedReset(d) /\ d.source /\ Fault /\ Retry /\ UNCHANGED homes
  /\ UNCHANGED <<clock, object, old, snap, secret, deploy, timer, edits>>

\* The reset is recorded in the status; an error is dropped.
RecordReset ==
  LET done(o) == [o EXCEPT !.claim = d.claim + 1, !.lastReset = d.reset]
  IN  /\ pc = "record"
      /\ pc' = "home"
      /\ home' = d.claim + 1
      /\ \/ desk' = done(desk) /\ d' = desk' /\ UNCHANGED faults
         \/ d' = done(d) /\ Fault /\ UNCHANGED desk
      /\ UNCHANGED <<clock, cache, homes, old, snap, secret, deploy, queued, timer, now,
                     token, susp, edits>>

\* A home that has to be created from a seed waits for the snapshot.
SeedHome ==
  /\ pc = "home"
  /\ \/ ClassRefused(home) /\ Retry /\ UNCHANGED <<homes, faults>>
     \/ /\ ~ClassRefused(home)
        /\ home \notin Homes /\ Seeded => snap
        /\ EnsureHome(home)
        /\ pc' = "deploy"
        /\ UNCHANGED <<local, faults>>
     \/ /\ home \notin Homes /\ HomeSnapshot(Seeded) = "pending"
        /\ Retry
        /\ UNCHANGED <<homes, faults>>
     \/ Fault /\ Retry /\ UNCHANGED homes
  /\ UNCHANGED <<clock, object, old, snap, secret, deploy, timer, edits>>

\* Mutant: the pods are not restarted for a new token.
ApplyDeploymentKeepingToken ==
  /\ pc = "deploy"
  /\ deploy' = [replicas |-> IF susp THEN 0 ELSE 1, home |-> home, token |-> deploy.token]
  /\ queued' = (queued \/ deploy' # deploy)
  /\ pc' = "retention"
  /\ UNCHANGED <<clock, object, homes, old, snap, secret, timer, local, edits, faults>>

\* Mutant: an error of the Deployment's update is dropped like those of the status.
ApplyDeploymentBestEffort ==
  /\ pc = "deploy"
  /\ \/ /\ deploy' = [replicas |-> IF susp THEN 0 ELSE 1, home |-> home, token |-> token]
        /\ queued' = (queued \/ deploy' # deploy)
        /\ UNCHANGED faults
     \/ Fault /\ UNCHANGED <<deploy, queued>>
  /\ pc' = "retention"
  /\ UNCHANGED <<clock, object, homes, old, snap, secret, timer, local, edits>>

\* CreateOrUpdate of the Deployment, then status.phase; a change is an event.
ApplyDeployment ==
  /\ pc = "deploy"
  /\ \/ /\ deploy' = [replicas |-> IF susp THEN 0 ELSE 1, home |-> home, token |-> token]
        /\ Renew
        /\ queued' = (queued \/ deploy' # deploy \/ d' # d)
        /\ pc' = "retention"
        /\ UNCHANGED <<now, token, susp, home, faults>>
     \/ Fault /\ Retry /\ UNCHANGED deploy
  /\ UNCHANGED <<clock, object, homes, old, snap, secret, timer, edits>>

\* Mutant: the active home is one of those that are counted.
KeepNewest(active) ==
  {r \in Homes : Cardinality({x \in Homes : r \in homes[x]}) < Retain}

\* The active home and the newest of the others.
Keep(active) ==
  {active} \cup {r \in Homes : Cardinality(Newer(r, active)) < Retain}

\* enforceHomeRetention: homes that are more than an hour old are deleted, but those
\* whose deletion fails. It is called if spec.home.reset is there, with a request in it or
\* not; that it is not is the case that none is deleted.
EnforceRetention ==
  /\ pc = "retention"
  /\ \E gone \in SUBSET (old \ Keep(home)) :
       /\ Cardinality(Homes) <= Retain + 1 => gone = {}
       /\ old' = old \ gone
       /\ homes' = [r \in Homes \ gone |-> homes[r] \ gone]
  /\ pc' = "requeue"
  /\ UNCHANGED <<clock, object, snap, secret, deploy, queued, timer, local, edits, faults>>

\* RequeueAfter: the earlier of two timers counts.
Requeue ==
  LET deadline == d.lastActive + IdleTimeout
      due == clock + (deadline - now)
  IN  /\ pc = "requeue"
      /\ Return
      /\ timer' = IF /\ ~susp /\ IdleTimeout > 0 /\ d.lastActive # 0 /\ deadline > now
                     /\ timer = 0 \/ due < timer
                  THEN due ELSE timer
      /\ UNCHANGED <<clock, object, homes, old, snap, secret, deploy, queued, edits,
                     faults>>

Reconcile ==
  \/ Begin \/ Relay \/ RecordClaim \/ Reset \/ RecordReset \/ SeedHome
  \/ ApplyDeployment \/ EnforceRetention \/ Requeue

-----------------------------------------------------------------------------
(* The operator's machinery, storage and time *)

\* A watch event.
Sync ==
  /\ cache # desk
  /\ cache' = desk
  /\ queued' = TRUE
  /\ UNCHANGED <<clock, desk, homes, old, snap, secret, deploy, timer, pc, local, edits,
                 faults>>

\* At the end of the clock every timer is due.
FireTimer ==
  /\ timer # 0
  /\ clock >= timer \/ clock = MaxTime
  /\ timer' = 0
  /\ queued' = TRUE
  /\ UNCHANGED <<clock, object, homes, old, snap, secret, deploy, pc, local, edits, faults>>

\* The informer's periodic resync, every ten hours: nothing waits for it.
Resync ==
  /\ ~queued
  /\ queued' = TRUE
  /\ UNCHANGED <<clock, object, homes, old, snap, secret, deploy, timer, pc, local, edits,
                 faults>>

Restart ==
  /\ Fault
  /\ Retry
  /\ timer' = 0
  /\ cache' = desk
  /\ UNCHANGED <<clock, desk, homes, old, snap, secret, deploy, edits>>

\* An hour is longer than the informer lags behind and than a Reconcile takes.
HourPasses ==
  /\ pc = "idle" /\ ~queued /\ cache = desk /\ old # Homes
  /\ old' = Homes
  /\ UNCHANGED <<clock, object, homes, snap, secret, deploy, queued, timer, pc, local,
                 edits, faults>>

SnapshotReady ==
  /\ ~snap
  /\ snap' = TRUE
  /\ UNCHANGED <<clock, object, homes, old, secret, deploy, queued, timer, pc, local, edits,
                 faults>>

Tick ==
  /\ clock < MaxTime
  /\ clock' = clock + 1
  /\ UNCHANGED <<object, homes, old, snap, secret, deploy, queued, timer, pc, local, edits,
                 faults>>

-----------------------------------------------------------------------------
(* Users, wsctl and ws-proxy *)

Edit(new) ==
  /\ edits < MaxEdits
  /\ new # desk
  /\ edits' = edits + 1
  /\ desk' = new
  /\ UNCHANGED <<clock, cache, homes, old, snap, secret, deploy, queued, timer, pc, local,
                 faults>>

\* A session begins at a ready pod; its heartbeats go on while the pod is stopped.
touchDesktop == deploy.home # 0 /\ Edit([desk EXCEPT !.touched = clock])

Suspend == Edit([desk EXCEPT !.suspended = TRUE])

Resume == Edit([desk EXCEPT !.suspended = FALSE, !.touched = clock])

RequestReset ==
  \E source \in BOOLEAN :
    Edit([desk EXCEPT !.reset = edits + 1, !.source = source])

CancelReset == Edit([desk EXCEPT !.reset = 0, !.source = FALSE])

SetRelay == \E relay \in BOOLEAN : Edit([desk EXCEPT !.relay = relay])

-----------------------------------------------------------------------------

Init ==
  /\ clock = PerSecond
  /\ desk = Created
  /\ cache = desk
  /\ homes = [r \in {} |-> {}] /\ old = {}
  /\ snap = FALSE
  /\ secret = 0
  /\ deploy = [replicas |-> 0, home |-> 0, token |-> 0]
  /\ queued = TRUE
  /\ timer = 0
  /\ pc = "idle"
  /\ d = Created /\ now = 0 /\ token = 0 /\ susp = FALSE /\ home = 0
  /\ edits = 0
  /\ faults = 0

Next ==
  \/ Reconcile \/ Sync \/ FireTimer \/ Resync \/ Restart \/ HourPasses \/ SnapshotReady \/ Tick
  \/ touchDesktop \/ Suspend \/ Resume \/ RequestReset \/ CancelReset \/ SetRelay

Spec == Init /\ [][Next]_vars

\* The operator's worker, its informer and its timers go on, time passes, and the
\* snapshot becomes ready.
Fairness ==
  /\ WF_vars(Reconcile) /\ WF_vars(Sync) /\ WF_vars(FireTimer)
  /\ WF_vars(Tick) /\ WF_vars(SnapshotReady)

FairSpec == Spec /\ Fairness

-----------------------------------------------------------------------------
(* Properties *)

\* The homes form a line: of two, one was created before the other.
InOrder ==
  \A x \in Homes : /\ homes[x] \subseteq Homes \ {x}
                   /\ \A y \in Homes \ {x} : x \in homes[y] \/ y \in homes[x]
                   /\ \A y \in homes[x] : homes[y] \subseteq homes[x]

TypeOK ==
  /\ clock \in 1..MaxTime
  /\ {desk, cache, d} \subseteq Object
  /\ Homes \subseteq 1..MaxEdits + 1 /\ old \subseteq Homes
  /\ InOrder
  /\ {snap, queued, susp} \subseteq BOOLEAN
  /\ {secret, token} \subseteq 0..MaxTime + TokenTTL
  /\ deploy \in [replicas: {0, 1}, home: 0..MaxEdits + 1, token: 0..MaxTime + TokenTTL]
  /\ timer \in 0..MaxTime + IdleTimeout
  /\ pc \in {"idle", "relay", "claim", "reset", "record", "home", "deploy", "retention",
             "requeue"}
  /\ now \in 0..MaxTime /\ home \in 0..MaxEdits + 1
  /\ edits \in 0..MaxEdits /\ faults \in 0..MaxFaults

\* "old PVC revisions are retained up to retainOldClaims": retention never deletes the
\* home the Deployment mounts, whatever passes have failed or worked from an old
\* Desktop, and what it deletes is older than that many homes that stay.
HomeKept ==
  [][\A r \in Homes \ Homes' :
       /\ r # deploy.home
       /\ Cardinality(Newer(r, deploy.home) \cap Homes') >= Retain]_vars

\* A reset that waits for a source the request does not name.
Blocked == NeedReset(desk) /\ ~desk.source

\* A reset request that names a source is carried out although the snapshot is not
\* ready yet, a call fails or the operator ends half way, unless it is withdrawn: the
\* home is mounted that the status names, or the one after it if the record is lost.
ResetDone ==
  \A k \in 1..MaxEdits :
    desk.reset = k /\ desk.source ~>
      \/ desk.reset # k
      \/ desk.lastReset = k /\ deploy.home = desk.claim
      \/ deploy.home = desk.claim + 1

\* "spec.suspended=true (stop compute)": a Desktop that is suspended is scaled down,
\* also when calls fail, unless it is resumed or a reset without a source is pending.
SuspendHonoured ==
  desk.suspended ~> deploy.replicas = 0 \/ ~desk.suspended \/ Blocked

\* "Force a rollout when the relay token Secret rotates": the pods get the token in
\* the Secret although the two are written in different calls.
TokenRolledOut ==
  secret # 0 ~> deploy.token = secret \/ secret = 0 \/ Blocked

Idle == IdleTimeout > 0 /\ desk.touched # 0 /\ clock >= desk.touched + IdleTimeout

\* docs/cost.md: idleTimeoutSeconds "suspends a desktop (scales replicas to 0) after
\* inactivity".
AutoSuspended == Idle ~> deploy.replicas = 0 \/ ~Idle \/ Blocked

-----------------------------------------------------------------------------
(* What a comment or a document says and the code does not do *)

\* "Desktop pod restarts ... and mounts the new PVC": a reset that is recorded is not
\* taken back. A Reconcile whose cache is from before the first record of the claim
\* records the first claim again, and the old home is mounted.
ResetKept == desk.lastReset # 0 => desk.claim > 1

=============================================================================
