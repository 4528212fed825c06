------------------------------ MODULE PortShare ------------------------------
(***************************************************************************)
(* The PortShare controller (PortShareReconciler): a share of a Desktop's  *)
(* port is a Service, named after the Desktop and the port and owned by    *)
(* the share, that is deleted when the share's time to live is over.       *)
(*                                                                         *)
(* All shares here are of one Desktop, so a Service is known by its port   *)
(* and two shares of one port name the same Service.  Shares, Services and *)
(* the Desktop are read from the informer's caches, which follow the API   *)
(* server late; one worker reconciles one share at a time.                 *)
(*                                                                         *)
(* clock counts whole seconds and the present lies inside the second       *)
(* clock, after its beginning: time.Now() is after the instant e, a whole  *)
(* second, exactly when clock >= e.                                        *)
(***************************************************************************)
EXTENDS Integers, FiniteSets

CONSTANTS
  Shares,    \* names of PortShares
  Ports,     \* ports they may name
  NoPort,    \* none of them
  TTL,       \* a value of spec.ttlSeconds
  MaxTime,   \* bound: end of the clock
  MaxEvents, \* bound: later changes by users, failed calls, ends of the operator
  Crossing   \* a pass without a successor may last beyond the end of its share

ASSUME ConstantsAssumption ==
  /\ NoPort \notin Ports
  /\ {TTL, MaxTime} \subseteq Nat \ {0}
  /\ MaxEvents \in Nat
  /\ Crossing \in BOOLEAN

VARIABLES
  clock,
  share,     \* the PortShares at the API server
  shareSeen, \* the same in the informer's cache
  svc,       \* the Services at the API server, by port: who owns it
  svcSeen,   \* the same in the informer's cache
  shareEvents, svcEvents, \* changed since the cache was: shares; by port, owners
  desk,      \* the Desktop exists, as the informer's cache has it
  queue,     \* shares in the workqueue
  timer,     \* RequeueAfter: when a share is added again, 0: never
  pass,      \* the Reconcile under way: its share, its next step, its copy
  edits, faults

shares == <<share, shareSeen, shareEvents>>
services == <<svc, svcSeen, svcEvents>>
objects == <<shares, services, desk>>
bounds == <<edits, faults>>
vars == <<clock, objects, queue, timer, pass, bounds>>

TTLs == {0, TTL} \* 0: no end

None == [uid |-> 0]

Conditions == {"none", "Valid", "DesktopNotFound"}

\* A PortShare: its identity, its spec (start: requestedAt or else the time of
\* creation) and its status; cond is the reason of the condition SpecValid and
\* gen and seen are its generation and observedGeneration.
PortShares ==
  [uid: 1..(MaxEvents + 1), gen: 1..(MaxEvents + 1), port: Ports, ttl: TTLs, start: 1..MaxTime,
   exp: Nat, active: BOOLEAN, svc: Ports \cup {NoPort}, cond: Conditions, seen: 0..(MaxEvents + 1)]

\* A Service's controller reference.
Owners == [share: Shares, uid: 1..(MaxEvents + 1)]

Idle == [at |-> "idle"]
Passes == [at: {"desktop", "act", "record"}, p: Shares, ps: PortShares, closing: BOOLEAN]

TypeOK ==
  /\ clock \in 1..MaxTime
  /\ share \in [Shares -> PortShares \cup {None}]
  /\ shareSeen \in [Shares -> PortShares \cup {None}]
  /\ svc \in [Ports -> Owners \cup {None}]
  /\ svcSeen \in [Ports -> Owners \cup {None}]
  /\ shareEvents \subseteq Shares
  /\ svcEvents \in [Ports -> SUBSET Shares]
  /\ desk \in BOOLEAN
  /\ queue \subseteq Shares
  /\ timer \in [Shares -> Nat]
  /\ pass \in Passes \cup {Idle}
  /\ edits \in 0..MaxEvents /\ faults \in 0..MaxEvents

\* A PortShare as it is created: identified by the changes made before.
Fresh(uid, n, ttl) ==
  [uid |-> uid, gen |-> 1, port |-> n, ttl |-> ttl, start |-> clock,
   exp |-> 0, active |-> FALSE, svc |-> NoPort, cond |-> "none", seen |-> 0]

\* The operator starts and lists PortShares, all of one port, that are new to it.
Init ==
  /\ clock = 1
  /\ \E n \in Ports : share = [p \in Shares |-> Fresh(1, n, TTL)]
  /\ shareSeen = share
  /\ svc = [n \in Ports |-> None] /\ svcSeen = svc
  /\ shareEvents = {} /\ svcEvents = [n \in Ports |-> {}]
  /\ desk = TRUE
  /\ queue = Shares /\ timer = [p \in Shares |-> 0] /\ pass = Idle
  /\ edits = 0 /\ faults = 0

Fault == edits + faults < MaxEvents /\ faults' = faults + 1

\* exp is set and time.Now() is after it.
Past(exp) == exp # 0 /\ clock >= exp

-----------------------------------------------------------------------------
(* PortShareReconciler.Reconcile *)

\* A PortShare, or a Service, is written: an event, if that changes it.
SetShare(p, ps) ==
  /\ share' = [share EXCEPT ![p] = ps]
  /\ shareEvents' = shareEvents \cup IF ps = share[p] THEN {} ELSE {p}

SetService(n, owner) ==
  /\ svc' = [svc EXCEPT ![n] = owner]
  /\ svcEvents' = [svcEvents EXCEPT ![n] = @ \cup {o.share : o \in {svc[n], owner} \ {None}}]

\* A merge patch carries the fields in which `to' differs from `from', of the
\* conditions all or nothing.
Carried(f, from, to) ==
  IF f \in {"cond", "seen"} THEN to.cond # from.cond \/ to.seen # from.seen ELSE to[f] # from[f]

Merge(old, from, to) ==
  [f \in DOMAIN old |-> IF Carried(f, from, to) THEN to[f] ELSE old[f]]

\* r.Status().Patch, if there is something to patch: the answer becomes the
\* pass's copy, spec included; after an error, which is dropped, the copy holds
\* what was to be written.
Patch(p, from, to, Next(_)) ==
  \/ /\ from = to
     /\ Next(to)
     /\ UNCHANGED <<share, shareEvents, faults>>
  \/ /\ from # to /\ share[p] # None
     /\ SetShare(p, Merge(share[p], from, to))
     /\ Next(share'[p])
     /\ UNCHANGED faults
  \/ /\ from # to
     /\ Next(to)
     /\ UNCHANGED <<share, shareEvents>>
     /\ IF share[p] = None THEN UNCHANGED faults ELSE Fault

\* setPortShareSpecValidCondition: observedGeneration is part of the condition.
Condition(ps, reason) == [ps EXCEPT !.cond = reason, !.seen = ps.gen]

Step(at, p, closing, ps) == pass' = [at |-> at, p |-> p, ps |-> ps, closing |-> closing]

\* ctrl.Result{RequeueAfter: due - now}: a time that is not in the future adds
\* nothing, and of two timers the earlier counts.
After(p, due) ==
  timer' = [timer EXCEPT ![p] = IF @ = 0 \/ due < @ THEN due ELSE @]

\* Get, and the condition that the spec is valid (the API server admits no
\* other); a PortShare that is gone ends the pass.
Start(p) ==
  /\ pass = Idle /\ p \in queue
  /\ queue' = queue \ {p}
  /\ \/ /\ shareSeen[p] = None
        /\ UNCHANGED <<share, shareEvents, pass, faults>>
     \/ /\ shareSeen[p] # None
        /\ LET Go(ps) == Step("desktop", p, FALSE, ps)
           IN  Patch(p, shareSeen[p], Condition(shareSeen[p], "Valid"), Go)
  /\ UNCHANGED <<clock, shareSeen, services, desk, timer, edits>>

\* The Desktop does not exist: the condition says so, again in ten seconds.
DesktopNotFound ==
  /\ pass.at = "desktop" /\ ~desk
  /\ LET Return(ps) == pass' = Idle
     IN  Patch(pass.p, pass.ps, Condition(pass.ps, "DesktopNotFound"), Return)
  /\ After(pass.p, clock)
  /\ UNCHANGED <<clock, shareSeen, services, desk, queue, edits>>

\* The time at which the share ends, 0 without a time to live.
Desired(ps) == IF ps.ttl = 0 THEN 0 ELSE ps.start + ps.ttl

\* status.expiresAt, and whether now is after it.  The decision is kept: the
\* spec in the patch's answer has no part in it.
Expiry ==
  /\ pass.at = "desktop" /\ desk
  /\ LET exp == Desired(pass.ps)
         Go(ps) == Step("act", pass.p, Past(exp), ps)
     IN  Patch(pass.p, pass.ps, [pass.ps EXCEPT !.exp = exp], Go)
  /\ UNCHANGED <<clock, shareSeen, services, desk, queue, timer, edits>>

\* Expired: the Service of that name is deleted, whoever owns it; an error is
\* dropped.
Close ==
  /\ pass.at = "act" /\ pass.closing
  /\ pass' = [pass EXCEPT !.at = "record"]
  /\ \/ SetService(pass.ps.port, None) /\ UNCHANGED faults
     \/ Fault /\ UNCHANGED <<svc, svcEvents>>
  /\ UNCHANGED <<clock, shares, svcSeen, desk, queue, timer, edits>>

\* CreateOrUpdate with SetControllerReference, which looks at the cached Service:
\* one that another share controls is an error, an older share of the same name
\* is replaced; the write fails if the cache is not what the API server has.
Foreign(owner, me) == owner # None /\ owner.share # me.share

Written(n, me) ==
  \/ svcSeen[n] = me /\ UNCHANGED <<svc, svcEvents>>
  \/ /\ svcSeen[n] # me /\ svc[n] = svcSeen[n]
     /\ ~Foreign(svcSeen[n], me)
     /\ SetService(n, me)

Refused(n, me) ==
  /\ svcSeen[n] # me
  /\ svc[n] # svcSeen[n] \/ Foreign(svcSeen[n], me)

\* An error is returned and the share tried again.
CreateOrUpdate ==
  LET n == pass.ps.port
      me == [share |-> pass.p, uid |-> pass.ps.uid]
  IN  /\ pass.at = "act" /\ ~pass.closing
      /\ \/ /\ Written(n, me)
            /\ pass' = [pass EXCEPT !.at = "record"]
            /\ UNCHANGED <<queue, faults>>
         \/ /\ \/ Refused(n, me) /\ UNCHANGED <<svc, svcEvents, faults>>
               \/ Fault /\ (Written(n, me) \/ UNCHANGED <<svc, svcEvents>>)
            /\ pass' = Idle
            /\ queue' = queue \cup {pass.p}
      /\ UNCHANGED <<clock, shares, svcSeen, desk, timer, edits>>

\* Mutant: serviceName is kept when the Service is deleted.
RecordKept ==
  /\ pass.at = "record"
  /\ LET to == [pass.ps EXCEPT !.active = ~pass.closing, !.svc = pass.ps.port]
         Return(ps) == pass' = Idle
     IN  Patch(pass.p, pass.ps, to, Return)
  /\ IF ~pass.closing /\ pass.ps.exp > clock THEN After(pass.p, pass.ps.exp) ELSE UNCHANGED timer
  /\ UNCHANGED <<clock, shareSeen, services, desk, queue, edits>>

\* Mutant: the end is waited for only by the pass that opens the share.
RecordOnce ==
  /\ pass.at = "record"
  /\ LET to == [pass.ps EXCEPT !.active = ~pass.closing,
                              !.svc = IF pass.closing THEN NoPort ELSE pass.ps.port]
         Return(ps) == pass' = Idle
     IN  /\ Patch(pass.p, pass.ps, to, Return)
         /\ IF to # pass.ps /\ pass.ps.exp > clock THEN After(pass.p, pass.ps.exp) ELSE UNCHANGED timer
  /\ UNCHANGED <<clock, shareSeen, services, desk, queue, edits>>

\* status.active and status.serviceName; an open share is looked at again when
\* it ends, if that still lies ahead.
Record ==
  /\ pass.at = "record"
  /\ LET to == [pass.ps EXCEPT !.active = ~pass.closing,
                              !.svc = IF pass.closing THEN NoPort ELSE pass.ps.port]
         Return(ps) == pass' = Idle
     IN  Patch(pass.p, pass.ps, to, Return)
  /\ IF ~pass.closing /\ pass.ps.exp > clock THEN After(pass.p, pass.ps.exp) ELSE UNCHANGED timer
  /\ UNCHANGED <<clock, shareSeen, services, desk, queue, edits>>

-----------------------------------------------------------------------------
(* The manager: For(PortShare), Owns(Service), the workqueue. *)

SyncShare(p) ==
  /\ p \in shareEvents
  /\ shareEvents' = shareEvents \ {p}
  /\ shareSeen' = [shareSeen EXCEPT ![p] = share[p]]
  /\ queue' = queue \cup {p}
  /\ UNCHANGED <<clock, share, services, desk, timer, pass, bounds>>

\* Mutant: Services are not watched.
SyncServiceOnly(n) ==
  /\ svcEvents[n] # {}
  /\ svcEvents' = [svcEvents EXCEPT ![n] = {}]
  /\ svcSeen' = [svcSeen EXCEPT ![n] = svc[n]]
  /\ UNCHANGED <<clock, shares, svc, desk, queue, timer, pass, bounds>>

\* An event of a Service adds its controller, the old one and the new one.
SyncService(n) ==
  /\ svcEvents[n] # {}
  /\ svcEvents' = [svcEvents EXCEPT ![n] = {}]
  /\ svcSeen' = [svcSeen EXCEPT ![n] = svc[n]]
  /\ queue' = queue \cup svcEvents[n]
  /\ UNCHANGED <<clock, shares, svc, desk, timer, pass, bounds>>

Fire(p) ==
  /\ Past(timer[p])
  /\ timer' = [timer EXCEPT ![p] = 0]
  /\ queue' = queue \cup {p}
  /\ UNCHANGED <<clock, objects, pass, bounds>>

\* The operator ends and another starts, which lists everything.
Restart ==
  /\ Fault
  /\ shareSeen' = share /\ svcSeen' = svc
  /\ shareEvents' = {} /\ svcEvents' = [n \in Ports |-> {}]
  /\ queue' = {p \in Shares : share[p] # None}
  /\ timer' = [p \in Shares |-> 0]
  /\ pass' = Idle
  /\ UNCHANGED <<clock, share, svc, desk, edits>>

-----------------------------------------------------------------------------
(* Users and the API server. *)

Edit == edits + faults < MaxEvents /\ edits' = edits + 1

\* wsctl portshare create.
Create(p) ==
  /\ share[p] = None
  /\ \E n \in Ports, ttl \in TTLs : SetShare(p, Fresh(edits + 1, n, ttl))
  /\ UNCHANGED <<clock, shareSeen, services, desk, queue, timer, pass, bounds>>

\* wsctl portshare delete.
Delete(p) ==
  /\ share[p] # None
  /\ Edit
  /\ SetShare(p, None)
  /\ UNCHANGED <<clock, shareSeen, services, desk, queue, timer, pass, faults>>

\* A change of the port, of the time to live, or a renewal by requestedAt.
EditSpec(p) ==
  /\ share[p] # None
  /\ Edit
  /\ \/ \E n \in Ports : SetShare(p, [share[p] EXCEPT !.port = n, !.gen = @ + 1])
     \/ \E ttl \in TTLs : SetShare(p, [share[p] EXCEPT !.ttl = ttl, !.gen = @ + 1])
     \/ SetShare(p, [share[p] EXCEPT !.start = clock, !.gen = @ + 1])
  /\ UNCHANGED <<clock, shareSeen, services, desk, queue, timer, pass, faults>>

DeleteDesktop ==
  /\ desk /\ desk' = FALSE
  /\ Edit
  /\ UNCHANGED <<clock, shares, services, queue, timer, pass, faults>>

CreateDesktop ==
  /\ ~desk /\ desk' = TRUE
  /\ UNCHANGED <<clock, shares, services, queue, timer, pass, bounds>>

\* The garbage collector: a Service whose owner no longer exists.
Orphan(n) == svc[n] # None /\ share[svc[n].share].uid # svc[n].uid

Collect(n) ==
  /\ Orphan(n)
  /\ SetService(n, None)
  /\ UNCHANGED <<clock, shares, svcSeen, desk, queue, timer, pass, bounds>>

\* The pass has found its share open and would return after its end, when no
\* event and no timer of the share is to come.
Crosses ==
  /\ pass.at \in {"act", "record"} /\ ~pass.closing /\ pass.ps.exp = clock + 1
  /\ timer[pass.p] = 0 /\ pass.p \notin queue \cup shareEvents \cup UNION {svcEvents[n] : n \in Ports}

Tick ==
  /\ clock < MaxTime
  /\ Crosses => Crossing
  /\ clock' = clock + 1
  /\ UNCHANGED <<objects, queue, timer, pass, bounds>>

Reconcile == DesktopNotFound \/ Expiry \/ Close \/ CreateOrUpdate \/ Record

Next ==
  \/ Reconcile \/ Restart \/ DeleteDesktop \/ CreateDesktop \/ Tick
  \/ \E p \in Shares : Start(p) \/ SyncShare(p) \/ Fire(p) \/ Create(p) \/ Delete(p) \/ EditSpec(p)
  \/ \E n \in Ports : SyncService(n) \/ Collect(n)

Spec == Init /\ [][Next]_vars

-----------------------------------------------------------------------------
(* Properties *)

Owns(p, n) == svc[n] # None /\ svc[n].share = p

Ended(p) == Past(Desired(share[p]))

\* Nothing of the share is under way: unless something changes, the operator
\* does not look at it again (but for the resync of all objects, hours later).
Settled(p) ==
  /\ share[p] # None
  /\ pass = Idle \/ pass.p # p
  /\ p \notin queue \cup shareEvents \cup UNION {svcEvents[n] : n \in Ports}
  /\ ~Past(timer[p])
  /\ \A n \in Ports : ~Orphan(n)

\* A settled share whose time is over does not own the Service of its port: a
\* pass that decides before the end and acts after it, one failed call whose
\* error is dropped, a restart that loses the timer, a stale cache are all made
\* good by a later pass.
ExpiredClosed ==
  \A p \in Shares : Settled(p) /\ desk /\ Ended(p) => ~Owns(p, share[p].port)

\* A settled share whose time is not over owns the Service of its port and will
\* be looked at when it ends, also after the end of another share of the same
\* port deleted that Service.
ShareServed ==
  \A p \in Shares : Settled(p) /\ desk /\ ~Ended(p) =>
    /\ Owns(p, share[p].port)
    /\ share[p].ttl # 0 => timer[p] # 0

\* Unless a call failed, the status of a settled share is what is so: it is
\* active exactly when it owns the Service of its port, which serviceName names.
StatusTrue ==
  faults = 0 => \A p \in Shares : Settled(p) =>
    /\ share[p].active = Owns(p, share[p].port)
    /\ share[p].svc = IF share[p].active THEN share[p].port ELSE NoPort
=============================================================================
