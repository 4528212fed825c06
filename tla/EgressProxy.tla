----------------------------- MODULE EgressProxy -----------------------------
(***************************************************************************)
(* The egress proxy: HTTP CONNECT requests of agent pods are authorised    *)
(* against two in-memory indexes, one of pods by IP and one of granted     *)
(* destinations, which a background loop and the request handlers          *)
(* themselves replace by fresh listings of the API server.                 *)
(*                                                                         *)
(* A listing and its installation are two steps, so refreshes overlap: an  *)
(* older listing may replace a newer one.  Pods come and go and their IPs  *)
(* are used again; a finished pod is still listed with the IP it had.      *)
(*                                                                         *)
(* Which grants are in force is decided with the listing, what a listing   *)
(* holds is therefore pairs that are allowed.  Deadlines are kept relative *)
(* to now: a grant has "left" ticks until the time its status names, and   *)
(* Tick brings every deadline closer.                                      *)
(***************************************************************************)
EXTENDS Integers, FiniteSets

CONSTANTS
  Requests,       \* CONNECT requests handled concurrently
  Loop,           \* the background refresh loops
  NumPods,        \* pods are 1..NumPods in the order the API server lists them
  Unlabelled,     \* pods without the agentjob label
  IPs,            \* pod IPs
  Dests,          \* host:port destinations that parse and validate
  BadDest,        \* a destination that does not
  Grants,         \* NetworkGrant names
  Targets,        \* sets of pods grants select, by job name or by match labels
  TTLs,           \* values of spec.ttlSeconds
  DefaultTTL,     \* 1800
  MaxTTLSeconds   \* the controller's cap, 0 disables it

Pods == 1..NumPods

ASSUME ConstantsAssumption ==
  /\ NumPods \in Nat
  /\ IPs # {} /\ Dests # {}
  /\ Loop \notin Requests
  /\ BadDest \notin Dests
  /\ Targets \subseteq SUBSET Pods
  /\ Unlabelled \subseteq Pods
  /\ TTLs \subseteq Int
  /\ DefaultTTL \in Nat \ {0}
  /\ MaxTTLSeconds \in Nat

VARIABLES
  pods,       \* API server: the agent pods
  store,      \* API server: the NetworkGrants
  podIndex,   \* server.pods: the pod at each IP, 0 if none
  grantIndex, \* server.grants: allowed pairs of a pod's identity and destination
  podList,    \* of each refresher: {its pod listing}, or {} if it has none
  grantList,  \* of each refresher: {its grant listing}, likewise
  req         \* the request handlers

index == <<podIndex, grantIndex>>
vars  == <<pods, store, podIndex, grantIndex, podList, grantList, req>>

Refreshers == Requests \cup {Loop}

\* A pod's phase and the IP in its status ("done": completed, its IP released).
Pod == [phase: {"none", "running", "done", "gone"}, ip: IPs]

\* Spec and status of a NetworkGrant. "valid": the controller accepts it; stamp:
\* which of approvedAt and expiresAt its status has; left: ticks until expiresAt
\* or, without it, until approvedAt plus the TTL the proxy assumes. "once" is
\* history: the grant has been approved.
Object == [present: BOOLEAN, pods: SUBSET Pods, dest: Dests, proxy: BOOLEAN,
           ttl: Int, approved: BOOLEAN, valid: BOOLEAN, once: BOOLEAN,
           stamp: {"none", "approvedAt", "expiresAt"}, left: Nat]

PCs == {"idle", "lookup", "listPods", "relookup", "check", "listGrants",
        "authorise", "dial", "tunnel", "denied"}

Request == [pc: PCs, src: Pods \cup {0}, ip: IPs, dest: Dests \cup {BadDest},
            pod: Pods \cup {0}]

-----------------------------------------------------------------------------
(* Refreshing the indexes *)

\* The map refreshPodsOnce builds from the pods the API server lists, completed
\* ones with the IP they had included; of several at one IP the last one stays.
PodsAt(i) == {p \in Pods : pods[p].phase \in {"running", "done"} /\ pods[p].ip = i}

IsListing(byIP) ==
  \A i \in IPs : IF PodsAt(i) = {} THEN byIP[i] = 0
                 ELSE byIP[i] \in PodsAt(i) /\ \A q \in PodsAt(i) : q <= byIP[i]

\* The TTL grantActive assumes: it does not know the operator's cap.
ProxyTTL(t) == IF t <= 0 THEN DefaultTTL ELSE t

\* Mutant: the expiry in the status is not looked at.
grantActiveAlways(o) == o.present /\ o.approved

\* Without a status the grant counts as approved just now.
grantActive(o) == o.present /\ o.approved /\ (o.stamp # "none" => o.left > 0)

\* Of the active grants refreshGrantsOnce uses the PROXY_CONNECT ones.
Eligible(o) == grantActive(o) /\ o.proxy

\* The allow sets it makes of them.
Allowed == UNION {store[g].pods \X {store[g].dest} : g \in {h \in Grants : Eligible(store[h])}}

\* refreshPodsOnce, refreshGrantsOnce: the listing ...
ListPods(x) ==
  /\ podList' = [podList EXCEPT ![x] = {byIP \in [IPs -> Pods \cup {0}] : IsListing(byIP)}]
  /\ UNCHANGED <<pods, store, index, grantList>>

ListGrants(x) ==
  /\ grantList' = [grantList EXCEPT ![x] = {Allowed}]
  /\ UNCHANGED <<pods, store, index, podList>>

\* ... and setAll: the index becomes what the listing says.
InstallPods(x) ==
  /\ podIndex' \in podList[x]
  /\ podList' = [podList EXCEPT ![x] = {}]
  /\ UNCHANGED <<pods, store, grantIndex, grantList>>

InstallGrants(x) ==
  /\ grantIndex' \in grantList[x]
  /\ grantList' = [grantList EXCEPT ![x] = {}]
  /\ UNCHANGED <<pods, store, podIndex, podList>>

\* refreshPodsLoop and refreshGrantsLoop: a failed listing changes nothing.
LoopListPods      == podList[Loop] = {} /\ ListPods(Loop) /\ UNCHANGED req
LoopInstallPods   == InstallPods(Loop) /\ UNCHANGED req
LoopListGrants    == grantList[Loop] = {} /\ ListGrants(Loop) /\ UNCHANGED req
LoopInstallGrants == InstallGrants(Loop) /\ UNCHANGED req

-----------------------------------------------------------------------------
(* handleProxy *)

Goto(r, pc) == req' = [req EXCEPT ![r].pc = pc]

Idle == [pc |-> "idle", src |-> 0, ip |-> CHOOSE i \in IPs : TRUE,
         dest |-> BadDest, pod |-> 0]

\* A running pod sends CONNECT; the proxy sees its IP.
Connect(r, p, d) ==
  /\ req[r].pc = "idle"
  /\ pods[p].phase = "running"
  /\ req' = [req EXCEPT ![r] = [pc |-> "lookup", src |-> p, ip |-> pods[p].ip,
                                dest |-> d, pod |-> 0]]
  /\ UNCHANGED <<pods, store, index, podList, grantList>>

\* The caller is known: its agentjob label and the destination are checked.
Identified(r, p) ==
  req' = [req EXCEPT ![r].pod = p,
                     ![r].pc  = IF p \in Unlabelled \/ req[r].dest = BadDest
                                THEN "denied" ELSE "check"]

\* s.pods.get, with one refresh if the IP is not in the index.
LookupPod(r) ==
  LET p == podIndex[req[r].ip]
  IN  /\ req[r].pc = "lookup"
      /\ IF p = 0 THEN Goto(r, "listPods") ELSE Identified(r, p)
      /\ UNCHANGED <<pods, store, index, podList, grantList>>

RequestListPods(r) ==
  /\ req[r].pc = "listPods"
  /\ podList[r] = {}
  /\ ListPods(r)
  /\ UNCHANGED req

RequestInstallPods(r) ==
  /\ req[r].pc = "listPods"
  /\ InstallPods(r)
  /\ Goto(r, "relookup")

RequestListPodsFails(r) ==
  /\ req[r].pc = "listPods"
  /\ podList[r] = {}
  /\ Goto(r, "relookup")
  /\ UNCHANGED <<pods, store, index, podList, grantList>>

LookupPodAgain(r) ==
  LET p == podIndex[req[r].ip]
  IN  /\ req[r].pc = "relookup"
      /\ IF p = 0 THEN Goto(r, "denied") ELSE Identified(r, p)
      /\ UNCHANGED <<pods, store, index, podList, grantList>>

\* Mutant: the allow sets of all jobs are taken together.
AllowsAnyPod(r) == \E p \in Pods : <<p, req[r].dest>> \in grantIndex

\* grantIndex.allows
Allows(r) == <<req[r].pod, req[r].dest>> \in grantIndex

\* The first call of allows; only if it says no the grants are listed again.
CheckGrant(r) ==
  /\ req[r].pc = "check"
  /\ Goto(r, IF Allows(r) THEN "authorise" ELSE "listGrants")
  /\ UNCHANGED <<pods, store, index, podList, grantList>>

RequestListGrants(r) ==
  /\ req[r].pc = "listGrants"
  /\ grantList[r] = {}
  /\ ListGrants(r)
  /\ UNCHANGED req

RequestInstallGrants(r) ==
  /\ req[r].pc = "listGrants"
  /\ InstallGrants(r)
  /\ Goto(r, "authorise")

RequestListGrantsFails(r) ==
  /\ req[r].pc = "listGrants"
  /\ grantList[r] = {}
  /\ Goto(r, "authorise")
  /\ UNCHANGED <<pods, store, index, podList, grantList>>

\* The second call of allows decides.
Authorise(r) ==
  /\ req[r].pc = "authorise"
  /\ Goto(r, IF Allows(r) THEN "dial" ELSE "denied")
  /\ UNCHANGED <<pods, store, index, podList, grantList>>

\* resolvePublicIP and the dial succeed and the tunnel is open, or one of them
\* fails.
Dial(r) ==
  /\ req[r].pc = "dial"
  /\ Goto(r, "tunnel") \/ Goto(r, "denied")
  /\ UNCHANGED <<pods, store, index, podList, grantList>>

\* One side closes the tunnel, or the refusal is sent: the handler returns.
Finish(r) ==
  /\ req[r].pc \in {"tunnel", "denied"}
  /\ req' = [req EXCEPT ![r] = Idle]
  /\ UNCHANGED <<pods, store, index, podList, grantList>>

Handle(r) ==
  \/ LookupPod(r) \/ LookupPodAgain(r)
  \/ RequestListPods(r) \/ RequestInstallPods(r) \/ RequestListPodsFails(r)
  \/ CheckGrant(r)
  \/ RequestListGrants(r) \/ RequestInstallGrants(r) \/ RequestListGrantsFails(r)
  \/ Authorise(r) \/ Dial(r)

-----------------------------------------------------------------------------
(* Pods, grants and time *)

WritePod(p, pod) ==
  /\ pods' = [pods EXCEPT ![p] = pod]
  /\ UNCHANGED <<store, index, podList, grantList, req>>

\* The job's pod gets an IP that no running pod has.
StartPod(p, i) ==
  /\ pods[p].phase = "none"
  /\ \A q \in Pods : pods[q].phase = "running" => pods[q].ip # i
  /\ WritePod(p, [phase |-> "running", ip |-> i])

FinishPod(p) ==
  /\ pods[p].phase = "running"
  /\ WritePod(p, [pods[p] EXCEPT !.phase = "done"])

RemovePod(p) ==
  /\ pods[p].phase \in {"running", "done"}
  /\ WritePod(p, [pods[p] EXCEPT !.phase = "gone"])

WriteGrant(g, o) ==
  /\ o # store[g]
  /\ store' = [store EXCEPT ![g] = o]
  /\ UNCHANGED <<pods, index, podList, grantList, req>>

NewObject(target, d, m, t) ==
  [present |-> TRUE, pods |-> target, dest |-> d, proxy |-> m, ttl |-> t,
   approved |-> FALSE, valid |-> TRUE, once |-> FALSE, stamp |-> "none", left |-> 0]

NoObject == [NewObject({}, CHOOSE d \in Dests : TRUE, FALSE, 0)
               EXCEPT !.present = FALSE]

\* A request for a grant, not approved.
CreateGrant(g, target, d, m, t) ==
  /\ store[g] = NoObject
  /\ WriteGrant(g, NewObject(target, d, m, t))

\* The controller accepts an approval that names an approver and a TTL within
\* its cap.
TTLAllowed(t) == ~(t > 0 /\ MaxTTLSeconds > 0 /\ t > MaxTTLSeconds)

Approve(g, named) ==
  /\ store[g].present
  /\ WriteGrant(g, [store[g] EXCEPT !.approved = TRUE, !.once = TRUE,
                                    !.valid = named /\ TTLAllowed(store[g].ttl)])

Withdraw(g) ==
  /\ store[g].present
  /\ WriteGrant(g, [store[g] EXCEPT !.approved = FALSE, !.valid = TRUE])

\* Of a deleted grant only its history is kept.
Delete(g) ==
  /\ store[g].present
  /\ WriteGrant(g, [store[g] EXCEPT !.present = FALSE, !.approved = FALSE, !.valid = TRUE,
                                    !.stamp = "none", !.left = 0])

\* The NetworkGrant controller's status writes: approvedAt, then expiresAt from
\* the capped TTL, both cleared when the approval is withdrawn.
StampApproval(g) ==
  /\ store[g].present /\ store[g].approved /\ store[g].valid
  /\ store[g].stamp = "none"
  /\ WriteGrant(g, [store[g] EXCEPT !.stamp = "approvedAt",
                                    !.left = ProxyTTL(store[g].ttl)])

\* What the cap takes off the default TTL.
CapCut(t) == IF t <= 0 /\ MaxTTLSeconds > 0 /\ DefaultTTL > MaxTTLSeconds
             THEN DefaultTTL - MaxTTLSeconds ELSE 0

StampExpiry(g) ==
  LET left == store[g].left - CapCut(store[g].ttl)
  IN  /\ store[g].present /\ store[g].approved /\ store[g].valid
      /\ store[g].stamp = "approvedAt"
      /\ WriteGrant(g, [store[g] EXCEPT !.stamp = "expiresAt",
                                        !.left = IF left > 0 THEN left ELSE 0])

ClearStamp(g) ==
  /\ store[g].present /\ ~store[g].approved
  /\ store[g].stamp # "none"
  /\ WriteGrant(g, [store[g] EXCEPT !.stamp = "none", !.left = 0])

\* One unit of time passes.
Sooner(o) == [o EXCEPT !.left = IF o.left > 0 THEN o.left - 1 ELSE 0]

Tick ==
  /\ store' = [g \in Grants |-> Sooner(store[g])]
  /\ UNCHANGED <<pods, index, podList, grantList, req>>

-----------------------------------------------------------------------------

Init ==
  /\ pods = [p \in Pods |-> [phase |-> "none", ip |-> CHOOSE i \in IPs : TRUE]]
  /\ store = [g \in Grants |-> NoObject]
  /\ podIndex = [i \in IPs |-> 0]
  /\ grantIndex = {}
  /\ podList = [x \in Refreshers |-> {}]
  /\ grantList = [x \in Refreshers |-> {}]
  /\ req = [r \in Requests |-> Idle]

Controller(g) == StampApproval(g) \/ StampExpiry(g) \/ ClearStamp(g)

Next ==
  \/ LoopListPods \/ LoopInstallPods \/ LoopListGrants \/ LoopInstallGrants
  \/ \E r \in Requests :
       \/ \E p \in Pods : \E d \in Dests \cup {BadDest} : Connect(r, p, d)
       \/ Handle(r)
       \/ Finish(r)
  \/ \E p \in Pods :
       \/ \E i \in IPs : StartPod(p, i)
       \/ FinishPod(p) \/ RemovePod(p)
  \/ \E g \in Grants :
       \/ \E target \in Targets : \E d \in Dests : \E m \in BOOLEAN :
            \E t \in TTLs : CreateGrant(g, target, d, m, t)
       \/ \E n \in BOOLEAN : Approve(g, n)
       \/ Withdraw(g) \/ Delete(g) \/ Controller(g)
  \/ Tick

\* The loop over the grants runs on a ticker and its listings succeed from time
\* to time; nothing is asked of the handlers, the controller or the clock.
Fairness == WF_vars(LoopListGrants) /\ WF_vars(LoopInstallGrants)

Spec == Init /\ [][Next]_vars

FairSpec == Spec /\ Fairness

-----------------------------------------------------------------------------
(* Properties *)

TypeOK ==
  /\ pods \in [Pods -> Pod]
  /\ store \in [Grants -> Object]
  /\ podIndex \in [IPs -> Pods \cup {0}]
  /\ grantIndex \subseteq Pods \X Dests
  /\ podList \in [Refreshers -> SUBSET [IPs -> Pods \cup {0}]]
  /\ grantList \in [Refreshers -> SUBSET SUBSET (Pods \X Dests)]
  /\ req \in [Requests -> Request]

\* Grant g lets pod p reach d through the proxy.
Names(g, p, d) == store[g].proxy /\ p \in store[g].pods /\ store[g].dest = d

\* Whatever overlapping refreshes put into the indexes, a tunnel is opened only
\* to a destination named by a PROXY_CONNECT grant for the pod it is attributed
\* to, one that has been approved (STRICT_FQDN grants and requests nobody
\* approved never open one).
TunnelGranted ==
  \A r \in Requests : req[r].pc \in {"dial", "tunnel"} =>
    \E g \in Grants : Names(g, req[r].pod, req[r].dest) /\ store[g].once

\* The grant is in effect: approved, for the proxy, not past its expiry.
Effective(g) ==
  /\ store[g].present /\ store[g].approved /\ store[g].proxy
  /\ store[g].stamp = "expiresAt" => store[g].left > 0

\* A grant that lapses, is withdrawn or is deleted drops out of the allow sets,
\* although an older listing may bring it back for a while, unless it is in
\* effect again or another grant allows the same.
LapsedDropped ==
  \A g \in Grants :
    ~Effective(g) ~>
      \A p \in store[g].pods :
        \/ <<p, store[g].dest>> \notin grantIndex
        \/ \E h \in Grants : Effective(h) /\ Names(h, p, store[g].dest)

-----------------------------------------------------------------------------
(* What a comment or a document says and the code does not do *)

\* main.go:373 "Status is best-effort; if it's not set yet, fail open briefly"
\* and docs/egress-proxy.md:44 "NetworkGrants are TTL-bound": a grant that stays
\* approved is not honoured for ever.
TTLBound ==
  \A g \in Grants : \A p \in Pods :
    []store[g].approved ~> <<p, store[g].dest>> \notin grantIndex

\* docs/egress-proxy.md:6 "approved NetworkGrants allow a job to CONNECT to
\* specific host:port destinations through the egress-proxy": the job whose
\* grants authorise a tunnel is the job of the pod that opened it.
CallerIdentified ==
  \A r \in Requests : req[r].pc = "tunnel" => req[r].pod = req[r].src

=============================================================================
