-------------------------- MODULE EgressProxyProofs --------------------------
(***************************************************************************)
(* EgressProxy, for any number of pods, grants and concurrent requests:    *)
(* the type invariant, and that a tunnel is opened only where an approved  *)
(* PROXY_CONNECT grant names the destination for the pod.                  *)
(***************************************************************************)
EXTENDS EgressProxy, TLAPS

\* An idle handler is a request, the object of an unused name an object.
LEMMA IdleType == Idle \in Request
<1>1. (CHOOSE i \in IPs : TRUE) \in IPs
  BY ConstantsAssumption
<1> QED
  BY <1>1 DEF Idle, Request, PCs

LEMMA NewObjectType ==
  ASSUME NEW target \in SUBSET Pods, NEW d \in Dests, NEW m \in BOOLEAN, NEW t \in Int
  PROVE  NewObject(target, d, m, t) \in Object
  BY DEF NewObject, Object

LEMMA NoObjectType == NoObject \in Object /\ NoObject.once = FALSE
<1>1. (CHOOSE d \in Dests : TRUE) \in Dests
  BY ConstantsAssumption
<1>2. {} \in SUBSET Pods /\ 0 \in Int
  OBVIOUS
<1>3. NewObject({}, CHOOSE d \in Dests : TRUE, FALSE, 0) \in Object
  BY <1>1, <1>2, NewObjectType
<1> QED
  BY <1>3 DEF NoObject, NewObject, Object

\* The spec and status writes keep an object's type.
LEMMA ObjectUpdate ==
  ASSUME NEW o \in Object,
         NEW a \in BOOLEAN, NEW v \in BOOLEAN, NEW n \in BOOLEAN,
         NEW s \in {"none", "approvedAt", "expiresAt"}, NEW l \in Nat
  PROVE  /\ [o EXCEPT !.approved = a, !.valid = v] \in Object
         /\ [o EXCEPT !.approved = a, !.once = n, !.valid = v] \in Object
         /\ [o EXCEPT !.present = a, !.approved = n, !.valid = v,
                      !.stamp = s, !.left = l] \in Object
         /\ [o EXCEPT !.stamp = s, !.left = l] \in Object
         /\ [o EXCEPT !.left = l] \in Object
<1>1. [o EXCEPT !.approved = a, !.valid = v] \in Object
  BY DEF Object
<1>2. [o EXCEPT !.approved = a, !.once = n, !.valid = v] \in Object
  BY DEF Object
<1>3. [o EXCEPT !.present = a, !.approved = n, !.valid = v, !.stamp = s, !.left = l] \in Object
  BY DEF Object
<1>4. [o EXCEPT !.stamp = s, !.left = l] \in Object
  BY DEF Object
<1>5. [o EXCEPT !.left = l] \in Object
  BY DEF Object
<1> QED
  BY <1>1, <1>2, <1>3, <1>4, <1>5

\* Bringing a deadline closer keeps its type.
LEMMA SoonerType == \A o \in Object : Sooner(o) \in Object
  BY DEF Sooner, Object

\* What a listing of the grants holds is pairs of a pod and a destination.
LEMMA AllowedType == TypeOK => Allowed \subseteq Pods \X Dests
<1>1. TypeOK => \A g \in Grants : store[g].pods \subseteq Pods /\ store[g].dest \in Dests
  BY DEF TypeOK, Object
<1> QED
  BY <1>1 DEF Allowed

-----------------------------------------------------------------------------
(* Type correctness *)

\* A refresh keeps the listings and indexes well typed.
LEMMA RefreshType ==
  ASSUME TypeOK, NEW x \in Refreshers
  PROVE  /\ ListPods(x) => podList' \in [Refreshers -> SUBSET [IPs -> Pods \cup {0}]]
         /\ ListGrants(x) => grantList' \in [Refreshers -> SUBSET SUBSET (Pods \X Dests)]
         /\ InstallPods(x) => /\ podIndex' \in [IPs -> Pods \cup {0}]
                              /\ podList' \in [Refreshers -> SUBSET [IPs -> Pods \cup {0}]]
         /\ InstallGrants(x) => /\ grantIndex' \subseteq Pods \X Dests
                                /\ grantList' \in [Refreshers -> SUBSET SUBSET (Pods \X Dests)]
<1>1. ASSUME ListPods(x)
      PROVE  podList' \in [Refreshers -> SUBSET [IPs -> Pods \cup {0}]]
  BY <1>1 DEF TypeOK, ListPods
<1>2. ASSUME ListGrants(x)
      PROVE  grantList' \in [Refreshers -> SUBSET SUBSET (Pods \X Dests)]
  <2>1. Allowed \subseteq Pods \X Dests
    BY AllowedType
  <2> QED
    BY <1>2, <2>1 DEF TypeOK, ListGrants
<1>3. ASSUME InstallPods(x)
      PROVE  /\ podIndex' \in [IPs -> Pods \cup {0}]
             /\ podList' \in [Refreshers -> SUBSET [IPs -> Pods \cup {0}]]
  <2>1. podList[x] \subseteq [IPs -> Pods \cup {0}]
    BY DEF TypeOK
  <2> QED
    BY <1>3, <2>1 DEF TypeOK, InstallPods
<1>4. ASSUME InstallGrants(x)
      PROVE  /\ grantIndex' \subseteq Pods \X Dests
             /\ grantList' \in [Refreshers -> SUBSET SUBSET (Pods \X Dests)]
  <2>1. grantList[x] \subseteq SUBSET (Pods \X Dests)
    BY DEF TypeOK
  <2>2. grantIndex' \subseteq Pods \X Dests
    BY <1>4, <2>1 DEF InstallGrants
  <2> QED
    BY <1>4, <2>2 DEF TypeOK, InstallGrants
<1> QED
  BY <1>1, <1>2, <1>3, <1>4

\* Moving a handler on keeps its type.
LEMMA HandlerType ==
  ASSUME TypeOK, NEW r \in Requests
  PROVE  /\ \A pc \in PCs : Goto(r, pc) => req' \in [Requests -> Request]
         /\ \A p \in Pods : Identified(r, p) => req' \in [Requests -> Request]
<1>1. req[r] \in Request
  BY DEF TypeOK
<1>2. \A pc \in PCs : [req[r] EXCEPT !.pc = pc] \in Request
  BY <1>1 DEF Request
<1>3. \A pc \in PCs : \A p \in Pods : [req[r] EXCEPT !.pod = p, !.pc = pc] \in Request
  BY <1>1 DEF Request
<1>4. ASSUME NEW pc \in PCs, Goto(r, pc) PROVE req' \in [Requests -> Request]
  BY <1>2, <1>4 DEF TypeOK, Goto
<1>5. ASSUME NEW p \in Pods, Identified(r, p) PROVE req' \in [Requests -> Request]
  BY <1>3, <1>5 DEF TypeOK, Identified, PCs
<1> QED
  BY <1>4, <1>5

\* Type correctness: whatever pods, grants and requests do, the indexes and the
\* handlers hold only pods, destinations and listings of the right form.
LEMMA TypeStep == TypeOK /\ [Next]_vars => TypeOK'
<1> SUFFICES ASSUME TypeOK, [Next]_vars PROVE TypeOK'
  OBVIOUS
<1>1. Loop \in Refreshers /\ Requests \subseteq Refreshers
  BY DEF Refreshers
<1>2. CASE LoopListPods \/ LoopInstallPods \/ LoopListGrants \/ LoopInstallGrants
  <2>1. CASE LoopListPods
    BY <1>1, <2>1, RefreshType DEF TypeOK, LoopListPods, ListPods, index
  <2>2. CASE LoopInstallPods
    BY <1>1, <2>2, RefreshType DEF TypeOK, LoopInstallPods, InstallPods
  <2>3. CASE LoopListGrants
    BY <1>1, <2>3, RefreshType DEF TypeOK, LoopListGrants, ListGrants, index
  <2>4. CASE LoopInstallGrants
    BY <1>1, <2>4, RefreshType DEF TypeOK, LoopInstallGrants, InstallGrants
  <2> QED
    BY <1>2, <2>1, <2>2, <2>3, <2>4
<1>3. ASSUME NEW r \in Requests, NEW p \in Pods, NEW d \in Dests \cup {BadDest},
             Connect(r, p, d)
      PROVE  TypeOK'
  <2>1. pods[p].ip \in IPs
    BY DEF TypeOK, Pod
  <2>2. [pc |-> "lookup", src |-> p, ip |-> pods[p].ip, dest |-> d, pod |-> 0] \in Request
    BY <2>1 DEF Request, PCs
  <2> QED
    BY <1>3, <2>2 DEF TypeOK, Connect, index
<1>4. ASSUME NEW r \in Requests, Handle(r)
      PROVE  TypeOK'
  <2>1. /\ \A pc \in PCs : Goto(r, pc) => req' \in [Requests -> Request]
        /\ \A p \in Pods : Identified(r, p) => req' \in [Requests -> Request]
    BY HandlerType
  <2>2. {"listPods", "relookup", "listGrants", "authorise", "dial", "tunnel", "denied"}
          \subseteq PCs
    BY DEF PCs
  <2>3. podIndex[req[r].ip] \in Pods \cup {0}
    BY DEF TypeOK, Request
  <2>4. CASE LookupPod(r)
    BY <2>1, <2>2, <2>3, <2>4 DEF TypeOK, LookupPod, index
  <2>5. CASE LookupPodAgain(r)
    BY <2>1, <2>2, <2>3, <2>5 DEF TypeOK, LookupPodAgain, index
  <2>6. CASE RequestListPods(r)
    BY <1>1, <2>6, RefreshType DEF TypeOK, RequestListPods, ListPods, index
  <2>7. CASE RequestInstallPods(r)
    BY <1>1, <2>1, <2>2, <2>7, RefreshType DEF TypeOK, RequestInstallPods, InstallPods
  <2>8. CASE RequestListPodsFails(r)
    BY <2>1, <2>2, <2>8 DEF TypeOK, RequestListPodsFails, index
  <2>9. CASE CheckGrant(r)
    BY <2>1, <2>2, <2>9 DEF TypeOK, CheckGrant, index
  <2>10. CASE RequestListGrants(r)
    BY <1>1, <2>10, RefreshType DEF TypeOK, RequestListGrants, ListGrants, index
  <2>11. CASE RequestInstallGrants(r)
    BY <1>1, <2>1, <2>2, <2>11, RefreshType DEF TypeOK, RequestInstallGrants, InstallGrants
  <2>12. CASE RequestListGrantsFails(r)
    BY <2>1, <2>2, <2>12 DEF TypeOK, RequestListGrantsFails, index
  <2>13. CASE Authorise(r)
    BY <2>1, <2>2, <2>13 DEF TypeOK, Authorise, index
  <2>14. CASE Dial(r)
    BY <2>1, <2>2, <2>14 DEF TypeOK, Dial, index
  <2> QED
    BY <1>4, <2>4, <2>5, <2>6, <2>7, <2>8, <2>9, <2>10, <2>11, <2>12, <2>13, <2>14
       DEF Handle
<1>5. ASSUME NEW r \in Requests, Finish(r)
      PROVE  TypeOK'
  BY <1>5, IdleType DEF TypeOK, Finish, index
<1>6. ASSUME NEW p \in Pods, NEW pod \in Pod, WritePod(p, pod)
      PROVE  TypeOK'
  BY <1>6 DEF TypeOK, WritePod, index
<1>7. ASSUME NEW p \in Pods,
             (\E i \in IPs : StartPod(p, i)) \/ FinishPod(p) \/ RemovePod(p)
      PROVE  TypeOK'
  <2>1. pods[p] \in Pod
    BY DEF TypeOK
  <2>2. \A i \in IPs : [phase |-> "running", ip |-> i] \in Pod
    BY DEF Pod
  <2>3. /\ [pods[p] EXCEPT !.phase = "done"] \in Pod
        /\ [pods[p] EXCEPT !.phase = "gone"] \in Pod
    BY <2>1 DEF Pod
  <2> QED
    BY <1>6, <1>7, <2>2, <2>3 DEF StartPod, FinishPod, RemovePod
<1>8. ASSUME NEW g \in Grants, NEW o \in Object, WriteGrant(g, o)
      PROVE  TypeOK'
  BY <1>8 DEF TypeOK, WriteGrant, index
<1>9. ASSUME NEW g \in Grants, NEW target \in Targets, NEW d \in Dests,
             NEW m \in BOOLEAN, NEW t \in TTLs, CreateGrant(g, target, d, m, t)
      PROVE  TypeOK'
  <2>1. NewObject(target, d, m, t) \in Object
    BY ConstantsAssumption, NewObjectType
  <2> QED
    BY <1>8, <1>9, <2>1 DEF CreateGrant
<1>10. ASSUME NEW g \in Grants,
              \/ \E n \in BOOLEAN : Approve(g, n)
              \/ Withdraw(g) \/ Delete(g) \/ Controller(g)
       PROVE  TypeOK'
  <2>1. store[g] \in Object /\ store[g].ttl \in Int /\ store[g].left \in Nat
    BY DEF TypeOK, Object
  <2>2. ProxyTTL(store[g].ttl) \in Nat /\ CapCut(store[g].ttl) \in Nat
    BY <2>1, ConstantsAssumption DEF ProxyTTL, CapCut
  <2> DEFINE left == store[g].left - CapCut(store[g].ttl)
  <2>3. (IF left > 0 THEN left ELSE 0) \in Nat
    BY <2>1, <2>2
  <2>4. ASSUME NEW n \in BOOLEAN, Approve(g, n) PROVE TypeOK'
    <3>1. (n /\ TTLAllowed(store[g].ttl)) \in BOOLEAN
      OBVIOUS
    <3>2. [store[g] EXCEPT !.approved = TRUE, !.once = TRUE,
             !.valid = n /\ TTLAllowed(store[g].ttl)] \in Object
      BY <2>1, <3>1, ObjectUpdate
    <3> QED
      BY <1>8, <2>4, <3>2 DEF Approve
  <2>5. CASE Withdraw(g)
    BY <1>8, <2>1, <2>5, ObjectUpdate DEF Withdraw
  <2>6. CASE Delete(g)
    BY <1>8, <2>1, <2>6, ObjectUpdate DEF Delete
  <2>7. CASE StampApproval(g)
    BY <1>8, <2>1, <2>2, <2>7, ObjectUpdate DEF StampApproval
  <2>8. CASE StampExpiry(g)
    <3>1. [store[g] EXCEPT !.stamp = "expiresAt",
                           !.left = IF left > 0 THEN left ELSE 0] \in Object
      BY <2>1, <2>3, ObjectUpdate
    <3> QED
      BY <1>8, <2>8, <3>1 DEF StampExpiry
  <2>9. CASE ClearStamp(g)
    BY <1>8, <2>1, <2>9, ObjectUpdate DEF ClearStamp
  <2> QED
    BY <1>10, <2>4, <2>5, <2>6, <2>7, <2>8, <2>9 DEF Controller
<1>11. CASE Tick
  <2>1. store' \in [Grants -> Object]
    BY <1>11, SoonerType DEF Tick, TypeOK
  <2> QED
    BY <1>11, <2>1 DEF Tick, TypeOK, index
<1>12. CASE UNCHANGED vars
  BY <1>12 DEF TypeOK, vars
<1> QED
  BY <1>2, <1>3, <1>4, <1>5, <1>7, <1>9, <1>10, <1>11, <1>12 DEF Next

\* The indexes and handlers are well typed in every reachable state.
THEOREM TypeCorrect == Spec => []TypeOK
<1>1. Init => TypeOK
  <2> SUFFICES ASSUME Init PROVE TypeOK
    OBVIOUS
  <2>1. (CHOOSE i \in IPs : TRUE) \in IPs
    BY ConstantsAssumption
  <2> QED
    BY <2>1, IdleType, NoObjectType DEF Init, TypeOK, Pod
<1> QED
  BY <1>1, TypeStep, PTL DEF Spec

-----------------------------------------------------------------------------
(* Tunnels are granted *)

\* Some grant that has been approved names d for pod p.
Covered(p, d) == \E g \in Grants : Names(g, p, d) /\ store[g].once

\* Everything on the way from the API server to a tunnel is covered: listings,
\* the index, and the requests that have passed it.
CoverInv ==
  /\ TypeOK
  /\ \A g \in Grants : store[g].approved => store[g].once
  /\ \A x \in Refreshers : \A list \in grantList[x] : \A p \in Pods : \A d \in Dests :
       <<p, d>> \in list => Covered(p, d)
  /\ \A p \in Pods : \A d \in Dests : <<p, d>> \in grantIndex => Covered(p, d)
  /\ TunnelGranted

\* A grant that has been approved keeps its destination, pods and mode.
Kept ==
  \A g \in Grants : store[g].once =>
    /\ store'[g].once
    /\ store'[g].proxy = store[g].proxy
    /\ store'[g].pods = store[g].pods
    /\ store'[g].dest = store[g].dest

LEMMA CoveredStable ==
  ASSUME Kept, NEW p, NEW d, Covered(p, d)
  PROVE  Covered(p, d)'
<1>1. PICK g \in Grants : Names(g, p, d) /\ store[g].once
  BY DEF Covered
<1>2. Names(g, p, d)' /\ store'[g].once
  BY <1>1 DEF Kept, Names
<1> QED
  BY <1>2 DEF Covered

\* No write to a grant takes back its approval history, and an approved grant
\* has been approved.
LEMMA WriteKeeps ==
  ASSUME CoverInv, NEW g \in Grants, NEW o \in Object, WriteGrant(g, o),
         o.approved => o.once,
         store[g].once => /\ o.once /\ o.proxy = store[g].proxy
                          /\ o.pods = store[g].pods /\ o.dest = store[g].dest
  PROVE  Kept /\ \A h \in Grants : store'[h].approved => store'[h].once
<1>1. \A h \in Grants : store'[h] = IF h = g THEN o ELSE store[h]
  BY DEF WriteGrant, CoverInv, TypeOK
<1> QED
  BY <1>1 DEF Kept, CoverInv

\* An unchanged store keeps everything.
LEMMA SameStore ==
  ASSUME CoverInv, store' = store
  PROVE  Kept /\ \A h \in Grants : store'[h].approved => store'[h].once
BY DEF Kept, CoverInv

\* If the store is kept, listings, index and handlers that do not change, or
\* only lose what they had, stay covered.
LEMMA Frame ==
  ASSUME CoverInv, Kept
  PROVE  /\ grantList' = grantList =>
              \A x \in Refreshers : \A list \in grantList'[x] :
                \A p \in Pods : \A d \in Dests : <<p, d>> \in list => Covered(p, d)'
         /\ grantIndex' = grantIndex =>
              \A p \in Pods : \A d \in Dests : <<p, d>> \in grantIndex' => Covered(p, d)'
         /\ req' = req => TunnelGranted'
<1>1. ASSUME grantList' = grantList, NEW x \in Refreshers, NEW list \in grantList'[x],
             NEW p \in Pods, NEW d \in Dests, <<p, d>> \in list
      PROVE  Covered(p, d)'
  <2>1. Covered(p, d)
    BY <1>1 DEF CoverInv
  <2> QED
    BY <2>1, CoveredStable
<1>2. ASSUME grantIndex' = grantIndex, NEW p \in Pods, NEW d \in Dests,
             <<p, d>> \in grantIndex'
      PROVE  Covered(p, d)'
  <2>1. Covered(p, d)
    BY <1>2 DEF CoverInv
  <2> QED
    BY <2>1, CoveredStable
<1>3. ASSUME NEW r \in Requests, req[r].pc \in {"dial", "tunnel"}
      PROVE  \E g \in Grants : /\ store'[g].proxy /\ req[r].pod \in store'[g].pods
                               /\ store'[g].dest = req[r].dest /\ store'[g].once
  <2>1. PICK g \in Grants : Names(g, req[r].pod, req[r].dest) /\ store[g].once
    BY <1>3 DEF CoverInv, TunnelGranted
  <2> QED
    BY <2>1 DEF Kept, Names
<1>4. ASSUME req' = req PROVE TunnelGranted'
  BY <1>3, <1>4 DEF TunnelGranted, Names
<1> QED
  BY <1>1, <1>2, <1>4

\* What a handler may do: it stays out of "dial" unless the index allows it.
LEMMA HandlerKeeps ==
  ASSUME CoverInv, store' = store, NEW r \in Requests, NEW q \in Request,
         req' = [req EXCEPT ![r] = q],
         q.pc \in {"dial", "tunnel"} =>
           \E g \in Grants : Names(g, q.pod, q.dest) /\ store[g].once
  PROVE  TunnelGranted'
<1>1. \A s \in Requests : req'[s] = IF s = r THEN q ELSE req[s]
  BY DEF CoverInv, TypeOK
<1> QED
  BY <1>1 DEF CoverInv, TunnelGranted, Names

\* The steps that move a request on without authorising it.
LEMMA GotoKeeps ==
  ASSUME CoverInv, store' = store, NEW r \in Requests
  PROVE  /\ \A pc \in PCs \ {"dial", "tunnel"} : Goto(r, pc) => TunnelGranted'
         /\ \A p \in Pods : Identified(r, p) => TunnelGranted'
<1>1. req[r] \in Request
  BY DEF CoverInv, TypeOK
<1>2. ASSUME NEW pc \in PCs \ {"dial", "tunnel"}, Goto(r, pc) PROVE TunnelGranted'
  <2>1. /\ [req[r] EXCEPT !.pc = pc] \in Request
        /\ [req[r] EXCEPT !.pc = pc].pc = pc
    BY <1>1 DEF Request
  <2> QED
    BY <1>2, <2>1, HandlerKeeps DEF Goto
<1>3. ASSUME NEW p \in Pods, Identified(r, p) PROVE TunnelGranted'
  <2> DEFINE pc == IF p \in Unlabelled \/ req[r].dest = BadDest THEN "denied" ELSE "check"
  <2>1. /\ [req[r] EXCEPT !.pod = p, !.pc = pc] \in Request
        /\ [req[r] EXCEPT !.pod = p, !.pc = pc].pc = pc
    BY <1>1 DEF Request, PCs
  <2>2. pc \notin {"dial", "tunnel"}
    OBVIOUS
  <2>3. req' = [req EXCEPT ![r] = [req[r] EXCEPT !.pod = p, !.pc = pc]]
    BY <1>3 DEF Identified, CoverInv, TypeOK
  <2> HIDE DEF pc
  <2> QED
    BY <2>1, <2>2, <2>3, HandlerKeeps
<1> QED
  BY <1>2, <1>3

\* A refresh puts into the index only what is covered.
LEMMA RefreshKeeps ==
  ASSUME CoverInv, store' = store, NEW x \in Refreshers
  PROVE  /\ ListGrants(x) =>
              \A y \in Refreshers : \A list \in grantList'[y] :
                \A p \in Pods : \A d \in Dests : <<p, d>> \in list => Covered(p, d)'
         /\ InstallGrants(x) =>
              /\ \A y \in Refreshers : \A list \in grantList'[y] :
                   \A p \in Pods : \A d \in Dests : <<p, d>> \in list => Covered(p, d)'
              /\ \A p \in Pods : \A d \in Dests :
                   <<p, d>> \in grantIndex' => Covered(p, d)'
<1>1. Kept
  BY SameStore
<1>2. ASSUME NEW y \in Refreshers, NEW list \in grantList[y],
             NEW p \in Pods, NEW d \in Dests, <<p, d>> \in list
      PROVE  Covered(p, d)'
  <2>1. Covered(p, d)
    BY <1>2 DEF CoverInv
  <2> QED
    BY <1>1, <2>1, CoveredStable
<1>3. ASSUME ListGrants(x), NEW y \in Refreshers, NEW list \in grantList'[y],
             NEW p \in Pods, NEW d \in Dests, <<p, d>> \in list
      PROVE  Covered(p, d)'
  <2>1. CASE y # x
    <3>1. list \in grantList[y]
      BY <1>3, <2>1 DEF ListGrants, CoverInv, TypeOK
    <3> QED
      BY <1>2, <1>3, <3>1
  <2>2. CASE y = x
    <3>1. list = Allowed
      BY <1>3, <2>2 DEF ListGrants, CoverInv, TypeOK
    <3>2. PICK g \in Grants : /\ Eligible(store[g])
                              /\ <<p, d>> \in store[g].pods \X {store[g].dest}
      BY <1>3, <3>1 DEF Allowed
    <3>3. store[g].once
      BY <3>2 DEF Eligible, grantActive, CoverInv
    <3>4. Names(g, p, d)
      BY <3>2 DEF Names, Eligible
    <3>5. Covered(p, d)
      BY <3>3, <3>4 DEF Covered
    <3> QED
      BY <1>1, <3>5, CoveredStable
  <2> QED
    BY <2>1, <2>2
<1>4. ASSUME InstallGrants(x), NEW y \in Refreshers, NEW list \in grantList'[y],
             NEW p \in Pods, NEW d \in Dests, <<p, d>> \in list
      PROVE  Covered(p, d)'
  <2>1. list \in grantList[y]
    BY <1>4 DEF InstallGrants, CoverInv, TypeOK
  <2> QED
    BY <1>2, <1>4, <2>1
<1>5. ASSUME InstallGrants(x), NEW p \in Pods, NEW d \in Dests, <<p, d>> \in grantIndex'
      PROVE  Covered(p, d)'
  <2>1. grantIndex' \in grantList[x]
    BY <1>5 DEF InstallGrants
  <2> QED
    BY <1>2, <1>5, <2>1
<1> QED
  BY <1>3, <1>4, <1>5

\* The parts of CoverInv that a step must show, its type apart.
Cover ==
  /\ \A g \in Grants : store[g].approved => store[g].once
  /\ \A x \in Refreshers : \A list \in grantList[x] : \A p \in Pods : \A d \in Dests :
       <<p, d>> \in list => Covered(p, d)
  /\ \A p \in Pods : \A d \in Dests : <<p, d>> \in grantIndex => Covered(p, d)
  /\ TunnelGranted

LEMMA CoverStep == CoverInv /\ [Next]_vars => CoverInv'
<1> SUFFICES ASSUME CoverInv, [Next]_vars PROVE Cover'
  BY TypeStep DEF CoverInv, Cover
<1>1. Loop \in Refreshers /\ Requests \subseteq Refreshers
  BY DEF Refreshers
<1>2. ASSUME store' = store, grantList' = grantList, grantIndex' = grantIndex, TunnelGranted'
      PROVE  Cover'
  BY <1>2, SameStore, Frame DEF Cover
<1>3. ASSUME NEW x \in Refreshers, ListGrants(x) \/ InstallGrants(x), TunnelGranted'
      PROVE  Cover'
  BY <1>3, SameStore, RefreshKeeps, Frame DEF Cover, ListGrants, InstallGrants, index
<1>4. CASE LoopListPods \/ LoopInstallPods \/ LoopListGrants \/ LoopInstallGrants
  <2>1. store' = store /\ req' = req
    BY <1>4 DEF LoopListPods, LoopInstallPods, LoopListGrants, LoopInstallGrants,
                ListPods, InstallPods, ListGrants, InstallGrants
  <2>2. TunnelGranted'
    BY <2>1, SameStore, Frame
  <2>3. CASE LoopListPods \/ LoopInstallPods
    BY <1>2, <2>1, <2>2, <2>3 DEF LoopListPods, LoopInstallPods, ListPods, InstallPods, index
  <2>4. CASE LoopListGrants \/ LoopInstallGrants
    BY <1>1, <1>3, <2>2, <2>4 DEF LoopListGrants, LoopInstallGrants
  <2> QED
    BY <1>4, <2>3, <2>4
<1>5. ASSUME NEW r \in Requests, NEW p \in Pods, NEW d \in Dests \cup {BadDest},
             Connect(r, p, d)
      PROVE  Cover'
  <2> DEFINE q == [pc |-> "lookup", src |-> p, ip |-> pods[p].ip, dest |-> d, pod |-> 0]
  <2>1. q \in Request /\ q.pc = "lookup"
    BY DEF CoverInv, TypeOK, Pod, Request, PCs
  <2>2. TunnelGranted'
    BY <1>5, <2>1, HandlerKeeps DEF Connect
  <2> QED
    BY <1>2, <1>5, <2>2 DEF Connect, index
<1>6. ASSUME NEW r \in Requests, Handle(r)
      PROVE  Cover'
  <2>1. store' = store
    BY <1>6 DEF Handle, LookupPod, LookupPodAgain, RequestListPods, RequestInstallPods,
                RequestListPodsFails, CheckGrant, RequestListGrants, RequestInstallGrants,
                RequestListGrantsFails, Authorise, Dial, ListPods, InstallPods, ListGrants,
                InstallGrants
  <2>2. \A pc \in PCs \ {"dial", "tunnel"} : Goto(r, pc) => TunnelGranted'
    BY <2>1, GotoKeeps
  <2>3. \A p \in Pods : Identified(r, p) => TunnelGranted'
    BY <2>1, GotoKeeps
  <2>4. {"listPods", "relookup", "listGrants", "authorise", "denied"}
          \subseteq PCs \ {"dial", "tunnel"}
    BY DEF PCs
  <2>5. podIndex[req[r].ip] \in Pods \cup {0}
    BY DEF CoverInv, TypeOK, Request
  <2>6. CASE LookupPod(r)
    <3>1. TunnelGranted'
      BY <2>2, <2>3, <2>4, <2>5, <2>6 DEF LookupPod
    <3> QED
      BY <1>2, <2>6, <3>1 DEF LookupPod, index
  <2>7. CASE LookupPodAgain(r)
    <3>1. TunnelGranted'
      BY <2>2, <2>3, <2>4, <2>5, <2>7 DEF LookupPodAgain
    <3> QED
      BY <1>2, <2>7, <3>1 DEF LookupPodAgain, index
  <2>8. CASE RequestListPods(r)
    <3>1. TunnelGranted'
      BY <2>1, <2>8, SameStore, Frame DEF RequestListPods
    <3> QED
      BY <1>2, <2>8, <3>1 DEF RequestListPods, ListPods, index
  <2>9. CASE RequestInstallPods(r)
    <3>1. TunnelGranted'
      BY <2>2, <2>4, <2>9 DEF RequestInstallPods
    <3> QED
      BY <1>2, <2>9, <3>1 DEF RequestInstallPods, InstallPods
  <2>10. CASE RequestListPodsFails(r)
    <3>1. TunnelGranted'
      BY <2>2, <2>4, <2>10 DEF RequestListPodsFails
    <3> QED
      BY <1>2, <2>10, <3>1 DEF RequestListPodsFails, index
  <2>11. CASE CheckGrant(r)
    <3>1. TunnelGranted'
      BY <2>2, <2>4, <2>11 DEF CheckGrant
    <3> QED
      BY <1>2, <2>11, <3>1 DEF CheckGrant, index
  <2>12. CASE RequestListGrants(r)
    <3>1. TunnelGranted'
      BY <2>1, <2>12, SameStore, Frame DEF RequestListGrants
    <3> QED
      BY <1>1, <1>3, <2>12, <3>1 DEF RequestListGrants
  <2>13. CASE RequestInstallGrants(r)
    <3>1. TunnelGranted'
      BY <2>2, <2>4, <2>13 DEF RequestInstallGrants
    <3> QED
      BY <1>1, <1>3, <2>13, <3>1 DEF RequestInstallGrants
  <2>14. CASE RequestListGrantsFails(r)
    <3>1. TunnelGranted'
      BY <2>2, <2>4, <2>14 DEF RequestListGrantsFails
    <3> QED
      BY <1>2, <2>14, <3>1 DEF RequestListGrantsFails, index
  <2>15. req[r] \in Request
    BY DEF CoverInv, TypeOK
  <2>16. ASSUME NEW pc \in {"dial", "tunnel"}, Goto(r, pc),
                \E g \in Grants : Names(g, req[r].pod, req[r].dest) /\ store[g].once
         PROVE  TunnelGranted'
    <3> DEFINE q == [req[r] EXCEPT !.pc = pc]
    <3>1. q \in Request /\ q.pod = req[r].pod /\ q.dest = req[r].dest
      BY <2>15 DEF Request, PCs
    <3>2. req' = [req EXCEPT ![r] = q]
      BY <2>16 DEF Goto
    <3> HIDE DEF q
    <3> QED
      BY <2>1, <2>16, <3>1, <3>2, HandlerKeeps
  <2>17. CASE Authorise(r)
    <3>1. CASE Allows(r)
      <4>1. <<req[r].pod, req[r].dest>> \in grantIndex
        BY <3>1 DEF Allows
      <4>2. req[r].pod \in Pods /\ req[r].dest \in Dests
        BY <4>1 DEF CoverInv, TypeOK
      <4>3. Covered(req[r].pod, req[r].dest)
        BY <4>1, <4>2 DEF CoverInv
      <4> QED
        BY <1>2, <2>16, <2>17, <3>1, <4>3 DEF Authorise, Covered, index
    <3>2. CASE ~Allows(r)
      BY <1>2, <2>2, <2>4, <2>17, <3>2 DEF Authorise, index
    <3> QED
      BY <3>1, <3>2
  <2>18. CASE Dial(r)
    <3>1. \E g \in Grants : Names(g, req[r].pod, req[r].dest) /\ store[g].once
      BY <2>18 DEF Dial, CoverInv, TunnelGranted
    <3>2. TunnelGranted'
      BY <2>2, <2>4, <2>16, <2>18, <3>1 DEF Dial
    <3> QED
      BY <1>2, <2>18, <3>2 DEF Dial, index
  <2> QED
    BY <1>6, <2>6, <2>7, <2>8, <2>9, <2>10, <2>11, <2>12, <2>13, <2>14, <2>17, <2>18
       DEF Handle
<1>7. ASSUME NEW r \in Requests, Finish(r)
      PROVE  Cover'
  <2>1. Idle.pc = "idle"
    BY DEF Idle
  <2>2. TunnelGranted'
    BY <1>7, <2>1, IdleType, HandlerKeeps DEF Finish
  <2> QED
    BY <1>2, <1>7, <2>2 DEF Finish, index
<1>8. ASSUME NEW p \in Pods,
             (\E i \in IPs : StartPod(p, i)) \/ FinishPod(p) \/ RemovePod(p)
      PROVE  Cover'
  <2>1. UNCHANGED <<store, grantIndex, grantList, req>>
    BY <1>8 DEF StartPod, FinishPod, RemovePod, WritePod, index
  <2> QED
    BY <1>2, <2>1, SameStore, Frame
<1>9. ASSUME Kept, \A h \in Grants : store'[h].approved => store'[h].once,
             UNCHANGED <<grantIndex, grantList, req>>
      PROVE  Cover'
  BY <1>9, Frame DEF Cover
<1>10. ASSUME NEW g \in Grants, NEW target \in Targets, NEW d \in Dests,
              NEW m \in BOOLEAN, NEW t \in TTLs, CreateGrant(g, target, d, m, t)
       PROVE  Cover'
  <2>1. NewObject(target, d, m, t) \in Object /\ ~NewObject(target, d, m, t).approved
    BY ConstantsAssumption, NewObjectType DEF NewObject
  <2>2. ~store[g].once
    BY <1>10, NoObjectType DEF CreateGrant
  <2> QED
    BY <1>9, <1>10, <2>1, <2>2, WriteKeeps DEF CreateGrant, WriteGrant, index
<1>11. ASSUME NEW g \in Grants,
              \/ \E n \in BOOLEAN : Approve(g, n)
              \/ Withdraw(g) \/ Delete(g) \/ Controller(g)
       PROVE  Cover'
  <2>1. store[g] \in Object /\ (store[g].approved => store[g].once)
    BY DEF CoverInv, TypeOK
  <2>2. ASSUME NEW o, WriteGrant(g, o), o.approved => o.once,
               store[g].once => /\ o.once /\ o.proxy = store[g].proxy
                                /\ o.pods = store[g].pods /\ o.dest = store[g].dest
        PROVE  Cover'
    <3>1. o \in Object
      BY <2>2, TypeStep DEF WriteGrant, CoverInv, TypeOK
    <3> QED
      BY <1>9, <2>2, <3>1, WriteKeeps DEF WriteGrant, index
  <2>3. ASSUME NEW n \in BOOLEAN, Approve(g, n) PROVE Cover'
    <3> DEFINE o == [store[g] EXCEPT !.approved = TRUE, !.once = TRUE,
                                     !.valid = n /\ TTLAllowed(store[g].ttl)]
    <3>1. /\ o.once /\ o.proxy = store[g].proxy
          /\ o.pods = store[g].pods /\ o.dest = store[g].dest
      BY <2>1 DEF Object
    <3> QED
      BY <2>2, <2>3, <3>1 DEF Approve
  <2>4. CASE Withdraw(g)
    <3> DEFINE o == [store[g] EXCEPT !.approved = FALSE, !.valid = TRUE]
    <3>1. /\ ~o.approved /\ o.once = store[g].once /\ o.proxy = store[g].proxy
          /\ o.pods = store[g].pods /\ o.dest = store[g].dest
      BY <2>1 DEF Object
    <3> QED
      BY <2>2, <2>4, <3>1 DEF Withdraw
  <2>5. CASE Delete(g)
    <3> DEFINE o == [store[g] EXCEPT !.present = FALSE, !.approved = FALSE, !.valid = TRUE,
                                     !.stamp = "none", !.left = 0]
    <3>1. /\ ~o.approved /\ o.once = store[g].once
          /\ o.proxy = store[g].proxy /\ o.pods = store[g].pods /\ o.dest = store[g].dest
      BY <2>1 DEF Object
    <3> QED
      BY <2>1, <2>2, <2>5, <3>1 DEF Delete
  <2>6. ASSUME NEW st, NEW l, WriteGrant(g, [store[g] EXCEPT !.stamp = st, !.left = l])
        PROVE  Cover'
    <3> DEFINE o == [store[g] EXCEPT !.stamp = st, !.left = l]
    <3>1. /\ o.approved = store[g].approved /\ o.once = store[g].once
          /\ o.proxy = store[g].proxy /\ o.pods = store[g].pods /\ o.dest = store[g].dest
      BY <2>1 DEF Object
    <3> QED
      BY <2>1, <2>2, <2>6, <3>1
  <2>7. CASE Controller(g)
    BY <2>6, <2>7 DEF Controller, StampApproval, StampExpiry, ClearStamp
  <2> QED
    BY <1>11, <2>3, <2>4, <2>5, <2>7
<1>12. CASE Tick
  <2>1. \A g \in Grants : store'[g] = Sooner(store[g]) /\ store[g] \in Object
    BY <1>12 DEF Tick, CoverInv, TypeOK
  <2>2. \A o \in Object : /\ Sooner(o).once = o.once /\ Sooner(o).proxy = o.proxy
                           /\ Sooner(o).pods = o.pods /\ Sooner(o).dest = o.dest
                           /\ Sooner(o).approved = o.approved
    BY DEF Sooner, Object
  <2>3. Kept /\ \A h \in Grants : store'[h].approved => store'[h].once
    BY <2>1, <2>2 DEF Kept, CoverInv
  <2> QED
    BY <1>9, <1>12, <2>3 DEF Tick, index
<1>13. CASE UNCHANGED vars
  BY <1>2, <1>13, SameStore, Frame DEF vars
<1> QED
  BY <1>4, <1>5, <1>6, <1>7, <1>8, <1>10, <1>11, <1>12, <1>13 DEF Next

\* However refreshes overlap and whatever becomes of the grants meanwhile, the
\* proxy dials only destinations that a PROXY_CONNECT grant, approved at some
\* time, names for the pod the request is attributed to.
THEOREM TunnelsGranted == Spec => []TunnelGranted
<1>1. Init => CoverInv
  <2> SUFFICES ASSUME Init PROVE CoverInv
    OBVIOUS
  <2>1. TypeOK
    <3>1. (CHOOSE i \in IPs : TRUE) \in IPs
      BY ConstantsAssumption
    <3> QED
      BY <3>1, IdleType, NoObjectType DEF Init, TypeOK, Pod
  <2>2. ~NoObject.approved
    BY DEF NoObject, NewObject
  <2>3. Idle.pc = "idle"
    BY DEF Idle
  <2> QED
    BY <2>1, <2>2, <2>3 DEF Init, CoverInv, TunnelGranted
<1>2. CoverInv => TunnelGranted
  BY DEF CoverInv
<1> QED
  BY <1>1, <1>2, CoverStep, PTL DEF Spec

=============================================================================
