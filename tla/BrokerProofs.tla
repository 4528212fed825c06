----------------------------- MODULE BrokerProofs -----------------------------
(***************************************************************************)
(* Proofs about the capability broker's requests for grants and about the  *)
(* log in which it, like the other services, records what it did.  Each is *)
(* proved by itself: Spec is that of GrantRequest, AuditSpec that of       *)
(* AuditLog.                                                               *)
(*                                                                         *)
(* GrantRequest, for any number of jobs, profiles, requests and grants: no *)
(* call to GitHub with an expired token, what a grant that no              *)
(* administrator answers for may reach, and by how much the cap on a job's *)
(* grants can be exceeded.                                                 *)
(*                                                                         *)
(* AuditLog, for any number of days, events, faults and restarts.  The     *)
(* handles: for any number of processes.  The chain: for a directory with  *)
(* one emitter; ChainInv carries it while no write or open has failed,     *)
(* FaultInv says what is left of it when they fail.                        *)
(***************************************************************************)
EXTENDS AuditLog, GrantRequest, FiniteSetTheorems, SequenceTheorems, TLAPS

-----------------------------------------------------------------------------
(* GrantRequest *)

Calls == [pc: {"none", "ask", "store", "use"}, start: Nat, token: Nat]

\* A request that will comment on a pull request.
Commenting(r) ==
  req[r].pc = "comment" \/ (req[r].pc = "create" /\ req[r].start # None)

\* A token outlives the request that took it, or that asked for it.
TokenInv ==
  /\ clock \in Nat /\ cached \in Nat
  /\ call \in [Requests -> Calls]
  /\ DOMAIN req = Requests
  /\ \A r \in Requests :
       /\ Commenting(r) => req[r].start \in Nat /\ req[r].start <= clock
       /\ call[r].pc = "ask" => call[r].start <= clock
       /\ call[r].pc \in {"store", "use"} => call[r].start + Timeout < call[r].token

LEMMA TokenInvInit == Init => TokenInv
BY DEF Init, TokenInit, NoCall, Idle, Commenting, TokenInv, Calls

\* Steps that leave the cache and the calls alone.
LEMMA TokenInvQuiet ==
  ASSUME TokenInv, UNCHANGED token, DOMAIN req' = Requests,
         \A r \in Requests : Commenting(r)' =>
           \/ req'[r] = req[r]
           \/ req'[r].start = clock
           \/ Commenting(r) /\ req'[r].start = req[r].start
  PROVE  TokenInv'
<1>1. clock' = clock /\ cached' = cached /\ call' = call
  BY DEF token
<1>2. ASSUME NEW r \in Requests, Commenting(r)'
      PROVE  req'[r].start \in Nat /\ req'[r].start <= clock
  BY <1>1, <1>2 DEF TokenInv, Commenting
<1> QED
  BY <1>1, <1>2 DEF TokenInv

LEMMA TokenInvNext == TokenInv /\ [Next]_vars => TokenInv'
<1> SUFFICES ASSUME TokenInv, [Next]_vars
             PROVE  TokenInv'
  OBVIOUS
<1> USE TokenAssumption
<1>1. CASE Crash
  BY <1>1 DEF Crash, TokenInv, Commenting, Idle, NoCall, Calls
<1>2. CASE Tick
  <2>1. clock' = clock + 1 /\ cached' = cached /\ call' = call /\ req' = req
    BY <1>2 DEF Tick, TokenTick
  <2>2. clock \in Nat /\ \A r \in Requests : call[r].start \in Nat
    BY DEF TokenInv, Calls
  <2> QED
    BY <2>1, <2>2 DEF TokenInv, Commenting
<1>3. ASSUME NEW n \in Names, ApproveAdmin(n) \/ End(n)
      PROVE  TokenInv'
  BY <1>3, TokenInvQuiet DEF ApproveAdmin, End, TokenInv, Commenting
<1>4. ASSUME NEW r \in Requests, Request(r)
      PROVE  TokenInv'
  <2>1. PICK j \in Jobs, shape \in Asked, start \in Starts :
          req' = [req EXCEPT ![r] =
            IF ValidNonAdmin(Profile[j], [shape EXCEPT !.mode = Mode("job", Profile[j], shape)])
            THEN [pc |-> "create", start |-> start, job |-> j,
                  spec |-> [shape EXCEPT !.mode = Mode("job", Profile[j], shape)],
                  checked |-> {AppliedFor(Profile[j])}]
            ELSE Idle]
    BY <1>4 DEF Request
  <2> DEFINE spec == [shape EXCEPT !.mode = Mode("job", Profile[j], shape)]
             next == [pc |-> "create", start |-> start, job |-> j, spec |-> spec,
                      checked |-> {AppliedFor(Profile[j])}]
  <2>2. req' = [req EXCEPT ![r] = Idle] \/ req' = [req EXCEPT ![r] = next]
    BY <2>1
  <2>3. next.pc = "create" /\ (next.start # None => next.start = clock) /\ Idle.pc = "idle"
    BY DEF Starts, Idle
  <2>4. UNCHANGED token
    BY <1>4 DEF Request
  <2> HIDE DEF next, spec
  <2>5. ASSUME NEW q \in Requests, Commenting(q)'
        PROVE  req'[q] = req[q] \/ req'[q].start = clock
    BY <2>2, <2>3, <2>5 DEF TokenInv, Commenting
  <2>6. DOMAIN req' = Requests
    BY <2>2 DEF TokenInv
  <2> QED
    BY <2>4, <2>5, <2>6, TokenInvQuiet DEF Commenting
<1>5. ASSUME NEW r \in Requests, Create(r)
      PROVE  TokenInv'
  BY <1>5, TokenInvQuiet DEF Create, Created, At, TokenInv, Commenting, Idle
<1>6. ASSUME NEW r \in Requests, CreateAdmin(r)
      PROVE  TokenInv'
  <2>1. PICK start \in Starts :
          req' = [req EXCEPT ![r] = IF start = None THEN Idle
                                    ELSE [pc |-> "comment", start |-> start]]
    BY <1>6 DEF CreateAdmin, Created
  <2>2. UNCHANGED token
    BY <1>6 DEF CreateAdmin, Created
  <2> DEFINE next == [pc |-> "comment", start |-> start]
  <2>3. req' = [req EXCEPT ![r] = Idle] \/ (start # None /\ req' = [req EXCEPT ![r] = next])
    BY <2>1
  <2>4. next.start = start /\ (start # None => start = clock) /\ Idle.pc = "idle"
    BY DEF Starts, Idle
  <2> HIDE DEF next
  <2>5. ASSUME NEW q \in Requests, Commenting(q)'
        PROVE  req'[q] = req[q] \/ req'[q].start = clock
    BY <2>3, <2>4, <2>5 DEF TokenInv, Commenting
  <2>6. DOMAIN req' = Requests
    BY <2>3 DEF TokenInv
  <2> QED
    BY <2>2, <2>5, <2>6, TokenInvQuiet DEF Commenting
<1>7. ASSUME NEW r \in Requests, Comment(r)
      PROVE  TokenInv'
  <2>1. req[r].start \in Nat /\ req[r].start <= clock
    BY <1>7 DEF Comment, At, TokenInv, Commenting
  <2> DEFINE c == IF Fresh THEN [pc |-> "use", start |-> req[r].start, token |-> cached]
                           ELSE [pc |-> "ask", start |-> req[r].start, token |-> 0]
  <2>2. /\ call' = [call EXCEPT ![r] = c]
        /\ clock' = clock /\ cached' = cached
        /\ req' = [req EXCEPT ![r] = [pc |-> "github"]]
    BY <1>7 DEF Comment, Get
  <2>3. /\ c \in Calls
        /\ c.pc = "ask" => c.start <= clock
        /\ c.pc \in {"store", "use"} => c.start + Timeout < c.token
    <3>1. CASE Fresh
      BY <2>1, <3>1 DEF Fresh, Calls, TokenInv
    <3>2. CASE ~Fresh
      BY <2>1, <3>2 DEF Calls
    <3> QED
      BY <3>1, <3>2
  <2> HIDE DEF c
  <2> QED
    BY <2>2, <2>3 DEF TokenInv, Commenting
<1>8. ASSUME NEW r \in Requests, CommentToken(r)
      PROVE  TokenInv'
  <2>1. req' = req
    BY <1>8 DEF CommentToken
  <2>2. CASE Issue(r)
    <3> DEFINE c == [call[r] EXCEPT !.pc = "store", !.token = clock + Lifetime]
    <3>1. /\ call[r] \in Calls
          /\ call[r].start \in Nat /\ clock \in Nat /\ call[r].start <= clock
      BY <2>2 DEF Issue, CallAt, TokenInv, Calls
    <3>2. c \in Calls /\ c.pc = "store" /\ c.start + Timeout < c.token
      <4>1. clock + Lifetime \in Nat /\ call[r].start + Timeout < clock + Lifetime
        BY <3>1
      <4>2. c \in Calls /\ c.pc = "store" /\ c.start = call[r].start /\ c.token = clock + Lifetime
        BY <3>1, <4>1 DEF Calls
      <4> QED
        BY <4>1, <4>2
    <3>3. call' = [call EXCEPT ![r] = c] /\ clock' = clock /\ cached' = cached
      BY <2>2 DEF Issue, TokenInv
    <3> HIDE DEF c
    <3> QED
      BY <2>1, <3>2, <3>3 DEF TokenInv, Commenting
  <2>3. CASE Store(r)
    BY <2>1, <2>3 DEF Store, CallAt, TokenInv, Commenting, Calls
  <2> QED
    BY <1>8, <2>2, <2>3 DEF CommentToken
<1>9. ASSUME NEW r \in Requests, Commented(r)
      PROVE  TokenInv'
  <2>1. /\ call' = [call EXCEPT ![r] = NoCall]
        /\ clock' = clock /\ cached' = cached
        /\ req' = [req EXCEPT ![r] = Idle]
    BY <1>9 DEF Commented, Use, Fail, Return
  <2> QED
    BY <2>1 DEF TokenInv, Commenting, Calls, NoCall, Idle
<1>10. ASSUME NEW r \in Requests, ApproveGitHub(r)
       PROVE  TokenInv'
  <2>1. PICK n \in Names :
          \/ req' = req
          \/ req' = [req EXCEPT ![r] = [pc |-> "patch", name |-> n,
                                        checked |-> {AppliedFor(Profile[grant[n].job])}]]
    BY <1>10 DEF ApproveGitHub, Approving
  <2>2. UNCHANGED token
    BY <1>10 DEF ApproveGitHub
  <2> QED
    BY <2>1, <2>2, TokenInvQuiet DEF TokenInv, Commenting
<1>11. ASSUME NEW r \in Requests, Patch(r) \/ Abort(r)
       PROVE  TokenInv'
  <2>1. req' = [req EXCEPT ![r] = Idle] /\ UNCHANGED token
    BY <1>11 DEF Patch, Abort, Return
  <2> QED
    BY <2>1, TokenInvQuiet DEF TokenInv, Commenting, Idle
<1>12. CASE UNCHANGED vars
  BY <1>12 DEF vars, token, TokenInv, Commenting
<1> QED
  BY <1>1, <1>2, <1>3, <1>4, <1>5, <1>6, <1>7, <1>8, <1>9, <1>10, <1>11, <1>12 DEF Next

\* GitHub never sees a call with a token that has expired, whichever renewal is
\* stored last: getInstallationToken's margin is at least a request's timeout.
THEOREM TokensLive == Spec => []TokenLive
<1>1. TokenInv => TokenLive
  BY TokenAssumption DEF TokenInv, TokenLive, CallAt, InTime, Calls
<1> QED
  BY <1>1, TokenInvInit, TokenInvNext, PTL DEF Spec

-----------------------------------------------------------------------------
(* What the policy lets through *)

\* The maps hold what the environment and the overrides applied since the broker
\* started list, and no more.
MapsBounded ==
  /\ applied \subseteq Overrides
  /\ hosts \subseteq HostsOf(applied)
  /\ dns \subseteq DNSOf(applied)
  /\ ports \subseteq PortsOf(applied)

\* The job may have this without an administrator under each of these overrides.
Within(j, spec, checked) ==
  j \in Jobs /\ \A overrides \in checked : Permitted(Profile[j], spec, overrides)

GrantSound(n) ==
  grant[n] # NoGrant =>
    /\ DOMAIN grant[n] = {"by", "approved", "checked", "job", "spec", "life"}
    /\ Within(grant[n].job, grant[n].spec, grant[n].checked)

\* What a request is about to write has been looked at, and is still there.
RequestSound(r) ==
  /\ req[r].pc = "create" => Within(req[r].job, req[r].spec, req[r].checked)
  /\ req[r].pc = "patch" =>
       /\ req[r].name \in Names /\ grant[req[r].name] # NoGrant
       /\ Within(grant[req[r].name].job, grant[req[r].name].spec, req[r].checked)

PolicyInv ==
  /\ MapsBounded
  /\ DOMAIN req = Requests /\ DOMAIN grant = Names
  /\ \A n \in Names : GrantSound(n)
  /\ \A r \in Requests : RequestSound(r)

\* forProfile adds to the maps what its override lists, and the override to
\* those applied.
LEMMA MapsFor ==
  ASSUME MapsBounded, NEW f
  PROVE  /\ AppliedFor(f) \subseteq Overrides
         /\ HostsFor(f) \subseteq HostsOf(AppliedFor(f))
         /\ DNSFor(f) \subseteq DNSOf(AppliedFor(f))
         /\ PortsFor(f) \subseteq PortsOf(AppliedFor(f))
<1>1. applied \subseteq AppliedFor(f) /\ AppliedFor(f) \subseteq Overrides
  BY DEF MapsBounded, AppliedFor
<1>2. f \in Overrides => f \in AppliedFor(f)
  BY DEF AppliedFor
<1>3. AllowNon443 \subseteq Overrides
  BY RequestAssumption
<1> DEFINE A == AppliedFor(f)
<1>4. hosts \subseteq HostsOf(A) /\ dns \subseteq DNSOf(A) /\ ports \subseteq PortsOf(A)
  BY <1>1 DEF MapsBounded, HostsOf, DNSOf, PortsOf
<1>5. f \in Overrides => MoreHosts[f] \subseteq HostsOf(A) /\ MoreDNS[f] \subseteq DNSOf(A)
  BY <1>2 DEF HostsOf, DNSOf
<1>6. f \in AllowNon443 => MorePorts[f] \subseteq PortsOf(A)
  BY <1>2, <1>3 DEF PortsOf
<1>7. {80} \subseteq PortsOf(A)
  BY DEF PortsOf
<1> HIDE DEF A
<1>8. HostsFor(f) \subseteq HostsOf(A) /\ DNSFor(f) \subseteq DNSOf(A)
  BY <1>4, <1>5 DEF HostsFor, DNSFor
<1>9. PortsFor(f) \subseteq PortsOf(A)
  BY <1>4, <1>6, <1>7 DEF PortsFor
<1> QED
  BY <1>1, <1>8, <1>9 DEF A

\* validateNonAdminNetworkGrant lets nothing else through.
LEMMA ValidWithin ==
  ASSUME MapsBounded, NEW j \in Jobs, NEW spec, ValidNonAdmin(Profile[j], spec)
  PROVE  Within(j, spec, {AppliedFor(Profile[j])})
<1> DEFINE f == Profile[j]
           A == AppliedFor(f)
           public == spec.hosts \ Internal[f]
<1>1. /\ HostsFor(f) \subseteq HostsOf(A)
      /\ DNSFor(f) \subseteq DNSOf(A)
      /\ PortsFor(f) \subseteq PortsOf(A)
  BY MapsFor
<1>2. ValidNonAdmin(f, spec)
  OBVIOUS
<1> HIDE DEF f, A
<1>3. spec.tcp
  BY <1>2 DEF ValidNonAdmin
<1>4. PublicRequested(f, spec) <=> public # {}
  BY DEF PublicRequested, hostIsInternal
<1>5. spec.mode = IF public = {} THEN Strict ELSE Proxy
  BY <1>2, <1>4 DEF ValidNonAdmin
<1>6. f \in AllowMode \/ public \subseteq HostsOf(A)
  BY <1>1, <1>2 DEF ValidNonAdmin, hostIsInternal, publicHostAllowed
<1>7. f \in AllowMode \/ spec.dns \ (spec.hosts \cup Internal[f]) \subseteq DNSOf(A)
  BY <1>1, <1>2 DEF ValidNonAdmin, hostIsInternal, publicDNSAllowed
<1>8. spec.ports \subseteq IF f \in AllowNon443 THEN PortsOf(A) ELSE {443}
  <2>1. 443 \in PortsOf(A)
    BY DEF PortsOf
  <2> QED
    BY <1>1, <1>2, <2>1 DEF ValidNonAdmin, PortAllowed
<1>9. Permitted(f, spec, A)
  BY <1>3, <1>5, <1>6, <1>7, <1>8 DEF Permitted
<1> QED
  BY <1>9 DEF f, A, Within

LEMMA MapsStay ==
  ASSUME MapsBounded, NEW f, forProfile(f)
  PROVE  MapsBounded'
<1>1. /\ hosts' = HostsFor(f) /\ dns' = DNSFor(f) /\ ports' = PortsFor(f)
      /\ applied' = AppliedFor(f)
  BY DEF forProfile
<1> QED
  BY <1>1, MapsFor DEF MapsBounded

LEMMA PolicyInvInit == Init => PolicyInv
BY DEF Init, PolicyInv, MapsBounded, HostsOf, DNSOf, GrantSound, RequestSound, Idle

\* A grant is written under a name that was free.
LEMMA CreatedSound ==
  ASSUME PolicyInv, NEW r \in Requests, NEW by, NEW j, NEW spec, NEW checked,
         NEW start, Created(r, by, j, spec, checked, start), Within(j, spec, checked)
  PROVE  PolicyInv'
<1> DEFINE g == [by |-> by, approved |-> FALSE, job |-> j, spec |-> spec, checked |-> checked,
                 life |-> "open"]
           q == IF start = None THEN Idle ELSE [pc |-> "comment", start |-> start]
<1>1. PICK n \in Names : grant[n] = NoGrant /\ grant' = [grant EXCEPT ![n] = g]
  BY DEF Created
<1>2. req' = [req EXCEPT ![r] = q] /\ UNCHANGED policy
  BY DEF Created
<1>3. /\ DOMAIN g = {"by", "approved", "checked", "job", "spec", "life"}
      /\ g.job = j /\ g.spec = spec /\ g.checked = checked
  OBVIOUS
<1>4. q.pc \notin {"create", "patch"}
  BY DEF Idle
<1> HIDE DEF g, q
<1>5. MapsBounded'
  BY <1>2 DEF PolicyInv, MapsBounded, policy
<1>6. \A m \in Names : GrantSound(m)'
  BY <1>1, <1>3 DEF PolicyInv, GrantSound, Within, Permitted
<1>7. \A x \in Requests : RequestSound(x)'
  <2> SUFFICES ASSUME NEW x \in Requests
               PROVE  RequestSound(x)'
    OBVIOUS
  <2>1. CASE x = r
    BY <1>2, <1>4, <2>1 DEF PolicyInv, RequestSound
  <2>2. CASE x # r
    <3>1. req'[x] = req[x] /\ RequestSound(x)
      BY <1>2, <2>2 DEF PolicyInv
    <3>2. req[x].pc = "patch" => grant'[req[x].name] = grant[req[x].name]
      BY <1>1, <3>1 DEF PolicyInv, RequestSound
    <3> QED
      BY <3>1, <3>2 DEF RequestSound, Within, Permitted
  <2> QED
    BY <2>1, <2>2
<1> QED
  BY <1>1, <1>2, <1>5, <1>6, <1>7 DEF PolicyInv

\* Steps that leave the grants alone and may end a request or take it to a step
\* that writes nothing.
LEMMA PolicyInvQuiet ==
  ASSUME PolicyInv, MapsBounded', grant' = grant, NEW r \in Requests,
         \/ req' = req
         \/ \E q : req' = [req EXCEPT ![r] = q] /\ q.pc \notin {"create", "patch"}
  PROVE  PolicyInv'
<1>1. DOMAIN req' = Requests /\ DOMAIN grant' = Names
  BY DEF PolicyInv
<1>2. \A n \in Names : GrantSound(n)'
  BY DEF PolicyInv, GrantSound, Within, Permitted
<1>3. \A x \in Requests : RequestSound(x)'
  BY DEF PolicyInv, RequestSound, Within, Permitted
<1> QED
  BY <1>1, <1>2, <1>3 DEF PolicyInv

\* What an approval makes of the grant: GitHub may answer for it, and it may be
\* open again.
ApprovedAs(n, checked, g) ==
  /\ grant' = [grant EXCEPT ![n] = g]
  /\ DOMAIN g = DOMAIN grant[n]
  /\ g.by = grant[n].by /\ g.job = grant[n].job /\ g.spec = grant[n].spec
  /\ g.checked = checked
  /\ g.life = "open" => grant[n].life = "open"

LEMMA ApprovedForm ==
  ASSUME NEW n \in Names, DOMAIN grant = Names, grant[n] # NoGrant, GrantSound(n),
         NEW checked, Approved(n, checked)
  PROVE  \E g : ApprovedAs(n, checked, g)
<1>1. PICK life \in {grant[n].life} \cup IF grant[n].life = "ended" THEN {"again"} ELSE {} :
        grant' = [grant EXCEPT ![n].approved = TRUE, ![n].checked = checked, ![n].life = life]
  BY DEF Approved
<1> DEFINE g == [grant[n] EXCEPT !.approved = TRUE, !.checked = checked, !.life = life]
<1>2. grant' = [grant EXCEPT ![n] = g]
  BY <1>1
<1>3. /\ DOMAIN g = DOMAIN grant[n]
      /\ g.by = grant[n].by /\ g.job = grant[n].job /\ g.spec = grant[n].spec
      /\ g.checked = checked /\ g.life = life
  BY DEF GrantSound
<1>4. life = "open" => grant[n].life = "open"
  BY <1>1
<1> HIDE DEF g
<1> QED
  BY <1>2, <1>3, <1>4 DEF ApprovedAs

\* A write to a grant that leaves what it is for alone.
LEMMA ApprovedSound ==
  ASSUME PolicyInv, UNCHANGED policy, NEW n \in Names, grant[n] # NoGrant, NEW g,
         grant' = [grant EXCEPT ![n] = g],
         DOMAIN g = DOMAIN grant[n], g.job = grant[n].job, g.spec = grant[n].spec,
         Within(grant[n].job, grant[n].spec, g.checked),
         DOMAIN req' = Requests,
         \A x \in Requests : req'[x] = req[x] \/ req'[x] = Idle
  PROVE  PolicyInv'
<1>1. MapsBounded'
  BY DEF PolicyInv, MapsBounded, policy
<1>2. g # NoGrant
  BY DEF PolicyInv, GrantSound, NoGrant
<1>3. ASSUME NEW m \in Names
      PROVE  GrantSound(m)'
  BY DEF PolicyInv, GrantSound, Within, Permitted
<1>4. ASSUME NEW x \in Requests
      PROVE  RequestSound(x)'
  <2>1. CASE req'[x] = Idle
    BY <2>1 DEF RequestSound, Idle
  <2>2. CASE req'[x] = req[x]
    <3>1. RequestSound(x)
      BY DEF PolicyInv
    <3>2. req[x].pc = "patch" =>
            /\ grant'[req[x].name].job = grant[req[x].name].job
            /\ grant'[req[x].name].spec = grant[req[x].name].spec
            /\ grant'[req[x].name] # NoGrant
      BY <1>2, <3>1 DEF PolicyInv, RequestSound
    <3> QED
      BY <2>2, <3>1, <3>2 DEF RequestSound, Within
  <2> QED
    BY <2>1, <2>2
<1> QED
  BY <1>1, <1>3, <1>4 DEF PolicyInv

LEMMA PolicyInvNext == PolicyInv /\ [Next]_vars => PolicyInv'
<1> SUFFICES ASSUME PolicyInv, [Next]_vars
             PROVE  PolicyInv'
  OBVIOUS
<1>0. ASSUME UNCHANGED policy
      PROVE  MapsBounded'
  BY <1>0 DEF PolicyInv, MapsBounded, policy
<1>1. CASE Crash
  <2>1. MapsBounded'
    BY <1>1 DEF Crash, MapsBounded, HostsOf, DNSOf
  <2>2. \A n \in Names : GrantSound(n)'
    BY <1>1 DEF Crash, PolicyInv, GrantSound, Within, Permitted
  <2>3. \A r \in Requests : RequestSound(r)'
    BY <1>1 DEF Crash, RequestSound, Idle
  <2> QED
    BY <1>1, <2>1, <2>2, <2>3 DEF Crash, PolicyInv
<1>2. CASE Tick \/ UNCHANGED vars
  <2>1. UNCHANGED <<grant, policy, req>>
    BY <1>2 DEF Tick, vars
  <2> QED
    BY <1>0, <2>1 DEF PolicyInv, GrantSound, RequestSound, Within, Permitted
<1>3. ASSUME NEW n \in Names, ApproveAdmin(n)
      PROVE  PolicyInv'
  <2>1. grant[n] # NoGrant /\ Approved(n, grant[n].checked) /\ UNCHANGED <<policy, req>>
    BY <1>3 DEF ApproveAdmin
  <2>2. PICK g : ApprovedAs(n, grant[n].checked, g)
    BY <2>1, ApprovedForm DEF PolicyInv
  <2>3. Within(grant[n].job, grant[n].spec, grant[n].checked)
    BY <2>1 DEF PolicyInv, GrantSound
  <2> QED
    BY <2>1, <2>2, <2>3, ApprovedSound DEF PolicyInv, ApprovedAs
<1>4. ASSUME NEW n \in Names, End(n)
      PROVE  PolicyInv'
  <2> DEFINE g == [grant[n] EXCEPT !.life = "ended"]
  <2>1. /\ grant[n] # NoGrant /\ grant' = [grant EXCEPT ![n] = g]
        /\ UNCHANGED <<policy, req>>
    BY <1>4 DEF End
  <2>2. /\ DOMAIN g = DOMAIN grant[n] /\ g.job = grant[n].job /\ g.spec = grant[n].spec
        /\ g.checked = grant[n].checked
    BY <2>1 DEF PolicyInv, GrantSound
  <2>3. Within(grant[n].job, grant[n].spec, g.checked)
    BY <2>1, <2>2 DEF PolicyInv, GrantSound
  <2> HIDE DEF g
  <2> QED
    BY <2>1, <2>2, <2>3, ApprovedSound DEF PolicyInv
<1>5. ASSUME NEW r \in Requests, Request(r)
      PROVE  PolicyInv'
  <2>1. PICK j \in Jobs, shape \in Asked, start \in Starts :
          LET spec == [shape EXCEPT !.mode = Mode("job", Profile[j], shape)]
          IN  /\ forProfile(Profile[j])
              /\ req' = [req EXCEPT ![r] = IF ValidNonAdmin(Profile[j], spec)
                           THEN [pc |-> "create", start |-> start, job |-> j, spec |-> spec,
                                 checked |-> {AppliedFor(Profile[j])}]
                           ELSE Idle]
    BY <1>5 DEF Request
  <2> DEFINE spec == [shape EXCEPT !.mode = Mode("job", Profile[j], shape)]
             q == [pc |-> "create", start |-> start, job |-> j, spec |-> spec,
                   checked |-> {AppliedFor(Profile[j])}]
  <2>2. MapsBounded' /\ grant' = grant
    BY <1>5, <2>1, MapsStay DEF PolicyInv, Request
  <2>3. CASE ValidNonAdmin(Profile[j], spec)
    <3>1. req' = [req EXCEPT ![r] = q]
      BY <2>1, <2>3
    <3>2. q.pc = "create" /\ Within(q.job, q.spec, q.checked)
      BY <2>3, ValidWithin DEF PolicyInv
    <3> HIDE DEF q, spec
    <3>3. \A n \in Names : GrantSound(n)'
      BY <2>2 DEF PolicyInv, GrantSound, Within, Permitted
    <3>4. ASSUME NEW x \in Requests
          PROVE  RequestSound(x)'
      <4>1. CASE x = r
        BY <3>1, <3>2, <4>1 DEF PolicyInv, RequestSound, Within, Permitted
      <4>2. CASE x # r
        <5>1. req'[x] = req[x] /\ RequestSound(x)
          BY <3>1, <4>2 DEF PolicyInv
        <5> QED
          BY <2>2, <5>1 DEF RequestSound, Within, Permitted
      <4> QED
        BY <4>1, <4>2
    <3> QED
      BY <2>2, <3>1, <3>3, <3>4 DEF PolicyInv
  <2>4. CASE ~ValidNonAdmin(Profile[j], spec)
    <3>1. req' = [req EXCEPT ![r] = Idle] /\ Idle.pc = "idle"
      BY <2>1, <2>4 DEF Idle
    <3> QED
      BY <2>2, <3>1, PolicyInvQuiet
  <2> QED
    BY <2>3, <2>4
<1>6. ASSUME NEW r \in Requests, Create(r)
      PROVE  PolicyInv'
  <2>1. Within(req[r].job, req[r].spec, req[r].checked)
    BY <1>6 DEF Create, At, PolicyInv, RequestSound
  <2> QED
    BY <1>6, <2>1, CreatedSound DEF Create, Within
<1>7. ASSUME NEW r \in Requests, CreateAdmin(r)
      PROVE  PolicyInv'
  BY <1>7, CreatedSound DEF CreateAdmin, Within
<1>8. ASSUME NEW r \in Requests, Comment(r) \/ CommentToken(r) \/ Commented(r) \/ Abort(r)
      PROVE  PolicyInv'
  <2>1. grant' = grant /\ UNCHANGED policy
    BY <1>8 DEF Comment, CommentToken, Commented, Abort
  <2>2. \/ req' = req
        \/ req' = [req EXCEPT ![r] = Idle]
        \/ req' = [req EXCEPT ![r] = [pc |-> "github"]]
    BY <1>8 DEF Comment, CommentToken, Commented, Abort, Return
  <2>3. Idle.pc = "idle" /\ [pc |-> "github"].pc = "github"
    BY DEF Idle
  <2> QED
    BY <1>0, <2>1, <2>2, <2>3, PolicyInvQuiet
<1>9. ASSUME NEW r \in Requests, ApproveGitHub(r)
      PROVE  PolicyInv'
  <2>1. PICK n \in Names :
          /\ grant[n] # NoGrant
          /\ forProfile(Profile[grant[n].job])
          /\ IF ValidNonAdmin(Profile[grant[n].job], grant[n].spec)
             THEN req' = [req EXCEPT ![r] = [pc |-> "patch", name |-> n,
                                             checked |-> {AppliedFor(Profile[grant[n].job])}]]
             ELSE req' = req
    BY <1>9 DEF ApproveGitHub, Approving
  <2>2. grant[n].job \in Jobs
    BY <2>1 DEF PolicyInv, GrantSound, Within
  <2>3. MapsBounded' /\ grant' = grant
    BY <1>9, <2>1, <2>2, MapsStay DEF ApproveGitHub, PolicyInv
  <2>4. CASE req' = req
    BY <2>3, <2>4, PolicyInvQuiet
  <2>5. CASE ValidNonAdmin(Profile[grant[n].job], grant[n].spec)
    <3> DEFINE checked == {AppliedFor(Profile[grant[n].job])}
    <3>1. req' = [req EXCEPT ![r] = [pc |-> "patch", name |-> n, checked |-> checked]]
      BY <2>1, <2>5
    <3>2. Within(grant[n].job, grant[n].spec, checked)
      BY <2>2, <2>5, ValidWithin DEF PolicyInv
    <3>3. \A m \in Names : GrantSound(m)'
      BY <2>3 DEF PolicyInv, GrantSound, Within, Permitted
    <3>4. ASSUME NEW x \in Requests
          PROVE  RequestSound(x)'
      <4>1. CASE x = r
        <5>1. req'[x] = [pc |-> "patch", name |-> n, checked |-> checked]
          BY <3>1, <4>1 DEF PolicyInv
        <5> QED
          BY <2>1, <2>3, <3>2, <5>1 DEF RequestSound, Within, Permitted
      <4>2. CASE x # r
        <5>1. req'[x] = req[x] /\ RequestSound(x)
          BY <3>1, <4>2 DEF PolicyInv
        <5> QED
          BY <2>3, <5>1 DEF RequestSound, Within, Permitted
      <4> QED
        BY <4>1, <4>2
    <3> QED
      BY <2>3, <3>1, <3>3, <3>4 DEF PolicyInv
  <2> QED
    BY <2>1, <2>4, <2>5
<1>10. ASSUME NEW r \in Requests, Patch(r)
       PROVE  PolicyInv'
  <2> DEFINE n == req[r].name
  <2>1. n \in Names /\ grant[n] # NoGrant /\ Within(grant[n].job, grant[n].spec, req[r].checked)
    BY <1>10 DEF Patch, At, PolicyInv, RequestSound
  <2>2. Approved(n, req[r].checked)
    BY <1>10 DEF Patch
  <2>3. req' = [req EXCEPT ![r] = Idle] /\ UNCHANGED policy
    BY <1>10 DEF Patch, Return
  <2>4. PICK g : ApprovedAs(n, req[r].checked, g)
    BY <2>1, <2>2, ApprovedForm DEF PolicyInv
  <2> HIDE DEF n
  <2>5. DOMAIN req' = Requests /\ \A x \in Requests : req'[x] = req[x] \/ req'[x] = Idle
    BY <2>3 DEF PolicyInv
  <2> QED
    BY <2>1, <2>3, <2>4, <2>5, ApprovedSound DEF ApprovedAs
<1> QED
  BY <1>1, <1>2, <1>3, <1>4, <1>5, <1>6, <1>7, <1>8, <1>9, <1>10 DEF Next

\* A grant that no administrator answers for reaches only internal hosts directly;
\* with a public host in its list all of it goes through the proxy, and every public
\* host, name and port is listed by the environment or by an override applied since
\* the broker's last start, however requests and approvals interleave.
THEOREM ProxyAlwaysFirst == Spec => []ProxyFirst
<1>1. PolicyInv => ProxyFirst
  BY DEF PolicyInv, GrantSound, Within, ProxyFirst
<1> QED
  BY <1>1, PolicyInvInit, PolicyInvNext, PTL DEF Spec

-----------------------------------------------------------------------------
(* The cap *)

\* The grants the job made, and the requests that are about to make one for it.
Own(j) == {n \in Names : /\ grant[n] # NoGrant /\ grant[n].by = "job"
                         /\ grant[n].job = j /\ grant[n].life = "open"}
Making(j) == {r \in Requests : req[r].pc = "create" /\ req[r].job = j}

Room(j) == Cardinality(Own(j)) + Cardinality(Making(j)) < MaxGrants + Cardinality(Requests)

\* A request that has passed the check counts as the grant it will make.
CapInv == PolicyInv /\ \A j \in Jobs : Room(j)

LEMMA Finite ==
  ASSUME NEW j
  PROVE  /\ IsFiniteSet(Own(j)) /\ Cardinality(Own(j)) \in Nat
         /\ IsFiniteSet(Making(j)) /\ Cardinality(Making(j)) \in Nat
         /\ Cardinality(Making(j)) <= Cardinality(Requests)
         /\ Cardinality(Requests) \in Nat /\ MaxGrants \in Nat \ {0}
<1>1. IsFiniteSet(Names) /\ IsFiniteSet(Requests) /\ MaxGrants \in Nat \ {0}
  BY RequestAssumption
<1>2. Own(j) \in SUBSET Names /\ Making(j) \in SUBSET Requests
  BY DEF Own, Making
<1>3. IsFiniteSet(Own(j)) /\ IsFiniteSet(Making(j)) /\ Cardinality(Making(j)) <= Cardinality(Requests)
  BY <1>1, <1>2, FS_Subset
<1> QED
  BY <1>1, <1>3, FS_CardinalityType

LEMMA FiniteNext ==
  ASSUME NEW j
  PROVE  /\ IsFiniteSet(Own(j)') /\ Cardinality(Own(j)') \in Nat
         /\ IsFiniteSet(Making(j)') /\ Cardinality(Making(j)') \in Nat
         /\ Cardinality(Making(j)') <= Cardinality(Requests)
<1>1. IsFiniteSet(Names) /\ IsFiniteSet(Requests)
  BY RequestAssumption
<1>2. Own(j)' \in SUBSET Names /\ Making(j)' \in SUBSET Requests
  BY DEF Own, Making
<1>3. /\ IsFiniteSet(Own(j)') /\ IsFiniteSet(Making(j)')
      /\ Cardinality(Making(j)') <= Cardinality(Requests)
  BY <1>1, <1>2, FS_Subset
<1> QED
  BY <1>1, <1>3, FS_CardinalityType

\* Steps after which neither is larger.
LEMMA RoomStays ==
  ASSUME NEW j, Room(j), Own(j)' \subseteq Own(j), Making(j)' \subseteq Making(j)
  PROVE  Room(j)'
<1>1. Cardinality(Own(j)') <= Cardinality(Own(j)) /\ Cardinality(Making(j)') <= Cardinality(Making(j))
  BY Finite, FS_Subset
<1> QED
  BY <1>1, Finite, FiniteNext DEF Room

\* A request counts the job's grants: there are fewer than the cap allows.
LEMMA RoomAtRequest ==
  ASSUME NEW j \in Jobs, BelowCap(j), Own(j)' = Own(j)
  PROVE  Room(j)'
<1> DEFINE S == {n \in Names : grant[n] # NoGrant /\ grant[n].job = j /\ grant[n].life # "ended"}
<1>1. S \in SUBSET Names /\ Own(j) \in SUBSET S
  BY DEF Own
<1>2. IsFiniteSet(S) /\ Cardinality(Own(j)) <= Cardinality(S)
  BY <1>1, RequestAssumption, FS_Subset
<1>3. Cardinality(S) \in Nat
  BY <1>2, FS_CardinalityType
<1>4. Cardinality(S) < MaxGrants
  BY DEF BelowCap, Counted
<1> HIDE DEF S
<1> QED
  BY <1>2, <1>3, <1>4, Finite, FiniteNext DEF Room

LEMMA CapInvInit == Init => CapInv
<1> SUFFICES ASSUME Init, NEW j \in Jobs
             PROVE  Room(j)
  BY PolicyInvInit DEF CapInv
<1>1. Own(j) = {} /\ Making(j) = {}
  BY DEF Init, Own, Making, Idle
<1>2. Cardinality({}) = 0
  BY FS_EmptySet
<1> QED
  BY <1>1, <1>2, Finite DEF Room

\* The grant takes the place of its request.
LEMMA RoomAtCreate ==
  ASSUME PolicyInv, NEW r \in Requests, Create(r), NEW j \in Jobs, Room(j)
  PROVE  Room(j)'
<1> DEFINE q == IF req[r].start = None THEN Idle ELSE [pc |-> "comment", start |-> req[r].start]
           g == [by |-> "job", approved |-> FALSE, job |-> req[r].job, spec |-> req[r].spec,
                 checked |-> req[r].checked, life |-> "open"]
<1>1. PICK n \in Names : grant[n] = NoGrant /\ grant' = [grant EXCEPT ![n] = g]
  BY DEF Create, Created
<1>2. req' = [req EXCEPT ![r] = q] /\ req[r].pc = "create"
  BY DEF Create, Created, At
<1>3. q.pc # "create" /\ g.job = req[r].job
  BY DEF Idle
<1>4. grant[n].by # "job" \/ grant[n] = NoGrant
  BY <1>1
<1> HIDE DEF q, g
<1>5. Making(j)' = Making(j) \ {r}
  BY <1>2, <1>3 DEF Making, PolicyInv
<1>6. CASE req[r].job = j
  <2>1. r \in Making(j)
    BY <1>2, <1>6 DEF Making
  <2>2. Own(j)' \in SUBSET (Own(j) \cup {n}) /\ n \notin Own(j)
    BY <1>1 DEF Own, PolicyInv
  <2>3. /\ IsFiniteSet(Own(j) \cup {n})
        /\ Cardinality(Own(j) \cup {n}) = Cardinality(Own(j)) + 1
    BY <2>2, Finite, FS_AddElement
  <2>4. Cardinality(Own(j)') <= Cardinality(Own(j)) + 1
    BY <2>2, <2>3, FS_Subset
  <2>5. Cardinality(Making(j)') = Cardinality(Making(j)) - 1
    BY <1>5, <2>1, Finite, FS_RemoveElement
  <2> QED
    BY <2>4, <2>5, Finite, FiniteNext DEF Room
<1>7. CASE req[r].job # j
  <2>1. Own(j)' \subseteq Own(j)
    BY <1>1, <1>3, <1>7 DEF Own, PolicyInv
  <2> QED
    BY <1>5, <2>1, RoomStays
<1> QED
  BY <1>6, <1>7

LEMMA CapInvNext == CapInv /\ [Next]_vars => CapInv'
<1> SUFFICES ASSUME CapInv, [Next]_vars, NEW j \in Jobs
             PROVE  Room(j)'
  BY PolicyInvNext DEF CapInv
<1>a. PolicyInv /\ DOMAIN req = Requests /\ DOMAIN grant = Names /\ Room(j)
  BY DEF CapInv, PolicyInv
<1>1. CASE Crash \/ Tick \/ UNCHANGED vars
  <2>1. grant' = grant /\ (req' = req \/ req' = [r \in Requests |-> Idle])
    BY <1>1 DEF Crash, Tick, vars
  <2>2. Own(j)' \subseteq Own(j) /\ Making(j)' \subseteq Making(j)
    BY <2>1 DEF Own, Making, Idle
  <2> QED
    BY <1>a, <2>2, RoomStays
<1>2. ASSUME NEW n \in Names, ApproveAdmin(n) \/ End(n)
      PROVE  Room(j)'
  <2>1. grant[n] # NoGrant /\ req' = req
    BY <1>2 DEF ApproveAdmin, End
  <2>2. CASE ApproveAdmin(n)
    <3>1. PICK g : ApprovedAs(n, grant[n].checked, g)
      BY <1>a, <2>1, <2>2, ApprovedForm DEF ApproveAdmin, PolicyInv
    <3>2. Own(j)' \subseteq Own(j)
      BY <1>a, <2>1, <3>1 DEF Own, ApprovedAs
    <3> QED
      BY <1>a, <2>1, <3>2, RoomStays DEF Making
  <2>3. CASE End(n)
    <3> DEFINE g == [grant[n] EXCEPT !.life = "ended"]
    <3>1. grant' = [grant EXCEPT ![n] = g]
      BY <2>3 DEF End
    <3>2. g.life = "ended"
      BY <1>a, <2>1 DEF PolicyInv, GrantSound
    <3> HIDE DEF g
    <3>3. Own(j)' \subseteq Own(j)
      BY <1>a, <3>1, <3>2 DEF Own
    <3> QED
      BY <1>a, <2>1, <3>3, RoomStays DEF Making
  <2> QED
    BY <1>2, <2>2, <2>3
<1>3. ASSUME NEW r \in Requests, Request(r)
      PROVE  Room(j)'
  <2>1. PICK k \in Jobs, shape \in Asked, start \in Starts :
          LET spec == [shape EXCEPT !.mode = Mode("job", Profile[k], shape)]
          IN  /\ BelowCap(k)
              /\ req' = [req EXCEPT ![r] = IF ValidNonAdmin(Profile[k], spec)
                           THEN [pc |-> "create", start |-> start, job |-> k, spec |-> spec,
                                 checked |-> {AppliedFor(Profile[k])}]
                           ELSE Idle]
    BY <1>3 DEF Request
  <2>2. Own(j)' = Own(j)
    BY <1>3 DEF Request, Own
  <2>3. CASE j = k
    BY <2>1, <2>2, <2>3, RoomAtRequest
  <2>4. CASE j # k
    <3> DEFINE q == req'[r]
    <3>1. req' = [req EXCEPT ![r] = q] /\ (q.pc # "create" \/ q.job = k)
      BY <1>a, <2>1 DEF Idle
    <3> HIDE DEF q
    <3>2. Making(j)' \subseteq Making(j)
      BY <1>a, <2>4, <3>1 DEF Making
    <3> QED
      BY <1>a, <2>2, <3>2, RoomStays
  <2> QED
    BY <2>3, <2>4
<1>4. ASSUME NEW r \in Requests, Create(r)
      PROVE  Room(j)'
  BY <1>4, <1>a, RoomAtCreate
<1>5. ASSUME NEW r \in Requests, CreateAdmin(r)
      PROVE  Room(j)'
  <2>1. PICK k \in Jobs, shape \in Asked, start \in Starts :
          Created(r, "admin", k, [shape EXCEPT !.mode = Mode("admin", Profile[k], shape)], {}, start)
    BY <1>5 DEF CreateAdmin
  <2> DEFINE spec == [shape EXCEPT !.mode = Mode("admin", Profile[k], shape)]
             g == [by |-> "admin", approved |-> FALSE, job |-> k, spec |-> spec, checked |-> {},
                   life |-> "open"]
             q == IF start = None THEN Idle ELSE [pc |-> "comment", start |-> start]
  <2>2. PICK n \in Names : grant[n] = NoGrant /\ grant' = [grant EXCEPT ![n] = g]
    BY <2>1 DEF Created
  <2>3. req' = [req EXCEPT ![r] = q]
    BY <2>1 DEF Created
  <2>4. q.pc # "create" /\ g.by = "admin"
    BY DEF Idle
  <2> HIDE DEF q, g
  <2>5. Own(j)' \subseteq Own(j) /\ Making(j)' \subseteq Making(j)
    BY <1>a, <2>2, <2>3, <2>4 DEF Own, Making
  <2> QED
    BY <1>a, <2>5, RoomStays
<1>6. ASSUME NEW r \in Requests,
             \/ Comment(r) \/ CommentToken(r) \/ Commented(r) \/ Abort(r) \/ ApproveGitHub(r)
      PROVE  Room(j)'
  <2>1. grant' = grant
    BY <1>6 DEF Comment, CommentToken, Commented, Abort, ApproveGitHub
  <2>2. req' = req \/ \E q : req' = [req EXCEPT ![r] = q] /\ q.pc # "create"
    <3>1. Idle.pc # "create" /\ [pc |-> "github"].pc # "create"
      BY DEF Idle
    <3>2. CASE ~ApproveGitHub(r)
      BY <1>6, <3>1, <3>2 DEF Comment, CommentToken, Commented, Abort, Return
    <3>3. CASE ApproveGitHub(r)
      <4>1. PICK n \in Names :
              \/ req' = req
              \/ req' = [req EXCEPT ![r] = [pc |-> "patch", name |-> n,
                                            checked |-> {AppliedFor(Profile[grant[n].job])}]]
        BY <3>3 DEF ApproveGitHub, Approving
      <4>2. [pc |-> "patch", name |-> n,
             checked |-> {AppliedFor(Profile[grant[n].job])}].pc # "create"
        OBVIOUS
      <4> QED
        BY <4>1, <4>2
    <3> QED
      BY <3>2, <3>3
  <2>3. Own(j)' \subseteq Own(j) /\ Making(j)' \subseteq Making(j)
    BY <1>a, <2>1, <2>2 DEF Own, Making
  <2> QED
    BY <1>a, <2>3, RoomStays
<1>7. ASSUME NEW r \in Requests, Patch(r)
      PROVE  Room(j)'
  <2> DEFINE n == req[r].name
  <2>1. n \in Names /\ grant[n] # NoGrant
    BY <1>7 DEF Patch, At, CapInv, PolicyInv, RequestSound
  <2>2. Approved(n, req[r].checked) /\ req' = [req EXCEPT ![r] = Idle]
    BY <1>7 DEF Patch, Return
  <2>3. PICK g : ApprovedAs(n, req[r].checked, g)
    BY <1>a, <2>1, <2>2, ApprovedForm DEF PolicyInv
  <2>4. Idle.pc # "create"
    BY DEF Idle
  <2> HIDE DEF n
  <2>5. Own(j)' \subseteq Own(j) /\ Making(j)' \subseteq Making(j)
    BY <1>a, <2>1, <2>2, <2>3, <2>4 DEF Own, Making, ApprovedAs
  <2> QED
    BY <1>a, <2>5, RoomStays
<1> QED
  BY <1>1, <1>2, <1>3, <1>4, <1>5, <1>6, <1>7 DEF Next

\* handleCreateNetworkGrant counts a job's grants and creates one later: the job
\* ends up with fewer grants of its own than the cap and the requests that may run
\* together.
THEOREM CapExceededBounded == Spec => []CapExceeded
<1>1. CapInv => CapExceeded
  <2> SUFFICES ASSUME CapInv, NEW j \in Jobs
               PROVE  Cardinality(Own(j)) < MaxGrants + Cardinality(Requests)
    BY DEF CapExceeded, Own
  <2> QED
    BY Finite DEF CapInv, Room
<1> QED
  BY <1>1, CapInvInit, CapInvNext, PTL DEF Spec

-----------------------------------------------------------------------------
(* AuditLog *)

\* A file that is right: nothing unfinished, every line verified, and every
\* checkpoint that of a record.
Sound(ef, cf) ==
  /\ ~ef.open /\ ~cf.open
  /\ \A i \in 1..Len(ef.lines) : LineVerifies(ef.lines, i)
  /\ \A j \in 1..Len(cf.lines) :
       /\ cf.lines[j].kind = "rec"
       /\ cf.lines[j].seq \in 1..Len(ef.lines)
       /\ cf.lines[j].hash = ef.lines[cf.lines[j].seq].hash

\* The emitter's chain state is that of the file it has open.
InStep(e) ==
  e.up => /\ e.date \in Days
          /\ e.seq = Len(events[e.date].lines)
          /\ e.prev = LastHash(events[e.date])

ChainInv ==
  /\ TypeOK
  /\ faults = 0 => /\ \A d \in Days : Sound(events[d], checks[d])
                   /\ \A p \in Procs : InStep(emitter[p])

-----------------------------------------------------------------------------
(* Files *)

LEMMA RecordFacts ==
  ASSUME NEW e \in Emitter, NEW ev \in Events
  PROVE  /\ NextRecord(e, ev) \in Record
         /\ CheckpointOf(e) \in Checkpoint
  BY DEF NextRecord, CheckpointOf, Emitter, Record, Checkpoint, Hash

\* Adding to a file keeps its type.
LEMMA ExtendType ==
  ASSUME NEW L, NEW f \in File(L), NEW line \in L \cup {Junk}, NEW b \in BOOLEAN
  PROVE  Extend(f, line, b) \in File(L)
<1>1. f.lines \in Seq(L \cup {Junk}) /\ f.open \in BOOLEAN
  BY DEF File
<1>2. Append(f.lines, line) \in Seq(L \cup {Junk})
  BY <1>1
<1>3. [f.lines EXCEPT ![Len(f.lines)] = Junk] \in Seq(L \cup {Junk})
  <2>1. Len(f.lines) \in Nat /\ f.lines \in [1..Len(f.lines) -> L \cup {Junk}]
    BY <1>1
  <2>2. [f.lines EXCEPT ![Len(f.lines)] = Junk] \in [1..Len(f.lines) -> L \cup {Junk}]
    BY <2>1
  <2> QED
    BY <2>1, <2>2, SeqDef
<1> QED
  BY <1>2, <1>3 DEF Extend, File

LEMMA FailedWritesType ==
  ASSUME NEW L, NEW f \in File(L), NEW line \in L, NEW g \in FailedWrites(f, line)
  PROVE  g \in File(L)
BY ExtendType DEF FailedWrites

\* In a readable file the last line gives a number and a hash.
LEMMA SeedType ==
  ASSUME NEW f \in File(Record), Readable(f)
  PROVE  LastSeq(f) \in Nat /\ LastHash(f) \in Hash
<1>1. f.lines \in Seq(Record \cup {Junk})
  BY DEF File
<1>2. CASE f.lines = <<>>
  BY <1>2 DEF LastSeq, LastHash, ZeroHash, Hash
<1>3. CASE f.lines # <<>>
  <2>1. Len(f.lines) \in 1..Len(f.lines) /\ LastLine(f) \in Record \cup {Junk}
    BY <1>1, <1>3 DEF LastLine
  <2>2. LastLine(f) \in Record
    BY <1>3, <2>1 DEF Readable, Junk
  <2> QED
    BY <1>3, <2>2 DEF LastSeq, LastHash, Record
<1> QED
  BY <1>2, <1>3

-----------------------------------------------------------------------------
(* Type correctness *)

LEMMA OpenedType ==
  ASSUME TypeOK, Readable(events[today])
  PROVE  Opened \in Emitter
<1>1. events[today] \in File(Record)
  BY DEF TypeOK
<1> QED
  BY <1>1, SeedType DEF Opened, Emitter, TypeOK

LEMMA RotatedType ==
  ASSUME TypeOK, NEW p \in Procs, CanEmit(p)
  PROVE  Rotated(p) \in Emitter
BY OpenedType DEF Rotated, CanEmit, TypeOK

LEMMA FaultType ==
  ASSUME TypeOK, Fault
  PROVE  faults' \in 0..MaxFaults /\ faults' # 0
BY ConstantsAssumption DEF TypeOK, Fault

LEMMA DownType == Down \in Emitter
  BY DEF Down, Emitter, Hash, ZeroHash

LEMMA TypeStep == TypeOK /\ [AuditNext]_auditVars => TypeOK'
<1> SUFFICES ASSUME TypeOK, [AuditNext]_auditVars PROVE TypeOK'
  OBVIOUS
<1>1. ASSUME NEW p \in Procs, Start(p) PROVE TypeOK'
  <2>1. starts' \in [Procs -> Nat]
    BY <1>1 DEF Start, TypeOK
  <2>2. emitter' \in [Procs -> Emitter] /\ faults' \in 0..MaxFaults
    BY <1>1, OpenedType, FaultType DEF Start, TypeOK
  <2> QED
    BY <1>1, <2>1, <2>2 DEF Start, TypeOK
<1>2. ASSUME NEW p \in Procs, Stop(p) PROVE TypeOK'
  BY <1>2, DownType DEF Stop, TypeOK
<1>3. ASSUME NEW p \in Procs, RotateFails(p) PROVE TypeOK'
  <2>1. [emitter[p] EXCEPT !.open = FALSE] \in Emitter
    BY DEF TypeOK, Emitter
  <2>2. faults' \in 0..MaxFaults
    BY <1>3, FaultType DEF RotateFails, TypeOK
  <2> QED
    BY <1>3, <2>1, <2>2 DEF RotateFails, TypeOK
<1>4. ASSUME NEW p \in Procs, NEW ev \in Events, EmitFails(p, ev) PROVE TypeOK'
  <2>1. Rotated(p) \in Emitter /\ NextRecord(Rotated(p), ev) \in Record
    BY <1>4, RotatedType, RecordFacts DEF EmitFails
  <2>2. PICK f \in FailedWrites(events[today], NextRecord(Rotated(p), ev)) :
          events' = [events EXCEPT ![today] = f]
    BY <1>4 DEF EmitFails
  <2>3. f \in File(Record)
    BY <2>1, FailedWritesType DEF TypeOK
  <2> QED
    BY <1>4, <2>1, <2>2, <2>3, FaultType DEF EmitFails, TypeOK
<1>5. ASSUME NEW p \in Procs, NEW ev \in Events, NEW b \in BOOLEAN, Emit(p, ev, b)
      PROVE  TypeOK'
  <2> DEFINE rec == NextRecord(Rotated(p), ev)
             e   == [Rotated(p) EXCEPT !.seq = rec.seq, !.prev = rec.hash]
  <2>1. Rotated(p) \in Emitter /\ rec \in Record
    BY <1>5, RotatedType, RecordFacts DEF Emit
  <2>2. e \in Emitter /\ [e EXCEPT !.fresh = FALSE] \in Emitter
    BY <2>1 DEF Emitter, Record
  <2>3. CheckpointOf(e) \in Checkpoint
    BY <2>2, RecordFacts
  <2>4. events' \in [Days -> File(Record)]
    <3>1. Extend(events[today], rec, FALSE) \in File(Record)
      BY <2>1, ExtendType DEF TypeOK
    <3> QED
      BY <1>5, <3>1 DEF Emit, TypeOK
  <2>5. emitter' \in [Procs -> Emitter] /\ faults' \in 0..MaxFaults
    BY <1>5, <2>2, FaultType DEF Emit, TypeOK
  <2>6. checks' \in [Days -> File(Checkpoint)]
    <3>1. Extend(checks[today], CheckpointOf(e), FALSE) \in File(Checkpoint)
      BY <2>3, ExtendType DEF TypeOK
    <3>2. \A f \in FailedWrites(checks[today], CheckpointOf(e)) : f \in File(Checkpoint)
      BY <2>3, FailedWritesType DEF TypeOK
    <3> HIDE DEF e
    <3>3. \/ checks' = checks
          \/ checks' = [checks EXCEPT ![today] = Extend(checks[today], CheckpointOf(e), FALSE)]
          \/ \E f \in FailedWrites(checks[today], CheckpointOf(e)) :
               checks' = [checks EXCEPT ![today] = f]
      BY <1>5 DEF Emit, e
    <3> QED
      BY <3>1, <3>2, <3>3 DEF TypeOK
  <2> QED
    BY <1>5, <2>4, <2>5, <2>6 DEF Emit, TypeOK
<1>6. CASE Midnight
  BY <1>6, ConstantsAssumption DEF Midnight, TypeOK, Days
<1>7. CASE UNCHANGED auditVars
  BY <1>7 DEF TypeOK, auditVars
<1> QED
  BY <1>1, <1>2, <1>3, <1>4, <1>5, <1>6, <1>7 DEF AuditNext

LEMMA TypeInit == AuditInit => TypeOK
<1>1. EmptyFile \in File(Record) /\ EmptyFile \in File(Checkpoint)
  BY DEF EmptyFile, File
<1> QED
  BY <1>1, DownType, ConstantsAssumption DEF AuditInit, TypeOK, Days

\* Files and emitters are well typed in every reachable state, whatever fails.
THEOREM AuditTypes == AuditSpec => []TypeOK
  BY TypeInit, TypeStep, PTL DEF AuditSpec

-----------------------------------------------------------------------------
(* The chain *)

\* A right record at the end of a right file: the file stays right, and so do
\* its checkpoints; its last number and hash are the record's.
LEMMA ExtendEvents ==
  ASSUME NEW ef \in File(Record), NEW cf \in File(Checkpoint), Sound(ef, cf),
         NEW rec \in Record, rec.seq = Len(ef.lines) + 1, rec.prev = LastHash(ef),
         rec.hash = Append(rec.prev, rec.event)
  PROVE  /\ Sound(Extend(ef, rec, FALSE), cf)
         /\ Len(Extend(ef, rec, FALSE).lines) = rec.seq
         /\ LastHash(Extend(ef, rec, FALSE)) = rec.hash
<1> DEFINE new == Append(ef.lines, rec)
<1>1. ef.lines \in Seq(Record \cup {Junk}) /\ cf.lines \in Seq(Checkpoint \cup {Junk})
  BY DEF File
<1> DEFINE ext == Extend(ef, rec, FALSE)
<1>2. ext.lines = new /\ ext.open = FALSE
  BY DEF Extend, Sound
<1>3. /\ Len(new) = Len(ef.lines) + 1 /\ Len(ef.lines) \in Nat
      /\ \A i \in 1..Len(ef.lines) : new[i] = ef.lines[i]
      /\ new[Len(ef.lines) + 1] = rec
  BY <1>1
<1>4. ASSUME NEW i \in 1..Len(new) PROVE LineVerifies(new, i)
  <2>1. CASE i \in 1..Len(ef.lines)
    <3>1. LineVerifies(ef.lines, i)
      BY <2>1 DEF Sound
    <3>2. i # 1 => i - 1 \in 1..Len(ef.lines)
      BY <1>3, <2>1
    <3> QED
      BY <1>3, <2>1, <3>1, <3>2 DEF LineVerifies
  <2>2. CASE i = Len(ef.lines) + 1
    <3>1. rec.kind = "rec"
      BY DEF Record
    <3>2. rec.prev = IF i = 1 THEN ZeroHash ELSE new[i - 1].hash
      <4>1. CASE Len(ef.lines) = 0
        BY <1>1, <2>2, <4>1 DEF LastHash
      <4>2. CASE Len(ef.lines) # 0
        <5>1. ef.lines # <<>> /\ Len(ef.lines) \in 1..Len(ef.lines)
          BY <1>1, <1>3, <4>2
        <5> QED
          BY <1>3, <2>2, <4>2, <5>1 DEF LastHash, LastLine
      <4> QED
        BY <4>1, <4>2
    <3> QED
      BY <1>3, <2>2, <3>1, <3>2 DEF LineVerifies
  <2> QED
    BY <1>3, <2>1, <2>2
<1>5. \A j \in 1..Len(cf.lines) :
        /\ cf.lines[j].seq \in 1..Len(new)
        /\ cf.lines[j].hash = new[cf.lines[j].seq].hash
  BY <1>3 DEF Sound
<1>6. new # <<>>
  BY <1>1, <1>3
<1> HIDE DEF new, ext
<1>7. Sound(ext, cf)
  BY <1>2, <1>4, <1>5 DEF Sound
<1>8. LastHash(ext) = rec.hash
  BY <1>2, <1>3, <1>6 DEF LastHash, LastLine
<1> QED
  BY <1>2, <1>3, <1>7, <1>8 DEF ext

\* A checkpoint of the last record at the end of a right checkpoint file.
LEMMA ExtendChecks ==
  ASSUME NEW ef \in File(Record), NEW cf \in File(Checkpoint), Sound(ef, cf),
         NEW cp \in Checkpoint, cp.seq = Len(ef.lines), cp.seq # 0,
         cp.hash = LastHash(ef)
  PROVE  Sound(ef, Extend(cf, cp, FALSE))
<1> DEFINE new == Append(cf.lines, cp)
<1>1. ef.lines \in Seq(Record \cup {Junk}) /\ cf.lines \in Seq(Checkpoint \cup {Junk})
  BY DEF File
<1> DEFINE ext == Extend(cf, cp, FALSE)
<1>2. ext.lines = new /\ ext.open = FALSE
  BY DEF Extend, Sound
<1>3. /\ Len(new) = Len(cf.lines) + 1 /\ Len(cf.lines) \in Nat
      /\ \A i \in 1..Len(cf.lines) : new[i] = cf.lines[i]
      /\ new[Len(cf.lines) + 1] = cp
  BY <1>1
<1>4. cp.kind = "rec"
  BY DEF Checkpoint
<1>5. cp.seq \in 1..Len(ef.lines) /\ cp.hash = ef.lines[cp.seq].hash
  <2>1. ef.lines # <<>> /\ Len(ef.lines) \in 1..Len(ef.lines)
    BY <1>1
  <2> QED
    BY <2>1 DEF LastHash, LastLine
<1>6. ASSUME NEW j \in 1..Len(new)
      PROVE  /\ new[j].kind = "rec" /\ new[j].seq \in 1..Len(ef.lines)
             /\ new[j].hash = ef.lines[new[j].seq].hash
  <2>1. CASE j \in 1..Len(cf.lines)
    BY <1>3, <2>1 DEF Sound
  <2>2. CASE j = Len(cf.lines) + 1
    BY <1>3, <1>4, <1>5, <2>2
  <2> QED
    BY <1>3, <2>1, <2>2
<1> HIDE DEF new, ext
<1>7. Sound(ef, ext)
  BY <1>2, <1>6 DEF Sound
<1> QED
  BY <1>7 DEF ext

\* A right file is readable and its last line has its number of lines.
LEMMA SoundSeed ==
  ASSUME NEW ef \in File(Record), NEW cf, Sound(ef, cf)
  PROVE  LastSeq(ef) = Len(ef.lines)
<1>1. ef.lines \in Seq(Record \cup {Junk})
  BY DEF File
<1>2. CASE ef.lines = <<>>
  BY <1>2 DEF LastSeq
<1>3. CASE ef.lines # <<>>
  <2>1. Len(ef.lines) \in 1..Len(ef.lines)
    BY <1>1, <1>3
  <2>2. LineVerifies(ef.lines, Len(ef.lines))
    BY <2>1 DEF Sound
  <2> QED
    BY <1>3, <2>2 DEF LastSeq, LastLine, LineVerifies
<1> QED
  BY <1>2, <1>3

\* The emitter that is about to write is in step with today's file.
LEMMA RotatedInStep ==
  ASSUME ChainInv, faults = 0, NEW p \in Procs, CanEmit(p)
  PROVE  /\ Rotated(p).up /\ Rotated(p).date = today
         /\ Rotated(p).seq = Len(events[today].lines)
         /\ Rotated(p).prev = LastHash(events[today])
<1>1. CASE Current(p)
  BY <1>1 DEF Rotated, Current, CanEmit, ChainInv, InStep
<1>2. CASE ~Current(p)
  <2>1. today \in Days /\ events[today] \in File(Record) /\ Sound(events[today], checks[today])
    BY DEF ChainInv, TypeOK
  <2>2. LastSeq(events[today]) = Len(events[today].lines)
    BY <2>1, SoundSeed
  <2> QED
    BY <1>2, <2>2 DEF Rotated, Opened
<1> QED
  BY <1>1, <1>2

\* With one process: a step without a fault keeps the files right and the
\* emitter in step with its file.
LEMMA ChainStep ==
  ASSUME \A p, q \in Procs : p = q
  PROVE  ChainInv /\ [AuditNext]_auditVars => ChainInv'
<1> SUFFICES ASSUME ChainInv, [AuditNext]_auditVars, faults' = 0
             PROVE  /\ \A d \in Days : Sound(events'[d], checks'[d])
                    /\ \A p \in Procs : InStep(emitter[p])'
  BY TypeStep DEF ChainInv
<1>0. faults = 0 /\ ~Fault
  <2>1. ~Fault
    BY DEF ChainInv, TypeOK, Fault
  <2>2. ASSUME NEW p \in Procs, NEW ev \in Events, NEW b \in BOOLEAN,
               \/ Start(p) \/ Stop(p) \/ RotateFails(p)
               \/ EmitFails(p, ev) \/ Emit(p, ev, b)
        PROVE  faults' = faults
    BY <2>1, <2>2 DEF Start, Stop, RotateFails, EmitFails, Emit
  <2>3. ASSUME NEW p \in Procs, Start(p) \/ Stop(p) \/ RotateFails(p)
        PROVE  faults' = faults
    BY <2>1, <2>3 DEF Start, Stop, RotateFails
  <2>4. ASSUME Midnight \/ UNCHANGED auditVars PROVE faults' = faults
    BY <2>4 DEF Midnight, auditVars
  <2>5. faults' = faults
    BY <2>2, <2>3, <2>4 DEF AuditNext
  <2> QED
    BY <2>1, <2>5
<1>1. /\ TypeOK
      /\ \A d \in Days : Sound(events[d], checks[d])
      /\ \A p \in Procs : InStep(emitter[p])
  BY <1>0 DEF ChainInv
<1>2. ASSUME NEW p \in Procs, Start(p)
      PROVE  /\ \A d \in Days : Sound(events'[d], checks'[d])
             /\ \A q \in Procs : InStep(emitter[q])'
  <2>1. events' = events /\ checks' = checks /\ today \in Days
    BY <1>1, <1>2 DEF Start, TypeOK
  <2>2. LastSeq(events[today]) = Len(events[today].lines)
    BY <1>1, <2>1, SoundSeed DEF TypeOK
  <2>3. emitter'[p] = Opened \/ emitter'[p] = emitter[p]
    BY <1>1, <1>2 DEF Start, TypeOK
  <2>4. InStep(emitter[p])'
    BY <1>1, <2>1, <2>2, <2>3 DEF InStep, Opened
  <2> QED
    BY <1>1, <2>1, <2>4
<1>3. ASSUME NEW p \in Procs, Stop(p)
      PROVE  /\ \A d \in Days : Sound(events'[d], checks'[d])
             /\ \A q \in Procs : InStep(emitter[q])'
  <2>1. events' = events /\ checks' = checks /\ emitter'[p] = Down
    BY <1>1, <1>3 DEF Stop, TypeOK
  <2> QED
    BY <1>1, <2>1 DEF InStep, Down
<1>4. ASSUME NEW p \in Procs, RotateFails(p)
      PROVE  /\ \A d \in Days : Sound(events'[d], checks'[d])
             /\ \A q \in Procs : InStep(emitter[q])'
  <2>1. events' = events /\ checks' = checks /\ emitter'[p] = [emitter[p] EXCEPT !.open = FALSE]
    BY <1>1, <1>4 DEF RotateFails, TypeOK
  <2>2. /\ emitter'[p].up = emitter[p].up /\ emitter'[p].date = emitter[p].date
        /\ emitter'[p].seq = emitter[p].seq /\ emitter'[p].prev = emitter[p].prev
    BY <1>1, <2>1 DEF TypeOK, Emitter
  <2> QED
    BY <1>1, <2>1, <2>2 DEF InStep
<1>5. ASSUME NEW p \in Procs, NEW ev \in Events, NEW b \in BOOLEAN, Emit(p, ev, b)
      PROVE  /\ \A d \in Days : Sound(events'[d], checks'[d])
             /\ \A q \in Procs : InStep(emitter[q])'
  <2> DEFINE rot == Rotated(p)
             rec == NextRecord(rot, ev)
             e   == [rot EXCEPT !.seq = rec.seq, !.prev = rec.hash]
             ef  == Extend(events[today], rec, FALSE)
  <2>1. CanEmit(p) /\ rot \in Emitter /\ rec \in Record /\ today \in Days
    BY <1>1, <1>5, RotatedType, RecordFacts DEF Emit, TypeOK
  <2>2. /\ rot.up /\ rot.date = today /\ rot.seq = Len(events[today].lines)
        /\ rot.prev = LastHash(events[today])
    BY <1>0, <2>1, RotatedInStep
  <2>3. /\ rec.seq = Len(events[today].lines) + 1 /\ rec.prev = LastHash(events[today])
        /\ rec.hash = Append(rec.prev, rec.event)
    BY <2>2 DEF NextRecord
  <2>4. events[today] \in File(Record) /\ checks[today] \in File(Checkpoint)
    BY <1>1 DEF TypeOK
  <2>5. Sound(ef, checks[today]) /\ Len(ef.lines) = rec.seq /\ LastHash(ef) = rec.hash
    BY <1>1, <2>1, <2>3, <2>4, ExtendEvents
  <2>6. ef \in File(Record)
    BY <2>1, <2>4, ExtendType
  <2>7. /\ e.up /\ e.date = today /\ e.seq = rec.seq /\ e.prev = rec.hash
        /\ [e EXCEPT !.fresh = FALSE].up /\ [e EXCEPT !.fresh = FALSE].date = today
        /\ [e EXCEPT !.fresh = FALSE].seq = rec.seq
        /\ [e EXCEPT !.fresh = FALSE].prev = rec.hash
        /\ e \in Emitter
    BY <2>1, <2>2 DEF Emitter, Record
  <2>8. /\ CheckpointOf(e) \in Checkpoint /\ CheckpointOf(e).seq = rec.seq
        /\ CheckpointOf(e).hash = rec.hash
    BY <2>7, RecordFacts DEF CheckpointOf
  <2>9. rec.seq # 0
    BY <2>3, <2>4 DEF File
  <2>10. Sound(ef, Extend(checks[today], CheckpointOf(e), FALSE))
    BY <2>4, <2>5, <2>6, <2>8, <2>9, ExtendChecks
  <2>11. /\ events' = [events EXCEPT ![today] = ef]
         /\ \/ checks' = checks
            \/ checks' = [checks EXCEPT ![today] =
                            Extend(checks[today], CheckpointOf(e), FALSE)]
         /\ \/ emitter' = [emitter EXCEPT ![p] = e]
            \/ emitter' = [emitter EXCEPT ![p] = [e EXCEPT !.fresh = FALSE]]
    BY <1>0, <1>5 DEF Emit
  <2> HIDE DEF rot, rec, e, ef
  <2>12. \A d \in Days : Sound(events'[d], checks'[d])
    BY <1>1, <2>1, <2>5, <2>10, <2>11 DEF TypeOK
  <2>13. emitter'[p].date = today /\ emitter'[p].seq = rec.seq /\ emitter'[p].prev = rec.hash
    BY <1>1, <2>7, <2>11 DEF TypeOK
  <2>14. events'[today] = ef
    BY <1>1, <2>1, <2>11 DEF TypeOK
  <2>15. InStep(emitter[p])'
    BY <2>1, <2>5, <2>13, <2>14 DEF InStep, LastHash, LastLine
  <2> QED
    BY <2>12, <2>15
<1>6. CASE Midnight
  BY <1>1, <1>6 DEF Midnight, InStep
<1>7. CASE UNCHANGED auditVars
  BY <1>1, <1>7 DEF auditVars, InStep
<1>8. ASSUME NEW p \in Procs, NEW ev \in Events, EmitFails(p, ev) PROVE FALSE
  BY <1>0, <1>8 DEF EmitFails
<1> QED
  BY <1>2, <1>3, <1>4, <1>5, <1>6, <1>7, <1>8 DEF AuditNext

\* Files that are right are files auditctl verifies.
LEMMA ChainEnough == ChainInv => ChainVerifies
<1> SUFFICES ASSUME ChainInv, faults = 0, NEW d \in Days PROVE Verifies(d)
  BY DEF ChainVerifies
<1>1. Sound(events[d], checks[d])
  BY DEF ChainInv
<1> QED
  BY <1>1 DEF Sound, Verifies, CheckpointsVerify

\* With one emitter on a directory, auditctl verifies the files of every day at
\* every moment, through any number of events, restarts and days, as long as no
\* write or open has failed.
THEOREM ChainAlwaysVerifies ==
  ASSUME \A p, q \in Procs : p = q
  PROVE  AuditSpec => []ChainVerifies
<1>1. AuditInit => ChainInv
  <2> SUFFICES ASSUME AuditInit PROVE ChainInv
    OBVIOUS
  <2>1. EmptyFile.lines = <<>> /\ ~EmptyFile.open /\ ~Down.up
    BY DEF EmptyFile, Down
  <2>2. Sound(EmptyFile, EmptyFile)
    BY <2>1 DEF Sound
  <2> QED
    BY <2>1, <2>2, TypeInit DEF AuditInit, ChainInv, InStep
<1>2. ChainInv /\ [AuditNext]_auditVars => ChainInv'
  BY ChainStep
<1> QED
  BY <1>1, <1>2, ChainEnough, PTL DEF AuditSpec

-----------------------------------------------------------------------------
(* The handles *)

\* An emitter's date is never ahead of the clock, and only an emitter whose date
\* has passed may have closed handles.
HandleInv ==
  \A p \in Procs : emitter[p].up => /\ emitter[p].date \in 1..today
                                    /\ emitter[p].date = today => emitter[p].open

LEMMA HandleStep ==
  ASSUME TypeOK, HandleInv, [AuditNext]_auditVars
  PROVE  HandleInv'
<1>0. today \in 1..today /\ today \in Nat
  BY DEF TypeOK, Days
<1>1. Opened.up /\ Opened.date = today /\ Opened.open
  BY DEF Opened
<1>2. ASSUME NEW p \in Procs, today' = today, DOMAIN emitter' = Procs,
             \A q \in Procs : q # p => emitter'[q] = emitter[q],
             emitter'[p].up => /\ emitter'[p].date \in 1..today
                               /\ emitter'[p].date = today => emitter'[p].open
      PROVE  HandleInv'
  BY <1>2 DEF HandleInv
<1>3. ASSUME NEW p \in Procs, Start(p) PROVE HandleInv'
  <2>1. emitter' = emitter \/ emitter' = [emitter EXCEPT ![p] = Opened]
    BY <1>3 DEF Start
  <2> HIDE DEF Opened
  <2> QED
    BY <1>0, <1>1, <1>2, <1>3, <2>1 DEF Start, HandleInv, TypeOK
<1>4. ASSUME NEW p \in Procs, Stop(p) PROVE HandleInv'
  BY <1>2, <1>4 DEF Stop, TypeOK, Down
<1>5. ASSUME NEW p \in Procs, RotateFails(p) PROVE HandleInv'
  <2>1. emitter' = [emitter EXCEPT ![p] = [emitter[p] EXCEPT !.open = FALSE]]
    BY <1>5 DEF RotateFails
  <2>2. [emitter[p] EXCEPT !.open = FALSE].date = emitter[p].date
    BY DEF TypeOK, Emitter
  <2> QED
    BY <1>2, <1>5, <2>1, <2>2 DEF RotateFails, HandleInv, TypeOK, Current
<1>6. ASSUME NEW p \in Procs, CanEmit(p)
      PROVE  /\ Rotated(p) \in Emitter
             /\ Rotated(p).date = today /\ Rotated(p).open
  BY <1>1, <1>6, RotatedType DEF Rotated, Current, CanEmit, HandleInv
<1>7. ASSUME NEW p \in Procs, NEW ev \in Events, EmitFails(p, ev) PROVE HandleInv'
  <2>1. emitter' = [emitter EXCEPT ![p] = Rotated(p)] /\ CanEmit(p) /\ today' = today
    BY <1>7 DEF EmitFails
  <2> QED
    BY <1>0, <1>2, <1>6, <2>1 DEF TypeOK
<1>8. ASSUME NEW p \in Procs, NEW ev \in Events, NEW b \in BOOLEAN, Emit(p, ev, b)
      PROVE  HandleInv'
  <2> DEFINE rec == NextRecord(Rotated(p), ev)
             e   == [Rotated(p) EXCEPT !.seq = rec.seq, !.prev = rec.hash]
             e2  == [e EXCEPT !.fresh = FALSE]
  <2>1. CanEmit(p) /\ today' = today
    BY <1>8 DEF Emit
  <2>2. e.date = today /\ e.open /\ e2.date = today /\ e2.open
    BY <1>6, <2>1 DEF Emitter
  <2>3. emitter' = [emitter EXCEPT ![p] = e] \/ emitter' = [emitter EXCEPT ![p] = e2]
    BY <1>8 DEF Emit
  <2> HIDE DEF rec, e, e2
  <2> QED
    BY <1>0, <1>2, <2>1, <2>2, <2>3 DEF TypeOK
<1>9. CASE Midnight
  BY <1>0, <1>9 DEF Midnight, HandleInv
<1>10. CASE UNCHANGED auditVars
  BY <1>10 DEF auditVars, HandleInv
<1> QED
  BY <1>3, <1>4, <1>5, <1>7, <1>8, <1>9, <1>10 DEF AuditNext

\* Also after rotations that failed half way, no emitter takes closed handles for
\* today's files; for any number of processes, days and faults.
THEOREM HandlesAlwaysUsable == AuditSpec => []HandlesUsable
<1>1. AuditInit => HandleInv
  BY DEF AuditInit, HandleInv, Down
<1>2. HandleInv => HandlesUsable
  BY DEF HandleInv, HandlesUsable, Current
<1> QED
  BY <1>1, <1>2, HandleStep, TypeInit, TypeStep, PTL DEF AuditSpec

-----------------------------------------------------------------------------
(* What failed writes leave of the chain *)

AllParse(lines) == \A i \in 1..Len(lines) : lines[i].kind = "rec"

\* PrefixVerifies and CheckpointsBacked, of the files of one day.
PrefixRight(lines) ==
  \A i \in 1..Len(lines) :
    (\A j \in 1..i : lines[j].kind = "rec") => LineVerifies(lines, i)

Backed(lines, cps) ==
  \A j \in 1..Len(cps) :
    cps[j].kind = "rec" => /\ cps[j].seq \in 1..Len(lines)
                           /\ cps[j].hash = lines[cps[j].seq].hash

Kept(ef, cf) ==
  /\ ef.open => ef.lines # <<>>
  /\ PrefixRight(ef.lines)
  /\ AllParse(ef.lines) => Backed(ef.lines, cf.lines)

\* The emitter's chain state is that of its file, unless a line of the file was
\* spoilt or will be by the next write.
InStepUnlessSpoilt(e) ==
  e.up => /\ e.date \in Days
          /\ AllParse(events[e.date].lines) /\ ~events[e.date].open =>
               /\ e.seq = Len(events[e.date].lines)
               /\ e.prev = LastHash(events[e.date])

FaultInv ==
  /\ \A d \in Days : Kept(events[d], checks[d])
  /\ \A p \in Procs : InStepUnlessSpoilt(emitter[p])

\* Writing to a file with an unfinished line spoils that line and no other.
LEMMA ExtendOpen ==
  ASSUME NEW L, NEW f \in File(L), f.open, f.lines # <<>>, NEW line, NEW b
  PROVE  LET g == Extend(f, line, b) IN
         /\ g.open = b /\ g.lines # <<>>
         /\ Len(g.lines) = Len(f.lines) /\ Len(f.lines) \in Nat \ {0}
         /\ \A i \in 1..Len(f.lines) : i # Len(f.lines) => g.lines[i] = f.lines[i]
         /\ g.lines[Len(f.lines)].kind = "junk"
<1> DEFINE n == Len(f.lines)
           new == [f.lines EXCEPT ![n] = Junk]
<1>1. f.lines \in Seq(L \cup {Junk})
  BY DEF File
<1>2. n \in Nat \ {0} /\ n \in 1..n
  BY <1>1
<1>3. Len(new) = n /\ new[n] = Junk /\ \A i \in 1..n : i # n => new[i] = f.lines[i]
  BY <1>1, <1>2, ExceptSeq
<1>4. Extend(f, line, b).lines = new /\ Extend(f, line, b).open = b
  BY DEF Extend
<1> HIDE DEF n, new
<1>5. new # <<>>
  BY <1>2, <1>3
<1> QED
  BY <1>2, <1>3, <1>4, <1>5 DEF Junk, n

\* Writing to any other file adds a line.
LEMMA ExtendClosed ==
  ASSUME NEW L, NEW f \in File(L), ~f.open, NEW line \in L \cup {Junk}, NEW b
  PROVE  LET g == Extend(f, line, b) IN
         /\ g.open = b /\ g.lines # <<>>
         /\ Len(g.lines) = Len(f.lines) + 1 /\ Len(f.lines) \in Nat
         /\ \A i \in 1..Len(f.lines) : g.lines[i] = f.lines[i]
         /\ g.lines[Len(f.lines) + 1] = line
<1> DEFINE new == Append(f.lines, line)
<1>1. f.lines \in Seq(L \cup {Junk})
  BY DEF File
<1>2. Extend(f, line, b).lines = new /\ Extend(f, line, b).open = b
  BY DEF Extend
<1>3. /\ Len(new) = Len(f.lines) + 1 /\ Len(f.lines) \in Nat
      /\ \A i \in 1..Len(f.lines) : new[i] = f.lines[i]
      /\ new[Len(f.lines) + 1] = line
  BY <1>1
<1> HIDE DEF new
<1>4. new # <<>>
  BY <1>3
<1> QED
  BY <1>2, <1>3, <1>4

\* The record that continues the chain of a file.
Continues(f, rec) ==
  /\ rec \in Record
  /\ rec.seq = Len(f.lines) + 1
  /\ rec.prev = LastHash(f)
  /\ rec.hash = Append(rec.prev, rec.event)

\* Whatever is written, and however the write ends, the lines before the first
\* that does not parse stay right; all lines parse afterwards only if they did
\* before, none was unfinished and a record was written.
LEMMA PrefixExtend ==
  ASSUME NEW f \in File(Record), f.open => f.lines # <<>>, PrefixRight(f.lines),
         NEW line \in Record \cup {Junk}, NEW b,
         AllParse(f.lines) /\ ~f.open => line = Junk \/ Continues(f, line)
  PROVE  LET g == Extend(f, line, b) IN
         /\ g.lines # <<>>
         /\ PrefixRight(g.lines)
         /\ AllParse(g.lines) => ~f.open /\ AllParse(f.lines) /\ Continues(f, line)
<1> DEFINE g == Extend(f, line, b)
           n == Len(f.lines)
<1>1. CASE f.open
  <2>1. /\ g.lines # <<>> /\ Len(g.lines) = n /\ n \in Nat \ {0}
        /\ \A i \in 1..n : i # n => g.lines[i] = f.lines[i]
        /\ g.lines[n].kind = "junk"
    BY <1>1, ExtendOpen
  <2> HIDE DEF g
  <2>2. ~AllParse(g.lines)
    BY <2>1 DEF AllParse
  <2>3. ASSUME NEW i \in 1..n, \A j \in 1..i : g.lines[j].kind = "rec"
        PROVE  LineVerifies(g.lines, i)
    <3>1. i # n /\ n \in Nat
      BY <2>1, <2>3
    <3>2. \A j \in 1..i : g.lines[j] = f.lines[j]
      BY <2>1, <3>1
    <3>3. LineVerifies(f.lines, i)
      BY <2>3, <3>2 DEF PrefixRight
    <3>4. i \in 1..i /\ (i # 1 => i - 1 \in 1..i)
      BY <2>1
    <3> QED
      BY <3>2, <3>3, <3>4 DEF LineVerifies
  <2>4. PrefixRight(g.lines)
    BY <2>1, <2>3 DEF PrefixRight
  <2> QED
    BY <2>1, <2>2, <2>4 DEF g
<1>2. CASE ~f.open
  <2>1. /\ g.lines # <<>> /\ Len(g.lines) = n + 1 /\ n \in Nat
        /\ \A i \in 1..n : g.lines[i] = f.lines[i]
        /\ g.lines[n + 1] = line
    <3>1. f \in File(Record) /\ ~f.open /\ line \in Record \cup {Junk}
      BY <1>2
    <3> QED
      BY ONLY <3>1, ExtendClosed
  <2> HIDE DEF g
  <2>2. AllParse(g.lines) => AllParse(f.lines) /\ line.kind = "rec"
    <3>1. n + 1 \in 1..n + 1 /\ \A i \in 1..n : i \in 1..n + 1
      BY <2>1
    <3> QED
      BY <2>1, <3>1 DEF AllParse
  <2>3. AllParse(f.lines) /\ line.kind = "rec" => Continues(f, line)
    BY <1>2 DEF Junk
  <2>4. ASSUME NEW i \in 1..n + 1, \A j \in 1..i : g.lines[j].kind = "rec"
        PROVE  LineVerifies(g.lines, i)
    <3>1. CASE i \in 1..n
      <4>1. \A j \in 1..i : j \in 1..n
        BY <2>1, <3>1
      <4>2. LineVerifies(f.lines, i)
        BY <2>1, <2>4, <3>1, <4>1 DEF PrefixRight
      <4>3. i # 1 => i - 1 \in 1..n
        BY <2>1, <3>1
      <4> QED
        BY <2>1, <3>1, <4>2, <4>3 DEF LineVerifies
    <3>2. CASE i = n + 1
      <4>1. AllParse(g.lines)
        BY <2>1, <2>4, <3>2 DEF AllParse
      <4>2. Continues(f, line) /\ line.kind = "rec"
        BY <2>2, <2>3, <4>1
      <4>3. line.prev = IF i = 1 THEN ZeroHash ELSE g.lines[i - 1].hash
        <5>1. f.lines \in Seq(Record \cup {Junk})
          BY DEF File
        <5>2. CASE n = 0
          BY <3>2, <4>2, <5>1, <5>2 DEF LastHash, Continues
        <5>3. CASE n # 0
          <6>1. f.lines # <<>> /\ n \in 1..n
            BY <2>1, <5>1, <5>3
          <6> QED
            BY <2>1, <3>2, <4>2, <5>3, <6>1 DEF LastHash, LastLine, Continues
        <5> QED
          BY <5>2, <5>3
      <4>4. g.lines[i] = line /\ line.seq = i /\ line.hash = Append(line.prev, line.event)
        BY <2>1, <3>2, <4>2 DEF Continues
      <4> HIDE DEF n
      <4> QED
        BY <4>2, <4>3, <4>4 DEF LineVerifies
    <3> QED
      BY <2>1, <3>1, <3>2
  <2>5. PrefixRight(g.lines)
    BY <2>1, <2>4 DEF PrefixRight
  <2> QED
    BY <1>2, <2>1, <2>2, <2>3, <2>5 DEF g
<1> QED
  BY <1>1, <1>2

\* A write to an events file, whole or failed, keeps what the day's files promise;
\* if all lines parse then, the last is the record that was written.
LEMMA KeptEvents ==
  ASSUME NEW ef \in File(Record), NEW cf \in File(Checkpoint), Kept(ef, cf),
         NEW line \in Record \cup {Junk}, NEW b,
         AllParse(ef.lines) /\ ~ef.open => line = Junk \/ Continues(ef, line)
  PROVE  LET g == Extend(ef, line, b) IN
         /\ Kept(g, cf)
         /\ g.open = b
         /\ AllParse(g.lines) => /\ line.seq = Len(g.lines) /\ line.seq # 0
                                 /\ line.hash = LastHash(g)
<1> DEFINE g == Extend(ef, line, b)
<1>1. (ef.open => ef.lines # <<>>) /\ PrefixRight(ef.lines)
  BY DEF Kept
<1>2. /\ g.lines # <<>>
      /\ PrefixRight(g.lines)
      /\ AllParse(g.lines) => ~ef.open /\ AllParse(ef.lines) /\ Continues(ef, line)
  BY <1>1, PrefixExtend
<1>3. g.open = b
  BY DEF Extend
<1>4. ASSUME AllParse(g.lines)
      PROVE  /\ Backed(g.lines, cf.lines)
             /\ line.seq = Len(g.lines) /\ line.seq # 0
             /\ line.hash = LastHash(g)
  <2>1. ~ef.open /\ AllParse(ef.lines) /\ Continues(ef, line)
    BY <1>2, <1>4
  <2>2. /\ g.lines # <<>>
        /\ Len(g.lines) = Len(ef.lines) + 1 /\ Len(ef.lines) \in Nat
        /\ \A i \in 1..Len(ef.lines) : g.lines[i] = ef.lines[i]
        /\ g.lines[Len(ef.lines) + 1] = line
    <3>1. ef \in File(Record) /\ ~ef.open /\ line \in Record \cup {Junk}
      BY <2>1
    <3> QED
      BY ONLY <3>1, ExtendClosed
  <2> HIDE DEF g
  <2>3. Backed(ef.lines, cf.lines)
    BY <2>1 DEF Kept
  <2>4. Backed(g.lines, cf.lines)
    BY <2>2, <2>3 DEF Backed
  <2>5. line.seq = Len(g.lines) /\ line.seq # 0
    BY <2>1, <2>2 DEF Continues
  <2>6. line.hash = LastHash(g)
    BY <2>2 DEF LastHash, LastLine
  <2> QED
    BY <2>4, <2>5, <2>6
<1> HIDE DEF g
<1>5. Kept(g, cf)
  BY <1>2, <1>4 DEF Kept
<1> QED
  BY <1>3, <1>4, <1>5 DEF g

\* A write to a checkpoint file keeps it backed if the checkpoint is that of the
\* last record.
LEMMA KeptChecks ==
  ASSUME NEW ef \in File(Record), NEW cf \in File(Checkpoint), Kept(ef, cf),
         NEW cp \in Checkpoint \cup {Junk}, NEW b,
         AllParse(ef.lines) =>
           cp = Junk \/ (cp.seq = Len(ef.lines) /\ cp.seq # 0 /\ cp.hash = LastHash(ef))
  PROVE  Kept(ef, Extend(cf, cp, b))
<1> DEFINE h == Extend(cf, cp, b)
<1> SUFFICES ASSUME AllParse(ef.lines) PROVE Backed(ef.lines, h.lines)
  BY DEF Kept
<1>1. Backed(ef.lines, cf.lines)
  BY DEF Kept
<1>2. cf.lines \in Seq(Checkpoint \cup {Junk}) /\ ef.lines \in Seq(Record \cup {Junk})
  BY DEF File
<1>3. CASE cf.open /\ cf.lines # <<>>
  <2>1. /\ Len(h.lines) = Len(cf.lines)
        /\ \A i \in 1..Len(cf.lines) : i # Len(cf.lines) => h.lines[i] = cf.lines[i]
        /\ h.lines[Len(cf.lines)].kind = "junk"
    BY <1>3, ExtendOpen
  <2> HIDE DEF h
  <2> QED
    BY <1>1, <2>1 DEF Backed
<1>4. CASE cf.open /\ cf.lines = <<>>
  <2>1. DOMAIN cf.lines = 1..0
    BY <1>2, <1>4
  <2>2. h.lines = cf.lines
    BY <1>4, <2>1 DEF Extend
  <2> QED
    BY <1>1, <2>2
<1>5. CASE ~cf.open
  <2>1. /\ Len(h.lines) = Len(cf.lines) + 1 /\ Len(cf.lines) \in Nat
        /\ \A i \in 1..Len(cf.lines) : h.lines[i] = cf.lines[i]
        /\ h.lines[Len(cf.lines) + 1] = cp
    <3>1. cf \in File(Checkpoint) /\ ~cf.open /\ cp \in Checkpoint \cup {Junk}
      BY <1>5
    <3>2. LET g == Extend(cf, cp, b) IN
          /\ g.open = b /\ g.lines # <<>>
          /\ Len(g.lines) = Len(cf.lines) + 1 /\ Len(cf.lines) \in Nat
          /\ \A i \in 1..Len(cf.lines) : g.lines[i] = cf.lines[i]
          /\ g.lines[Len(cf.lines) + 1] = cp
      BY ONLY <3>1, ExtendClosed
    <3> QED
      BY <3>2
  <2> HIDE DEF h
  <2>2. cp.kind = "rec" => cp.seq \in 1..Len(ef.lines) /\ cp.hash = ef.lines[cp.seq].hash
    <3> SUFFICES ASSUME cp.seq = Len(ef.lines), cp.seq # 0, cp.hash = LastHash(ef)
                 PROVE  cp.seq \in 1..Len(ef.lines) /\ cp.hash = ef.lines[cp.seq].hash
      BY DEF Junk
    <3>1. ef.lines # <<>> /\ Len(ef.lines) \in 1..Len(ef.lines)
      BY <1>2
    <3> QED
      BY <3>1 DEF LastHash, LastLine
  <2>3. ASSUME NEW j \in 1..Len(h.lines), h.lines[j].kind = "rec"
        PROVE  /\ h.lines[j].seq \in 1..Len(ef.lines)
               /\ h.lines[j].hash = ef.lines[h.lines[j].seq].hash
    <3>1. CASE j \in 1..Len(cf.lines)
      BY <1>1, <2>1, <2>3, <3>1 DEF Backed
    <3>2. CASE j = Len(cf.lines) + 1
      BY <2>1, <2>2, <2>3, <3>2
    <3> QED
      BY <2>1, <3>1, <3>2
  <2> QED
    BY <2>3 DEF Backed
<1> QED
  BY <1>3, <1>4, <1>5

\* An emitter that takes the chain up from a file whose lines all parse has the
\* number of its lines.
LEMMA KeptSeed ==
  ASSUME NEW ef \in File(Record), NEW cf, Kept(ef, cf), AllParse(ef.lines)
  PROVE  LastSeq(ef) = Len(ef.lines)
<1>1. ef.lines \in Seq(Record \cup {Junk})
  BY DEF File
<1>2. CASE ef.lines = <<>>
  BY <1>2 DEF LastSeq
<1>3. CASE ef.lines # <<>>
  <2>1. Len(ef.lines) \in 1..Len(ef.lines)
    BY <1>1, <1>3
  <2>2. LineVerifies(ef.lines, Len(ef.lines))
    BY <2>1 DEF Kept, PrefixRight, AllParse
  <2> QED
    BY <1>3, <2>2 DEF LastSeq, LastLine, LineVerifies
<1> QED
  BY <1>2, <1>3

\* The record about to be written continues today's chain, unless the write will
\* spoil a line.
LEMMA RotatedContinues ==
  ASSUME TypeOK, FaultInv, NEW p \in Procs, NEW ev \in Events, CanEmit(p)
  PROVE  /\ Rotated(p).up /\ Rotated(p).date = today
         /\ AllParse(events[today].lines) /\ ~events[today].open =>
              Continues(events[today], NextRecord(Rotated(p), ev))
<1>0. /\ today \in Days /\ events[today] \in File(Record)
      /\ Kept(events[today], checks[today])
  BY DEF TypeOK, FaultInv
<1>1. NextRecord(Rotated(p), ev) \in Record
  BY RotatedType, RecordFacts
<1>2. Rotated(p).up /\ Rotated(p).date = today
  BY DEF Rotated, Current, CanEmit, Opened
<1>3. ASSUME AllParse(events[today].lines), ~events[today].open
      PROVE  /\ Rotated(p).seq = Len(events[today].lines)
             /\ Rotated(p).prev = LastHash(events[today])
  <2>1. CASE Current(p)
    BY <1>3, <2>1 DEF Rotated, Current, CanEmit, FaultInv, InStepUnlessSpoilt
  <2>2. CASE ~Current(p)
    BY <1>0, <1>3, <2>2, KeptSeed DEF Rotated, Opened
  <2> QED
    BY <2>1, <2>2
<1> QED
  BY <1>1, <1>2, <1>3 DEF Continues, NextRecord

\* With one process: any step, a failed write or open included, keeps what the
\* files promise.
LEMMA FaultStep ==
  ASSUME \A p, q \in Procs : p = q, TypeOK, FaultInv, [AuditNext]_auditVars
  PROVE  FaultInv'
<1>1. /\ \A d \in Days : Kept(events[d], checks[d])
      /\ \A p \in Procs : InStepUnlessSpoilt(emitter[p])
      /\ today \in Days
      /\ events[today] \in File(Record) /\ checks[today] \in File(Checkpoint)
  BY DEF FaultInv, TypeOK
<1>2. ASSUME NEW p \in Procs, Start(p) PROVE FaultInv'
  <2>1. events' = events /\ checks' = checks
    BY <1>2 DEF Start
  <2>2. emitter'[p] = Opened \/ emitter'[p] = emitter[p]
    BY <1>2 DEF Start, TypeOK
  <2>3. AllParse(events[today].lines) => LastSeq(events[today]) = Len(events[today].lines)
    BY <1>1, KeptSeed
  <2>4. InStepUnlessSpoilt(emitter[p])'
    BY <1>1, <2>1, <2>2, <2>3 DEF InStepUnlessSpoilt, Opened
  <2> QED
    BY <1>1, <2>1, <2>4 DEF FaultInv
<1>3. ASSUME NEW p \in Procs, Stop(p) PROVE FaultInv'
  <2>1. events' = events /\ checks' = checks /\ emitter'[p] = Down
    BY <1>3 DEF Stop, TypeOK
  <2> QED
    BY <1>1, <2>1 DEF FaultInv, InStepUnlessSpoilt, Down
<1>4. ASSUME NEW p \in Procs, RotateFails(p) PROVE FaultInv'
  <2>1. /\ events' = events /\ checks' = checks
        /\ emitter'[p] = [emitter[p] EXCEPT !.open = FALSE]
    BY <1>4 DEF RotateFails, TypeOK
  <2>2. /\ emitter'[p].up = emitter[p].up /\ emitter'[p].date = emitter[p].date
        /\ emitter'[p].seq = emitter[p].seq /\ emitter'[p].prev = emitter[p].prev
    BY <2>1 DEF TypeOK, Emitter
  <2> QED
    BY <1>1, <2>1, <2>2 DEF FaultInv, InStepUnlessSpoilt
<1>5. ASSUME NEW p \in Procs, NEW ev \in Events, EmitFails(p, ev) PROVE FaultInv'
  <2> DEFINE rec == NextRecord(Rotated(p), ev)
  <2>1. CanEmit(p) /\ rec \in Record
    BY <1>5, RotatedType, RecordFacts DEF EmitFails
  <2>2. /\ Rotated(p).up /\ Rotated(p).date = today
        /\ AllParse(events[today].lines) /\ ~events[today].open =>
             Continues(events[today], rec)
    BY <2>1, RotatedContinues
  <2>3. PICK f \in FailedWrites(events[today], rec) : events' = [events EXCEPT ![today] = f]
    BY <1>5 DEF EmitFails
  <2>4. checks' = checks /\ emitter'[p] = Rotated(p) /\ events'[today] = f
    BY <1>1, <1>5, <2>3 DEF EmitFails, TypeOK
  <2> HIDE DEF rec
  <2>5. CASE f = events[today]
    <3>1. AllParse(f.lines) /\ ~f.open =>
            Rotated(p).seq = Len(f.lines) /\ Rotated(p).prev = LastHash(f)
      <4>1. rec.seq = Rotated(p).seq + 1 /\ rec.prev = Rotated(p).prev
        BY DEF rec, NextRecord
      <4>2. Rotated(p).seq \in Nat /\ Len(f.lines) \in Nat
        BY <1>1, <2>1, <2>5, RotatedType DEF Emitter, File
      <4> QED
        BY <2>2, <2>5, <4>1, <4>2 DEF Continues
    <3>2. events' = events
      BY <2>3, <2>5 DEF TypeOK
    <3>3. InStepUnlessSpoilt(emitter[p])'
      BY <1>1, <2>2, <2>4, <2>5, <3>1, <3>2 DEF InStepUnlessSpoilt
    <3> QED
      BY <1>1, <2>4, <3>2, <3>3 DEF FaultInv
  <2>6. CASE f # events[today]
    <3>1. PICK line \in {Junk, rec} : f = Extend(events[today], line, TRUE)
      BY <2>3, <2>6 DEF FailedWrites
    <3>2. line \in Record \cup {Junk}
      BY <2>1
    <3>3. AllParse(events[today].lines) /\ ~events[today].open =>
            line = Junk \/ Continues(events[today], line)
      BY <2>2
    <3>4. Kept(f, checks[today]) /\ f.open = TRUE
      <4>1. /\ events[today] \in File(Record) /\ checks[today] \in File(Checkpoint)
            /\ Kept(events[today], checks[today])
        BY <1>1
      <4>2. \A u : Kept(Extend(events[today], line, u), checks[today])
        BY ONLY <3>2, <3>3, <4>1, KeptEvents
      <4> QED
        BY <3>1, <4>2 DEF Extend
    <3>5. \A d \in Days : Kept(events'[d], checks'[d])
      BY <1>1, <2>3, <2>4, <3>4 DEF TypeOK
    <3>6. InStepUnlessSpoilt(emitter[p])'
      BY <1>1, <2>2, <2>4, <3>4 DEF InStepUnlessSpoilt
    <3> QED
      BY <3>5, <3>6 DEF FaultInv
  <2> QED
    BY <2>5, <2>6
<1>6. ASSUME NEW p \in Procs, NEW ev \in Events, NEW b \in BOOLEAN, Emit(p, ev, b)
      PROVE  FaultInv'
  <2> DEFINE rot == Rotated(p)
             rec == NextRecord(rot, ev)
             e   == [rot EXCEPT !.seq = rec.seq, !.prev = rec.hash]
             e2  == [e EXCEPT !.fresh = FALSE]
             ef  == Extend(events[today], rec, FALSE)
             cp  == CheckpointOf(e)
  <2>1. CanEmit(p) /\ rot \in Emitter /\ rec \in Record
    BY <1>6, RotatedType, RecordFacts DEF Emit
  <2>2. /\ rot.up /\ rot.date = today
        /\ AllParse(events[today].lines) /\ ~events[today].open =>
             Continues(events[today], rec)
    BY <2>1, RotatedContinues
  <2>3. /\ e.up /\ e.date = today /\ e.seq = rec.seq /\ e.prev = rec.hash
        /\ e2.up /\ e2.date = today /\ e2.seq = rec.seq /\ e2.prev = rec.hash
        /\ e \in Emitter
    BY <2>1, <2>2 DEF Emitter, Record
  <2>4. cp \in Checkpoint /\ cp.seq = rec.seq /\ cp.hash = rec.hash
    BY <2>3, RecordFacts DEF CheckpointOf
  <2>5. ef \in File(Record)
    BY <1>1, <2>1, ExtendType
  <2>6. /\ Kept(ef, checks[today]) /\ ef.open = FALSE
        /\ AllParse(ef.lines) => /\ rec.seq = Len(ef.lines) /\ rec.seq # 0
                                 /\ rec.hash = LastHash(ef)
    <3>1. rec \in Record \cup {Junk}
      BY <2>1
    <3>2. /\ events[today] \in File(Record) /\ checks[today] \in File(Checkpoint)
          /\ Kept(events[today], checks[today])
      BY <1>1
    <3> HIDE DEF rec
    <3>3. \A u : LET g == Extend(events[today], rec, u) IN
                 /\ Kept(g, checks[today])
                 /\ AllParse(g.lines) => /\ rec.seq = Len(g.lines) /\ rec.seq # 0
                                         /\ rec.hash = LastHash(g)
      BY ONLY <2>2, <3>1, <3>2, KeptEvents
    <3>4. ef.open = FALSE
      BY DEF Extend
    <3> QED
      BY <3>3, <3>4
  <2>7. /\ events' = [events EXCEPT ![today] = ef]
        /\ \/ checks' = checks
           \/ checks' = [checks EXCEPT ![today] = Extend(checks[today], cp, FALSE)]
           \/ \E f \in FailedWrites(checks[today], cp) : checks' = [checks EXCEPT ![today] = f]
        /\ \/ emitter' = [emitter EXCEPT ![p] = e]
           \/ emitter' = [emitter EXCEPT ![p] = e2]
    BY <1>6 DEF Emit
  <2> HIDE DEF rot, rec, e, e2, ef, cp
  <2>8. events'[today] = ef /\ \A d \in Days : d # today => events'[d] = events[d]
    BY <1>1, <2>7 DEF TypeOK
  <2>9. ASSUME NEW line \in {Junk, cp}, NEW u PROVE Kept(ef, Extend(checks[today], line, u))
    <3>1. line \in Checkpoint \cup {Junk}
      BY <2>4
    <3>2. AllParse(ef.lines) =>
            line = Junk \/ (line.seq = Len(ef.lines) /\ line.seq # 0 /\ line.hash = LastHash(ef))
      BY <2>4, <2>6
    <3> QED
      BY <1>1, <2>5, <2>6, <3>1, <3>2, KeptChecks
  <2>10. Kept(ef, checks'[today]) /\ \A d \in Days : d # today => checks'[d] = checks[d]
    <3>1. CASE checks' = checks
      BY <2>6, <3>1
    <3>2. ASSUME NEW f, Kept(ef, f), checks' = [checks EXCEPT ![today] = f]
          PROVE  Kept(ef, checks'[today]) /\ \A d \in Days : d # today => checks'[d] = checks[d]
      BY <1>1, <3>2 DEF TypeOK
    <3>3. \A f \in FailedWrites(checks[today], cp) : Kept(ef, f)
      BY <2>6, <2>9 DEF FailedWrites
    <3>4. Kept(ef, Extend(checks[today], cp, FALSE))
      BY <2>9
    <3> QED
      BY <2>7, <3>1, <3>2, <3>3, <3>4
  <2>11. \A d \in Days : Kept(events'[d], checks'[d])
    BY <1>1, <2>8, <2>10
  <2>12. /\ emitter'[p].date = today /\ emitter'[p].seq = rec.seq
         /\ emitter'[p].prev = rec.hash
    BY <2>3, <2>7 DEF TypeOK
  <2>13. InStepUnlessSpoilt(emitter[p])'
    <3>1. LastHash(ef) = LastHash(events'[today])
      BY <2>8
    <3> QED
      BY <1>1, <2>6, <2>8, <2>12, <3>1 DEF InStepUnlessSpoilt, LastHash, LastLine
  <2> QED
    BY <2>11, <2>13 DEF FaultInv
<1>7. CASE Midnight
  BY <1>1, <1>7 DEF Midnight, FaultInv, InStepUnlessSpoilt
<1>8. CASE UNCHANGED auditVars
  BY <1>1, <1>8 DEF auditVars, FaultInv, InStepUnlessSpoilt
<1> QED
  BY <1>2, <1>3, <1>4, <1>5, <1>6, <1>7, <1>8 DEF AuditNext

LEMMA FaultInit == AuditInit => FaultInv
<1> SUFFICES ASSUME AuditInit PROVE FaultInv
  OBVIOUS
<1>1. EmptyFile.lines = <<>> /\ ~EmptyFile.open /\ ~Down.up
  BY DEF EmptyFile, Down
<1>2. Kept(EmptyFile, EmptyFile)
  BY <1>1 DEF Kept, PrefixRight, AllParse, Backed
<1> QED
  BY <1>1, <1>2 DEF AuditInit, FaultInv, InStepUnlessSpoilt

\* With one emitter on a directory, whatever writes and opens fail: up to the
\* first line that does not parse every line of every file verifies.
THEOREM PrefixAlwaysVerifies ==
  ASSUME \A p, q \in Procs : p = q
  PROVE  AuditSpec => []PrefixVerifies
<1>1. FaultInv => PrefixVerifies
  BY DEF FaultInv, Kept, PrefixRight, PrefixVerifies
<1>2. TypeOK /\ FaultInv /\ [AuditNext]_auditVars => FaultInv'
  BY FaultStep
<1> QED
  BY <1>1, <1>2, FaultInit, TypeInit, TypeStep, PTL DEF AuditSpec

\* With one emitter on a directory, whatever writes and opens fail: in a file
\* whose event lines all parse, every checkpoint is that of a record of the file.
THEOREM CheckpointsAlwaysBacked ==
  ASSUME \A p, q \in Procs : p = q
  PROVE  AuditSpec => []CheckpointsBacked
<1>1. FaultInv => CheckpointsBacked
  BY DEF FaultInv, Kept, AllParse, Backed, CheckpointsBacked
<1>2. TypeOK /\ FaultInv /\ [AuditNext]_auditVars => FaultInv'
  BY FaultStep
<1> QED
  BY <1>1, <1>2, FaultInit, TypeInit, TypeStep, PTL DEF AuditSpec
===============================================================================
