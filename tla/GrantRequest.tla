---------------------------- MODULE GrantRequest ----------------------------
(***************************************************************************)
(* How a NetworkGrant comes to be: the broker's handlers that create it    *)
(* for a job and that approve it, for an administrator or for a comment on *)
(* GitHub that the webhook passes on, the broker's network policy, and the *)
(* comment that asks for approval, made with a token of GitHubToken.       *)
(*                                                                         *)
(* Every request runs in a goroutine of its own; between its steps, which  *)
(* are its calls to the API server and its look at the policy, others run. *)
(* The policy is copied for every request but its maps are not: what a     *)
(* profile adds to the lists of hosts and ports (forProfile) stays there   *)
(* for every profile, until the broker starts again.                       *)
(*                                                                         *)
(* The rules of a request are the hosts and the ports they name, taken     *)
(* together: the policy looks at every host and at every port by itself.   *)
(***************************************************************************)
EXTENDS GitHubToken, FiniteSets

CONSTANTS
  Jobs,       \* AgentJobs
  Names,      \* names of NetworkGrants
  None,
  Profile,    \* the policy profile of a job
  Shapes,     \* what requests ask for: hosts, ports, dns (sets), tcp, non443, mode
  Internal,   \* by profile: the hosts under its internal suffixes
  AllowMode,  \* profiles whose publicEgressMode is "allow"
  BaseHosts, BaseDNS,            \* the allowlists of the environment
  MoreHosts, MoreDNS, MorePorts, \* by profile with an override: what it lists
  AllowNon443,                   \* profiles whose override allows ports other than 443
  MaxGrants   \* maxGrantsPerJob

\* The profiles with an override.
Overrides == DOMAIN MoreHosts

ASSUME RequestAssumption ==
  /\ IsFiniteSet(Requests) /\ IsFiniteSet(Names)
  /\ MaxGrants \in Nat \ {0}
  /\ DOMAIN MoreDNS = Overrides /\ DOMAIN MorePorts = Overrides
  /\ AllowNon443 \subseteq Overrides
  /\ \A shape \in Shapes :
       DOMAIN shape = {"hosts", "ports", "dns", "tcp", "non443", "mode"}

VARIABLES
  grant,     \* the NetworkGrants at the API server
  hosts, dns, ports, \* the policy's maps: publicEgressAllowlist, publicDNSAllowlist,
                     \* nonAdminAllowedNon443Ports
  applied,   \* history: the overrides applied since the broker started
  req        \* the requests under way

policy == <<hosts, dns, ports, applied>>
token == <<clock, cached, call>>

vars == <<grant, policy, req, token>>

Strict == "STRICT_FQDN"
Proxy == "PROXY_CONNECT"

\* A grant: who asked for it, whether it is approved, for whom and for what, and
\* whether status.expiresAt has passed ("ended") and a later approval with a longer
\* time to live opened it again.  "checked" is history: if the policy was asked, for
\* the job or for GitHub, the overrides applied at that time, as a set of one.
NoGrant == [by |-> "nobody"]
Idle == [pc |-> "idle"]

Init ==
  /\ grant = [n \in Names |-> NoGrant]
  /\ hosts = BaseHosts /\ dns = BaseDNS /\ ports = {} /\ applied = {}
  /\ req = [r \in Requests |-> Idle]
  /\ TokenInit

-----------------------------------------------------------------------------
(* The network policy. *)

\* The maps after forProfile(f), which returns early without an override.
HostsFor(f) == hosts \cup IF f \in Overrides THEN MoreHosts[f] ELSE {}

DNSFor(f) == dns \cup IF f \in Overrides THEN MoreDNS[f] ELSE {}

\* Ports are touched only for a profile that allows them; an empty map gets 80.
PortsFor(f) ==
  IF f \notin AllowNon443 THEN ports
  ELSE IF ports \cup MorePorts[f] = {} THEN {80} ELSE ports \cup MorePorts[f]

AppliedFor(f) == applied \cup ({f} \cap Overrides)

forProfile(f) ==
  /\ hosts' = HostsFor(f) /\ dns' = DNSFor(f) /\ ports' = PortsFor(f)
  /\ applied' = AppliedFor(f)

hostIsInternal(f, h) == h \in Internal[f]

\* The mode belongs to the copy.
publicHostAllowed(f, h) == f \in AllowMode \/ h \in HostsFor(f)

publicDNSAllowed(f, h) == f \in AllowMode \/ h \in DNSFor(f)

PortAllowed(f, spec, port) ==
  port = 443 \/ (spec.non443 /\ f \in AllowNon443 /\ port \in PortsFor(f))

\* Some host of the list is not internal.
PublicRequested(f, spec) == \E h \in spec.hosts : ~hostIsInternal(f, h)

\* The mode of a request without one (handleCreateNetworkGrant).
Mode(who, f, shape) ==
  IF shape.mode # None THEN shape.mode
  ELSE IF who = "job" /\ PublicRequested(f, shape) THEN Proxy ELSE Strict

\* validateNonAdminNetworkGrant, of a spec with a mode: one public host takes the
\* whole list through the proxy.
ValidNonAdmin(f, spec) ==
  /\ spec.tcp
  /\ spec.non443 => f \in AllowNon443
  /\ \A port \in spec.ports : PortAllowed(f, spec, port)
  /\ \A h \in spec.hosts : hostIsInternal(f, h) \/ publicHostAllowed(f, h)
  /\ spec.mode = IF PublicRequested(f, spec) THEN Proxy ELSE Strict
  /\ \A h \in spec.dns : h \in spec.hosts \/ hostIsInternal(f, h) \/ publicDNSAllowed(f, h)

-----------------------------------------------------------------------------
(* handleCreateNetworkGrant *)

\* The request is before this step.  Its deadline is followed when it is to make a
\* comment; that any request may end at it is Abort.
At(r, pc) ==
  /\ req[r].pc = pc
  /\ pc \in {"create", "comment"} /\ req[r].start # None => clock <= req[r].start + Timeout

\* The start of a request that names a pull request.
Starts == {None, clock}

Return(r) == req' = [req EXCEPT ![r] = Idle]

\* countActiveOrPendingNetworkGrantsForJob
Counted(j) ==
  Cardinality({n \in Names : grant[n] # NoGrant /\ grant[n].job = j /\ grant[n].life # "ended"})

\* Mutant: the job may have one more.
BelowCapOver(j) == Counted(j) <= MaxGrants

BelowCap(j) == Counted(j) < MaxGrants

\* The requests that are not turned away for their form.
Asked == {shape \in Shapes : shape.hosts # {} /\ (shape.ports \subseteq {443} \/ shape.non443)}

\* A request of the job, with the job's token, that passes: its grants are counted
\* and the policy is asked for the mode, if the request has none, and whether the
\* job may have this.  A request that is turned away by the policy has all the
\* same left its profile's additions in the maps.
Request(r) ==
  /\ req[r] = Idle
  /\ \E j \in Jobs, shape \in Asked, start \in Starts :
       LET f == Profile[j]
           spec == [shape EXCEPT !.mode = Mode("job", f, shape)]
       IN  /\ BelowCap(j)
           /\ forProfile(f)
           /\ req' = [req EXCEPT ![r] = IF ValidNonAdmin(f, spec)
                        THEN [pc |-> "create", start |-> start, job |-> j, spec |-> spec,
                              checked |-> {AppliedFor(f)}]
                        ELSE Idle]
  /\ UNCHANGED <<grant, token>>

\* Create, under a name that is not taken; a request that names a pull request
\* goes on with a comment there.
Created(r, by, job, spec, checked, start) ==
  /\ \E n \in Names :
       /\ grant[n] = NoGrant
       /\ grant' = [grant EXCEPT ![n] =
            [by |-> by, approved |-> FALSE, job |-> job, spec |-> spec, checked |-> checked,
             life |-> "open"]]
  /\ req' = [req EXCEPT ![r] = IF start = None THEN Idle
                               ELSE [pc |-> "comment", start |-> start]]
  /\ UNCHANGED <<policy, token>>

Create(r) ==
  /\ At(r, "create")
  /\ Created(r, "job", req[r].job, req[r].spec, req[r].checked, req[r].start)

\* A request for a job with the administrator's token: no cap, no policy, so the
\* only call that matters is the one that creates the grant.
CreateAdmin(r) ==
  /\ req[r] = Idle
  /\ \E j \in Jobs, shape \in Asked, start \in Starts :
       Created(r, "admin", j, [shape EXCEPT !.mode = Mode("admin", Profile[j], shape)], {}, start)

\* commentNetworkGrantRequest: an error is logged.
Comment(r) ==
  /\ At(r, "comment")
  /\ Get(r, req[r].start)
  /\ req' = [req EXCEPT ![r] = [pc |-> "github"]]
  /\ UNCHANGED <<grant, policy>>

CommentToken(r) ==
  /\ Issue(r) \/ Store(r)
  /\ UNCHANGED <<grant, policy, req>>

Commented(r) ==
  /\ Use(r) \/ Fail(r)
  /\ Return(r)
  /\ UNCHANGED <<grant, policy>>

-----------------------------------------------------------------------------
(* handleApproveNetworkGrant, handleApproveNetworkGrantGitHub *)

\* spec.approved is set; a longer spec.ttlSeconds may open an ended grant again.
Approved(n, checked) ==
  \E life \in {grant[n].life} \cup IF grant[n].life = "ended" THEN {"again"} ELSE {} :
    grant' = [grant EXCEPT ![n].approved = TRUE, ![n].checked = checked, ![n].life = life]

\* With the administrator's token: no policy.
ApproveAdmin(n) ==
  /\ grant[n] # NoGrant
  /\ Approved(n, grant[n].checked)
  /\ UNCHANGED <<policy, req, token>>

Approving(r, n) ==
  req' = [req EXCEPT ![r] = [pc |-> "patch", name |-> n,
                             checked |-> {AppliedFor(Profile[grant[n].job])}]]

\* Mutant: what could be asked for is not looked at again.
ApproveGitHubAny(r) ==
  /\ req[r] = Idle
  /\ \E n \in Names : grant[n] # NoGrant /\ Approving(r, n)
  /\ UNCHANGED <<grant, policy, token>>

\* The webhook passes on the comment of an approver, which GitHub may deliver
\* again: the grant is checked against the policy of its job's profile.
ApproveGitHub(r) ==
  /\ req[r] = Idle
  /\ \E n \in Names :
       /\ grant[n] # NoGrant
       /\ forProfile(Profile[grant[n].job])
       /\ IF ValidNonAdmin(Profile[grant[n].job], grant[n].spec)
          THEN Approving(r, n) ELSE UNCHANGED req
  /\ UNCHANGED <<grant, token>>

\* The grant may have ended, or have been approved otherwise, since it was read.
Patch(r) ==
  /\ At(r, "patch")
  /\ Approved(req[r].name, req[r].checked)
  /\ Return(r)
  /\ UNCHANGED <<policy, token>>

-----------------------------------------------------------------------------
(* The grant's controller, failures, time. *)

\* status.expiresAt of an approved grant passes: it is not counted any more.
End(n) ==
  /\ grant[n] # NoGrant /\ grant[n].approved /\ grant[n].life # "ended"
  /\ grant' = [grant EXCEPT ![n].life = "ended"]
  /\ UNCHANGED <<policy, req, token>>

\* A call of a request fails or its context ends.
Abort(r) ==
  /\ req[r].pc \notin {"idle", "github"}
  /\ Return(r)
  /\ UNCHANGED <<grant, policy, token>>

\* The broker ends, as it does when the runtime finds two goroutines in a map,
\* and starts again.
Crash ==
  /\ hosts' = BaseHosts /\ dns' = BaseDNS /\ ports' = {} /\ applied' = {}
  /\ req' = [r \in Requests |-> Idle]
  /\ cached' = 0 /\ call' = [r \in Requests |-> NoCall]
  /\ UNCHANGED <<grant, clock>>

Tick == TokenTick /\ UNCHANGED <<grant, policy, req>>

Next ==
  \/ Crash \/ Tick
  \/ \E n \in Names : ApproveAdmin(n) \/ End(n)
  \/ \E r \in Requests :
       \/ Request(r) \/ Create(r) \/ CreateAdmin(r)
       \/ Comment(r) \/ CommentToken(r) \/ Commented(r)
       \/ ApproveGitHub(r) \/ Patch(r) \/ Abort(r)

Spec == Init /\ [][Next]_vars

-----------------------------------------------------------------------------
(* Properties *)

\* What the environment and these overrides list.
HostsOf(overrides) == BaseHosts \cup UNION {MoreHosts[g] : g \in overrides}
DNSOf(overrides) == BaseDNS \cup UNION {MoreDNS[g] : g \in overrides}
PortsOf(overrides) == {80, 443} \cup UNION {MorePorts[g] : g \in overrides \cap AllowNon443}

\* What a profile permits without an administrator if these overrides are in force.
Permitted(f, spec, overrides) ==
  LET public == spec.hosts \ Internal[f]
  IN  /\ spec.tcp
      /\ spec.mode = IF public = {} THEN Strict ELSE Proxy
      /\ f \in AllowMode \/ public \subseteq HostsOf(overrides)
      /\ f \in AllowMode \/ spec.dns \ (spec.hosts \cup Internal[f]) \subseteq DNSOf(overrides)
      /\ spec.ports \subseteq IF f \in AllowNon443 THEN PortsOf(overrides) ELSE {443}

\* Proxy-first: a grant that a job asked for itself or that GitHub approved goes
\* directly only to internal hosts; with a public host in its list all of it goes
\* through the proxy, and each public host, name and port is listed by the
\* environment or by a profile that was looked at between the broker's last start
\* and the check of this grant.  A list that was extended before a crash is of no
\* account after it.
ProxyFirst ==
  \A n \in Names : grant[n] # NoGrant =>
    \A overrides \in grant[n].checked :
      Permitted(Profile[grant[n].job], grant[n].spec, overrides)

\* The cap is looked at before the grant is made, so requests that run together
\* may exceed it, but only by their number: a job has fewer grants of its own
\* that have not ended, those opened again apart, than the cap and the requests
\* together.
CapExceeded ==
  \A j \in Jobs :
    Cardinality({n \in Names : /\ grant[n] # NoGrant /\ grant[n].by = "job"
                               /\ grant[n].job = j /\ grant[n].life = "open"})
      < MaxGrants + Cardinality(Requests)

-----------------------------------------------------------------------------
(* What a comment or a document says and the code does not do *)

\* docs/policy-profiles.md:19 "public egress requires explicit allowlist
\* (`BROKER_NETWORK_PUBLIC_EGRESS_ALLOWLIST`)", netpolicy.go:24 "extends the default
\* public egress allowlist" of "jobs in this policy profile": a job without an
\* administrator stays within the environment's lists and its own profile's.
OwnProfile ==
  \A n \in Names : grant[n] # NoGrant /\ grant[n].checked # {} =>
    Permitted(Profile[grant[n].job], grant[n].spec, {Profile[grant[n].job]} \cap Overrides)

\* netpolicy.go:338 "internal destinations via STRICT_FQDN".
InternalDirect ==
  \A n \in Names :
    /\ grant[n] # NoGrant /\ grant[n].checked # {}
    /\ grant[n].spec.hosts \cap Internal[Profile[grant[n].job]] # {}
    => grant[n].spec.mode = Strict

=============================================================================
