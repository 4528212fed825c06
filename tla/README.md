# Verification of workspaces-platform

workspaces-platform runs remote desktops and agent jobs on Kubernetes. An operator
(controller-runtime) reconciles five custom resources; around it stand an HTTP broker that
creates jobs and grants, an egress proxy that enforces some of the grants, a relay that
connects clients to desktops, and a tamper-evident audit log.

This directory holds TLA+ models of the parts that keep state and run concurrently, TLC
configurations for small instances of them, and TLAPS proofs of what matters most. It is
organised by component: `X.tla` is the model, `X_<run>.cfg` an instance, `MCX.tla` the constant
sets a cfg cannot write, `XProofs.tla` the theorems. `PROJECT.json` lists the runs, maps each
definition to its source lines, gives a mutant for every property and lists the hazards.

Run one with `tlc -config NetworkGrant_lifecycle.cfg MCNetworkGrant`; check proofs with
`tlapm NetworkGrantProofs.tla`.

## 1. Inventory

| component | source | state | operations | interacts with |
|---|---|---|---|---|
| NetworkGrant controller | `internal/controller/networkgrant_controller.go` | grant status (approvedAt, expiresAt, active, conditions), one CiliumNetworkPolicy per grant | Reconcile: validate, revoke, stamp, expire, apply, requeue | broker writes the spec; egress proxy reads the status |
| Egress proxy | `cmd/egress-proxy` | pod index by IP, grant index by job; open tunnels | CONNECT handler, refresh loops, refresh on a miss | lists pods and grants |
| Broker | `cmd/capability-broker` | the cached installation token and the maps of the network policy; writes AgentJobs, grants, secrets, check runs | create job, request and approve a grant, approve from GitHub, open PR, check run reporter | operator, GitHub |
| AgentJob controller | `internal/controller/agentjob_controller.go` | AgentJob status, one Job | Reconcile: create or update the Job, copy its status, retire credentials | broker, Job controller |
| Desktop controller | `internal/controller/desktop_controller.go` | Desktop status, home claims, relay token Secret, Deployment, Service | Reconcile: autosuspend, token, claim, reset, Deployment, retention, requeue | ws-proxy and wsctl edit the Desktop; HomeTemplate provides sources |
| HomeTemplate controller | `internal/controller/hometemplate_controller.go` | template claim, VolumeSnapshots, status.latestSnapshot | Reconcile: claim, snapshot, publish, retention, requeue | Longhorn makes snapshots ready |
| PortShare controller | `internal/controller/portshare_controller.go` | PortShare status, one Service | Reconcile: expiry, Service, requeue | Desktop |
| ws-relayd | `cmd/ws-relayd` | table of agents by desktop, table of pending dials | control, dial and data connections | ws-desktop-agent, ws-relay |
| ws-desktop-agent | `cmd/ws-desktop-agent` | control connection, semaphore of streams | read open messages, bridge streams, reconnect | ws-relayd |
| ws-proxy | `cmd/ws-proxy` | none; heartbeat annotation on the Desktop | forward a port, touchDesktop | Desktop controller |
| Audit log, auditctl | `internal/audit`, `cmd/auditctl` | daily events and checkpoint files, the emitter's number and last hash | emit, rotate, take up, verify | every binary that emits events |
| wsctl, ws-relay, github-webhook, agent-runner, auditship, artifacts, redact, netutil, operator main | | none | one request, one conversion or one copy each | |

What is hard here:

* **Reconcile is a sequence of remote calls on a cached copy.** The object comes from the informer
  cache and may be old. Merge patches carry no resource version, so a patch computed from an old
  copy is applied to a newer object; its answer then replaces the working copy in the middle of
  the function. Several errors are dropped (`_ =`), so a Reconcile may succeed with half its work done.
* **Wake-ups.** A controller is woken by watch events, by its own requeue, and every ten hours by
  the resync. A requeue computed from a stale or rounded time, or not asked for at all, leaves a
  deadline that no one watches.
* **Overlapping refreshes** in the egress proxy: an older listing may be installed after a newer.
* **Hand-over of connections** between three kinds of handler in relayd, against timeouts and
  reconnects of the agent.
* **Shared memory of handlers** in the broker: requests run in goroutines of their own, test a count
  or a policy and act some remote calls later; the policy's maps and the token cache are common to all.
* **Partial failure**: a job request is a chain of remote calls with an undo; an audit write may fail
  half way; the operator may end anywhere.

Common frame of the controllers (external code, modelled from how `src/` uses it): reads come from
an informer cache brought up to date by a later step; a queue that holds a key once; one worker per
controller; an error or a positive RequeueAfter brings the key back, RequeueAfter of zero or less
does not; a status patch is itself an event; `Patch` decodes the server's answer into the object;
unstructured objects (VolumeSnapshots) are read live; broker and egress proxy read without a cache;
`metav1.Time` keeps whole seconds.

## 2. Modules

### NetworkGrant
`store` is the API server, `unsynced`/`cache` the informer, `queue`/`timer` the workqueue, and `pc`,
`key`, `grant`, `now`, `ttl`, `approvedAt`, `expiresAt` the running Reconcile. Each API call is one
action, named for what it does (`StampApproval`, `ExpireDelete`, `ApplyPolicy`, `Activate`); each
may fail, and what the code does with the error follows. The broker's create, auto-create, approve
and edit, deletion, garbage collection of the policy, the resync and an operator restart are the
environment. Validation of hosts, ports and selectors is one flag of the spec (`wellFormed`); the TTL
arithmetic (`TTLAllowed`, `ResolveTTL`) is kept.

### EgressProxy
`pods` and `store` are the cluster; `podIndex` and `grantIndex` the indexes; `podList` and
`grantList` listings that have been fetched and not yet installed, by the loop and by each handler,
because listing and `setAll` are two steps; whether a grant is active is decided when it is listed.
`req` is each CONNECT handler. Deadlines are relative (`left`), so no clock bounds the behaviours. The
NetworkGrant controller is reduced to the status fields the proxy reads; a grant's pods, destination
and mode are not edited once it exists.

### AuditLog
`events` and `checks` are the files by day, as sequences of records (or `Junk`, a partial line);
`emitter` is a process's handle, day, number and last hash. A hash is the record it is taken of, so
equality of hashes is equality of what was hashed. `Verifies` is `auditctl verify`. Its specification is `AuditSpec`, since `BrokerProofs` extends it beside GrantRequest.

### Relay
One model for `ws-relayd` and `ws-desktop-agent`, at the grain of relayd's mutex: `control` and
`agents` (control connections, their wire, the table), `pending`, `dial` and `data` (the dial and data
handlers), `loop`, `stream` and `slots` (the agent). `ReadOpen(k, n)` reads any number of the
messages waiting on the wire, as the agent's throw-away `bufio.Reader` does. `Finalize` is the Go
runtime closing a connection nobody refers to. `Rendezvous` is what the pair promises: a caller asks
and is connected or refused, a desktop offers a connection once and only for what was asked, the two
are joined at most once and closed together, an offer is taken up or dropped. It knows neither control
connections nor tables, channels or slots. The refinement mapping of `Relay` is `CallerOf` (from `dial`)
and `FarOf` (from `data`); a connection left in the channel of a dial that timed out counts as offered
until `Finalize` closes it. `Rendezvous!Safety` is its part without fairness, the one that is also proved.

### AgentJob
`req` is the broker's handler, call by call with its undo; `op` the running Reconcile, `queue` its
requests; `job` the Job's life in Kubernetes (`ran` keeps every outcome it had); `todo`, `marking`
and `check` the check run reporter and GitHub; `gh`, `br`, `grant` the two secrets and the autogrant.
A finished Job may expire at any time, whether the operator has seen it or not. `TemplateMutable` says
whether the API server accepts a changed pod template: it does not, and with `FALSE` no pass gets beyond
the Job after the first (section 5). `TRUE` is there so that the reporter, whose promises are about what
the status says, meets every status; that the cleanup is reached is claimed nowhere.

### Desktop
One Desktop. `desk` is the object, `cache` the informer's copy, `homes` the claims, each with those that were
there when it was created, `old` those of more than an hour, `snap` the
snapshot a reset is made from, `secret` and `deploy` the relay token and the Deployment, `d`, `now`, `token`,
`susp` and `home` the running Reconcile. The clock runs in ticks of `PerSecond` to a second, so that the
rounding of `metav1.Time` (`Truncate`) is seen: the status and `lastActive` hold one pointer, the answer of the
status patch is decoded into it, and so the test for idleness and the deadline of the requeue use the same
whole seconds, unless the patch fails. `ClassGiven` says whether `spec.home.storageClassName` is set; if not, the update of a
claim that is there is refused (section 5). `touchDesktop` of ws-proxy and `wsctl desktop suspend`
and `resume` are the actions of users.

### HomeTemplate
One template. `snaps` and `ready` are snapshots, identified by the second of their creation; `status`
the stored object, `ht`, `listed` and `usable` the running Reconcile. Every call may fail, and a
create may also succeed with its answer lost. `Crossing` says whether the interval's boundary may
pass between the test and the requeue of one Reconcile, `ClassGiven` whether `spec.storageClassName` is set.

### PortShare
Shares of one Desktop, so that a Service is known by its port and two shares of one port name the same
Service. `share`/`shareSeen` and `svc`/`svcSeen` are the API server and the caches, `pass` the running
Reconcile with its copy of the share. Each of the status patches and the calls on the Service is a step
(`Start`, `DesktopNotFound`, `Expiry`, `Close`, `CreateOrUpdate`, `Record`); `Patch` is the merge patch
whose answer replaces the copy and whose error is dropped; it carries the conditions all or none and is
an event only if it changes the share. wsctl creates and deletes shares, users edit
port, time to live and `requestedAt`, the garbage collector deletes Services without an owner. A clock
tick is a second; as in HomeTemplate, `Crossing` lets a pass without a successor outlast the end of
its share. The hash in long Service names and an invalid spec, which the API server does not admit,
are left out.

### GrantRequest, GitHubToken
The broker's side of a NetworkGrant: `Request` and `Create` for a job, `CreateAdmin`, `ApproveAdmin`,
`ApproveGitHub` and `Patch` for an approver's comment, `Comment` for the comment that asks for
approval. `req` is each handler, `grant` the objects, `hosts`, `dns` and `ports` the policy's maps, which
`forProfile` adds to although it works on a copy of the policy; `applied` is a history variable, the overrides that
were added since the broker started. A request carries its list of hosts, its ports, its DNS names, the
protocol, the flag for other ports and the mode, and may mix internal and public hosts. The listing for the cap and the look at the policy are one step, since both only
read or only add, and the creation is another. `End` is the passing of a grant's expiry, after which it no longer counts;
it may come between the reading and the patch of an approval, and an approval with a longer time to live may open
the grant again (`life`). GrantRequest extends `GitHubToken`, the cache of the installation token:
looking at the cache, GitHub's answer, storing it and using the token are four steps (`Get`, `Issue`,
`Store`, `Use`), of every request, all within the request's thirty seconds.

## 3. Runs

| run | instance | states | shows |
|---|---|---|---|
| grant_lifecycle | 1 grant, TTLs 0 and 1 (default 2, cap 1), strict, time 3, 2 writes, 1 failed call or restart, fairness | 1.6 M | `SettledPolicy`: a grant the controller has caught up with has its policy exactly as the spec and the expiry say; `LifetimeCap`; `NoExtension`; `PolicyRemoved`: the policy of a withdrawn, invalid, expired or deleted grant goes |
| grant_invalid | 3 writes | violation | `InvalidNeverEnforced` (section 5) |
| grant_approval | 2 requests at a time, 2 jobs of 2 profiles (one without an override), a list of an internal and a public host, 3 names, cap 1, time 2, any number of crashes | 1.4 M | `ProxyFirst`: what a job asked for itself or GitHub approved is direct if every host is internal and as a whole through the proxy if one is public, which is then listed by the environment or a profile looked at since the broker's last start; `CapExceeded`: by how much concurrent requests pass the cap; `TokenLive`: GitHub sees no expired token |
| proxy_tunnels | 1 request, 2 pods, 1 IP, 2 destinations, 1 grant for one of the pods, fairness | 2.4 M | `TunnelGranted`: a tunnel is opened only to what an approved PROXY_CONNECT grant names for the pod it is attributed to; `LapsedDropped`: a lapsed grant is out of the index at some time, although an older listing may bring it back for a while |
| audit_safety | 1 process, 2 kinds of event, checkpoint every 2, 2 days, 3 lines, 2 faults, 2 starts | 458 k | `ChainVerifies`, `PrefixVerifies`, `CheckpointsBacked`, `HandlesUsable` |
| relay_streams | 1 desktop, 3 control connections, 2 dials, 1 slot, 1 fault, fairness | 116 k | `TableCurrent`, `PendingOwned`, `SlotsCounted`; `RendezvousKept`: the relay and the agent implement `Rendezvous`, its liveness included; `StreamEnds`, `AgentReturns` |
| agentjob_lifecycle | 1 job, 2 faults, mutable template, fairness | 31 k | `ConclusionTrue`; `ReportedTold`: a job marked as reported has a completed check run; `ReportedOrRerun` |
| agentjob_template | the same, immutable template, no fault | violation | `CredentialsRetired` (section 5) |
| desktop_lifecycle | storage class set, 1 tick a second, time 2, 2 edits, 1 fault, retain 1, fairness | 407 k | `HomeKept`; `ResetDone`, `SuspendHonoured`, `TokenRolledOut`, `AutoSuspended` |
| portshare_sharing | 2 shares, 2 ports, TTL 1, time 2, 1 edit, failed call or restart | 2.0 M | `ExpiredClosed`: a share that is over, with nothing under way, has no Service; `ShareServed`: one that is not over has its Service and a wake-up; `StatusTrue` |
| hometemplate_cadence | storage class set, interval 2, stampede guard 1, retain 1, time 6, 2 faults, fairness | 428 k | `Spacing`; `NewestKept`: retention never deletes one of the newest; `Cadence`, `RetentionMet`, `Published` |
| hometemplate_class | storage class omitted, no fault | violation | `Cadence` (section 5) |

The runs of AuditLog, Relay and Desktop also check `TypeOK`, which there bounds sequence numbers, semaphores and homes;
for the other modules it is proved (section 4).

**Bounds, and why they are enough.** A grant, a Desktop, a template and a job each share nothing with
another of its kind inside its controller except the queue, which keeps keys apart; one of each is
therefore enough, and the theorems below are for any number. Two writes to a grant are enough for
each order of approve, approve again and withdraw against one Reconcile; TTL 0 takes the default,
which is above the cap, 1 is at it, and time 3 passes every deadline the cap allows. Both TTLs resolve to the
cap, so an expiry moves in this run only by a new approval; shortening, extending and other TTLs are
left to the theorems `LifetimeCapped` and `ExpiryNotExtended`. `MaxFaults` bounds
failed calls and restarts together. In EgressProxy, one grant and one request already overlap with the
loop's refresh; the two pods have the IP one after the other and the grant is for one of them and one
of the two destinations, so that a tunnel for the other would be seen. In GrantRequest, the one list has an internal host and one that is
public and listed by the override of the other profile; ports other than 443 and UDP are left to the proof. Two requests see each other's additions to the maps and pass the cap of one
together, and each renews the token while the other does; a token lives 2, the margin and the
timeout are 1. In PortShare, both shares start on one port, so that the end of either deletes the
Service of both, and one of edit, failed call and restart may come at any point; with two,
`ExpiredClosed` is lost to two dropped errors (section 5). In Relay, 3 connections are `2 * MaxFaults + 1`: a late handshake of a
connection the agent gave up closes its successor, so one fault may cost two connections; with 2
dials and 1 slot the agent waits for a place. In AuditLog, 3 lines hold a checkpoint, the record
after it and a partial line. In Desktop, 2 edits make a reset after a reset, or a suspend during one, and
`Retain = 1` deletes at the second claim. In HomeTemplate, time 6 holds three intervals, so that
retention deletes after a failed deletion. Only `portshare_sharing` (shares, ports) and `grant_approval`
(requests, names) use symmetry; both check invariants alone, and the symmetric constants are model
values that no definition tells apart.

The cfgs but `GrantRequest_approval.cfg` switch the deadlock check off: there the bounds on time, edits
and faults end the behaviours.

**Fairness, and why the code justifies it.**

* *Controllers* (NetworkGrant, Desktop, HomeTemplate, AgentJob): weak fairness of the steps of
  Reconcile (one worker, all calls return), of the cache and of timers (controller-runtime delivers
  watch events and delayed requests), and of time. NetworkGrant also uses the ten-hourly resync and
  Kubernetes' garbage collector: without the resync `PolicyRemoved` does not hold, since an error of
  `Delete` is dropped. In Desktop the resync may happen but is not fair, so its properties do not rest on it.
  A snapshot a reset waits for becomes ready (Longhorn). In HomeTemplate none need become ready.
* *EgressProxy*: the loop over the grants lists and installs (a ticker; of its listings some succeed). Nothing is asked of
  handlers, of the controller or of time.
* *Relay*: handlers of relayd and the agent's loop run (goroutines), and the Go runtime finalizes what is unreachable; a stream is not assumed to end
  by itself, only when its connection is closed or broken.
* *AgentJob*: the broker's handler and the reporter's loop run, pods start. A pod need not finish and a
  Job need not be deleted by its time-to-live.
* No fault is ever assumed to happen; none is assumed to stop except by its bound.

## 4. Theorems

TLAPS proves them for every value of the constants that satisfies the assumptions of the
module (kinds of numbers; in GrantRequest also that requests and names are finite, that an override that allows
other ports is an override, and that the timeout of a request is at most the token's margin and that less than its life).

| theorem | statement | along |
|---|---|---|
| NetworkGrantProofs `TypeCorrect` | `Spec => []TypeOK` | directly inductive, one lemma for a status patch |
| `LifetimeCapped` | `Spec => []LifetimeCap` | `CapInv`: the expiries in the caches, the working copy and the locals of Reconcile are capped too, since each may be written later |
| `ExpiryNotExtended` | `Spec => NoExtension` | an action property: only `StampExpiry` moves an expiry, and what a patch changes is what working copy and target differ in |
| `SettledRight` | `Spec => []SettledPolicy` | `SettleInv`: a cache with no event on its way is current; a Reconcile that nothing disturbed is on the track that its object asks for; a grant with nothing queued has the right policy |
| EgressProxyProofs `TypeCorrect`, `TunnelsGranted` | `Spec => []TypeOK`, `Spec => []TunnelGranted` | `CoverInv`: every entry of a fetched listing, of the index, and every request past the check is covered by a grant that was approved once; no write takes that away |
| BrokerProofs, of AuditLog: `AuditTypes`, `ChainAlwaysVerifies` | `AuditSpec => []TypeOK`; with one process, `AuditSpec => []ChainVerifies` | `ChainInv`: each day's files are sound and the emitter is in step with the last line of its file |
| `HandlesAlwaysUsable` | `AuditSpec => []HandlesUsable`, any number of processes | `HandleInv`: an emitter's date is never ahead of the clock, and only one whose date has passed may have closed handles |
| `PrefixAlwaysVerifies`, `CheckpointsAlwaysBacked` | with one process, `AuditSpec => []PrefixVerifies`, `AuditSpec => []CheckpointsBacked`, with failed writes | `FaultInv`: the lines before the first that does not parse are chained, checkpoints are backed while all lines parse, and the emitter is in step with its file unless a line was spoilt or the next write will spoil one |
| RelayProofs `AgentTable` | `Spec => []TableCurrent` | `TableInv`: with types and the keys of registered connections |
| `NoPendingLeft` | `Spec => []PendingOwned` | `PendingInv`: also, no message or stream exists for a dial that has not sent one |
| `TypeCorrect` | `Spec => []TypeOK` | `MessageInv` and `SlotInv`: a message on a wire is on its dial's connection, once, with no loop and no stream yet, so that a stream starts once and its place is taken and given back once |
| `SlotsAlwaysCounted` | `Spec => []SlotsCounted` | `SlotInv`: the streams of an agent are finite in number and as many as its places taken, and each belongs to an agent; a step adds or removes at most one, by the theorems on finite sets |
| `RelayImplementsRendezvous` | `Spec => R!Safety` | `DataInv`: there is no data connection before its stream says hello, and a dial that has taken one holds it; then each action is one step of `Rendezvous` under the mapping or none |
| AgentJobProofs `TypeCorrect`, `ConclusionAlwaysTrue` | `Spec => []TypeInv` (`TypeOK`, and a busy worker has a job), `Spec => []ConclusionTrue` | `OutcomeInv`: an outcome in the Job, in the operator's worker, in the AgentJob's status or in the reporter's list is one the job has had, however old it is there |
| `MarkedIsReported` | `Spec => []ReportedTold`: a job marked as reported has a completed check run | `MarkInv`: the job that is about to be marked has one, and no request is before the creation of its check run when its job exists, is listed or was reported |
| DesktopProofs `TypeCorrect` | `Spec => []TypeOK` | `DesktopInv`: in the Desktop, the cache and the working copy alike, the recorded request is not after the pending one and the claim not after the recorded request by more than one, which bounds the revisions; a pass has seen no activity after its beginning, which bounds the timer |
| `HomeAlwaysKept` | `Spec => HomeKept` | an action property, from `DesktopInv`: at retention the pass's home is the mounted one; the homes newer than a deleted one have ranks from 0 without a gap (an injection of a finite set into an interval of its size), so `Retain` of them are kept |
| HomeTemplateProofs `TypeCorrect`, `SpacingHolds` | `Spec => []TypeOK`, `Spec => []Spacing` | `SpacingInv`: snapshots lie in the past, and between the decision to create one and its creation none is young |
| `NewestAlwaysKept` | `Spec => NewestKept`: a deleted snapshot has `Retention` newer ones | an action property, from `ListInv`: what was listed is still there when retention counts it |
| PortShareProofs `TypeCorrect` | `Spec => []TypeOK` | `GenInv`: a share's generation is at most the number of edits and one |
| `ShareServedHolds` | `Spec => []ShareServed`, with any edits, failed calls, restarts and `Crossing` | `SharesInv`, below |
| `ExpiredClosedHolds` | `~Crossing => (Spec => [](Careful => ExpiredClosed))`; `Careful`: no failed call or restart, or one and no edit | `SharesInv`; and no timer lies beyond the end of its share, so a share that is over waits for none |
| `StatusTrueHolds` | `Spec => []StatusTrue`, with any edits and `Crossing` | `SharesInv`: what the last pass recorded is what it did |
| BrokerProofs, of GrantRequest: `TokensLive` | `Spec => []TokenLive` | `TokenInv`: a token on its way or in use outlives the timeout of its request, a request that asks or will ask has started in the past |
| `ProxyAlwaysFirst` | `Spec => []ProxyFirst`, for lists of any hosts, ports and names | `PolicyInv`: the maps hold no more than the environment and the overrides applied since the start; what a request is about to create or approve was permitted by those applied when it was looked at |
| `CapExceededBounded` | `Spec => []CapExceeded`: grants opened again apart | `CapInv`: a job's grants and the requests past the check, counted together, by the theorems on finite sets |

The strengthening is needed because none of these is inductive alone: each speaks about the server
or the table, and what is written there next is already in a cache, a listing, a local or a message.

For PortShare the argument runs backwards from a settled share. `SharesInv` has five parts besides the types.
`CacheInv`: a cached share or Service that is not what the API server has has an event to come. `PassInv`: the pass
of a share for which nothing else is to come works on the share as it is, has found its end right and, once it has
acted, has its Service or, unless the call failed, has deleted it. `FaultInv`: as long as users changed nothing, the one error that is
dropped when a Service is deleted does not end the matter, since the status still says active and the patch that
follows is an event. `DoneInv`: so a share that has neither pass nor event nor due timer is served, with
a timer, or is over and closed, with the status to match. `TimesInv`: starts only move forward, so copies and timers,
late as they may be, are of no later end than the share has. The two hypotheses of `ExpiredClosedHolds` are what the
code needs: with `Crossing` or two dropped errors it fails (section 5), and after edits a pass may meet a share that is
not active and has its Service all the same, so that the failed call that should delete it is not followed by an event.

`HomeKept` does not say that retention spares the home the status names. No invariant carries that, not even without
a failed call, and three requests refute it (section 5). The homes are kept with the set of those before each, not as
a sequence, since the prover knows nothing about `SelectSeq`.

The invariants were model-checked before they were proved (`FaultInv`, `MessageInv`, `DesktopInv`, `MarkInv`, `ListInv` and
`SharesInv` on the instances of section 3 and some larger ones); the proofs do not rest on that.

Only model-checked: all liveness (fairness and ENABLED are beyond the prover), and so the fairness of `RendezvousKept`.

## 5. Statements the code does not meet

Three are runs of their own:

* `grant_invalid`: validation reads the cached spec, but a status patch replaces the working copy by
  the server's object, and the policy is built from that. A spec edited in between is enforced
  without validation, against the comment at `networkgrant_controller.go:58`.
* `agentjob_template`: the mutate function rewrites the pod template of an existing Job, which the API
  server refuses; Reconcile ends there each time after the first, so status, credentials and grant of
  a finished job are never touched, and the Job is created again after each time-to-live.
* `hometemplate_class`: with `storageClassName` omitted the mutate function writes no class over the one the cluster
  filled in (`hometemplate_controller.go:72`), which the API server refuses; every pass after the first ends
  there, although `hometemplate_types.go:13` says that the cluster default is used, and no second snapshot is made.

The following are stated in the modules under "What a comment or a document says and the code does
not do", without a run. The constants in brackets show them.

* `UnapprovedHasNoPolicy` (NetworkGrant, comment at line 73): an error of the policy's deletion is
  dropped, and the policy stays until the next event or resync [lifecycle cfg with `MaxFaults = 3` and `MaxTime = 2`].
* `RequeuedAtExpiry` (line 191): a Reconcile whose expiry has passed while it ran asks for no requeue
  [`MaxFaults = 1`, `MaxGeneration = 3`].
* `TTLBound` (EgressProxy, `main.go:373`, `docs/egress-proxy.md:44`): a grant without status counts as approved
  *now* at each refresh, so while the controller is away it never expires.
* `CallerIdentified` (`main.go:399`): the pod is found by IP in an index that may be old
  [tunnels cfg].
* `HashChain` (AuditLog, `docs/audit.md:35`): two processes on one volume, as during a rollout, append
  with their own idea of the last record [`Procs = {p1, p2}`].
* `OpenDelivered` (Relay, `docs/connectivity.md`): the agent reads each message through a new buffered reader;
  messages that arrive with another are dropped, and their dials time out.
* `OwnershipTaken` (comment in `handleDataConn`): a dial that times out after the connection was put into its
  channel leaves it there; the runtime closes it some time later.
* `ConcurrencyCap` (AgentJob, `docs/cost.md`): the cap is tested against a list before the job is created
  [`Jobs = {j1, j2}`].
* `CheckRunReported` (`docs/github.md`): a finished job that is created again shows as running before the
  reporter saw it.
* `NotStranded` (comment in `handleCreateAgentJob`): the undo may leave a job without its checkout token.
* The Desktop's home claim has the same update (`desktop_controller.go:486`): with `storageClassName` unset, wsctl's
  default, each pass after the creation of the home ends before the Deployment. `ResetDone`, `SuspendHonoured`,
  `TokenRolledOut` and `AutoSuspended` hold with the class set and fail without [lifecycle cfg with `ClassGiven = FALSE`].
  In HomeTemplate `Published` fails like `Cadence`.
* `ResetKept` (Desktop, `docs/longhorn.md:95`): a Reconcile with a cache from before the first claim was recorded
  records it again over a reset's [`MaxEdits = 1`, `MaxFaults = 0`].
* The home the status names, if it is not the mounted one, may be deleted although nothing failed: `docs/longhorn.md:96`
  speaks of "old PVC revisions". A reset is taken back as above, the next request counts up again and finds
  the home of that revision, a pass with a cache from before that mounts the home before it, and retention keeps
  this one and the newest others [`MaxEdits = 3`, `MaxFaults = 0`, `Retain = 1`].
* `LatestExists` (HomeTemplate): retention counts snapshots that are not ready and deletes the published one.
* `Cadence` fails with `Crossing = TRUE`, or with `Stampede > Interval`: no requeue is asked for.

* `ExpiredClosed` (PortShare, `docs/portshare.md:8`: the time to live "is enforced by deleting the Service after
  expiry") holds only for the Service of the present port and with the Desktop there. After an edit of
  `spec.port` the Service of the old port stays while the share exists; without the Desktop Reconcile returns
  before it looks at the time; and it fails with `Crossing = TRUE`, when a pass that began before the end
  asks for a requeue that is not in the future, or with two dropped errors [`MaxEvents = 2`].
* `StatusTrue` is stated for behaviours without a failed call: a dropped error of the last patch leaves
  `status.active` wrong, as nothing looks at the share again.
* `CapExceeded` (GrantRequest) is the bound the code keeps; the comment at `netpolicy.go:67` ("caps how many
  NetworkGrant objects may exist for a single AgentJob") states the cap itself. It leaves out ended grants that an approval opened again: these pass the cap without being
  looked at.
* `OwnProfile` (GrantRequest): `docs/policy-profiles.md:19` requires the allowlist of the environment for the default
  profile, and `netpolicy.go:24` extends it for the jobs of a profile. Since `forProfile` writes into the maps of the
  base policy, what one profile adds holds for all profiles until the broker starts again; `ProxyFirst` is
  what remains true [approval cfg].
* `InternalDirect` (`netpolicy.go:338`: "internal destinations via STRICT_FQDN"): of a list with an internal and a public
  host all go through the proxy [approval cfg].

Other behaviours seen on the way, that no statement of the repository rules out: an open tunnel
outlives its grant; `agent.send` has no deadline, so an agent that does not read can block dials to it;
a failed job request leaves its check run in progress and an autogrant without an owner; the broker
token's Secret may be created after the job's cleanup; a long autogrant or claim name is cut at 63
characters on one side only; a reset without a source ends Reconcile, so that the Desktop can be
neither suspended nor resumed; a relay token is renewed only by some Reconcile, and with a lifetime of ten minutes
or less by every one; a Desktop nobody connected to is never suspended for idleness; an idle timeout
below the five-minute heartbeat suspends a live session; a snapshot that is ready later than ten seconds
is published an interval later; a share that is over deletes the Service of another share of the same
port, which is made again at the event; a share without its Desktop changes its condition twice on every pass,
so each pass brings the next at once and not after ten seconds; an approval from GitHub checks one object and
patches whichever has that name by then; an approval that was read before the expiry of the grant and patched after it
opens it again; `forProfile` appends to a slice of the base policy, and two requests that
write the maps at once end the broker; a redelivered webhook runs its command twice.

## 6. Not modelled

* In the broker: opening a pull request (one chain of calls to GitHub for one caller, no state of the broker but the token cache),
  the parsing of the policy's configuration and of tokens, the matching of host suffixes, the deletion of grants.
* In AuditLog: the stdout sink, the HMAC on checkpoints, lines over 4 MiB. In Relay: a restart of
  relayd, the bytes. In AgentJob: job names given by the caller
  (`main.go:710`) and with them the reuse of an autogrant that is there (`main.go:800-808`), the cap per repository, `AGENT_AUTO_GRANT_GITHUB` off, the contents of the pod
  template. In Desktop: authorized keys and Service, which are rewritten from the spec on each Reconcile.
* github-webhook, wsctl (but for the Desktop's spec), ws-relay, auditship, operator main: keep no state.
* redact and netutil: properties of characters; artifacts and agent-runner: I/O; deep copies: generated.

## 7. Plan

The order so far was by what a fault would cost: network access (NetworkGrant, EgressProxy), the
evidence (AuditLog), connectivity (Relay), credentials and outcomes (AgentJob), user data (Desktop,
HomeTemplate), then sharing (PortShare), approval (GrantRequest, GitHubToken) and the relay's abstract
specification (Rendezvous). Next:

1. The composition of NetworkGrant with EgressProxy, whose controller is now a reduction, and HomeTemplate
   as the source of Desktop's resets.
2. Handlers in AgentJob that serve one request after another, for a bound on concurrent jobs like `CapExceeded`;
   a job that starts again counts without passing the check, so the bound has to leave reruns out.
