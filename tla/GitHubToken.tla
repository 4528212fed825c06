----------------------------- MODULE GitHubToken -----------------------------
(***************************************************************************)
(* The broker's GitHub installation token (githubService.getInstallation-  *)
(* Token): cached with its expiry, renewed when less than a margin is      *)
(* left.  The mutex is held to look at the cache and to store the answer,  *)
(* not while GitHub is asked, so several requests may renew at once and the *)
(* answer that arrives last is kept.  A token is known by its expiry.      *)
(*                                                                         *)
(* A request makes one GitHub call at a time, its context ends a timeout   *)
(* after its start, and GitHub looks at the token when the call arrives.   *)
(***************************************************************************)
EXTENDS Integers

CONSTANTS
  Requests, \* requests handled at a time
  Lifetime, \* of a token GitHub issues
  Margin,   \* what must be left of a cached token: two minutes
  Timeout,  \* of a request: thirty seconds
  MaxTime   \* bound: end of the clock

ASSUME TokenAssumption ==
  /\ {Lifetime, Margin, Timeout, MaxTime} \subseteq Nat
  /\ Timeout <= Margin /\ Margin < Lifetime

VARIABLES
  clock,
  cached, \* expiry of the cached token, 0: none
  call    \* the requests' calls: where they are, the start of the request, their token

CallAt(r, pc) == call[r].pc = pc

InTime(r) == clock <= call[r].start + Timeout

NoCall == [pc |-> "none", start |-> 0, token |-> 0]

TokenInit == clock = 0 /\ cached = 0 /\ call = [r \in Requests |-> NoCall]

\* Mutant: any cached token that has not expired is used.
FreshBarely == cached # 0 /\ clock < cached

\* The cache is good enough.
Fresh == cached # 0 /\ clock < cached - Margin

\* A request that started at the given time needs a token: the cached one, or
\* GitHub is asked.
Get(r, start) ==
  /\ CallAt(r, "none")
  /\ call' = [call EXCEPT ![r] = IF Fresh THEN [pc |-> "use", start |-> start, token |-> cached]
                                          ELSE [pc |-> "ask", start |-> start, token |-> 0]]
  /\ UNCHANGED <<clock, cached>>

\* GitHub issues a token; the answer is on its way.
Issue(r) ==
  /\ CallAt(r, "ask") /\ InTime(r)
  /\ call' = [call EXCEPT ![r].pc = "store", ![r].token = clock + Lifetime]
  /\ UNCHANGED <<clock, cached>>

\* The answer arrives and replaces what the cache has.
Store(r) ==
  /\ CallAt(r, "store") /\ InTime(r)
  /\ cached' = call[r].token
  /\ call' = [call EXCEPT ![r].pc = "use"]
  /\ UNCHANGED clock

\* The call is made: GitHub has the token before it.
Use(r) ==
  /\ CallAt(r, "use") /\ InTime(r)
  /\ call' = [call EXCEPT ![r] = NoCall]
  /\ UNCHANGED <<clock, cached>>

\* A call of the caller fails or the request's context ends: an error.
Fail(r) ==
  /\ ~CallAt(r, "none")
  /\ call' = [call EXCEPT ![r] = NoCall]
  /\ UNCHANGED <<clock, cached>>

TokenTick ==
  /\ clock < MaxTime
  /\ clock' = clock + 1
  /\ UNCHANGED <<cached, call>>

TokenOK ==
  /\ clock \in 0..MaxTime
  /\ cached \in 0..(MaxTime + Lifetime)
  /\ call \in [Requests -> [pc: {"none", "ask", "store", "use"}, start: 0..MaxTime,
                           token: 0..(MaxTime + Lifetime)]]

\* GitHub never sees a call with a token that has expired, whichever of several
\* renewals is stored last and however long a request takes between taking the
\* token and using it.
TokenLive == \A r \in Requests : CallAt(r, "use") /\ InTime(r) => clock < call[r].token
=============================================================================
