-------------------------------- MODULE Relay --------------------------------
(***************************************************************************)
(* The reverse tunnel: ws-relayd on the gateway and ws-desktop-agent in    *)
(* each desktop.  An agent keeps one control connection; for each dial of  *)
(* a local client the relay sends "open" with a fresh stream token, the    *)
(* agent connects to the data listener with the token and both sides copy  *)
(* bytes.  A stream token is identified with its dial.                     *)
(*                                                                         *)
(* relayd's handlers are modelled at the grain of its mutex: a step holds  *)
(* the lock once.  Bytes are not modelled; the control channel's messages  *)
(* are, because the agent reads them through a buffer.                     *)
(***************************************************************************)
EXTENDS Integers, Sequences, FiniteSets

CONSTANTS
  Keys,        \* desktops, namespace/name
  MaxConns,    \* bound: control connections, each used once
  Dials,       \* dial requests on the unix socket, each with its stream token
  Concurrency, \* WS_RELAY_CONCURRENCY of the agents
  MaxFaults,   \* bound: broken connections, rejected handshakes, agent crashes
  None

ASSUME ConstantsAssumption ==
  /\ Concurrency \in Nat \ {0}
  /\ MaxConns \in Nat
  /\ MaxFaults \in Nat
  /\ None \notin Keys \cup Dials \cup Nat

VARIABLES
  control, \* control connections with the state of their handler in relayd
  agents,  \* server.agents
  pending, \* keys of server.pending
  dial,    \* handleDialConn of each dial
  data,    \* data connection of each stream, as relayd sees it
  loop,    \* runOnce of each agent: its connection, the stream waiting for a slot
  stream,  \* handleStream of each stream
  slots,   \* taken places of each agent's semaphore
  faults   \* faults so far

vars == <<control, agents, pending, dial, data, loop, stream, slots, faults>>

Conns == 1..MaxConns

\* pc: the relay's handler; open: relayd has not closed its end; up: the agent has
\* not closed its end and the network is intact; wire: unread open messages.
Control == [key: Keys \cup {None}, open: BOOLEAN, up: BOOLEAN, wire: Seq(Dials),
            pc: {"unused", "handshake", "reading", "leaving", "gone"}]

Dial == [key: Keys \cup {None}, conn: Conns \cup {None},
         pc: {"idle", "register", "send", "wait", "expired", "reply", "stream", "done"}]

\* at: "hello" sent, "claimed" by handleDataConn, "handed" to the channel, "taken"
\* by the dial; up as for control connections.
Data == [at: {"none", "hello", "claimed", "handed", "taken", "closed"}, up: BOOLEAN]

Loop == [conn: Conns \cup {None}, next: Dials \cup {None}]

StreamState == {"none", "start", "bridge", "over"}

Running == {"start", "bridge"}

StreamsOf(k) == {d \in Dials : dial[d].key = k /\ stream[d] \in Running}

Fault == faults < MaxFaults /\ faults' = faults + 1

-----------------------------------------------------------------------------
(* handleControlConn *)

\* The agent registers; a connection it replaces is closed.
Register(c) ==
  LET k == control[c].key
      old == agents[k]
  IN  /\ control[c].pc = "handshake"
      /\ agents' = [agents EXCEPT ![k] = c]
      /\ control' = [x \in Conns |->
                       CASE x = c -> [control[c] EXCEPT !.pc = "reading"]
                         [] x = old -> [control[x] EXCEPT !.open = FALSE]
                         [] OTHER -> control[x]]
      /\ UNCHANGED <<pending, dial, data, loop, stream, slots, faults>>

\* The handshake does not arrive, or its token is not valid (any more).
Refuse(c) ==
  /\ control[c].pc = "handshake"
  /\ IF control[c].up THEN Fault ELSE UNCHANGED faults
  /\ control' = [control EXCEPT ![c].pc = "gone", ![c].open = FALSE]
  /\ UNCHANGED <<agents, pending, dial, data, loop, stream, slots>>

\* io.Copy returns: one end is closed or the connection broken.
NoticeDisconnect(c) ==
  /\ control[c].pc = "reading"
  /\ ~(control[c].open /\ control[c].up)
  /\ control' = [control EXCEPT ![c].pc = "leaving"]
  /\ UNCHANGED <<agents, pending, dial, data, loop, stream, slots, faults>>

\* Mutant: the key is deleted whatever connection it stands for.
UnregisterAlways(c) ==
  /\ control[c].pc = "leaving"
  /\ agents' = [agents EXCEPT ![control[c].key] = None]
  /\ control' = [control EXCEPT ![c].pc = "gone", ![c].open = FALSE]
  /\ UNCHANGED <<pending, dial, data, loop, stream, slots, faults>>

Unregister(c) ==
  /\ control[c].pc = "leaving"
  /\ agents' = [agents EXCEPT ![control[c].key] = IF @ = c THEN None ELSE @]
  /\ control' = [control EXCEPT ![c].pc = "gone", ![c].open = FALSE]
  /\ UNCHANGED <<pending, dial, data, loop, stream, slots, faults>>

-----------------------------------------------------------------------------
(* handleDialConn *)

\* The request is not valid, its port not allowed, or the desktop not connected.
Reject(d) ==
  /\ dial[d].pc = "idle"
  /\ dial' = [dial EXCEPT ![d].pc = "done"]
  /\ UNCHANGED <<control, agents, pending, data, loop, stream, slots, faults>>

LookupAgent(d, k) ==
  /\ dial[d].pc = "idle"
  /\ agents[k] # None
  /\ dial' = [dial EXCEPT ![d] = [pc |-> "register", key |-> k, conn |-> agents[k]]]
  /\ UNCHANGED <<control, agents, pending, data, loop, stream, slots, faults>>

AddPending(d) ==
  /\ dial[d].pc = "register"
  /\ pending' = pending \cup {d}
  /\ dial' = [dial EXCEPT ![d].pc = "send"]
  /\ UNCHANGED <<control, agents, data, loop, stream, slots, faults>>

\* agent.send; a connection the agent has left may still take the message.
SendOpen(d) ==
  LET c == dial[d].conn
  IN  /\ dial[d].pc = "send"
      /\ control[c].open
      /\ control' = [control EXCEPT ![c].wire = IF control[c].up THEN Append(@, d) ELSE @]
      /\ dial' = [dial EXCEPT ![d].pc = "wait"]
      /\ UNCHANGED <<agents, pending, data, loop, stream, slots, faults>>

\* Mutant: the entry is forgotten when the agent cannot be reached.
SendFailsKeeping(d) ==
  /\ dial[d].pc = "send"
  /\ ~(control[dial[d].conn].open /\ control[dial[d].conn].up)
  /\ dial' = [dial EXCEPT ![d].pc = "done"]
  /\ UNCHANGED <<control, agents, pending, data, loop, stream, slots, faults>>

SendFails(d) ==
  /\ dial[d].pc = "send"
  /\ ~(control[dial[d].conn].open /\ control[dial[d].conn].up)
  /\ pending' = pending \ {d}
  /\ dial' = [dial EXCEPT ![d].pc = "done"]
  /\ UNCHANGED <<control, agents, data, loop, stream, slots, faults>>

TakeConn(d) ==
  /\ dial[d].pc = "wait"
  /\ data[d].at = "handed"
  /\ data' = [data EXCEPT ![d].at = "taken"]
  /\ dial' = [dial EXCEPT ![d].pc = "reply"]
  /\ UNCHANGED <<control, agents, pending, loop, stream, slots, faults>>

\* Mutant: the timer runs only while the desktop is connected.
TimeoutIfConnected(d) ==
  /\ dial[d].pc = "wait"
  /\ agents[dial[d].key] = dial[d].conn
  /\ dial' = [dial EXCEPT ![d].pc = "expired"]
  /\ UNCHANGED <<control, agents, pending, data, loop, stream, slots, faults>>

\* streamTimeout passes; select may take this branch although a connection waits.
Timeout(d) ==
  /\ dial[d].pc = "wait"
  /\ dial' = [dial EXCEPT ![d].pc = "expired"]
  /\ UNCHANGED <<control, agents, pending, data, loop, stream, slots, faults>>

Expire(d) ==
  /\ dial[d].pc = "expired"
  /\ pending' = pending \ {d}
  /\ dial' = [dial EXCEPT ![d].pc = "done"]
  /\ UNCHANGED <<control, agents, data, loop, stream, slots, faults>>

Reply(d) ==
  /\ dial[d].pc = "reply"
  /\ dial' = [dial EXCEPT ![d].pc = "stream"]
  /\ UNCHANGED <<control, agents, pending, data, loop, stream, slots, faults>>

\* Mutant: Close is deferred only after the answer is written.
HangUpLeaking(d) ==
  /\ dial[d].pc \in {"reply", "stream"}
  /\ dial' = [dial EXCEPT ![d].pc = "done"]
  /\ data' = [data EXCEPT ![d].at = IF dial[d].pc = "reply" THEN @ ELSE "closed"]
  /\ UNCHANGED <<control, agents, pending, loop, stream, slots, faults>>

\* The client goes away, before or after the answer, or the data connection ends.
HangUp(d) ==
  /\ dial[d].pc \in {"reply", "stream"}
  /\ dial' = [dial EXCEPT ![d].pc = "done"]
  /\ data' = [data EXCEPT ![d].at = "closed"]
  /\ UNCHANGED <<control, agents, pending, loop, stream, slots, faults>>

-----------------------------------------------------------------------------
(* handleDataConn *)

ClaimStream(d) ==
  /\ data[d].at = "hello"
  /\ d \in pending
  /\ pending' = pending \ {d}
  /\ data' = [data EXCEPT ![d].at = "claimed"]
  /\ UNCHANGED <<control, agents, dial, loop, stream, slots, faults>>

\* Nobody waits for the stream, or the hello does not arrive or is not valid.
RefuseStream(d) ==
  /\ data[d].at = "hello"
  /\ IF d \in pending /\ data[d].up THEN Fault ELSE UNCHANGED faults
  /\ data' = [data EXCEPT ![d].at = "closed"]
  /\ UNCHANGED <<control, agents, pending, dial, loop, stream, slots>>

\* The channel has room for one and this is its only sender.
HandOver(d) ==
  /\ data[d].at = "claimed"
  /\ data' = [data EXCEPT ![d].at = "handed"]
  /\ UNCHANGED <<control, agents, pending, dial, loop, stream, slots, faults>>

\* The runtime closes a connection that nothing refers to any more.
Finalize(d) ==
  /\ data[d].at = "handed"
  /\ dial[d].pc = "done"
  /\ data' = [data EXCEPT ![d].at = "closed"]
  /\ UNCHANGED <<control, agents, pending, dial, loop, stream, slots, faults>>

-----------------------------------------------------------------------------
(* ws-desktop-agent *)

Connect(k, c) ==
  /\ loop[k].conn = None
  /\ \A x \in Conns : control[x].pc = "unused" <=> x >= c
  /\ control' = [control EXCEPT ![c] =
       [key |-> k, open |-> TRUE, up |-> TRUE, wire |-> <<>>, pc |-> "handshake"]]
  /\ loop' = [loop EXCEPT ![k] = [conn |-> c, next |-> None]]
  /\ UNCHANGED <<agents, pending, dial, data, stream, slots, faults>>

\* The first message is decoded; n - 1 more were in the buffer and are discarded
\* with it (readLineWithRest).
ReadOpen(k, n) ==
  LET c == loop[k].conn
  IN  /\ c # None
      /\ loop[k].next = None
      /\ n \in 1..Len(control[c].wire)
      /\ loop' = [loop EXCEPT ![k].next = Head(control[c].wire)]
      /\ control' = [control EXCEPT ![c].wire = SubSeq(@, n + 1, Len(@))]
      /\ UNCHANGED <<agents, pending, dial, data, stream, slots, faults>>

\* Mutant: a stream is started without waiting for a slot.
TakeSlotAtOnce(k) ==
  LET d == loop[k].next
  IN  /\ d # None
      /\ slots' = [slots EXCEPT ![k] = @ + 1]
      /\ stream' = [stream EXCEPT ![d] = "start"]
      /\ loop' = [loop EXCEPT ![k].next = None]
      /\ UNCHANGED <<control, agents, pending, dial, data, faults>>

TakeSlot(k) ==
  LET d == loop[k].next
  IN  /\ d # None
      /\ slots[k] < Concurrency
      /\ slots' = [slots EXCEPT ![k] = @ + 1]
      /\ stream' = [stream EXCEPT ![d] = "start"]
      /\ loop' = [loop EXCEPT ![k].next = None]
      /\ UNCHANGED <<control, agents, pending, dial, data, faults>>

\* The control connection is closed by relayd, everything before it read, or broken.
LoseControl(k) ==
  LET c == loop[k].conn
  IN  /\ c # None
      /\ loop[k].next = None
      /\ ~control[c].up \/ (~control[c].open /\ control[c].wire = <<>>)
      /\ control' = [control EXCEPT ![c].up = FALSE]
      /\ loop' = [loop EXCEPT ![k] = [conn |-> None, next |-> None]]
      /\ UNCHANGED <<agents, pending, dial, data, stream, slots, faults>>

\* Mutant: a stream that cannot be opened keeps its slot.
StreamFailsKeeping(d) ==
  /\ stream[d] = "start"
  /\ Fault
  /\ stream' = [stream EXCEPT ![d] = "over"]
  /\ UNCHANGED <<control, agents, pending, dial, data, loop, slots>>

\* The local target or the data listener cannot be reached.
StreamFails(d) ==
  /\ stream[d] = "start"
  /\ Fault
  /\ stream' = [stream EXCEPT ![d] = "over"]
  /\ slots' = [slots EXCEPT ![dial[d].key] = @ - 1]
  /\ UNCHANGED <<control, agents, pending, dial, data, loop>>

SayHello(d) ==
  /\ stream[d] = "start"
  /\ stream' = [stream EXCEPT ![d] = "bridge"]
  /\ data' = [data EXCEPT ![d] = [at |-> "hello", up |-> TRUE]]
  /\ UNCHANGED <<control, agents, pending, dial, loop, slots, faults>>

\* One direction of the copy ends: the target or the relay closed.
EndBridge(d) ==
  /\ stream[d] = "bridge"
  /\ stream' = [stream EXCEPT ![d] = "over"]
  /\ slots' = [slots EXCEPT ![dial[d].key] = @ - 1]
  /\ data' = [data EXCEPT ![d].up = FALSE]
  /\ UNCHANGED <<control, agents, pending, dial, loop, faults>>

-----------------------------------------------------------------------------
(* The environment *)

\* A control connection breaks; what is on its way is lost.
BreakControl(c) ==
  /\ control[c].up
  /\ Fault
  /\ control' = [control EXCEPT ![c].up = FALSE, ![c].wire = <<>>]
  /\ UNCHANGED <<agents, pending, dial, data, loop, stream, slots>>

BreakData(d) ==
  /\ data[d].up
  /\ Fault
  /\ data' = [data EXCEPT ![d].up = FALSE]
  /\ UNCHANGED <<control, agents, pending, dial, loop, stream, slots>>

\* The agent ends and is started again.
Crash(k) ==
  /\ Fault
  /\ control' = [c \in Conns |->
                   IF c = loop[k].conn THEN [control[c] EXCEPT !.up = FALSE, !.wire = <<>>]
                   ELSE control[c]]
  /\ loop' = [loop EXCEPT ![k] = [conn |-> None, next |-> None]]
  /\ stream' = [d \in Dials |-> IF d \in StreamsOf(k) THEN "over" ELSE stream[d]]
  /\ data' = [d \in Dials |->
                IF d \in StreamsOf(k) THEN [data[d] EXCEPT !.up = FALSE] ELSE data[d]]
  /\ slots' = [slots EXCEPT ![k] = 0]
  /\ UNCHANGED <<agents, pending, dial>>

-----------------------------------------------------------------------------

Init ==
  /\ control = [c \in Conns |-> [key |-> None, open |-> FALSE, up |-> FALSE,
                                 wire |-> <<>>, pc |-> "unused"]]
  /\ agents = [k \in Keys |-> None]
  /\ pending = {}
  /\ dial = [d \in Dials |-> [pc |-> "idle", key |-> None, conn |-> None]]
  /\ data = [d \in Dials |-> [at |-> "none", up |-> FALSE]]
  /\ loop = [k \in Keys |-> [conn |-> None, next |-> None]]
  /\ stream = [d \in Dials |-> "none"]
  /\ slots = [k \in Keys |-> 0]
  /\ faults = 0

ControlHandler(c) ==
  Register(c) \/ Refuse(c) \/ NoticeDisconnect(c) \/ Unregister(c)

DialHandler(d) ==
  \/ AddPending(d) \/ SendOpen(d) \/ SendFails(d) \/ TakeConn(d) \/ Timeout(d)
  \/ Expire(d) \/ Reply(d)

DataHandler(d) == ClaimStream(d) \/ RefuseStream(d) \/ HandOver(d) \/ Finalize(d)

AgentLoop(k) ==
  \/ \E c \in Conns : Connect(k, c)
  \/ \E n \in 1..Cardinality(Dials) : ReadOpen(k, n)
  \/ TakeSlot(k) \/ LoseControl(k)

Next ==
  \/ \E c \in Conns : ControlHandler(c) \/ BreakControl(c)
  \/ \E d \in Dials : \/ Reject(d) \/ \E k \in Keys : LookupAgent(d, k)
                      \/ DialHandler(d) \/ HangUp(d) \/ DataHandler(d)
                      \/ StreamFails(d) \/ SayHello(d) \/ EndBridge(d) \/ BreakData(d)
  \/ \E k \in Keys : AgentLoop(k) \/ Crash(k)

Spec == Init /\ [][Next]_vars

\* Handlers and agents run on; timers fire. A copy ends when either side of it has
\* been closed; that a user or a target hangs up is not assumed.
Fairness ==
  /\ \A c \in Conns : WF_vars(ControlHandler(c))
  /\ \A d \in Dials : /\ WF_vars(DialHandler(d))
                      /\ WF_vars(DataHandler(d))
                      /\ WF_vars(SayHello(d))
                      /\ WF_vars(data[d].at = "closed" /\ EndBridge(d))
                      /\ WF_vars(~data[d].up /\ EndBridge(d))
                      /\ WF_vars(~data[d].up /\ HangUp(d))
  /\ \A k \in Keys : WF_vars(AgentLoop(k))

FairSpec == Spec /\ Fairness

-----------------------------------------------------------------------------
(* Properties *)

TypeOK ==
  /\ control \in [Conns -> Control]
  /\ agents \in [Keys -> Conns \cup {None}]
  /\ pending \subseteq Dials
  /\ dial \in [Dials -> Dial]
  /\ data \in [Dials -> Data]
  /\ loop \in [Keys -> Loop]
  /\ stream \in [Dials -> StreamState]
  /\ slots \in [Keys -> 0..Concurrency]
  /\ faults \in 0..MaxFaults

\* However registrations, replacements and disconnects interleave, the table has
\* no entry whose handler is gone, and a connection that relayd reads from and has
\* not closed is the one dials are sent to: the late end of a replaced connection
\* never takes the new one out of the table.
TableCurrent ==
  /\ \A k \in Keys : agents[k] # None =>
       /\ control[agents[k]].key = k
       /\ control[agents[k]].pc \in {"reading", "leaving"}
  /\ \A c \in Conns : control[c].pc = "reading" /\ control[c].open =>
       agents[control[c].key] = c

\* No entry of the pending table outlives its dial, on no path out of
\* handleDialConn: the token of a dial that is over opens nothing.
PendingOwned ==
  \A d \in pending : dial[d].pc \in {"send", "wait", "expired"}

\* The semaphore counts the streams that run: no path out of handleStream keeps a
\* place, whatever order messages, failures and hang-ups come in.
SlotsCounted == \A k \in Keys : slots[k] = Cardinality(StreamsOf(k))

\* A dial and its data connection as Rendezvous has them.
CallerOf(d) ==
  CASE dial[d].pc = "idle" -> "idle"
    [] dial[d].pc \in {"register", "send", "wait", "expired"} -> "asked"
    [] dial[d].pc \in {"reply", "stream"} -> "connected"
    [] dial[d].pc = "done" -> "over"

FarOf(d) ==
  CASE data[d].at = "none" -> "none"
    [] data[d].at \in {"hello", "claimed", "handed"} -> "offered"
    [] data[d].at = "taken" -> "joined"
    [] data[d].at = "closed" -> "closed"

R == INSTANCE Rendezvous WITH caller <- [d \in Dials |-> CallerOf(d)],
                              far <- [d \in Dials |-> FarOf(d)]

\* The relay implements Rendezvous: a client that was not turned away gets its
\* answer whatever happens to the agent, also when its open message is lost in the
\* agent's buffer; it is joined to one data connection, which ends with it; and a
\* data connection that came too late for its dial, or for which the timeout and
\* the handover raced, is closed and not left hanging.
RendezvousKept == R!Spec

\* When a dial is over, the agent's stream for it ends too and gives its place
\* back, also when the data connection came too late for the dial.
StreamEnds ==
  \A d \in Dials : dial[d].pc = "done" /\ stream[d] \in Running ~> stream[d] = "over"

\* A desktop whose connection was lost becomes reachable again, unless its agent
\* waits for a place and each is taken by a stream whose dial is not over.
AgentReturns ==
  \A k \in Keys : []<>(\/ agents[k] # None /\ agents[k] = loop[k].conn
                       \/ /\ loop[k].next # None
                          /\ slots[k] = Concurrency
                          /\ \A d \in StreamsOf(k) : dial[d].pc # "done")

-----------------------------------------------------------------------------
(* What a comment or a document says and the code does not do *)

\* docs/connectivity.md: "the desktop agent connects back to the relay for that
\* stream": an open message sent over a connection that is intact is waiting to be
\* read, waiting for a slot, or was acted on.
OpenDelivered ==
  \A d \in Dials :
    LET c == dial[d].conn IN
    dial[d].pc = "wait" /\ control[c].open /\ control[c].up =>
      \/ stream[d] # "none"
      \/ loop[dial[d].key].next = d
      \/ \E i \in 1..Len(control[c].wire) : control[c].wire[i] = d

\* handleDataConn: "The dial handler takes ownership on success": a connection in
\* the channel has a dial handler that will take it.
OwnershipTaken == \A d \in Dials : data[d].at = "handed" => dial[d].pc = "wait"

=============================================================================
