----------------------------- MODULE RelayProofs -----------------------------
(***************************************************************************)
(* Proofs about Relay for any number of desktops, connections and dials:   *)
(* the table of agents is current, no pending entry outlives its dial, the *)
(* agents' semaphores count their streams, and the relay implements the    *)
(* safety part of Rendezvous.                                              *)
(***************************************************************************)
EXTENDS Relay, TLAPS, SequenceTheorems, FiniteSetTheorems

\* The types, without those of slots (they rest on SlotsCounted) and faults.
Types ==
  /\ control \in [Conns -> Control]
  /\ agents \in [Keys -> Conns \cup {None}]
  /\ pending \subseteq Dials
  /\ dial \in [Dials -> Dial]
  /\ data \in [Dials -> Data]
  /\ loop \in [Keys -> Loop]
  /\ stream \in [Dials -> StreamState]

\* A connection in use belongs to a desktop.
KeysKnown == \A c \in Conns : control[c].pc # "unused" => control[c].key \in Keys

TableInv == Types /\ KeysKnown /\ TableCurrent

\* Nothing has been sent for a dial that is not past its send.
Unsent(d) ==
  /\ data[d].at = "none"
  /\ stream[d] = "none"
  /\ \A k \in Keys : loop[k].next # d
  /\ \A c \in Conns : \A i \in 1..Len(control[c].wire) : control[c].wire[i] # d

\* A stream in the pending table is not claimed.
Unclaimed(d) == data[d].at \in {"none", "hello", "closed"}

PendingInv ==
  /\ PendingOwned
  /\ \A d \in pending : Unclaimed(d)
  /\ \A d \in Dials : dial[d].pc \in {"idle", "register", "send"} => Unsent(d)

-----------------------------------------------------------------------------
(* The table of agents *)

\* What the table is about is not changed by anything but the handlers of control
\* connections and by Connect.
Quiet ==
  /\ agents' = agents
  /\ \A c \in Conns : /\ control'[c].key = control[c].key
                      /\ control'[c].pc = control[c].pc
                      /\ control'[c].open = control[c].open

LEMMA QuietKeeps == TableInv /\ Quiet => KeysKnown' /\ TableCurrent'
<1> SUFFICES ASSUME TableInv, Quiet PROVE KeysKnown' /\ TableCurrent'
  OBVIOUS
<1>1. KeysKnown'
  BY DEF TableInv, Quiet, KeysKnown
<1>2. TableCurrent'
  BY DEF TableInv, Types, Quiet, TableCurrent
<1> QED
  BY <1>1, <1>2

\* The rest of a sequence is a sequence of its elements.
LEMMA RestOf ==
  ASSUME NEW S, NEW s \in Seq(S), NEW n \in 1..Len(s)
  PROVE  /\ SubSeq(s, n + 1, Len(s)) \in Seq(S)
         /\ \A i \in 1..Len(SubSeq(s, n + 1, Len(s))) :
              \E j \in 1..Len(s) : SubSeq(s, n + 1, Len(s))[i] = s[j]
<1>1. n \in Nat /\ Len(s) \in Nat /\ n >= 1 /\ n <= Len(s)
  OBVIOUS
<1>2. SubSeq(s, n + 1, Len(s)) = [i \in 1..(Len(s) - n) |-> s[n + i]]
  BY <1>1
<1>3. \A i \in 1..(Len(s) - n) : n + i \in 1..Len(s) /\ s[n + i] \in S
  BY <1>1
<1>4. Len(s) - n \in Nat
  BY <1>1
<1>5. /\ SubSeq(s, n + 1, Len(s)) \in Seq(S)
      /\ Len(SubSeq(s, n + 1, Len(s))) = Len(s) - n
  BY <1>2, <1>3, <1>4, SeqDef, LenProperties
<1>6. \A i \in 1..(Len(s) - n) : SubSeq(s, n + 1, Len(s))[i] = s[n + i]
  BY <1>2
<1> QED
  BY <1>3, <1>5, <1>6

\* ... in their order.
LEMMA RestIndex ==
  ASSUME NEW S, NEW s \in Seq(S), NEW n \in 1..Len(s)
  PROVE  /\ Len(SubSeq(s, n + 1, Len(s))) = Len(s) - n
         /\ \A i \in 1..Len(s) - n : /\ SubSeq(s, n + 1, Len(s))[i] = s[n + i]
                                     /\ n + i \in 1..Len(s)
<1>1. n \in Nat /\ Len(s) \in Nat /\ n >= 1 /\ n <= Len(s) /\ Len(s) - n \in Nat
  OBVIOUS
<1>2. SubSeq(s, n + 1, Len(s)) = [i \in 1..(Len(s) - n) |-> s[n + i]]
  BY <1>1
<1>3. \A i \in 1..(Len(s) - n) : n + i \in 1..Len(s) /\ s[n + i] \in S
  BY <1>1
<1>4. Len(SubSeq(s, n + 1, Len(s))) = Len(s) - n
  BY <1>1, <1>2, <1>3, SeqDef, LenProperties
<1> QED
  BY <1>2, <1>3, <1>4

LEMMA QuietSteps ==
  ASSUME TableInv, Next,
         \A c \in Conns : ~ControlHandler(c) /\ \A k \in Keys : ~Connect(k, c)
  PROVE  Quiet
<1> USE DEF Quiet
<1>1. control \in [Conns -> Control]
  BY DEF TableInv, Types
<1>2. ASSUME NEW c \in Conns, BreakControl(c) PROVE Quiet
  BY <1>1, <1>2 DEF BreakControl, Control
<1>3. ASSUME NEW d \in Dials, NEW k \in Keys, LookupAgent(d, k)
      PROVE  agents' = agents /\ control' = control
  BY <1>3 DEF LookupAgent
<1>4. ASSUME NEW d \in Dials, SendOpen(d) PROVE Quiet
  BY <1>1, <1>4 DEF SendOpen, Control
<1>5. ASSUME NEW d \in Dials, DialHandler(d), ~SendOpen(d)
      PROVE  agents' = agents /\ control' = control
  BY <1>5 DEF DialHandler, AddPending, SendFails, TakeConn, Timeout, Expire, Reply
<1>6. ASSUME NEW k \in Keys, NEW n \in Nat, ReadOpen(k, n) PROVE Quiet
  BY <1>1, <1>6 DEF ReadOpen, Control
<1>7. ASSUME NEW k \in Keys, TakeSlot(k) PROVE agents' = agents /\ control' = control
  BY <1>7 DEF TakeSlot
<1>8. ASSUME NEW k \in Keys, LoseControl(k) PROVE Quiet
  BY <1>1, <1>8 DEF LoseControl, Control
<1>9. ASSUME NEW k \in Keys, Crash(k) PROVE Quiet
  BY <1>1, <1>9 DEF Crash, Control
<1>10. ASSUME NEW d \in Dials, Reject(d) PROVE agents' = agents /\ control' = control
  BY <1>10 DEF Reject
<1>11. ASSUME NEW d \in Dials, HangUp(d) \/ DataHandler(d) \/ StreamFails(d) \/ SayHello(d)
                               \/ EndBridge(d) \/ BreakData(d)
       PROVE  agents' = agents /\ control' = control
  BY <1>11 DEF HangUp, DataHandler, StreamFails, SayHello, EndBridge, BreakData, ClaimStream,
               RefuseStream, HandOver, Finalize
<1>12. \A n \in 1..Cardinality(Dials) : n \in Nat
  OBVIOUS
<1> QED
  BY <1>2, <1>3, <1>4, <1>5, <1>6, <1>7, <1>8, <1>9, <1>10, <1>11, <1>12 DEF Next, AgentLoop

LEMMA TypesStep == Types /\ KeysKnown /\ [Next]_vars => Types'
<1> SUFFICES ASSUME Types, KeysKnown, [Next]_vars PROVE Types'
  OBVIOUS
<1> USE DEF Types
<1>1. ASSUME NEW c \in Conns, ControlHandler(c) \/ BreakControl(c) PROVE Types'
  <2>1. CASE Register(c)
    <3>1. control[c].key \in Keys
      BY <2>1 DEF Register, KeysKnown
    <3>2. agents' \in [Keys -> Conns \cup {None}]
      BY <2>1, <3>1 DEF Register
    <3>3. control' \in [Conns -> Control]
      BY <2>1, ZenonT(60) DEF Register, Control
    <3> QED
      BY <2>1, <3>2, <3>3 DEF Register
  <2>2. CASE Refuse(c) \/ NoticeDisconnect(c)
    <3>1. ASSUME Refuse(c) PROVE control' \in [Conns -> Control]
      BY <3>1, ZenonT(60) DEF Refuse, Control
    <3>2. ASSUME NoticeDisconnect(c) PROVE control' \in [Conns -> Control]
      BY <3>2, ZenonT(60) DEF NoticeDisconnect, Control
    <3> QED
      BY <2>2, <3>1, <3>2 DEF Refuse, NoticeDisconnect
  <2>3. CASE Unregister(c)
    <3>1. control' \in [Conns -> Control]
      BY <2>3, ZenonT(60) DEF Unregister, Control
    <3>2. agents' \in [Keys -> Conns \cup {None}]
      BY <2>3 DEF Unregister
    <3> QED
      BY <2>3, <3>1, <3>2 DEF Unregister
  <2>4. CASE BreakControl(c)
    <3>1. <<>> \in Seq(Dials)
      OBVIOUS
    <3> QED
      BY <2>4, <3>1, ZenonT(60) DEF BreakControl, Control
  <2> QED
    BY <1>1, <2>1, <2>2, <2>3, <2>4 DEF ControlHandler
<1>2. ASSUME NEW d \in Dials, NEW k \in Keys, Reject(d) \/ LookupAgent(d, k) PROVE Types'
  BY <1>2 DEF Reject, LookupAgent, Dial
<1>3. ASSUME NEW d \in Dials, Reject(d) PROVE Types'
  BY <1>3 DEF Reject, Dial
<1>4. ASSUME NEW d \in Dials, DialHandler(d) PROVE Types'
  <2>1. CASE SendOpen(d)
    <3>1. control' \in [Conns -> Control]
      <4> DEFINE c == dial[d].conn
      <4>1. CASE c \in Conns
        <5>1. control[c].wire \in Seq(Dials)
          BY <4>1 DEF Control
        <5>2. (IF control[c].up THEN Append(control[c].wire, d) ELSE control[c].wire)
                \in Seq(Dials)
          BY <5>1
        <5> DEFINE w == IF control[c].up THEN Append(control[c].wire, d) ELSE control[c].wire
        <5>3. control' = [control EXCEPT ![c].wire = w]
          BY <2>1 DEF SendOpen
        <5>4. w \in Seq(Dials)
          BY <5>2
        <5> HIDE DEF w
        <5> QED
          BY <5>3, <5>4, ZenonT(60) DEF Control
      <4>2. CASE c \notin Conns
        BY <2>1, <4>2 DEF SendOpen
      <4> QED
        BY <4>1, <4>2
    <3> QED
      BY <2>1, <3>1 DEF SendOpen, Dial
  <2>2. CASE TakeConn(d)
    BY <2>2, ZenonT(60) DEF TakeConn, Dial, Data
  <2>3. CASE AddPending(d) \/ SendFails(d) \/ Timeout(d) \/ Expire(d) \/ Reply(d)
    BY <2>3 DEF AddPending, SendFails, Timeout, Expire, Reply, Dial
  <2> QED
    BY <1>4, <2>1, <2>2, <2>3 DEF DialHandler
<1>5. ASSUME NEW d \in Dials, HangUp(d) \/ DataHandler(d) PROVE Types'
  <2>1. CASE HangUp(d)
    BY <2>1, ZenonT(60) DEF HangUp, Dial, Data
  <2>2. CASE ClaimStream(d) \/ RefuseStream(d) \/ HandOver(d) \/ Finalize(d)
    BY <2>2 DEF ClaimStream, RefuseStream, HandOver, Finalize, Data
  <2> QED
    BY <1>5, <2>1, <2>2 DEF DataHandler
<1>6. ASSUME NEW d \in Dials,
             StreamFails(d) \/ SayHello(d) \/ EndBridge(d) \/ BreakData(d)
      PROVE  Types'
  <2>1. CASE StreamFails(d)
    BY <2>1 DEF StreamFails, StreamState
  <2>2. CASE SayHello(d)
    <3>1. data' \in [Dials -> Data]
      BY <2>2 DEF SayHello, Data
    <3> QED
      BY <2>2, <3>1 DEF SayHello, StreamState
  <2>3. CASE EndBridge(d)
    <3>1. data' \in [Dials -> Data]
      BY <2>3 DEF EndBridge, Data
    <3> QED
      BY <2>3, <3>1 DEF EndBridge, StreamState
  <2>4. CASE BreakData(d)
    BY <2>4 DEF BreakData, Data
  <2> QED
    BY <1>6, <2>1, <2>2, <2>3, <2>4
<1>7. ASSUME NEW k \in Keys, AgentLoop(k) PROVE Types'
  <2>1. ASSUME NEW c \in Conns, Connect(k, c) PROVE Types'
    <3>1. [key |-> k, open |-> TRUE, up |-> TRUE, wire |-> <<>>, pc |-> "handshake"]
            \in Control
      BY DEF Control
    <3> QED
      BY <2>1, <3>1 DEF Connect, Loop
  <2>2. ASSUME NEW n \in Nat, ReadOpen(k, n) PROVE Types'
    <3> DEFINE c == loop[k].conn
    <3>1. c \in Conns
      BY <2>2 DEF ReadOpen, Loop
    <3>2. control[c].wire \in Seq(Dials) /\ n \in 1..Len(control[c].wire)
      BY <2>2, <3>1 DEF ReadOpen, Control
    <3>3. /\ Head(control[c].wire) \in Dials
          /\ SubSeq(control[c].wire, n + 1, Len(control[c].wire)) \in Seq(Dials)
      BY <3>2, RestOf
    <3>4. control' \in [Conns -> Control]
      <4> DEFINE w == SubSeq(control[c].wire, n + 1, Len(control[c].wire))
      <4>1. control' = [control EXCEPT ![c].wire = w] /\ w \in Seq(Dials)
        BY <2>2, <3>3 DEF ReadOpen
      <4> HIDE DEF w
      <4> QED
        BY <3>1, <4>1, ZenonT(60) DEF Control
    <3>5. loop' \in [Keys -> Loop]
      BY <2>2, <3>3 DEF ReadOpen, Loop
    <3> QED
      BY <2>2, <3>4, <3>5 DEF ReadOpen
  <2>3. CASE TakeSlot(k)
    <3>1. loop' \in [Keys -> Loop]
      BY <2>3 DEF TakeSlot, Loop
    <3>2. stream' \in [Dials -> StreamState]
      BY <2>3 DEF TakeSlot, StreamState
    <3> QED
      BY <2>3, <3>1, <3>2 DEF TakeSlot
  <2>4. CASE LoseControl(k)
    <3>1. control' \in [Conns -> Control]
      BY <2>4, ZenonT(60) DEF LoseControl, Control
    <3>2. loop' \in [Keys -> Loop]
      BY <2>4 DEF LoseControl, Loop
    <3> QED
      BY <2>4, <3>1, <3>2 DEF LoseControl
  <2> QED
    BY <1>7, <2>1, <2>2, <2>3, <2>4 DEF AgentLoop
<1>8. ASSUME NEW k \in Keys, Crash(k) PROVE Types'
  <2>1. control' \in [Conns -> Control]
    <3>1. <<>> \in Seq(Dials)
      OBVIOUS
    <3> QED
      BY <1>8, <3>1, ZenonT(60) DEF Crash, Control
  <2>2. data' \in [Dials -> Data] /\ stream' \in [Dials -> StreamState]
    BY <1>8 DEF Crash, Data, StreamState
  <2> QED
    BY <1>8, <2>1, <2>2 DEF Crash, Loop
<1>9. CASE UNCHANGED vars
  BY <1>9 DEF vars
<1> QED
  BY <1>1, <1>2, <1>3, <1>4, <1>5, <1>6, <1>7, <1>8, <1>9 DEF Next

LEMMA TableStep == TableInv /\ [Next]_vars => TableInv'
<1> SUFFICES ASSUME TableInv, [Next]_vars PROVE KeysKnown' /\ TableCurrent'
  BY TypesStep DEF TableInv
<1>0. Types /\ KeysKnown /\ TableCurrent
  BY DEF TableInv
<1>1. ASSUME NEW c \in Conns, Register(c) PROVE KeysKnown' /\ TableCurrent'
  <2> DEFINE k == control[c].key
  <2>1. k \in Keys /\ agents'[k] = c /\ \A q \in Keys \ {k} : agents'[q] = agents[q]
    BY <1>0, <1>1 DEF Register, KeysKnown, Types
  <2>2. /\ control'[c].key = k /\ control'[c].pc = "reading"
        /\ \A x \in Conns \ {c} : /\ control'[x].key = control[x].key
                                  /\ control'[x].pc = control[x].pc
                                  /\ control'[x].open =>
                                       control[x].open /\ x # agents[k]
    <3>1. control[c] \in Control
      BY <1>0 DEF Types
    <3>0. control'[c] = [control[c] EXCEPT !.pc = "reading"]
      <4>1. c # agents[k]
        BY <1>0, <1>1, <2>1, ConstantsAssumption DEF Register, TableCurrent, Conns
      <4> QED
        BY <1>1, <4>1 DEF Register
    <3>2. ASSUME NEW x \in Conns \ {c}
          PROVE  /\ control'[x].key = control[x].key /\ control'[x].pc = control[x].pc
                 /\ control'[x].open => control[x].open /\ x # agents[k]
      <4>1. control[x] \in Control
        BY <1>0 DEF Types
      <4>2. CASE x = agents[k]
        <5>1. control'[x] = [control[x] EXCEPT !.open = FALSE]
          BY <1>1, <4>2 DEF Register
        <5> QED
          BY <4>1, <5>1 DEF Control
      <4>3. CASE x # agents[k]
        <5>1. control'[x] = control[x]
          BY <1>1, <4>3 DEF Register
        <5> QED
          BY <4>3, <5>1
      <4> QED
        BY <4>2, <4>3
    <3> QED
      BY <3>0, <3>1, <3>2 DEF Control
  <2>3. control[c].pc = "handshake"
    BY <1>1 DEF Register
  <2>4. KeysKnown'
    BY <1>0, <2>1, <2>2 DEF KeysKnown
  <2>5. ASSUME NEW q \in Keys, agents'[q] # None
        PROVE  control'[agents'[q]].key = q /\ control'[agents'[q]].pc \in {"reading", "leaving"}
    BY <1>0, <2>1, <2>2, <2>3, <2>5 DEF TableCurrent, Types
  <2>6. ASSUME NEW x \in Conns, control'[x].pc = "reading", control'[x].open
        PROVE  agents'[control'[x].key] = x
    <3>1. CASE x = c
      BY <3>1, <2>1, <2>2
    <3>2. CASE x # c
      <4>1. control[x].pc = "reading" /\ control[x].open /\ control'[x].key = control[x].key
            /\ x # agents[k]
        BY <2>2, <2>6, <3>2
      <4>2. agents[control[x].key] = x /\ control[x].key \in Keys
        BY <1>0, <4>1 DEF TableCurrent, KeysKnown
      <4>3. control[x].key # k
        BY <4>1, <4>2
      <4> QED
        BY <2>1, <4>1, <4>2, <4>3
    <3> QED
      BY <3>1, <3>2
  <2> QED
    BY <2>4, <2>5, <2>6 DEF TableCurrent
<1>2. ASSUME NEW c \in Conns, Refuse(c) \/ NoticeDisconnect(c) \/ Unregister(c)
      PROVE  KeysKnown' /\ TableCurrent'
  <2>1. /\ control'[c].key = control[c].key
        /\ control'[c].pc \in {"leaving", "gone"}
        /\ control'[c].pc = "gone" => ~control'[c].open
        /\ \A x \in Conns \ {c} : control'[x] = control[x]
        /\ control[c].pc # "unused"
    BY <1>0, <1>2 DEF Refuse, NoticeDisconnect, Unregister, Types, Control
  <2>2. \A q \in Keys : agents'[q] = agents[q] \/ (agents[q] = c /\ agents'[q] = None)
    BY <1>0, <1>2 DEF Refuse, NoticeDisconnect, Unregister, Types
  <2>3. \A q \in Keys : agents'[q] = c => control'[c].pc = "leaving"
    <3>1. CASE Refuse(c)
      BY <1>0, <3>1, ConstantsAssumption DEF Refuse, TableCurrent, Conns
    <3>2. CASE NoticeDisconnect(c)
      BY <1>0, <3>2 DEF NoticeDisconnect, Types
    <3>3. CASE Unregister(c)
      <4>1. \A q \in Keys : agents[q] = c => q = control[c].key
        BY <1>0, ConstantsAssumption DEF TableCurrent, Conns
      <4> QED
        <5>1. control[c].key \in Keys /\ c # None
          BY <1>0, <3>3, ConstantsAssumption DEF Unregister, Conns, KeysKnown
        <5>2. agents'[control[c].key] # c
          BY <1>0, <3>3, <5>1 DEF Unregister, Types
        <5>3. \A q \in Keys : agents'[q] = c => agents[q] = c
          BY <2>2, <5>1
        <5> QED
          BY <4>1, <5>2, <5>3
    <3> QED
      BY <1>2, <3>1, <3>2, <3>3
  <2>4. KeysKnown'
    BY <1>0, <2>1 DEF KeysKnown
  <2>5. ASSUME NEW q \in Keys, agents'[q] # None
        PROVE  control'[agents'[q]].key = q /\ control'[agents'[q]].pc \in {"reading", "leaving"}
    BY <1>0, <2>1, <2>2, <2>3, <2>5 DEF TableCurrent, Types
  <2>6. ASSUME NEW x \in Conns, control'[x].pc = "reading", control'[x].open
        PROVE  agents'[control'[x].key] = x
    <3>1. x # c /\ control'[x] = control[x] /\ agents[control[x].key] = x
      BY <1>0, <2>1, <2>6 DEF TableCurrent
    <3>2. control[x].key \in Keys
      BY <1>0, <2>6, <3>1 DEF KeysKnown
    <3> QED
      BY <2>2, <3>1, <3>2
  <2> QED
    BY <2>4, <2>5, <2>6 DEF TableCurrent
<1>3. ASSUME NEW c \in Conns, NEW k \in Keys, Connect(k, c) PROVE KeysKnown' /\ TableCurrent'
  <2>1. control[c].pc = "unused"
    BY <1>3 DEF Connect, Conns
  <2>2. agents' = agents /\ control'[c].key = k /\ control'[c].pc = "handshake"
        /\ \A x \in Conns \ {c} : control'[x] = control[x]
    BY <1>0, <1>3 DEF Connect, Types
  <2>3. KeysKnown'
    BY <1>0, <2>2 DEF KeysKnown
  <2>4. \A q \in Keys : agents[q] # c
    BY <1>0, <2>1, ConstantsAssumption DEF TableCurrent, Conns
  <2> QED
    BY <1>0, <2>2, <2>3, <2>4 DEF TableCurrent, Types
<1>4. CASE UNCHANGED vars
  BY <1>4, QuietKeeps DEF vars, Quiet
<1> QED
  BY <1>1, <1>2, <1>3, <1>4, QuietSteps, QuietKeeps DEF ControlHandler

LEMMA TypesInit == Init => Types /\ KeysKnown
  BY DEF Init, Types, KeysKnown, Control, Dial, Data, Loop, StreamState

\* handleControlConn under any interleaving: what the table holds is being read,
\* and what is read and not replaced is in the table.
THEOREM AgentTable == Spec => []TableCurrent
<1>1. Init => TableInv
  BY TypesInit DEF Init, TableInv, TableCurrent
<1>2. TableInv => TableCurrent
  BY DEF TableInv
<1> QED
  BY <1>1, <1>2, TableStep, PTL DEF Spec

-----------------------------------------------------------------------------
(* The pending table *)

\* Steps that neither start, claim nor announce a stream.
Calm ==
  /\ pending' = pending /\ dial' = dial
  /\ \A d \in Dials : /\ data'[d].at = data[d].at
                      /\ stream[d] = "none" => stream'[d] = "none"
  /\ \A k \in Keys : loop'[k].next = loop[k].next \/ loop'[k].next = None
  /\ \A c \in Conns : control'[c].wire = control[c].wire \/ control'[c].wire = <<>>

LEMMA CalmKeeps == Types /\ PendingInv /\ Calm => PendingInv'
<1> SUFFICES ASSUME Types, PendingInv, Calm PROVE PendingInv'
  OBVIOUS
<1>1. PendingOwned' /\ \A d \in pending' : Unclaimed(d)'
  BY DEF Types, PendingInv, Calm, PendingOwned, Unclaimed
<1>2. ASSUME NEW d \in Dials, dial'[d].pc \in {"idle", "register", "send"}
      PROVE  Unsent(d)'
  <2>1. Unsent(d)
    BY <1>2 DEF PendingInv, Calm
  <2>2. data'[d].at = "none" /\ stream'[d] = "none"
    BY <2>1 DEF Unsent, Calm
  <2>3. \A k \in Keys : loop'[k].next # d
    BY <2>1, ConstantsAssumption DEF Unsent, Calm
  <2>4. ASSUME NEW c \in Conns, NEW i \in 1..Len(control'[c].wire)
        PROVE  control'[c].wire[i] # d
    <3>1. control'[c].wire = control[c].wire
      BY <2>4 DEF Calm
    <3> QED
      BY <2>1, <2>4, <3>1 DEF Unsent
  <2> QED
    BY <2>2, <2>3, <2>4 DEF Unsent
<1> QED
  BY <1>1, <1>2 DEF PendingInv

LEMMA CalmStepsOfConn ==
  ASSUME Types, NEW c \in Conns, ControlHandler(c) \/ BreakControl(c)
  PROVE  Calm
<1> USE DEF Types
<1>1. pending' = pending /\ dial' = dial /\ data' = data /\ stream' = stream /\ loop' = loop
  BY DEF ControlHandler, Register, Refuse, NoticeDisconnect, Unregister, BreakControl
<1>2. ASSUME Register(c), NEW x \in Conns PROVE control'[x].wire = control[x].wire
  <2>1. control[x] \in Control /\ control[c] \in Control
    OBVIOUS
  <2>2. \/ control'[x] = [control[c] EXCEPT !.pc = "reading"] /\ x = c
        \/ control'[x] = [control[x] EXCEPT !.open = FALSE]
        \/ control'[x] = control[x]
    BY <1>2 DEF Register
  <2> QED
    BY <2>1, <2>2 DEF Control
<1>3. ASSUME Refuse(c), NEW x \in Conns PROVE control'[x].wire = control[x].wire
  BY <1>3 DEF Refuse, Control
<1>4. ASSUME NoticeDisconnect(c), NEW x \in Conns PROVE control'[x].wire = control[x].wire
  BY <1>4 DEF NoticeDisconnect, Control
<1>5. ASSUME Unregister(c), NEW x \in Conns PROVE control'[x].wire = control[x].wire
  BY <1>5 DEF Unregister, Control
<1>6. ASSUME BreakControl(c), NEW x \in Conns
      PROVE  control'[x].wire = control[x].wire \/ control'[x].wire = <<>>
  BY <1>6 DEF BreakControl, Control
<1> QED
  BY <1>1, <1>2, <1>3, <1>4, <1>5, <1>6 DEF ControlHandler, Calm

LEMMA CalmStepsOfAgent ==
  ASSUME Types, NEW k \in Keys,
         (\E c \in Conns : Connect(k, c)) \/ LoseControl(k) \/ Crash(k)
  PROVE  Calm
<1> USE DEF Types
<1>1. ASSUME NEW c \in Conns, Connect(k, c) PROVE Calm
  <2>1. pending' = pending /\ dial' = dial /\ data' = data /\ stream' = stream
    BY <1>1 DEF Connect
  <2>2. /\ \A x \in Conns : control'[x].wire = control[x].wire \/ control'[x].wire = <<>>
        /\ \A q \in Keys : loop'[q].next = loop[q].next \/ loop'[q].next = None
    BY <1>1 DEF Connect
  <2> QED
    BY <2>1, <2>2 DEF Calm
<1>2. ASSUME LoseControl(k) PROVE Calm
  <2>1. pending' = pending /\ dial' = dial /\ data' = data /\ stream' = stream
    BY <1>2 DEF LoseControl
  <2>2. \A x \in Conns : control'[x].wire = control[x].wire
    BY <1>2 DEF LoseControl, Control
  <2>3. \A q \in Keys : loop'[q].next = loop[q].next \/ loop'[q].next = None
    BY <1>2 DEF LoseControl
  <2> QED
    BY <2>1, <2>2, <2>3 DEF Calm
<1>3. ASSUME Crash(k) PROVE Calm
  <2>1. pending' = pending /\ dial' = dial
    BY <1>3 DEF Crash
  <2>2. ASSUME NEW x \in Conns PROVE control'[x].wire = control[x].wire \/ control'[x].wire = <<>>
    <3>1. \/ control'[x] = control[x]
          \/ control'[x] = [control[x] EXCEPT !.up = FALSE, !.wire = <<>>]
      BY <1>3 DEF Crash
    <3>2. control[x] \in Control
      OBVIOUS
    <3> QED
      BY <3>1, <3>2 DEF Control
  <2>3. \A q \in Keys : loop'[q].next = loop[q].next \/ loop'[q].next = None
    BY <1>3 DEF Crash
  <2>4. \A x \in Dials : data'[x].at = data[x].at
    BY <1>3 DEF Crash, Data
  <2>5. \A x \in Dials : stream[x] = "none" => stream'[x] = "none"
    BY <1>3 DEF Crash, StreamsOf, Running
  <2> QED
    BY <2>1, <2>2, <2>3, <2>4, <2>5 DEF Calm
<1> QED
  BY <1>1, <1>2, <1>3

LEMMA PendingStep == Types /\ PendingInv /\ [Next]_vars => PendingInv'
<1> SUFFICES ASSUME Types, PendingInv, [Next]_vars PROVE PendingInv'
  OBVIOUS
<1>0. /\ \A d \in pending : dial[d].pc \in {"send", "wait", "expired"} /\ Unclaimed(d)
      /\ \A d \in Dials : dial[d].pc \in {"idle", "register", "send"} => Unsent(d)
  BY DEF PendingInv, PendingOwned
<1> DEFINE Early == {"idle", "register", "send"}
\* A dial goes on; nothing else about streams changes.
<1>1. ASSUME NEW d \in Dials, control' = control, data' = data, stream' = stream, loop' = loop,
             \A x \in Dials \ {d} : dial'[x] = dial[x] /\ (x \in pending' <=> x \in pending),
             dial'[d].pc \in Early => dial[d].pc \in Early,
             pending' \subseteq Dials,
             d \in pending' => dial'[d].pc \in {"send", "wait", "expired"} /\ Unclaimed(d)
      PROVE  PendingInv'
  BY <1>0, <1>1 DEF PendingInv, PendingOwned, Unsent, Unclaimed
<1>2. ASSUME NEW d \in Dials, NEW k \in Keys, Reject(d) \/ LookupAgent(d, k) PROVE PendingInv'
  <2>1. d \notin pending
    BY <1>0, <1>2 DEF Reject, LookupAgent
  <2>2. /\ control' = control /\ data' = data /\ stream' = stream /\ loop' = loop
        /\ pending' = pending /\ dial[d].pc = "idle"
        /\ \A x \in Dials \ {d} : dial'[x] = dial[x]
    BY <1>2 DEF Reject, LookupAgent, Types
  <2> QED
    BY <1>1, <2>1, <2>2 DEF Types
<1>3. ASSUME NEW d \in Dials, Reject(d) PROVE PendingInv'
  <2>1. d \notin pending
    BY <1>0, <1>3 DEF Reject
  <2>2. /\ control' = control /\ data' = data /\ stream' = stream /\ loop' = loop
        /\ pending' = pending /\ dial[d].pc = "idle"
        /\ \A x \in Dials \ {d} : dial'[x] = dial[x]
    BY <1>3 DEF Reject, Types
  <2> QED
    BY <1>1, <2>1, <2>2 DEF Types
<1>4. ASSUME NEW d \in Dials, AddPending(d) PROVE PendingInv'
  <2>1. Unclaimed(d)
    BY <1>0, <1>4 DEF AddPending, Unsent, Unclaimed
  <2>2. /\ control' = control /\ data' = data /\ stream' = stream /\ loop' = loop
        /\ pending' = pending \cup {d} /\ dial[d].pc = "register" /\ dial'[d].pc = "send"
        /\ \A x \in Dials \ {d} : dial'[x] = dial[x]
    BY <1>4 DEF AddPending, Types, Dial
  <2> QED
    BY <1>1, <2>1, <2>2 DEF Types
<1>5. ASSUME NEW d \in Dials, SendFails(d) \/ Expire(d) PROVE PendingInv'
  <2>1. /\ control' = control /\ data' = data /\ stream' = stream /\ loop' = loop
        /\ pending' = pending \ {d} /\ dial'[d].pc = "done"
        /\ \A x \in Dials \ {d} : dial'[x] = dial[x]
    BY <1>5 DEF SendFails, Expire, Types, Dial
  <2> QED
    BY <1>1, <2>1 DEF Types
<1>6. ASSUME NEW d \in Dials, Timeout(d) PROVE PendingInv'
  <2>1. /\ control' = control /\ data' = data /\ stream' = stream /\ loop' = loop
        /\ pending' = pending /\ dial'[d].pc = "expired"
        /\ \A x \in Dials \ {d} : dial'[x] = dial[x]
    BY <1>6 DEF Timeout, Types, Dial
  <2> QED
    BY <1>0, <1>1, <2>1 DEF Types
<1>7. ASSUME NEW d \in Dials, Reply(d) PROVE PendingInv'
  <2>1. /\ control' = control /\ data' = data /\ stream' = stream /\ loop' = loop
        /\ pending' = pending /\ dial'[d].pc = "stream" /\ dial[d].pc = "reply"
        /\ \A x \in Dials \ {d} : dial'[x] = dial[x]
    BY <1>7 DEF Reply, Types, Dial
  <2> QED
    BY <1>0, <1>1, <2>1 DEF Types
\* The message is on the wire, its dial past its send.
<1>8. ASSUME NEW d \in Dials, SendOpen(d) PROVE PendingInv'
  <2> DEFINE c == dial[d].conn
  <2>1. /\ data' = data /\ stream' = stream /\ loop' = loop /\ pending' = pending
        /\ dial'[d].pc = "wait" /\ \A x \in Dials \ {d} : dial'[x] = dial[x]
    BY <1>8 DEF SendOpen, Types, Dial
  <2>2. ASSUME NEW x \in Conns PROVE control'[x].wire \in {control[x].wire, Append(control[x].wire, d)}
    BY <1>8 DEF SendOpen, Types, Control
  <2>3. ASSUME NEW y \in Dials \ {d}, Unsent(y) PROVE Unsent(y)'
    <3>1. ASSUME NEW x \in Conns, NEW i \in 1..Len(control'[x].wire)
          PROVE  control'[x].wire[i] # y
      <4>1. control[x].wire \in Seq(Dials)
        BY DEF Types, Control
      <4>2. CASE control'[x].wire = control[x].wire
        BY <2>3, <3>1, <4>2 DEF Unsent
      <4>3. CASE control'[x].wire = Append(control[x].wire, d)
        <5>1. /\ Len(Append(control[x].wire, d)) = Len(control[x].wire) + 1
              /\ \A j \in 1..Len(control[x].wire) :
                   Append(control[x].wire, d)[j] = control[x].wire[j]
              /\ Append(control[x].wire, d)[Len(control[x].wire) + 1] = d
          BY <4>1
        <5>2. Len(control[x].wire) \in Nat
          BY <4>1
        <5>3. i \in 1..Len(control[x].wire) \/ i = Len(control[x].wire) + 1
          BY <3>1, <4>3, <5>1, <5>2
        <5> QED
          BY <2>3, <4>3, <5>1, <5>3 DEF Unsent
      <4> QED
        BY <2>2, <4>2, <4>3
    <3> QED
      BY <2>1, <2>3, <3>1 DEF Unsent
  <2>4. PendingOwned' /\ \A x \in pending' : Unclaimed(x)'
    BY <1>0, <2>1 DEF PendingOwned, Unclaimed, Types
  <2> QED
    BY <1>0, <2>1, <2>3, <2>4 DEF PendingInv
<1>9. ASSUME NEW d \in Dials, TakeConn(d) \/ HangUp(d) PROVE PendingInv'
  <2>1. /\ control' = control /\ stream' = stream /\ loop' = loop /\ pending' = pending
        /\ dial'[d].pc \in {"reply", "done"}
        /\ dial[d].pc \in {"reply", "stream"} \/ data[d].at = "handed"
        /\ \A x \in Dials \ {d} : dial'[x] = dial[x] /\ data'[x] = data[x]
    BY <1>9 DEF TakeConn, HangUp, Types, Dial
  <2>2. d \notin pending
    BY <1>0, <2>1 DEF Unclaimed
  <2>3. PendingOwned' /\ \A x \in pending' : Unclaimed(x)'
    BY <1>0, <2>1, <2>2 DEF PendingOwned, Unclaimed, Types
  <2>4. \A x \in Dials \ {d} : Unsent(x) => Unsent(x)'
    BY <2>1 DEF Unsent
  <2> QED
    BY <1>0, <2>1, <2>3, <2>4 DEF PendingInv
<1>10. ASSUME NEW d \in Dials, DataHandler(d) PROVE PendingInv'
  <2>1. /\ control' = control /\ stream' = stream /\ loop' = loop /\ dial' = dial
        /\ data[d].at # "none"
        /\ \A x \in Dials \ {d} : data'[x] = data[x]
        /\ pending' \subseteq pending
        /\ d \in pending' => data'[d].at = "closed" \/ data[d].at \in {"claimed", "handed"}
    BY <1>10 DEF DataHandler, ClaimStream, RefuseStream, HandOver, Finalize, Types, Data
  <2>2. ~Unsent(d)
    BY <2>1 DEF Unsent
  <2>3. PendingOwned' /\ \A x \in pending' : Unclaimed(x)'
    BY <1>0, <2>1 DEF PendingOwned, Unclaimed, Types
  <2>4. \A x \in Dials \ {d} : Unsent(x) => Unsent(x)'
    BY <2>1 DEF Unsent
  <2> QED
    BY <1>0, <2>1, <2>2, <2>3, <2>4 DEF PendingInv
<1>11. ASSUME NEW d \in Dials, StreamFails(d) \/ SayHello(d) \/ EndBridge(d) PROVE PendingInv'
  <2>1. /\ control' = control /\ loop' = loop /\ dial' = dial /\ pending' = pending
        /\ stream[d] # "none"
        /\ \A x \in Dials \ {d} : data'[x] = data[x] /\ stream'[x] = stream[x]
        /\ data'[d].at \in {data[d].at, "hello"}
    BY <1>11 DEF StreamFails, SayHello, EndBridge, Types, Data
  <2>2. ~Unsent(d)
    BY <2>1 DEF Unsent
  <2>3. PendingOwned' /\ \A x \in pending' : Unclaimed(x)'
    BY <1>0, <2>1 DEF PendingOwned, Unclaimed, Types
  <2>4. \A x \in Dials \ {d} : Unsent(x) => Unsent(x)'
    BY <2>1 DEF Unsent
  <2> QED
    BY <1>0, <2>1, <2>2, <2>3, <2>4 DEF PendingInv
<1>12. ASSUME NEW k \in Keys, NEW n \in Nat, ReadOpen(k, n) PROVE PendingInv'
  <2> DEFINE c == loop[k].conn
  <2>1. c \in Conns /\ control[c].wire \in Seq(Dials) /\ n \in 1..Len(control[c].wire)
    BY <1>12 DEF ReadOpen, Types, Loop, Control
  <2>2. /\ stream' = stream /\ data' = data /\ dial' = dial /\ pending' = pending
        /\ loop'[k].next = Head(control[c].wire)
        /\ \A q \in Keys \ {k} : loop'[q] = loop[q]
        /\ control'[c].wire = SubSeq(control[c].wire, n + 1, Len(control[c].wire))
        /\ \A x \in Conns \ {c} : control'[x] = control[x]
    BY <1>12, <2>1 DEF ReadOpen, Types, Loop, Control
  <2>3. Head(control[c].wire) = control[c].wire[1] /\ 1 \in 1..Len(control[c].wire)
    BY <2>1
  <2>4. ASSUME NEW y \in Dials, Unsent(y) PROVE Unsent(y)'
    <3>1. \A q \in Keys : loop'[q].next # y
      BY <2>1, <2>2, <2>3, <2>4 DEF Unsent
    <3>2. \A i \in 1..Len(control'[c].wire) : control'[c].wire[i] # y
      BY <2>1, <2>2, <2>4, RestOf DEF Unsent
    <3>3. \A x \in Conns : \A i \in 1..Len(control'[x].wire) : control'[x].wire[i] # y
      BY <2>2, <2>4, <3>2 DEF Unsent
    <3> QED
      BY <2>2, <2>4, <3>1, <3>3 DEF Unsent
  <2>5. PendingOwned' /\ \A x \in pending' : Unclaimed(x)'
    BY <1>0, <2>2 DEF PendingOwned, Unclaimed, Types
  <2> QED
    BY <1>0, <2>2, <2>4, <2>5 DEF PendingInv
<1>13. ASSUME NEW k \in Keys, TakeSlot(k) PROVE PendingInv'
  <2> DEFINE d == loop[k].next
  <2>1. d \in Dials
    BY <1>13 DEF TakeSlot, Types, Loop
  <2>2. /\ control' = control /\ data' = data /\ dial' = dial /\ pending' = pending
        /\ \A x \in Dials \ {d} : stream'[x] = stream[x]
        /\ loop'[k].next = None /\ \A q \in Keys \ {k} : loop'[q] = loop[q]
    BY <1>13 DEF TakeSlot, Types, Loop
  <2>3. ~Unsent(d)
    BY DEF Unsent
  <2>4. \A x \in Dials \ {d} : Unsent(x) => Unsent(x)'
    BY <2>2, ConstantsAssumption DEF Unsent
  <2>5. PendingOwned' /\ \A x \in pending' : Unclaimed(x)'
    BY <1>0, <2>2 DEF PendingOwned, Unclaimed, Types
  <2> QED
    BY <1>0, <2>1, <2>2, <2>3, <2>4, <2>5 DEF PendingInv
<1>14. ASSUME NEW c \in Conns, ControlHandler(c) \/ BreakControl(c) PROVE PendingInv'
  BY <1>14, CalmKeeps, CalmStepsOfConn
<1>15. ASSUME NEW k \in Keys, NEW c \in Conns, Connect(k, c) PROVE PendingInv'
  BY <1>15, CalmKeeps, CalmStepsOfAgent
<1>16. ASSUME NEW k \in Keys, LoseControl(k) \/ Crash(k) PROVE PendingInv'
  BY <1>16, CalmKeeps, CalmStepsOfAgent
<1>17. ASSUME NEW d \in Dials, BreakData(d) PROVE PendingInv'
  <2>1. Calm
    BY <1>17 DEF BreakData, Data, Calm, Types
  <2> QED
    BY <2>1, CalmKeeps
<1>18. CASE UNCHANGED vars
  <2>1. Calm
    BY <1>18 DEF vars, Calm
  <2> QED
    BY <2>1, CalmKeeps
<1>19. \A n \in 1..Cardinality(Dials) : n \in Nat
  OBVIOUS
<1> QED
  BY <1>2, <1>3, <1>4, <1>5, <1>6, <1>7, <1>8, <1>9, <1>10, <1>11, <1>12, <1>13, <1>14,
     <1>15, <1>16, <1>17, <1>18, <1>19 DEF Next, AgentLoop, DialHandler

\* On every path out of handleDialConn, against every interleaving with the data
\* listener and the agents, the dial's entry has left the table.
THEOREM NoPendingLeft == Spec => []PendingOwned
<1>1. Init => PendingInv
  <2> SUFFICES ASSUME Init PROVE PendingInv
    OBVIOUS
  <2>1. pending = {}
    BY DEF Init
  <2>2. \A c \in Conns : control[c].wire = <<>>
    BY DEF Init
  <2>3. \A d \in Dials : data[d].at = "none" /\ stream[d] = "none"
    BY DEF Init
  <2>4. \A d \in Dials, k \in Keys : loop[k].next # d
    BY ConstantsAssumption DEF Init
  <2> QED
    BY <2>1, <2>2, <2>3, <2>4 DEF PendingInv, PendingOwned, Unsent
<1>2. Init => TableInv
  BY TypesInit DEF Init, TableInv, TableCurrent
<1>3. TableInv /\ PendingInv /\ [Next]_vars => PendingInv'
  BY PendingStep DEF TableInv
<1>4. PendingInv => PendingOwned
  BY DEF PendingInv
<1> QED
  BY <1>1, <1>2, <1>3, <1>4, TableStep, PTL DEF Spec

-----------------------------------------------------------------------------
(* Open messages *)

\* A dial's connection is one of its desktop.
DialConns ==
  \A d \in Dials :
    /\ dial[d].conn # None => /\ control[dial[d].conn].pc # "unused"
                              /\ control[dial[d].conn].key = dial[d].key
    /\ dial[d].pc \in {"register", "send"} => dial[d].conn # None

\* A message on the wire is on its dial's connection, once, and nowhere else; no
\* stream has been started for it.
OnlyHere(c, i) ==
  /\ dial[control[c].wire[i]].conn = c
  /\ stream[control[c].wire[i]] = "none"
  /\ \A k \in Keys : loop[k].next # control[c].wire[i]
  /\ \A j \in 1..Len(control[c].wire) : control[c].wire[j] = control[c].wire[i] => j = i

WireOnce == \A c \in Conns : \A i \in 1..Len(control[c].wire) : OnlyHere(c, i)

\* An agent reads its own connection, and the message it has read is for it.
LoopOwn ==
  \A k \in Keys :
    /\ loop[k].conn # None => /\ control[loop[k].conn].pc # "unused"
                              /\ control[loop[k].conn].key = k
    /\ loop[k].next # None => /\ stream[loop[k].next] = "none"
                              /\ dial[loop[k].next].key = k

MessageInv == DialConns /\ WireOnce /\ LoopOwn

\* Steps that neither send nor read a message nor choose a connection.
Steady ==
  /\ \A c \in Conns :
       /\ control'[c].wire = control[c].wire \/ control'[c].wire = <<>>
       /\ control[c].pc # "unused" => /\ control'[c].pc # "unused"
                                      /\ control'[c].key = control[c].key
  /\ \A d \in Dials :
       /\ dial'[d].key = dial[d].key /\ dial'[d].conn = dial[d].conn
       /\ dial'[d].pc \in {"register", "send"} => dial[d].pc \in {"register", "send"}
       /\ stream[d] = "none" => stream'[d] = "none"
  /\ \A k \in Keys :
       /\ loop'[k].next = loop[k].next \/ loop'[k].next = None
       /\ loop'[k].conn = loop[k].conn \/ loop'[k].conn = None

\* What is on the wires and in the loops are dials and connections.
LEMMA MessageTypes ==
  ASSUME Types
  PROVE  /\ \A c \in Conns : /\ control[c].wire \in Seq(Dials)
                             /\ Len(control[c].wire) \in Nat
                             /\ \A i \in 1..Len(control[c].wire) : control[c].wire[i] \in Dials
         /\ \A d \in Dials : dial[d].conn # None => dial[d].conn \in Conns
         /\ \A k \in Keys : /\ loop[k].conn # None => loop[k].conn \in Conns
                            /\ loop[k].next # None => loop[k].next \in Dials
         /\ None \notin Dials
<1>1. \A c \in Conns : control[c].wire \in Seq(Dials)
  BY DEF Types, Control
<1>2. \A c \in Conns : /\ Len(control[c].wire) \in Nat
                       /\ \A i \in 1..Len(control[c].wire) : control[c].wire[i] \in Dials
  BY <1>1
<1> QED
  BY <1>1, <1>2, ConstantsAssumption DEF Types, Dial, Loop

LEMMA SteadyKeeps == Types /\ MessageInv /\ Steady => MessageInv'
<1> SUFFICES ASSUME Types, MessageInv, Steady PROVE MessageInv'
  OBVIOUS
<1>1. DialConns /\ WireOnce /\ LoopOwn
  BY DEF MessageInv
<1>2. DialConns'
  BY <1>1, MessageTypes DEF DialConns, Steady
<1>3. ASSUME NEW c \in Conns, NEW i \in 1..Len(control'[c].wire)
      PROVE  OnlyHere(c, i)'
  <2>1. control'[c].wire = control[c].wire
    BY <1>3 DEF Steady
  <2>2. control[c].wire[i] \in Dials /\ None \notin Dials
    BY <1>3, <2>1, MessageTypes
  <2> QED
    BY <1>1, <1>3, <2>1, <2>2 DEF WireOnce, OnlyHere, Steady
<1>4. WireOnce'
  BY <1>3 DEF WireOnce
<1>5. LoopOwn'
  BY <1>1, MessageTypes DEF LoopOwn, Steady
<1> QED
  BY <1>2, <1>4, <1>5 DEF MessageInv

LEMMA SteadyOfConn ==
  ASSUME Types, NEW c \in Conns, ControlHandler(c) \/ BreakControl(c)
  PROVE  Steady
<1> USE DEF Types
<1>1. Calm
  BY CalmStepsOfConn
<1>2. loop' = loop
  BY DEF ControlHandler, Register, Refuse, NoticeDisconnect, Unregister, BreakControl
<1>3. ASSUME NEW x \in Conns
      PROVE  control[x].pc # "unused" => /\ control'[x].pc # "unused"
                                         /\ control'[x].key = control[x].key
  <2>1. CASE Register(c)
    <3>1. control[x] \in Control /\ control[c] \in Control
      OBVIOUS
    <3>2. \/ control'[x] = [control[c] EXCEPT !.pc = "reading"] /\ x = c
          \/ control'[x] = [control[x] EXCEPT !.open = FALSE]
          \/ control'[x] = control[x]
      BY <2>1 DEF Register
    <3> QED
      BY <3>1, <3>2 DEF Control
  <2>2. CASE Refuse(c)
    BY <2>2 DEF Refuse, Control
  <2>3. CASE NoticeDisconnect(c)
    BY <2>3 DEF NoticeDisconnect, Control
  <2>4. CASE Unregister(c)
    BY <2>4 DEF Unregister, Control
  <2>5. CASE BreakControl(c)
    BY <2>5 DEF BreakControl, Control
  <2> QED
    BY <2>1, <2>2, <2>3, <2>4, <2>5 DEF ControlHandler
<1> QED
  BY <1>1, <1>2, <1>3 DEF Steady, Calm

LEMMA SteadyOfAgent ==
  ASSUME Types, NEW k \in Keys, LoseControl(k) \/ Crash(k)
  PROVE  Steady
<1> USE DEF Types
<1>1. Calm
  BY CalmStepsOfAgent
<1>2. \A x \in Conns : control'[x].pc = control[x].pc /\ control'[x].key = control[x].key
  <2>1. CASE LoseControl(k)
    BY <2>1 DEF LoseControl, Control
  <2>2. CASE Crash(k)
    <3> SUFFICES ASSUME NEW x \in Conns
                 PROVE  control'[x].pc = control[x].pc /\ control'[x].key = control[x].key
      OBVIOUS
    <3>1. \/ control'[x] = control[x]
          \/ control'[x] = [control[x] EXCEPT !.up = FALSE, !.wire = <<>>]
      BY <2>2 DEF Crash
    <3>2. control[x] \in Control
      OBVIOUS
    <3> QED
      BY <3>1, <3>2 DEF Control
  <2> QED
    BY <2>1, <2>2
<1>3. \A q \in Keys : loop'[q].conn = loop[q].conn \/ loop'[q].conn = None
  <2>1. loop' = [loop EXCEPT ![k] = [conn |-> None, next |-> None]]
    BY DEF LoseControl, Crash
  <2> QED
    BY <2>1
<1> QED
  BY <1>1, <1>2, <1>3 DEF Steady, Calm

LEMMA SteadyOfDial ==
  ASSUME Types, NEW d \in Dials,
         \/ Reject(d)
         \/ AddPending(d) \/ SendFails(d) \/ TakeConn(d) \/ Timeout(d) \/ Expire(d) \/ Reply(d)
         \/ HangUp(d) \/ DataHandler(d)
         \/ StreamFails(d) \/ SayHello(d) \/ EndBridge(d) \/ BreakData(d)
  PROVE  Steady
<1> USE DEF Types
<1>1. control' = control /\ loop' = loop
  BY DEF Reject, AddPending, SendFails, TakeConn, Timeout, Expire, Reply, HangUp, DataHandler,
         ClaimStream, RefuseStream, HandOver, Finalize, StreamFails, SayHello, EndBridge, BreakData
<1>2. \A x \in Dials : stream[x] = "none" => stream'[x] = "none"
  BY DEF Reject, AddPending, SendFails, TakeConn, Timeout, Expire, Reply, HangUp, DataHandler,
         ClaimStream, RefuseStream, HandOver, Finalize, StreamFails, SayHello, EndBridge, BreakData
<1>3. ASSUME NEW x \in Dials
      PROVE  /\ dial'[x].key = dial[x].key /\ dial'[x].conn = dial[x].conn
             /\ dial'[x].pc \in {"register", "send"} => dial[x].pc \in {"register", "send"}
  <2>1. CASE Reject(d) \/ AddPending(d) \/ SendFails(d) \/ TakeConn(d)
    BY <2>1 DEF Reject, AddPending, SendFails, TakeConn, Dial
  <2>2. CASE Timeout(d) \/ Expire(d) \/ Reply(d) \/ HangUp(d)
    BY <2>2 DEF Timeout, Expire, Reply, HangUp, Dial
  <2>3. CASE DataHandler(d) \/ StreamFails(d) \/ SayHello(d) \/ EndBridge(d) \/ BreakData(d)
    BY <2>3 DEF DataHandler, ClaimStream, RefuseStream, HandOver, Finalize, StreamFails, SayHello,
                EndBridge, BreakData
  <2> QED
    BY <2>1, <2>2, <2>3
<1> QED
  BY <1>1, <1>2, <1>3 DEF Steady

LEMMA MessageStep ==
  ASSUME TableInv, PendingInv, MessageInv, [Next]_vars
  PROVE  MessageInv'
<1>0. Types /\ TableCurrent /\ DialConns /\ WireOnce /\ LoopOwn
  BY DEF TableInv, MessageInv
<1>t. /\ \A c \in Conns : /\ control[c].wire \in Seq(Dials)
                          /\ Len(control[c].wire) \in Nat
                          /\ \A i \in 1..Len(control[c].wire) : control[c].wire[i] \in Dials
      /\ \A d \in Dials : dial[d].conn # None => dial[d].conn \in Conns
      /\ \A k \in Keys : /\ loop[k].conn # None => loop[k].conn \in Conns
                         /\ loop[k].next # None => loop[k].next \in Dials
      /\ None \notin Dials
  BY <1>0, MessageTypes
\* The connection found in the table is that of the desktop.
<1>1. ASSUME NEW d \in Dials, NEW k \in Keys, LookupAgent(d, k) PROVE MessageInv'
  <2>1. /\ control' = control /\ stream' = stream /\ loop' = loop
        /\ dial'[d].key = k /\ dial'[d].conn = agents[k] /\ agents[k] # None
        /\ dial[d].pc = "idle"
        /\ \A x \in Dials \ {d} : dial'[x] = dial[x]
    BY <1>0, <1>1 DEF LookupAgent, Types
  <2>2. control[agents[k]].key = k /\ control[agents[k]].pc # "unused"
    BY <1>0, <2>1 DEF TableCurrent
  <2>3. Unsent(d)
    BY <2>1 DEF PendingInv
  <2>4. DialConns'
    BY <1>0, <2>1, <2>2 DEF DialConns
  <2>5. WireOnce'
    BY <1>0, <1>t, <2>1, <2>3 DEF WireOnce, OnlyHere, Unsent
  <2>6. LoopOwn'
    BY <1>0, <1>t, <2>1, <2>3 DEF LoopOwn, Unsent
  <2> QED
    BY <2>4, <2>5, <2>6 DEF MessageInv
\* A dial sends its message once.
<1>2. ASSUME NEW d \in Dials, SendOpen(d) PROVE MessageInv'
  <2> DEFINE c == dial[d].conn
             w == Append(control[c].wire, d)
  <2>1. Unsent(d) /\ dial[d].pc = "send"
    BY <1>2 DEF SendOpen, PendingInv
  <2>2. c \in Conns
    BY <1>0, <1>t, <2>1 DEF DialConns
  <2>3. /\ stream' = stream /\ loop' = loop
        /\ \A x \in Dials : dial'[x].key = dial[x].key /\ dial'[x].conn = dial[x].conn
        /\ dial'[d].pc = "wait" /\ \A x \in Dials \ {d} : dial'[x].pc = dial[x].pc
    BY <1>0, <1>2 DEF SendOpen, Types, Dial
  <2>4. /\ \A x \in Conns : control'[x].key = control[x].key /\ control'[x].pc = control[x].pc
        /\ \A x \in Conns \ {c} : control'[x] = control[x]
        /\ control'[c].wire \in {control[c].wire, w}
    BY <1>0, <1>2, <2>2 DEF SendOpen, Types, Control
  <2>5. /\ Len(w) = Len(control[c].wire) + 1 /\ Len(control[c].wire) \in Nat
        /\ \A j \in 1..Len(control[c].wire) : w[j] = control[c].wire[j]
        /\ w[Len(control[c].wire) + 1] = d
    BY <1>t, <2>2
  <2> HIDE DEF w
  <2>6. DialConns'
    BY <1>0, <1>t, <2>3, <2>4 DEF DialConns
  <2>7. LoopOwn'
    BY <1>0, <1>t, <2>3, <2>4 DEF LoopOwn
  <2>8. ASSUME NEW x \in Conns, NEW i \in 1..Len(control'[x].wire)
        PROVE  OnlyHere(x, i)'
    <3>1. CASE control'[x].wire = control[x].wire
      <4>1. control[x].wire[i] \in Dials
        BY <1>t, <2>8, <3>1
      <4> QED
        BY <1>0, <2>3, <2>8, <3>1, <4>1 DEF WireOnce, OnlyHere
    <3>2. CASE control'[x].wire # control[x].wire
      <4> DEFINE n == Len(control[c].wire)
      <4>1. x = c /\ control'[x].wire = w
        BY <2>4, <3>2
      <4>2. \A j \in 1..n : control[c].wire[j] # d /\ control[c].wire[j] \in Dials
        BY <1>t, <2>1, <2>2 DEF Unsent
      <4>3. CASE i = n + 1
        <5>1. w[i] = d
          BY <2>5, <4>3
        <5>2. \A j \in 1..n + 1 : w[j] = d => j = n + 1
          BY <2>5, <4>2
        <5> QED
          BY <2>1, <2>3, <2>5, <4>1, <4>3, <5>1, <5>2 DEF Unsent, OnlyHere
      <4>4. CASE i \in 1..n
        <5>1. w[i] = control[c].wire[i] /\ w[i] \in Dials /\ w[i] # d
          BY <2>5, <4>2, <4>4
        <5>2. \A j \in 1..n + 1 : w[j] = w[i] => j \in 1..n
          BY <2>5, <5>1
        <5>3. \A j \in 1..n + 1 : w[j] = w[i] => j = i
          <6> SUFFICES ASSUME NEW j \in 1..n + 1, w[j] = w[i] PROVE j = i
            OBVIOUS
          <6>1. j \in 1..n /\ control[c].wire[j] = control[c].wire[i]
            BY <2>5, <5>1, <5>2
          <6>2. OnlyHere(c, i)
            BY <1>0, <2>2, <4>4 DEF WireOnce
          <6> QED
            BY <6>1, <6>2 DEF OnlyHere
        <5>4. /\ dial[w[i]].conn = c /\ stream[w[i]] = "none"
              /\ \A k \in Keys : loop[k].next # w[i]
          BY <1>0, <2>2, <4>4, <5>1 DEF WireOnce, OnlyHere
        <5> QED
          BY <2>3, <2>5, <4>1, <5>1, <5>3, <5>4 DEF OnlyHere
      <4>5. i \in 1..Len(w) /\ Len(w) = n + 1 /\ n \in Nat
        BY <2>5, <2>8, <4>1
      <4>6. i = n + 1 \/ i \in 1..n
        BY ONLY <4>5
      <4> QED
        BY <4>3, <4>4, <4>6
    <3> QED
      BY <3>1, <3>2
  <2>9. WireOnce'
    BY <2>8 DEF WireOnce
  <2> QED
    BY <2>6, <2>7, <2>9 DEF MessageInv
<1>3. ASSUME NEW k \in Keys, NEW c \in Conns, Connect(k, c) PROVE MessageInv'
  <2>1. control[c].pc = "unused"
    BY <1>3 DEF Connect, Conns
  <2>2. /\ stream' = stream /\ dial' = dial
        /\ control'[c].key = k /\ control'[c].pc = "handshake" /\ control'[c].wire = <<>>
        /\ \A x \in Conns \ {c} : control'[x] = control[x]
        /\ loop'[k].conn = c /\ loop'[k].next = None
        /\ \A q \in Keys \ {k} : loop'[q] = loop[q]
    BY <1>0, <1>3 DEF Connect, Types
  <2>3. DialConns'
    BY <1>0, <1>t, <2>1, <2>2 DEF DialConns
  <2>4. LoopOwn'
    BY <1>0, <1>t, <2>1, <2>2 DEF LoopOwn
  <2>5. ASSUME NEW x \in Conns, NEW i \in 1..Len(control'[x].wire)
        PROVE  OnlyHere(x, i)'
    <3>1. x # c /\ control'[x] = control[x]
      BY <2>2, <2>5
    <3>2. control[x].wire[i] \in Dials
      BY <1>t, <2>5, <3>1
    <3>3. /\ dial[control[x].wire[i]].conn = x
          /\ stream[control[x].wire[i]] = "none"
          /\ \A q \in Keys : loop[q].next # control[x].wire[i]
          /\ \A j \in 1..Len(control[x].wire) :
               control[x].wire[j] = control[x].wire[i] => j = i
      BY <1>0, <2>5, <3>1 DEF WireOnce, OnlyHere
    <3>4. \A q \in Keys : loop'[q].next # control[x].wire[i]
      BY <1>t, <2>2, <3>2, <3>3
    <3> QED
      BY <2>2, <3>1, <3>3, <3>4 DEF OnlyHere
  <2>6. WireOnce'
    BY <2>5 DEF WireOnce
  <2> QED
    BY <2>3, <2>4, <2>6 DEF MessageInv
\* The first message goes to the loop, the rest stays or is lost.
<1>4. ASSUME NEW k \in Keys, NEW n \in Nat, ReadOpen(k, n) PROVE MessageInv'
  <2> DEFINE c == loop[k].conn
             w == control[c].wire
             r == SubSeq(w, n + 1, Len(w))
  <2>1. c \in Conns /\ w \in Seq(Dials) /\ n \in 1..Len(w) /\ Len(w) \in Nat
    BY <1>t, <1>4 DEF ReadOpen
  <2>2. /\ stream' = stream /\ dial' = dial
        /\ loop'[k].next = Head(w) /\ \A q \in Keys : loop'[q].conn = loop[q].conn
        /\ \A q \in Keys \ {k} : loop'[q].next = loop[q].next
        /\ control'[c].wire = r
        /\ \A x \in Conns : control'[x].key = control[x].key /\ control'[x].pc = control[x].pc
        /\ \A x \in Conns \ {c} : control'[x] = control[x]
    <3>1. /\ stream' = stream /\ dial' = dial
          /\ loop' = [loop EXCEPT ![k].next = Head(w)]
          /\ control' = [control EXCEPT ![c].wire = r]
      BY <1>4 DEF ReadOpen
    <3> HIDE DEF r, w
    <3> QED
      BY <1>0, <2>1, <3>1 DEF Types, Loop, Control
  <2>3. Head(w) = w[1] /\ 1 \in 1..Len(w) /\ w[1] \in Dials
    BY <2>1
  <2>4. Len(r) = Len(w) - n /\ \A i \in 1..Len(w) - n : r[i] = w[n + i] /\ n + i \in 1..Len(w)
    BY <2>1, RestIndex
  <2>5. /\ dial[w[1]].conn = c /\ stream[w[1]] = "none"
        /\ \A j \in 1..Len(w) : w[j] = w[1] => j = 1
    BY <1>0, <2>1, <2>3 DEF WireOnce, OnlyHere
  <2> HIDE DEF r
  <2>6. DialConns'
    BY <1>0, <1>t, <2>2 DEF DialConns
  <2>7. LoopOwn'
    <3>1. dial[w[1]].key = k
      <4>1. control[c].key = k
        BY <1>0, <1>t, <1>4 DEF ReadOpen, LoopOwn
      <4>2. dial[w[1]].conn # None
        BY <2>1, <2>5, ConstantsAssumption DEF Conns
      <4> QED
        BY <1>0, <2>3, <2>5, <4>1, <4>2 DEF DialConns
    <3> QED
      BY <1>0, <1>t, <2>2, <2>3, <2>5, <3>1 DEF LoopOwn
  <2>8. ASSUME NEW x \in Conns, NEW i \in 1..Len(control'[x].wire)
        PROVE  OnlyHere(x, i)'
    <3>1. CASE x = c
      <4>1. control'[x].wire = r /\ i \in 1..Len(w) - n
        BY <2>2, <2>4, <2>8, <3>1
      <4>2. r[i] = w[n + i] /\ n + i \in 1..Len(w) /\ n + i # 1
        BY ONLY <2>1, <2>4, <4>1
      <4>3. /\ dial[w[n + i]].conn = c /\ stream[w[n + i]] = "none"
            /\ \A q \in Keys : loop[q].next # w[n + i]
            /\ \A j \in 1..Len(w) : w[j] = w[n + i] => j = n + i
        BY <1>0, <2>1, <4>2 DEF WireOnce, OnlyHere
      <4>4. w[n + i] # w[1]
        BY <2>5, <4>2
      <4>5. \A j \in 1..Len(w) - n : r[j] = r[i] => j = i
        <5> SUFFICES ASSUME NEW j \in 1..Len(w) - n, r[j] = r[i] PROVE j = i
          OBVIOUS
        <5>1. n + j = n + i
          BY <2>4, <4>2, <4>3
        <5> QED
          BY <2>1, <4>1, <5>1
      <4> QED
        BY <2>2, <2>3, <2>4, <3>1, <4>1, <4>2, <4>3, <4>4, <4>5 DEF OnlyHere
    <3>2. CASE x # c
      <4>1. control'[x] = control[x] /\ control[x].wire[i] \in Dials
        BY <1>t, <2>2, <2>8, <3>2
      <4>2. dial[control[x].wire[i]].conn = x
        BY <1>0, <2>8, <4>1 DEF WireOnce, OnlyHere
      <4>3. control[x].wire[i] # w[1]
        BY <2>5, <3>2, <4>2
      <4> QED
        BY <1>0, <2>2, <2>3, <2>8, <4>1, <4>3 DEF WireOnce, OnlyHere
    <3> QED
      BY ONLY <3>1, <3>2, SMTT(30)
  <2>9. WireOnce'
    BY <2>8 DEF WireOnce
  <2> QED
    BY <2>6, <2>7, <2>9 DEF MessageInv
<1>5. ASSUME NEW k \in Keys, TakeSlot(k) PROVE MessageInv'
  <2> DEFINE d == loop[k].next
  <2>1. d \in Dials /\ dial[d].key = k
    BY <1>0, <1>t, <1>5 DEF TakeSlot, LoopOwn
  <2>2. /\ control' = control /\ dial' = dial
        /\ \A x \in Dials \ {d} : stream'[x] = stream[x]
        /\ loop'[k].next = None /\ \A q \in Keys \ {k} : loop'[q] = loop[q]
        /\ \A q \in Keys : loop'[q].conn = loop[q].conn
    BY <1>0, <1>5 DEF TakeSlot, Types, Loop
  <2>3. \A q \in Keys \ {k} : loop[q].next # d
    BY <1>0, <1>t, <2>1 DEF LoopOwn
  <2>4. DialConns'
    BY <1>0, <2>2 DEF DialConns
  <2>5. LoopOwn'
    BY <1>0, <1>t, <2>2, <2>3 DEF LoopOwn
  <2>6. WireOnce'
    BY <1>0, <1>t, <2>1, <2>2 DEF WireOnce, OnlyHere
  <2> QED
    BY <2>4, <2>5, <2>6 DEF MessageInv
<1>6. ASSUME NEW c \in Conns, ControlHandler(c) \/ BreakControl(c) PROVE MessageInv'
  BY <1>0, <1>6, SteadyOfConn, SteadyKeeps
<1>7. ASSUME NEW k \in Keys, LoseControl(k) \/ Crash(k) PROVE MessageInv'
  BY <1>0, <1>7, SteadyOfAgent, SteadyKeeps
<1>8. ASSUME NEW d \in Dials,
             \/ Reject(d)
             \/ DialHandler(d) /\ ~SendOpen(d)
             \/ HangUp(d) \/ DataHandler(d)
             \/ StreamFails(d) \/ SayHello(d) \/ EndBridge(d) \/ BreakData(d)
      PROVE  MessageInv'
  <2>1. Steady
    BY <1>0, <1>8, SteadyOfDial DEF DialHandler
  <2> QED
    BY <1>0, <2>1, SteadyKeeps
<1>9. CASE UNCHANGED vars
  <2>1. Steady
    BY <1>9 DEF vars, Steady
  <2> QED
    BY <1>0, <2>1, SteadyKeeps
<1>10. \A n \in 1..Cardinality(Dials) : n \in Nat
  OBVIOUS
<1> QED
  BY <1>1, <1>2, <1>3, <1>4, <1>5, <1>6, <1>7, <1>8, <1>9, <1>10 DEF Next, AgentLoop, DialHandler

-----------------------------------------------------------------------------
(* The agents' semaphores *)

\* SlotsCounted, with what its proof needs: the streams of an agent are finitely
\* many, no more than it has places, and each belongs to an agent.
SlotInv ==
  /\ slots \in [Keys -> 0..Concurrency]
  /\ \A k \in Keys : IsFiniteSet(StreamsOf(k)) /\ slots[k] = Cardinality(StreamsOf(k))
  /\ \A d \in Dials : stream[d] \in Running => dial[d].key \in Keys

\* A step in which no stream starts or ends.
LEMMA SlotsSame ==
  ASSUME SlotInv, slots' = slots,
         \A d \in Dials : /\ stream'[d] \in Running <=> stream[d] \in Running
                          /\ stream[d] \in Running => dial'[d].key = dial[d].key
  PROVE  SlotInv'
<1>1. \A k \in Keys : StreamsOf(k)' = StreamsOf(k)
  BY DEF StreamsOf
<1> QED
  BY <1>1 DEF SlotInv

\* A step in which the stream of d ends and gives its place back.
LEMMA SlotGivenBack ==
  ASSUME SlotInv, NEW d \in Dials, stream[d] \in Running, stream'[d] \notin Running,
         \A x \in Dials \ {d} : stream'[x] = stream[x],
         dial' = dial, slots' = [slots EXCEPT ![dial[d].key] = @ - 1]
  PROVE  SlotInv'
<1>0. PICK k \in Keys : k = dial[d].key
  BY DEF SlotInv
<1> DEFINE before == StreamsOf(k)
<1>1. k \in Keys /\ d \in before
  BY <1>0 DEF StreamsOf
<1>2. StreamsOf(k)' = before \ {d}
  BY <1>1 DEF StreamsOf
<1>3. \A q \in Keys \ {k} : StreamsOf(q)' = StreamsOf(q)
  BY <1>0 DEF StreamsOf
<1>4. IsFiniteSet(before) /\ slots[k] = Cardinality(before) /\ slots[k] \in 0..Concurrency
  BY <1>1 DEF SlotInv
<1>5. IsFiniteSet(before \ {d}) /\ Cardinality(before \ {d}) = Cardinality(before) - 1
  BY <1>1, <1>4, FS_RemoveElement
<1>6. Cardinality(before \ {d}) \in Nat
  BY <1>5, FS_CardinalityType
<1>7. slots'[k] = slots[k] - 1 /\ \A q \in Keys \ {k} : slots'[q] = slots[q]
  BY <1>0 DEF SlotInv
<1> HIDE DEF before
<1>8. slots'[k] \in 0..Concurrency
  BY <1>4, <1>5, <1>6, <1>7, ConstantsAssumption
<1>9. slots' \in [Keys -> 0..Concurrency]
  BY <1>0, <1>7, <1>8 DEF SlotInv
<1>10. \A q \in Keys : IsFiniteSet(StreamsOf(q))' /\ slots'[q] = Cardinality(StreamsOf(q))'
  <2>1. IsFiniteSet(StreamsOf(k))' /\ slots'[k] = Cardinality(StreamsOf(k))'
    BY <1>2, <1>4, <1>5, <1>7
  <2>2. ASSUME NEW q \in Keys \ {k}
        PROVE  IsFiniteSet(StreamsOf(q))' /\ slots'[q] = Cardinality(StreamsOf(q))'
    BY <1>3, <1>7 DEF SlotInv
  <2> QED
    BY <2>1, <2>2
<1>11. \A x \in Dials : stream'[x] \in Running => dial'[x].key \in Keys
  BY DEF SlotInv
<1> QED
  BY <1>9, <1>10, <1>11 DEF SlotInv

LEMMA SlotStep ==
  ASSUME TableInv, PendingInv, MessageInv, SlotInv, [Next]_vars
  PROVE  SlotInv'
<1>0. Types /\ DialConns /\ LoopOwn
  BY DEF TableInv, MessageInv
<1>1. ASSUME NEW c \in Conns, ControlHandler(c) \/ BreakControl(c) PROVE SlotInv'
  <2>1. stream' = stream /\ dial' = dial /\ slots' = slots
    BY <1>1 DEF ControlHandler, Register, Refuse, NoticeDisconnect, Unregister, BreakControl
  <2> QED
    BY <2>1, SlotsSame
<1>2. ASSUME NEW d \in Dials, NEW k \in Keys, LookupAgent(d, k) PROVE SlotInv'
  <2>1. /\ stream' = stream /\ slots' = slots /\ dial[d].pc = "idle"
        /\ \A x \in Dials \ {d} : dial'[x] = dial[x]
    BY <1>0, <1>2 DEF LookupAgent, Types
  <2>2. stream[d] \notin Running
    BY <2>1 DEF PendingInv, Unsent, Running
  <2> QED
    BY <2>1, <2>2, SlotsSame
<1>3. ASSUME NEW d \in Dials, Reject(d) \/ DialHandler(d) \/ HangUp(d) PROVE SlotInv'
  <2>1. stream' = stream /\ slots' = slots
    BY <1>3 DEF Reject, DialHandler, AddPending, SendOpen, SendFails, TakeConn, Timeout, Expire,
                Reply, HangUp
  <2>2. \A x \in Dials : dial'[x].key = dial[x].key
    <3>1. CASE SendOpen(d)
      BY <1>0, <3>1 DEF SendOpen, Types, Dial
    <3>2. CASE ~SendOpen(d)
      BY <1>0, <1>3, <3>2, SteadyOfDial DEF DialHandler, Steady
    <3> QED
      BY <3>1, <3>2
  <2> QED
    BY <2>1, <2>2, SlotsSame
<1>4. ASSUME NEW d \in Dials, DataHandler(d) \/ BreakData(d) PROVE SlotInv'
  <2>1. stream' = stream /\ slots' = slots /\ dial' = dial
    BY <1>4 DEF DataHandler, ClaimStream, RefuseStream, HandOver, Finalize, BreakData
  <2> QED
    BY <2>1, SlotsSame
<1>5. ASSUME NEW d \in Dials, SayHello(d) PROVE SlotInv'
  <2>1. /\ slots' = slots /\ dial' = dial /\ stream[d] = "start" /\ stream'[d] = "bridge"
        /\ \A x \in Dials \ {d} : stream'[x] = stream[x]
    BY <1>0, <1>5 DEF SayHello, Types
  <2> QED
    BY <2>1, SlotsSame DEF Running
<1>6. ASSUME NEW d \in Dials, StreamFails(d) \/ EndBridge(d) PROVE SlotInv'
  <2>1. /\ stream[d] \in Running /\ stream'[d] \notin Running /\ dial' = dial
        /\ \A x \in Dials \ {d} : stream'[x] = stream[x]
        /\ slots' = [slots EXCEPT ![dial[d].key] = @ - 1]
    BY <1>0, <1>6 DEF StreamFails, EndBridge, Types, Running
  <2> QED
    BY <2>1, SlotGivenBack
<1>7. ASSUME NEW k \in Keys, TakeSlot(k) PROVE SlotInv'
  <2> DEFINE d == loop[k].next
             before == StreamsOf(k)
  <2>1. d \in Dials /\ dial[d].key = k /\ stream[d] = "none"
    BY <1>0, <1>7, MessageTypes DEF TakeSlot, LoopOwn
  <2>2. /\ dial' = dial /\ stream'[d] = "start" /\ \A x \in Dials \ {d} : stream'[x] = stream[x]
        /\ slots'[k] = slots[k] + 1 /\ slots[k] < Concurrency
        /\ \A q \in Keys \ {k} : slots'[q] = slots[q]
        /\ DOMAIN slots' = Keys
    BY <1>0, <1>7, <2>1 DEF TakeSlot, Types, SlotInv
  <2>3. StreamsOf(k)' = before \cup {d} /\ d \notin before
    BY <2>1, <2>2 DEF StreamsOf, Running
  <2>4. \A q \in Keys \ {k} : StreamsOf(q)' = StreamsOf(q)
    BY <2>1, <2>2 DEF StreamsOf
  <2>5. IsFiniteSet(before) /\ slots[k] = Cardinality(before) /\ slots[k] \in 0..Concurrency
    BY DEF SlotInv
  <2>6. IsFiniteSet(before \cup {d}) /\ Cardinality(before \cup {d}) = Cardinality(before) + 1
    BY <2>3, <2>5, FS_AddElement
  <2> HIDE DEF before, d
  <2>7. slots'[k] \in 0..Concurrency
    BY <2>2, <2>5, ConstantsAssumption
  <2>8. slots' \in [Keys -> 0..Concurrency]
    <3>1. slots' = [slots EXCEPT ![k] = @ + 1]
      BY <1>7 DEF TakeSlot
    <3> QED
      BY <2>2, <2>7, <3>1 DEF SlotInv
  <2>9. \A q \in Keys : IsFiniteSet(StreamsOf(q))' /\ slots'[q] = Cardinality(StreamsOf(q))'
    BY <2>2, <2>3, <2>4, <2>5, <2>6 DEF SlotInv
  <2>10. \A x \in Dials : stream'[x] \in Running => dial'[x].key \in Keys
    BY <2>1, <2>2 DEF SlotInv
  <2> QED
    BY <2>8, <2>9, <2>10 DEF SlotInv
<1>8. ASSUME NEW k \in Keys, NEW n \in Nat, NEW c \in Conns,
             Connect(k, c) \/ ReadOpen(k, n) \/ LoseControl(k)
      PROVE  SlotInv'
  <2>1. stream' = stream /\ dial' = dial /\ slots' = slots
    BY <1>8 DEF Connect, ReadOpen, LoseControl
  <2> QED
    BY <2>1, SlotsSame
<1>9. ASSUME NEW k \in Keys, NEW n \in Nat, ReadOpen(k, n) \/ LoseControl(k)
      PROVE  SlotInv'
  <2>1. stream' = stream /\ dial' = dial /\ slots' = slots
    BY <1>9 DEF ReadOpen, LoseControl
  <2> QED
    BY <2>1, SlotsSame
<1>10. ASSUME NEW k \in Keys, Crash(k) PROVE SlotInv'
  <2>1. /\ dial' = dial
        /\ \A x \in Dials : stream'[x] = IF x \in StreamsOf(k) THEN "over" ELSE stream[x]
        /\ slots' = [slots EXCEPT ![k] = 0]
    BY <1>10 DEF Crash
  <2>2. StreamsOf(k)' = {}
    BY <2>1 DEF StreamsOf, Running
  <2>3. \A q \in Keys \ {k} : StreamsOf(q)' = StreamsOf(q)
    <3>1. \A x \in Dials : dial[x].key # k => stream'[x] = stream[x]
      BY <2>1 DEF StreamsOf
    <3> QED
      BY <2>1, <3>1 DEF StreamsOf
  <2>4. slots' \in [Keys -> 0..Concurrency] /\ slots'[k] = 0
        /\ \A q \in Keys \ {k} : slots'[q] = slots[q]
    BY <2>1, ConstantsAssumption DEF SlotInv
  <2>5. IsFiniteSet({}) /\ Cardinality({}) = 0
    BY FS_EmptySet
  <2>6. \A q \in Keys : IsFiniteSet(StreamsOf(q))' /\ slots'[q] = Cardinality(StreamsOf(q))'
    BY <2>2, <2>3, <2>4, <2>5 DEF SlotInv
  <2>7. \A x \in Dials : stream'[x] \in Running => dial'[x].key \in Keys
    BY <2>1 DEF SlotInv, Running
  <2> QED
    BY <2>4, <2>6, <2>7 DEF SlotInv
<1>11. CASE UNCHANGED vars
  BY <1>11, SlotsSame DEF vars
<1>12. \A n \in 1..Cardinality(Dials) : n \in Nat
  OBVIOUS
<1>13. 0 \in Nat
  OBVIOUS
<1> QED
  BY <1>1, <1>2, <1>3, <1>4, <1>5, <1>6, <1>7, <1>8, <1>9, <1>10, <1>11, <1>12, <1>13
  DEF Next, AgentLoop

RelayInv == TableInv /\ PendingInv /\ MessageInv /\ SlotInv /\ faults \in 0..MaxFaults

LEMMA FaultsStep ==
  ASSUME faults \in 0..MaxFaults, [Next]_vars
  PROVE  faults' \in 0..MaxFaults
<1> SUFFICES ASSUME ~Fault PROVE faults' = faults
  BY ConstantsAssumption DEF Fault
<1>1. ASSUME NEW c \in Conns, ControlHandler(c) \/ BreakControl(c) PROVE faults' = faults
  BY <1>1 DEF ControlHandler, Register, Refuse, NoticeDisconnect, Unregister, BreakControl
<1>2. ASSUME NEW d \in Dials,
             \/ Reject(d) \/ \E k \in Keys : LookupAgent(d, k)
             \/ DialHandler(d) \/ HangUp(d) \/ DataHandler(d)
             \/ StreamFails(d) \/ SayHello(d) \/ EndBridge(d) \/ BreakData(d)
      PROVE  faults' = faults
  BY <1>2, SMTT(30) DEF Reject, LookupAgent, DialHandler, AddPending, SendOpen, SendFails, TakeConn, Timeout,
              Expire, Reply, HangUp, DataHandler, ClaimStream, RefuseStream, HandOver, Finalize,
              StreamFails, SayHello, EndBridge, BreakData
<1>3. ASSUME NEW k \in Keys, AgentLoop(k) \/ Crash(k) PROVE faults' = faults
  BY <1>3, ZenonT(30) DEF AgentLoop, Connect, ReadOpen, TakeSlot, LoseControl, Crash
<1>4. CASE UNCHANGED vars
  BY <1>4 DEF vars
<1> QED
  BY <1>1, <1>2, <1>3, <1>4 DEF Next

LEMMA RelayInvInit == Init => RelayInv
<1> SUFFICES ASSUME Init PROVE RelayInv
  OBVIOUS
<1>1. /\ pending = {} /\ faults = 0
      /\ \A c \in Conns : control[c].wire = <<>>
      /\ \A d \in Dials : /\ data[d].at = "none" /\ stream[d] = "none"
                          /\ dial[d].conn = None /\ dial[d].pc = "idle"
      /\ \A k \in Keys : loop[k].next = None /\ loop[k].conn = None /\ slots[k] = 0
      /\ slots = [k \in Keys |-> 0]
  BY DEF Init
<1>2. TableInv
  BY TypesInit DEF Init, TableInv, TableCurrent
<1>3. PendingInv
  BY <1>1, ConstantsAssumption DEF PendingInv, PendingOwned, Unsent
<1>4. MessageInv
  BY <1>1 DEF MessageInv, DialConns, WireOnce, LoopOwn
<1>5. SlotInv
  <2>1. \A k \in Keys : StreamsOf(k) = {}
    BY <1>1 DEF StreamsOf, Running
  <2>2. slots \in [Keys -> 0..Concurrency]
    BY <1>1, ConstantsAssumption
  <2> QED
    BY <1>1, <2>1, <2>2, FS_EmptySet DEF SlotInv, Running
<1>6. faults \in 0..MaxFaults
  BY <1>1, ConstantsAssumption
<1> QED
  BY <1>2, <1>3, <1>4, <1>5, <1>6 DEF RelayInv

LEMMA RelayInvStep == RelayInv /\ [Next]_vars => RelayInv'
  BY TableStep, PendingStep, MessageStep, SlotStep, FaultsStep DEF RelayInv, TableInv

\* Control connections, dials, streams and semaphores stay well typed; in
\* particular an agent's semaphore is never taken more often than its size nor
\* given back more often than taken.
THEOREM TypeCorrect == Spec => []TypeOK
<1>1. RelayInv => TypeOK
  BY DEF RelayInv, TableInv, Types, SlotInv, TypeOK
<1> QED
  BY <1>1, RelayInvInit, RelayInvStep, PTL DEF Spec

\* However streams start, fail, end and crash, an agent's semaphore counts the
\* streams that run.
THEOREM SlotsAlwaysCounted == Spec => []SlotsCounted
<1>1. RelayInv => SlotsCounted
  BY DEF RelayInv, SlotInv, SlotsCounted
<1> QED
  BY <1>1, RelayInvInit, RelayInvStep, PTL DEF Spec

-----------------------------------------------------------------------------
(* Refinement of Rendezvous *)

\* No data connection before its stream says hello, and a dial that has taken one
\* holds it.
DataInv ==
  \A d \in Dials : /\ stream[d] \in {"none", "start"} => data[d].at = "none"
                   /\ dial[d].pc \in {"reply", "stream"} => data[d].at = "taken"

LEMMA DataStep ==
  ASSUME Types, LoopOwn, DataInv, [Next]_vars
  PROVE  DataInv'
<1> USE DEF Types
<1>1. ASSUME \A x \in Dials : /\ dial'[x].pc = dial[x].pc \/ dial'[x].pc \notin {"reply", "stream"}
                              /\ data'[x].at = data[x].at
                              /\ stream'[x] \in {"none", "start"} => stream[x] \in {"none", "start"}
      PROVE  DataInv'
  BY <1>1 DEF DataInv
<1>2. ASSUME NEW c \in Conns, ControlHandler(c) \/ BreakControl(c) PROVE DataInv'
  <2>1. dial' = dial /\ data' = data /\ stream' = stream
    BY <1>2 DEF ControlHandler, Register, Refuse, NoticeDisconnect, Unregister, BreakControl
  <2> QED
    BY <2>1, <1>1
<1>3. ASSUME NEW d \in Dials,
             \/ Reject(d) \/ \E k \in Keys : LookupAgent(d, k)
             \/ AddPending(d) \/ SendOpen(d) \/ SendFails(d) \/ Timeout(d) \/ Expire(d)
      PROVE  DataInv'
  <2>1. data' = data /\ stream' = stream /\ \A x \in Dials \ {d} : dial'[x] = dial[x]
    BY <1>3 DEF Reject, LookupAgent, AddPending, SendOpen, SendFails, Timeout, Expire
  <2>2. dial'[d].pc \notin {"reply", "stream"}
    BY <1>3 DEF Reject, LookupAgent, AddPending, SendOpen, SendFails, Timeout, Expire, Dial
  <2> QED
    BY <1>1, <2>1, <2>2
<1>4. ASSUME NEW d \in Dials, TakeConn(d) \/ Reply(d) \/ HangUp(d) \/ DataHandler(d)
      PROVE  DataInv'
  <2>1. stream' = stream /\ \A x \in Dials \ {d} : dial'[x] = dial[x] /\ data'[x] = data[x]
    BY <1>4 DEF TakeConn, Reply, HangUp, DataHandler, ClaimStream, RefuseStream, HandOver, Finalize
  <2>2. /\ data[d].at # "none" \/ Reply(d) \/ HangUp(d)
        /\ dial'[d].pc \in {"reply", "stream"} =>
             \/ data'[d].at = "taken"
             \/ dial[d].pc \in {"reply", "stream"} /\ data'[d].at = data[d].at
             \/ dial[d].pc \in {"reply", "stream"} /\ data[d].at # "taken"
        /\ Reply(d) => data' = data
        /\ Reply(d) \/ HangUp(d) => dial[d].pc \in {"reply", "stream"}
    <3>1. CASE TakeConn(d)
      BY <3>1 DEF TakeConn, Reply, HangUp, Data
    <3>2. CASE Reply(d) \/ HangUp(d)
      BY <3>2 DEF Reply, HangUp, Dial
    <3>3. CASE DataHandler(d)
      BY <3>3 DEF DataHandler, ClaimStream, RefuseStream, HandOver, Finalize, Reply, HangUp
    <3> QED
      BY <1>4, <3>1, <3>2, <3>3
  <2>3. stream[d] \notin {"none", "start"} \/ (Reply(d) /\ data' = data)
    BY <2>2 DEF DataInv
  <2>4. dial'[d].pc \in {"reply", "stream"} => data'[d].at = "taken"
    BY <2>2 DEF DataInv
  <2> QED
    BY <2>1, <2>3, <2>4 DEF DataInv
<1>5. ASSUME NEW d \in Dials, SayHello(d) PROVE DataInv'
  <2>1. /\ dial' = dial /\ stream[d] = "start" /\ stream'[d] = "bridge"
        /\ \A x \in Dials \ {d} : stream'[x] = stream[x] /\ data'[x] = data[x]
    BY <1>5 DEF SayHello
  <2> QED
    BY <2>1 DEF DataInv
<1>6. ASSUME NEW d \in Dials, StreamFails(d) \/ EndBridge(d) \/ BreakData(d) PROVE DataInv'
  <2>1. /\ dial' = dial
        /\ \A x \in Dials : stream'[x] \in {"none", "start"} => stream[x] \in {"none", "start"}
    BY <1>6 DEF StreamFails, EndBridge, BreakData
  <2>2. \A x \in Dials : data'[x].at = data[x].at
    <3>1. CASE StreamFails(d)
      BY <3>1 DEF StreamFails
    <3>2. CASE EndBridge(d)
      BY <3>2 DEF EndBridge, Data
    <3>3. CASE BreakData(d)
      BY <3>3 DEF BreakData, Data
    <3> QED
      BY <1>6, <3>1, <3>2, <3>3
  <2> QED
    BY <1>1, <2>1, <2>2
<1>7. ASSUME NEW k \in Keys, AgentLoop(k) PROVE DataInv'
  <2>1. dial' = dial /\ data' = data
    BY <1>7 DEF AgentLoop, Connect, ReadOpen, TakeSlot, LoseControl
  <2>2. CASE TakeSlot(k)
    <3>1. stream[loop[k].next] = "none"
      BY <2>2 DEF TakeSlot, LoopOwn
    <3>2. stream' = [stream EXCEPT ![loop[k].next] = "start"]
      BY <2>2 DEF TakeSlot
    <3> QED
      BY <1>1, <2>1, <3>1, <3>2
  <2>3. CASE ~TakeSlot(k)
    BY <1>1, <1>7, <2>1, <2>3 DEF AgentLoop, Connect, ReadOpen, LoseControl
  <2> QED
    BY <2>2, <2>3
<1>8. ASSUME NEW k \in Keys, Crash(k) PROVE DataInv'
  <2>1. dial' = dial /\ \A x \in Dials : stream'[x] = stream[x] \/ stream'[x] = "over"
    BY <1>8 DEF Crash
  <2>2. \A x \in Dials : data'[x].at = data[x].at
    BY <1>8 DEF Crash, Data
  <2> QED
    BY <1>1, <2>1, <2>2
<1>9. CASE UNCHANGED vars
  BY <1>1, <1>9 DEF vars
<1> QED
  BY <1>2, <1>3, <1>4, <1>5, <1>6, <1>7, <1>8, <1>9 DEF Next, DialHandler

LEMMA CallerCases ==
  ASSUME Types, NEW d \in Dials
  PROVE  /\ dial[d].pc = "idle" => CallerOf(d) = "idle"
         /\ dial[d].pc \in {"register", "send", "wait", "expired"} => CallerOf(d) = "asked"
         /\ dial[d].pc \in {"reply", "stream"} => CallerOf(d) = "connected"
         /\ dial[d].pc = "done" => CallerOf(d) = "over"
         /\ data[d].at = "none" => FarOf(d) = "none"
         /\ data[d].at \in {"hello", "claimed", "handed"} => FarOf(d) = "offered"
         /\ data[d].at = "taken" => FarOf(d) = "joined"
         /\ data[d].at = "closed" => FarOf(d) = "closed"
  BY DEF CallerOf, FarOf

LEMMA CallerCasesNext ==
  ASSUME Types', NEW d \in Dials
  PROVE  /\ dial'[d].pc = "idle" => CallerOf(d)' = "idle"
         /\ dial'[d].pc \in {"register", "send", "wait", "expired"} => CallerOf(d)' = "asked"
         /\ dial'[d].pc \in {"reply", "stream"} => CallerOf(d)' = "connected"
         /\ dial'[d].pc = "done" => CallerOf(d)' = "over"
         /\ data'[d].at = "none" => FarOf(d)' = "none"
         /\ data'[d].at \in {"hello", "claimed", "handed"} => FarOf(d)' = "offered"
         /\ data'[d].at = "taken" => FarOf(d)' = "joined"
         /\ data'[d].at = "closed" => FarOf(d)' = "closed"
  BY DEF CallerOf, FarOf

\* A step that moves one dial and its data connection, or neither, for Rendezvous.
LEMMA StutterMapped ==
  ASSUME \A x \in Dials : CallerOf(x)' = CallerOf(x) /\ FarOf(x)' = FarOf(x)
  PROVE  UNCHANGED R!vars
  BY DEF R!vars

LEMMA MoveMapped ==
  ASSUME NEW d \in Dials,
         \A x \in Dials \ {d} : CallerOf(x)' = CallerOf(x) /\ FarOf(x)' = FarOf(x),
         \/ CallerOf(d) = "idle" /\ CallerOf(d)' = "asked" /\ FarOf(d)' = FarOf(d)
         \/ CallerOf(d) \in {"idle", "asked"} /\ CallerOf(d)' = "over" /\ FarOf(d)' = FarOf(d)
         \/ /\ CallerOf(d) \in {"asked", "over"} /\ FarOf(d) = "none"
            /\ CallerOf(d)' = CallerOf(d) /\ FarOf(d)' = "offered"
         \/ /\ CallerOf(d) = "asked" /\ FarOf(d) = "offered"
            /\ CallerOf(d)' = "connected" /\ FarOf(d)' = "joined"
         \/ FarOf(d) = "offered" /\ CallerOf(d)' = CallerOf(d) /\ FarOf(d)' = "closed"
         \/ /\ CallerOf(d) = "connected" /\ FarOf(d) = "joined"
            /\ CallerOf(d)' = "over" /\ FarOf(d)' = "closed"
  PROVE  R!Next
<1> DEFINE C == [x \in Dials |-> CallerOf(x)]
           F == [x \in Dials |-> FarOf(x)]
<1>1. C[d] = CallerOf(d) /\ F[d] = FarOf(d)
  OBVIOUS
<1>2. /\ C' = [C EXCEPT ![d] = CallerOf(d)'] /\ F' = [F EXCEPT ![d] = FarOf(d)']
      /\ CallerOf(d)' = CallerOf(d) => C' = C
      /\ FarOf(d)' = FarOf(d) => F' = F
  OBVIOUS
<1>3. R!Ask(d) \/ R!Refuse(d) \/ R!Offer(d) \/ R!Join(d) \/ R!Drop(d) \/ R!Close(d)
  BY <1>1, <1>2 DEF R!Ask, R!Refuse, R!Offer, R!Join, R!Drop, R!Close
<1> QED
  BY <1>3 DEF R!Next

\* Every step of the relay is a step of Rendezvous or changes nothing of it.
LEMMA StepMapped ==
  ASSUME Types, PendingInv, DataInv, [Next]_vars, Types'
  PROVE  [R!Next]_(R!vars)
<1>1. ASSUME \A x \in Dials : dial'[x].pc = dial[x].pc /\ data'[x].at = data[x].at
      PROVE  UNCHANGED R!vars
  BY <1>1, StutterMapped DEF CallerOf, FarOf
\* Only dial d or its data connection moves.
<1>2. ASSUME NEW d \in Dials, \A x \in Dials \ {d} : dial'[x] = dial[x] /\ data'[x] = data[x]
      PROVE  \A x \in Dials \ {d} : CallerOf(x)' = CallerOf(x) /\ FarOf(x)' = FarOf(x)
  BY <1>2 DEF CallerOf, FarOf
<1>3. ASSUME NEW d \in Dials, data'[d] = data[d] PROVE FarOf(d)' = FarOf(d)
  BY <1>3 DEF FarOf
<1>4. ASSUME NEW d \in Dials, dial'[d] = dial[d] PROVE CallerOf(d)' = CallerOf(d)
  BY <1>4 DEF CallerOf
<1>5. ASSUME NEW c \in Conns, ControlHandler(c) \/ BreakControl(c) PROVE UNCHANGED R!vars
  <2>1. dial' = dial /\ data' = data
    BY <1>5 DEF ControlHandler, Register, Refuse, NoticeDisconnect, Unregister, BreakControl
  <2> QED
    BY <1>1, <2>1
<1>6. ASSUME NEW d \in Dials, NEW k \in Keys, LookupAgent(d, k) PROVE R!Next
  <2>1. /\ dial[d].pc = "idle" /\ dial'[d].pc = "register" /\ data' = data
        /\ \A x \in Dials \ {d} : dial'[x] = dial[x]
    BY <1>6 DEF LookupAgent, Types
  <2>2. CallerOf(d) = "idle" /\ CallerOf(d)' = "asked"
    BY <2>1, CallerCases, CallerCasesNext
  <2> QED
    BY <1>2, <1>3, <2>1, <2>2, MoveMapped
<1>7. ASSUME NEW d \in Dials, Reject(d) \/ SendFails(d) \/ Expire(d) PROVE R!Next
  <2>1. /\ dial[d].pc \in {"idle", "send", "expired"} /\ dial'[d].pc = "done" /\ data' = data
        /\ \A x \in Dials \ {d} : dial'[x] = dial[x]
    BY <1>7 DEF Reject, SendFails, Expire, Types, Dial
  <2>2. CallerOf(d) \in {"idle", "asked"} /\ CallerOf(d)' = "over"
    BY <2>1, CallerCases, CallerCasesNext
  <2> QED
    BY <1>2, <1>3, <2>1, <2>2, MoveMapped
<1>8. ASSUME NEW d \in Dials, AddPending(d) \/ SendOpen(d) \/ Timeout(d) \/ Reply(d)
      PROVE  UNCHANGED R!vars
  <2>1. /\ data' = data /\ \A x \in Dials \ {d} : dial'[x] = dial[x]
        /\ \/ /\ dial[d].pc \in {"register", "send", "wait"}
              /\ dial'[d].pc \in {"send", "wait", "expired"}
           \/ dial[d].pc = "reply" /\ dial'[d].pc = "stream"
    BY <1>8 DEF AddPending, SendOpen, Timeout, Reply, Types, Dial
  <2>2. CallerOf(d)' = CallerOf(d)
    BY <2>1, CallerCases, CallerCasesNext
  <2>3. \A x \in Dials : CallerOf(x)' = CallerOf(x) /\ FarOf(x)' = FarOf(x)
    BY <1>2, <1>3, <2>1, <2>2
  <2> QED
    BY <2>3, StutterMapped
<1>9. ASSUME NEW d \in Dials, TakeConn(d) PROVE R!Next
  <2>1. /\ dial[d].pc = "wait" /\ dial'[d].pc = "reply"
        /\ data[d].at = "handed" /\ data'[d].at = "taken"
        /\ \A x \in Dials \ {d} : dial'[x] = dial[x] /\ data'[x] = data[x]
    BY <1>9 DEF TakeConn, Types, Dial, Data
  <2>2. /\ CallerOf(d) = "asked" /\ CallerOf(d)' = "connected"
        /\ FarOf(d) = "offered" /\ FarOf(d)' = "joined"
    BY <2>1, CallerCases, CallerCasesNext
  <2> QED
    BY <1>2, <2>1, <2>2, MoveMapped
<1>10. ASSUME NEW d \in Dials, HangUp(d) PROVE R!Next
  <2>1. /\ dial[d].pc \in {"reply", "stream"} /\ dial'[d].pc = "done"
        /\ data[d].at = "taken" /\ data'[d].at = "closed"
        /\ \A x \in Dials \ {d} : dial'[x] = dial[x] /\ data'[x] = data[x]
    BY <1>10 DEF HangUp, DataInv, Types, Dial, Data
  <2>2. /\ CallerOf(d) = "connected" /\ CallerOf(d)' = "over"
        /\ FarOf(d) = "joined" /\ FarOf(d)' = "closed"
    BY <2>1, CallerCases, CallerCasesNext
  <2> QED
    BY <1>2, <2>1, <2>2, MoveMapped
<1>11. ASSUME NEW d \in Dials, ClaimStream(d) \/ HandOver(d) PROVE UNCHANGED R!vars
  <2>1. /\ dial' = dial /\ \A x \in Dials \ {d} : data'[x] = data[x]
        /\ data[d].at \in {"hello", "claimed"} /\ data'[d].at \in {"claimed", "handed"}
    BY <1>11 DEF ClaimStream, HandOver, Types, Data
  <2>2. FarOf(d)' = FarOf(d)
    BY <2>1, CallerCases, CallerCasesNext
  <2>3. \A x \in Dials : CallerOf(x)' = CallerOf(x) /\ FarOf(x)' = FarOf(x)
    BY <1>2, <1>4, <2>1, <2>2
  <2> QED
    BY <2>3, StutterMapped
<1>12. ASSUME NEW d \in Dials, RefuseStream(d) \/ Finalize(d) PROVE R!Next
  <2>1. /\ dial' = dial /\ \A x \in Dials \ {d} : data'[x] = data[x]
        /\ data[d].at \in {"hello", "handed"} /\ data'[d].at = "closed"
    BY <1>12 DEF RefuseStream, Finalize, Types, Data
  <2>2. FarOf(d) = "offered" /\ FarOf(d)' = "closed" /\ CallerOf(d)' = CallerOf(d)
    BY <1>4, <2>1, CallerCases, CallerCasesNext
  <2> QED
    BY <1>2, <2>1, <2>2, MoveMapped
<1>13. ASSUME NEW d \in Dials, SayHello(d) PROVE R!Next
  <2>1. /\ dial' = dial /\ \A x \in Dials \ {d} : data'[x] = data[x]
        /\ stream[d] = "start" /\ data'[d].at = "hello"
    BY <1>13 DEF SayHello, Types
  <2>2. data[d].at = "none" /\ dial[d].pc \notin {"reply", "stream"} /\ dial[d].pc # "idle"
    BY <2>1 DEF DataInv, PendingInv, Unsent
  <2>3. dial[d].pc \in {"register", "send", "wait", "expired", "done"}
    BY <2>2 DEF Types, Dial
  <2>4. /\ CallerOf(d) \in {"asked", "over"} /\ FarOf(d) = "none"
        /\ CallerOf(d)' = CallerOf(d) /\ FarOf(d)' = "offered"
    BY <1>4, <2>1, <2>2, <2>3, CallerCases, CallerCasesNext
  <2> QED
    BY <1>2, <2>1, <2>4, MoveMapped
<1>14. ASSUME NEW d \in Dials, StreamFails(d) \/ EndBridge(d) \/ BreakData(d)
       PROVE  UNCHANGED R!vars
  <2>1. dial' = dial
    BY <1>14 DEF StreamFails, EndBridge, BreakData
  <2>2. \A x \in Dials : data'[x].at = data[x].at
    <3>1. CASE StreamFails(d)
      BY <3>1 DEF StreamFails
    <3>2. CASE EndBridge(d)
      BY <3>2 DEF EndBridge, Types, Data
    <3>3. CASE BreakData(d)
      BY <3>3 DEF BreakData, Types, Data
    <3> QED
      BY <1>14, <3>1, <3>2, <3>3
  <2> QED
    BY <1>1, <2>1, <2>2
<1>15. ASSUME NEW k \in Keys, AgentLoop(k) PROVE UNCHANGED R!vars
  <2>1. dial' = dial /\ data' = data
    BY <1>15 DEF AgentLoop, Connect, ReadOpen, TakeSlot, LoseControl
  <2> QED
    BY <1>1, <2>1
<1>16. ASSUME NEW k \in Keys, Crash(k) PROVE UNCHANGED R!vars
  <2>1. dial' = dial
    BY <1>16 DEF Crash
  <2>2. ASSUME NEW x \in Dials PROVE data'[x].at = data[x].at
    <3>1. data'[x] = data[x] \/ data'[x] = [data[x] EXCEPT !.up = FALSE]
      BY <1>16 DEF Crash
    <3>2. data[x] \in Data
      BY DEF Types
    <3> QED
      BY <3>1, <3>2 DEF Data
  <2> QED
    BY <1>1, <2>1, <2>2
<1>17. CASE UNCHANGED vars
  BY <1>1, <1>17 DEF vars
<1> QED
  BY <1>5, <1>6, <1>7, <1>8, <1>9, <1>10, <1>11, <1>12, <1>13, <1>14, <1>15, <1>16, <1>17
  DEF Next, DialHandler, DataHandler

\* The relay implements the safety part of Rendezvous, for any number of desktops,
\* connections and dials: a client is joined to at most one connection, that was
\* offered for its dial, and the two ends are closed together.
THEOREM RelayImplementsRendezvous == Spec => R!Safety
<1>1. Init => R!Init
  <2> SUFFICES ASSUME Init PROVE R!Init
    OBVIOUS
  <2>1. Types /\ \A d \in Dials : dial[d].pc = "idle" /\ data[d].at = "none"
    BY TypesInit DEF Init
  <2>2. \A d \in Dials : CallerOf(d) = "idle" /\ FarOf(d) = "none"
    BY <2>1, CallerCases
  <2> QED
    BY <2>2 DEF R!Init
<1>2. Init => DataInv
  BY DEF Init, DataInv
<1>3. RelayInv /\ DataInv /\ [Next]_vars => DataInv'
  BY DataStep DEF RelayInv, TableInv, MessageInv
<1>4. RelayInv /\ RelayInv' /\ DataInv /\ [Next]_vars => [R!Next]_(R!vars)
  BY StepMapped DEF RelayInv, TableInv
<1> QED
  BY <1>1, <1>2, <1>3, <1>4, RelayInvInit, RelayInvStep, PTL DEF Spec, R!Safety

=============================================================================
