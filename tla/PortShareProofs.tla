--------------------------- MODULE PortShareProofs ---------------------------
(***************************************************************************)
(* Proofs about PortShare for any shares, ports, time to live and number   *)
(* of events: its types, that a settled share has its Service until its    *)
(* end and not beyond, and that its status says so.                        *)
(*                                                                         *)
(* A share is settled when nothing of it is under way, so the argument is  *)
(* backwards from the end of its last pass.  CacheInv: a cache that lags   *)
(* has an event to come.  PassInv: the pass of a share for which nothing   *)
(* else is to come worked from what the API server has.  FaultInv: an      *)
(* error that is dropped is noticed, as the status that is written next is *)
(* an event.  DoneInv: hence what such a pass leaves is right, and stays   *)
(* so until something is to come again.  TimesInv: no timer lies beyond    *)
(* the end of its share, so a share that has ended is not waiting for one. *)
(***************************************************************************)
EXTENDS PortShare, TLAPS

-----------------------------------------------------------------------------
(* Steps and what they do *)

\* What a status patch does, `copy' being the pass's copy after it.
Patched(p, from, to, copy) ==
  \/ /\ from = to /\ copy = to
     /\ UNCHANGED <<share, shareEvents, faults>>
  \/ /\ from # to /\ share[p] # None
     /\ share' = [share EXCEPT ![p] = Merge(share[p], from, to)]
     /\ shareEvents' = shareEvents \cup IF Merge(share[p], from, to) = share[p] THEN {} ELSE {p}
     /\ copy = share'[p]
     /\ faults' = faults
  \/ /\ from # to /\ copy = to
     /\ UNCHANGED <<share, shareEvents>>
     /\ \/ share[p] = None /\ faults' = faults
        \/ share[p] # None /\ Fault

LEMMA StartStep ==
  ASSUME NEW p \in Shares, Start(p), shareSeen[p] # None
  PROVE  \E copy : /\ Patched(p, shareSeen[p], Condition(shareSeen[p], "Valid"), copy)
                   /\ pass' = [at |-> "desktop", p |-> p, ps |-> copy, closing |-> FALSE]
  BY DEF Start, Patch, Step, SetShare, Patched

LEMMA DesktopNotFoundStep ==
  ASSUME DesktopNotFound
  PROVE  /\ pass' = Idle
         /\ \E copy : Patched(pass.p, pass.ps, Condition(pass.ps, "DesktopNotFound"), copy)
  BY DEF DesktopNotFound, Patch, SetShare, Patched

LEMMA ExpiryStep ==
  ASSUME Expiry
  PROVE  \E copy :
           /\ Patched(pass.p, pass.ps, [pass.ps EXCEPT !.exp = Desired(pass.ps)], copy)
           /\ pass' = [at |-> "act", p |-> pass.p, ps |-> copy, closing |-> Past(Desired(pass.ps))]
  BY DEF Expiry, Patch, Step, SetShare, Patched

\* The status that a pass records at its end.
Final(ps, closing) ==
  [ps EXCEPT !.active = ~closing, !.svc = IF closing THEN NoPort ELSE ps.port]

LEMMA RecordStep ==
  ASSUME Record
  PROVE  /\ pass' = Idle
         /\ \E copy : Patched(pass.p, pass.ps, Final(pass.ps, pass.closing), copy)
  BY DEF Record, Patch, SetShare, Patched, Final

\* Two copies of one share with the same spec: patches of the status leave it alone.
SameSpec(a, b) ==
  a.uid = b.uid /\ a.gen = b.gen /\ a.port = b.port /\ a.ttl = b.ttl /\ a.start = b.start

\* A patch of the status keeps the spec that the API server has.
LEMMA MergeFacts ==
  ASSUME NEW old \in PortShares, NEW from \in PortShares, NEW to \in PortShares,
         SameSpec(from, to)
  PROVE  /\ Merge(old, from, to) \in PortShares
         /\ SameSpec(Merge(old, from, to), old)
         /\ to.exp # from.exp => Merge(old, from, to).exp = to.exp
         /\ Merge(old, from, to).active = IF to.active = from.active THEN old.active ELSE to.active
<1>1. Merge(old, from, to) \in PortShares
  BY DEF Merge, Carried, PortShares
<1>2. SameSpec(Merge(old, from, to), old)
  BY DEF Merge, Carried, PortShares, SameSpec
<1>3. to.exp # from.exp => Merge(old, from, to).exp = to.exp
  BY DEF Merge, Carried, PortShares
<1>4. Merge(old, from, to).active = IF to.active = from.active THEN old.active ELSE to.active
  BY DEF Merge, Carried, PortShares
<1> QED
  BY <1>1, <1>2, <1>3, <1>4

\* A patch computed from what the API server has gives what it asks for.
LEMMA MergeOwn ==
  ASSUME NEW from \in PortShares, NEW to \in PortShares
  PROVE  Merge(from, from, to) = to
  BY DEF Merge, Carried, PortShares

LEMMA NoShare == None \notin PortShares /\ None \notin Owners
  BY DEF None, PortShares, Owners

\* A patch of the status: what is written, what the copy becomes, and that a share
\* which is not written is one the patch had nothing to tell or whose patch failed.
LEMMA PatchFacts ==
  ASSUME TypeOK, NEW p \in Shares, NEW from \in PortShares, NEW to \in PortShares, NEW copy,
         SameSpec(from, to), Patched(p, from, to, copy)
  PROVE  /\ copy \in PortShares
         /\ share' \in [Shares -> PortShares \cup {None}]
         /\ \A q \in Shares : q # p => share'[q] = share[q]
         /\ share[p] = None => share'[p] = None
         /\ share[p] # None => share'[p] # None /\ SameSpec(share'[p], share[p])
         /\ shareEvents \subseteq shareEvents' /\ shareEvents' \subseteq shareEvents \cup {p}
         /\ p \notin shareEvents' =>
              /\ share' = share
              /\ \/ copy = to /\ (share[p] # None /\ faults' = faults => from = to)
                 \/ copy = share[p]
         /\ SameSpec(copy, from) \/ (share[p] # None /\ SameSpec(copy, share[p]))
         /\ faults' \in 0..MaxEvents /\ faults' \in {faults, faults + 1}
         /\ to.exp # from.exp => copy.exp = to.exp
         /\ from = to => copy = to
         /\ share[p] = from /\ faults' = faults => share'[p] = to
<1> DEFINE m == Merge(share[p], from, to)
<1>0. share \in [Shares -> PortShares \cup {None}] /\ faults \in 0..MaxEvents
      /\ edits \in 0..MaxEvents /\ MaxEvents \in Nat
  BY ConstantsAssumption DEF TypeOK
<1>1. CASE from = to /\ copy = to /\ UNCHANGED <<share, shareEvents, faults>>
  <2>1. SameSpec(copy, from)
    BY <1>1 DEF SameSpec
  <2> QED
    BY <1>0, <1>1, <2>1 DEF SameSpec
<1>2. CASE /\ from # to /\ share[p] # None
           /\ share' = [share EXCEPT ![p] = m]
           /\ shareEvents' = shareEvents \cup IF m = share[p] THEN {} ELSE {p}
           /\ copy = share'[p]
           /\ faults' = faults
  <2>1. share[p] \in PortShares
    BY <1>0, <1>2
  <2>2. m \in PortShares /\ SameSpec(m, share[p]) /\ (to.exp # from.exp => m.exp = to.exp)
    BY <2>1, MergeFacts
  <2>5. share[p] = from => m = to
    BY MergeOwn
  <2> HIDE DEF m
  <2>3. share'[p] = m /\ copy = m
    BY <1>0, <1>2
  <2>4. m # None
    BY <2>2, NoShare
  <2> QED
    BY <1>0, <1>2, <2>2, <2>3, <2>4, <2>5
<1>3. CASE /\ from # to /\ copy = to
           /\ UNCHANGED <<share, shareEvents>>
           /\ \/ share[p] = None /\ faults' = faults
              \/ share[p] # None /\ Fault
  <2>1. SameSpec(copy, from)
    BY <1>3 DEF SameSpec
  <2>2. faults' \in 0..MaxEvents /\ faults' \in {faults, faults + 1}
    BY <1>0, <1>3 DEF Fault
  <2>3. share[p] # None => faults' # faults
    BY <1>0, <1>3 DEF Fault
  <2> QED
    BY <1>0, <1>3, <2>1, <2>2, <2>3, NoShare DEF SameSpec
<1> QED
  BY <1>1, <1>2, <1>3 DEF Patched

\* How a patch changes status.active.
LEMMA PatchActive ==
  ASSUME TypeOK, NEW p \in Shares, NEW from \in PortShares, NEW to \in PortShares, NEW copy,
         SameSpec(from, to), Patched(p, from, to, copy), share[p] # None, faults' = faults
  PROVE  /\ share'[p].active = IF to.active = from.active THEN share[p].active ELSE to.active
         /\ copy.active = share'[p].active \/ (from = to /\ copy.active = from.active)
<1> DEFINE m == Merge(share[p], from, to)
<1>0. share \in [Shares -> PortShares \cup {None}] /\ faults \in 0..MaxEvents
      /\ share[p] \in PortShares
  BY DEF TypeOK
<1>1. CASE from = to /\ copy = to /\ UNCHANGED <<share, shareEvents, faults>>
  BY <1>1
<1>2. CASE share' = [share EXCEPT ![p] = m] /\ copy = share'[p]
  <2>1. m.active = IF to.active = from.active THEN share[p].active ELSE to.active
    BY <1>0, MergeFacts
  <2> HIDE DEF m
  <2> QED
    BY <1>0, <1>2, <2>1
<1>3. ~Fault
  BY <1>0 DEF Fault
<1> QED
  BY <1>1, <1>2, <1>3 DEF Patched

\* The copies that passes make of a share.
LEMMA CopyFacts ==
  ASSUME NEW ps \in PortShares
  PROVE  /\ Desired(ps) \in Nat
         /\ \A reason \in Conditions : /\ Condition(ps, reason) \in PortShares
                                       /\ SameSpec(ps, Condition(ps, reason))
                                       /\ Condition(ps, reason).active = ps.active
         /\ [ps EXCEPT !.exp = Desired(ps)] \in PortShares
         /\ SameSpec(ps, [ps EXCEPT !.exp = Desired(ps)])
         /\ \A closing \in BOOLEAN : /\ Final(ps, closing) \in PortShares
                                     /\ SameSpec(ps, Final(ps, closing))
                                     /\ Final(ps, closing).exp = ps.exp
<1>1. Desired(ps) \in Nat
  BY ConstantsAssumption DEF Desired, PortShares, TTLs
<1>2. ASSUME NEW reason \in Conditions
      PROVE  /\ Condition(ps, reason) \in PortShares
             /\ SameSpec(ps, Condition(ps, reason))
             /\ Condition(ps, reason).active = ps.active
  <2>1. ps.gen \in 0..(MaxEvents + 1)
    BY ConstantsAssumption DEF PortShares
  <2> QED
    BY <2>1 DEF Condition, PortShares, SameSpec
<1>3. [ps EXCEPT !.exp = Desired(ps)] \in PortShares
  BY <1>1 DEF PortShares
<1>4. SameSpec(ps, [ps EXCEPT !.exp = Desired(ps)])
  BY DEF PortShares, SameSpec
<1>5. ASSUME NEW closing \in BOOLEAN
      PROVE  /\ Final(ps, closing) \in PortShares
             /\ SameSpec(ps, Final(ps, closing))
             /\ Final(ps, closing).exp = ps.exp
  BY DEF Final, PortShares, SameSpec
<1> QED
  BY <1>1, <1>2, <1>3, <1>4, <1>5

\* The pass under way.
LEMMA PassType ==
  ASSUME TypeOK, pass # Idle
  PROVE  /\ pass.p \in Shares /\ pass.ps \in PortShares /\ pass.closing \in BOOLEAN
         /\ pass.at \in {"desktop", "act", "record"}
  BY DEF TypeOK, Passes

LEMMA IdleAt == Idle.at \notin {"desktop", "act", "record"}
  BY DEF Idle

\* The type invariant, with the bound on generations that it rests on.
GenInv == \A p \in Shares : share[p] # None => share[p].gen <= edits + 1

TypeInv == TypeOK /\ GenInv

\* A step that patches a status keeps the types of what the patch writes.
LEMMA PatchType ==
  ASSUME TypeInv, NEW p \in Shares, NEW from \in PortShares, NEW to \in PortShares, NEW copy,
         SameSpec(from, to), Patched(p, from, to, copy), edits' = edits
  PROVE  /\ share' \in [Shares -> PortShares \cup {None}] /\ shareEvents' \subseteq Shares
         /\ faults' \in 0..MaxEvents /\ edits' \in 0..MaxEvents
         /\ copy \in PortShares
         /\ GenInv'
<1>1. /\ copy \in PortShares
      /\ share' \in [Shares -> PortShares \cup {None}]
      /\ \A q \in Shares : q # p => share'[q] = share[q]
      /\ share[p] = None => share'[p] = None
      /\ share[p] # None => share'[p] # None /\ SameSpec(share'[p], share[p])
      /\ shareEvents' \subseteq shareEvents \cup {p}
      /\ faults' \in 0..MaxEvents
  BY PatchFacts DEF TypeInv
<1>2. GenInv'
  BY <1>1 DEF TypeInv, GenInv, SameSpec
<1> QED
  BY <1>1, <1>2 DEF TypeInv, TypeOK

\* A share is written, here by a user.
LEMMA SetShareType ==
  ASSUME TypeInv, NEW p \in Shares, NEW ps \in PortShares \cup {None}, SetShare(p, ps),
         edits' \in {edits, edits + 1}, ps # None => ps.gen <= edits' + 1
  PROVE  /\ share' \in [Shares -> PortShares \cup {None}] /\ shareEvents' \subseteq Shares
         /\ GenInv'
<1>1. /\ share \in [Shares -> PortShares \cup {None}] /\ shareEvents \subseteq Shares
      /\ edits \in Nat
      /\ share' = [share EXCEPT ![p] = ps]
      /\ shareEvents' = shareEvents \cup IF ps = share[p] THEN {} ELSE {p}
  BY ConstantsAssumption DEF TypeInv, TypeOK, SetShare
<1>2. ASSUME NEW q \in Shares, share'[q] # None
      PROVE  share'[q].gen <= edits' + 1
  <2>1. CASE q = p
    BY <1>1, <1>2, <2>1
  <2>2. CASE q # p
    <3>1. share'[q] = share[q]
      BY <1>1, <2>2
    <3>2. share[q].gen <= edits + 1 /\ share[q].gen \in Nat
      BY <1>1, <1>2, <3>1, ConstantsAssumption DEF TypeInv, GenInv, PortShares
    <3> QED
      BY <1>1, <3>1, <3>2
  <2> QED
    BY <2>1, <2>2
<1> QED
  BY <1>1, <1>2 DEF GenInv

\* What a user makes of a share: another port, time to live or start.
EditedSpec(old, ps) ==
  \/ \E n \in Ports : ps = [old EXCEPT !.port = n, !.gen = @ + 1]
  \/ \E ttl \in TTLs : ps = [old EXCEPT !.ttl = ttl, !.gen = @ + 1]
  \/ ps = [old EXCEPT !.start = clock, !.gen = @ + 1]

LEMMA EditedType ==
  ASSUME NEW old \in PortShares, old.gen + 1 \in 1..(MaxEvents + 1), clock \in 1..MaxTime,
         NEW ps, EditedSpec(old, ps)
  PROVE  /\ ps \in PortShares /\ ps.gen = old.gen + 1
         /\ ps.start \in {old.start, clock}
<1>1. CASE \E n \in Ports : ps = [old EXCEPT !.port = n, !.gen = @ + 1]
  BY <1>1 DEF PortShares
<1>2. CASE \E ttl \in TTLs : ps = [old EXCEPT !.ttl = ttl, !.gen = @ + 1]
  BY <1>2 DEF PortShares
<1>3. CASE ps = [old EXCEPT !.start = clock, !.gen = @ + 1]
  BY <1>3 DEF PortShares
<1> QED
  BY <1>1, <1>2, <1>3 DEF EditedSpec

LEMMA SetServiceType ==
  ASSUME TypeOK, NEW n \in Ports, NEW owner \in Owners \cup {None}, SetService(n, owner)
  PROVE  svc' \in [Ports -> Owners \cup {None}] /\ svcEvents' \in [Ports -> SUBSET Shares]
<1> DEFINE touched == {o.share : o \in {svc[n], owner} \ {None}}
<1>1. svc \in [Ports -> Owners \cup {None}] /\ svcEvents \in [Ports -> SUBSET Shares]
  BY DEF TypeOK
<1>2. touched \subseteq Shares
  BY <1>1 DEF Owners
<1> HIDE DEF touched
<1>3. svc' = [svc EXCEPT ![n] = owner] /\ svcEvents' = [svcEvents EXCEPT ![n] = @ \cup touched]
  BY DEF SetService, touched
<1> QED
  BY <1>1, <1>2, <1>3

LEMMA TypeInit == Init => TypeInv
<1> SUFFICES ASSUME Init PROVE TypeInv
  OBVIOUS
<1>1. PICK n \in Ports : share = [p \in Shares |-> Fresh(1, n, TTL)]
  BY DEF Init
<1>2. Fresh(1, n, TTL) \in PortShares /\ Fresh(1, n, TTL).gen = 1
  BY <1>1, ConstantsAssumption DEF Init, Fresh, PortShares, TTLs, Conditions
<1>3. share \in [Shares -> PortShares \cup {None}] /\ GenInv
  BY <1>1, <1>2 DEF Init, GenInv
<1> QED
  BY <1>3, ConstantsAssumption DEF Init, TypeInv, TypeOK

LEMMA TypeStep ==
  ASSUME TypeInv, [Next]_vars
  PROVE  TypeInv'
<1>0. /\ share \in [Shares -> PortShares \cup {None}] /\ shareSeen \in [Shares -> PortShares \cup {None}]
      /\ clock \in 1..MaxTime /\ MaxTime \in Nat /\ MaxEvents \in Nat
      /\ timer \in [Shares -> Nat] /\ queue \subseteq Shares
      /\ edits \in 0..MaxEvents /\ faults \in 0..MaxEvents
      /\ "Valid" \in Conditions /\ "DesktopNotFound" \in Conditions
  BY ConstantsAssumption DEF TypeInv, TypeOK, Conditions
<1>1. ASSUME NEW p \in Shares, Start(p)
      PROVE  TypeInv'
  <2>1. UNCHANGED <<clock, shareSeen, services, desk, timer, edits>> /\ queue' \subseteq Shares
    BY <1>0, <1>1 DEF Start
  <2>2. CASE shareSeen[p] = None
    <3>1. UNCHANGED <<share, shareEvents, pass, faults>>
      BY <1>1, <2>2 DEF Start
    <3> QED
      BY <2>1, <3>1 DEF TypeInv, TypeOK, GenInv, services
  <2>3. CASE shareSeen[p] # None
    <3>1. PICK copy : /\ Patched(p, shareSeen[p], Condition(shareSeen[p], "Valid"), copy)
                      /\ pass' = [at |-> "desktop", p |-> p, ps |-> copy, closing |-> FALSE]
      BY <1>1, <2>3, StartStep
    <3>2. shareSeen[p] \in PortShares
      BY <1>0, <2>3
    <3>3. Condition(shareSeen[p], "Valid") \in PortShares
          /\ SameSpec(shareSeen[p], Condition(shareSeen[p], "Valid"))
      BY <1>0, <3>2, CopyFacts
    <3>4. /\ share' \in [Shares -> PortShares \cup {None}] /\ shareEvents' \subseteq Shares
          /\ faults' \in 0..MaxEvents /\ edits' \in 0..MaxEvents
          /\ copy \in PortShares /\ GenInv'
      BY <2>1, <3>1, <3>2, <3>3, PatchType
    <3>5. pass' \in Passes
      BY <3>1, <3>4 DEF Passes
    <3> QED
      BY <2>1, <3>4, <3>5 DEF TypeInv, TypeOK, services
  <2> QED
    BY <2>2, <2>3
<1>2. CASE DesktopNotFound
  <2>1. pass # Idle
    BY <1>2, IdleAt DEF DesktopNotFound
  <2>2. pass.p \in Shares /\ pass.ps \in PortShares
    BY <2>1, PassType DEF TypeInv
  <2>3. PICK copy : Patched(pass.p, pass.ps, Condition(pass.ps, "DesktopNotFound"), copy)
    BY <1>2, DesktopNotFoundStep
  <2>4. Condition(pass.ps, "DesktopNotFound") \in PortShares
        /\ SameSpec(pass.ps, Condition(pass.ps, "DesktopNotFound"))
    BY <1>0, <2>2, CopyFacts
  <2>5. edits' = edits
    BY <1>2 DEF DesktopNotFound
  <2>6. /\ share' \in [Shares -> PortShares \cup {None}] /\ shareEvents' \subseteq Shares
        /\ faults' \in 0..MaxEvents /\ edits' \in 0..MaxEvents /\ GenInv'
    BY <2>2, <2>3, <2>4, <2>5, PatchType
  <2>7. pass' = Idle
    BY <1>2, DesktopNotFoundStep
  <2>8. timer' \in [Shares -> Nat]
    BY <1>0, <1>2, <2>2 DEF DesktopNotFound, After
  <2> QED
    BY <1>2, <2>6, <2>7, <2>8 DEF DesktopNotFound, TypeInv, TypeOK, services
<1>3. CASE Expiry
  <2> DEFINE to == [pass.ps EXCEPT !.exp = Desired(pass.ps)]
  <2>1. pass # Idle
    BY <1>3, IdleAt DEF Expiry
  <2>2. pass.p \in Shares /\ pass.ps \in PortShares
    BY <2>1, PassType DEF TypeInv
  <2>3. PICK copy :
           /\ Patched(pass.p, pass.ps, to, copy)
           /\ pass' = [at |-> "act", p |-> pass.p, ps |-> copy, closing |-> Past(Desired(pass.ps))]
    BY <1>3, ExpiryStep
  <2>4. to \in PortShares /\ SameSpec(pass.ps, to)
    BY <2>2, CopyFacts
  <2> HIDE DEF to
  <2>5. edits' = edits
    BY <1>3 DEF Expiry
  <2>6. /\ share' \in [Shares -> PortShares \cup {None}] /\ shareEvents' \subseteq Shares
        /\ faults' \in 0..MaxEvents /\ edits' \in 0..MaxEvents /\ GenInv'
        /\ copy \in PortShares
    BY <2>2, <2>3, <2>4, <2>5, PatchType
  <2>7. pass' \in Passes
    BY <2>2, <2>3, <2>6 DEF Passes, Past
  <2> QED
    BY <1>3, <2>6, <2>7 DEF Expiry, TypeInv, TypeOK, services
<1>4. CASE Close
  <2>1. pass # Idle
    BY <1>4, IdleAt DEF Close
  <2>2. pass \in Passes
    BY <2>1 DEF TypeInv, TypeOK
  <2>3. pass' \in Passes /\ pass.ps.port \in Ports
    BY <1>4, <2>2 DEF Close, Passes, PortShares
  <2>4. svc' \in [Ports -> Owners \cup {None}] /\ svcEvents' \in [Ports -> SUBSET Shares]
    <3>1. CASE SetService(pass.ps.port, None)
      BY <3>1, <2>3, SetServiceType DEF TypeInv
    <3>2. CASE UNCHANGED <<svc, svcEvents>>
      BY <3>2 DEF TypeInv, TypeOK
    <3> QED
      BY <1>4, <3>1, <3>2 DEF Close
  <2>5. faults' \in 0..MaxEvents
    BY <1>0, <1>4 DEF Close, Fault
  <2> QED
    BY <1>4, <2>3, <2>4, <2>5 DEF Close, TypeInv, TypeOK, GenInv, shares
<1>5. CASE CreateOrUpdate
  <2> DEFINE n == pass.ps.port
             me == [share |-> pass.p, uid |-> pass.ps.uid]
  <2>1. pass # Idle
    BY <1>5, IdleAt DEF CreateOrUpdate
  <2>2. pass \in Passes
    BY <2>1 DEF TypeInv, TypeOK
  <2>3. n \in Ports /\ me \in Owners /\ pass.p \in Shares
    BY <2>2 DEF Passes, PortShares, Owners
  <2>4. pass' \in Passes \cup {Idle}
    BY <1>5, <2>2 DEF CreateOrUpdate, Passes
  <2>5. Written(n, me) \/ UNCHANGED <<svc, svcEvents>>
    BY <1>5 DEF CreateOrUpdate
  <2>6. faults' \in 0..MaxEvents /\ queue' \subseteq Shares
    BY <1>0, <1>5, <2>3 DEF CreateOrUpdate, Fault
  <2> HIDE DEF n, me
  <2>7. svc' \in [Ports -> Owners \cup {None}] /\ svcEvents' \in [Ports -> SUBSET Shares]
    <3>1. CASE SetService(n, me)
      BY <3>1, <2>3, SetServiceType DEF TypeInv
    <3>2. CASE UNCHANGED <<svc, svcEvents>>
      BY <3>2 DEF TypeInv, TypeOK
    <3> QED
      BY <2>5, <3>1, <3>2 DEF Written
  <2> QED
    BY <1>5, <2>4, <2>6, <2>7 DEF CreateOrUpdate, TypeInv, TypeOK, GenInv, shares
<1>6. CASE Record
  <2>1. pass # Idle
    BY <1>6, IdleAt DEF Record
  <2>2. pass.p \in Shares /\ pass.ps \in PortShares /\ pass.closing \in BOOLEAN
    BY <2>1, PassType DEF TypeInv
  <2>3. PICK copy : Patched(pass.p, pass.ps, Final(pass.ps, pass.closing), copy)
    BY <1>6, RecordStep
  <2>4. Final(pass.ps, pass.closing) \in PortShares /\ SameSpec(pass.ps, Final(pass.ps, pass.closing))
    BY <2>2, CopyFacts
  <2>5. edits' = edits
    BY <1>6 DEF Record
  <2>6. /\ share' \in [Shares -> PortShares \cup {None}] /\ shareEvents' \subseteq Shares
        /\ faults' \in 0..MaxEvents /\ edits' \in 0..MaxEvents /\ GenInv'
    BY <2>2, <2>3, <2>4, <2>5, PatchType
  <2>7. pass' = Idle
    BY <1>6, RecordStep
  <2>8. pass.ps.exp \in Nat
    BY <2>2 DEF PortShares
  <2>9. timer' \in [Shares -> Nat]
    BY <1>0, <1>6, <2>2, <2>8 DEF Record, After
  <2> QED
    BY <1>6, <2>6, <2>7, <2>9 DEF Record, TypeInv, TypeOK, services
<1>7. ASSUME NEW p \in Shares, SyncShare(p)
      PROVE  TypeInv'
  BY <1>7 DEF SyncShare, TypeInv, TypeOK, GenInv, services, bounds
<1>8. ASSUME NEW n \in Ports, SyncService(n)
      PROVE  TypeInv'
  BY <1>8 DEF SyncService, TypeInv, TypeOK, GenInv, shares, bounds
<1>9. ASSUME NEW p \in Shares, Fire(p)
      PROVE  TypeInv'
  BY <1>9 DEF Fire, TypeInv, TypeOK, GenInv, objects, shares, services, bounds
<1>10. CASE Restart
  <2>1. faults' \in 0..MaxEvents
    BY <1>0, <1>10 DEF Restart, Fault
  <2> QED
    BY <1>10, <2>1 DEF Restart, TypeInv, TypeOK, GenInv
<1>11. ASSUME NEW p \in Shares, Create(p)
       PROVE  TypeInv'
  <2>1. PICK n \in Ports, ttl \in TTLs : SetShare(p, Fresh(edits + 1, n, ttl))
    BY <1>11 DEF Create
  <2>2. Fresh(edits + 1, n, ttl) \in PortShares /\ Fresh(edits + 1, n, ttl).gen = 1
    BY <1>0, <2>1 DEF Fresh, PortShares, Conditions
  <2>3. edits' = edits
    BY <1>11 DEF Create, bounds
  <2>4. /\ share' \in [Shares -> PortShares \cup {None}] /\ shareEvents' \subseteq Shares
        /\ GenInv'
    BY <1>0, <2>1, <2>2, <2>3, SetShareType
  <2> QED
    BY <1>11, <2>4 DEF Create, TypeInv, TypeOK, services, bounds
<1>12. ASSUME NEW p \in Shares, Delete(p)
       PROVE  TypeInv'
  <2>1. edits' = edits + 1 /\ edits' \in 0..MaxEvents
    BY <1>0, <1>12 DEF Delete, Edit
  <2>2. /\ share' \in [Shares -> PortShares \cup {None}] /\ shareEvents' \subseteq Shares
        /\ GenInv'
    BY <1>12, <2>1, SetShareType DEF Delete
  <2> QED
    BY <1>12, <2>1, <2>2 DEF Delete, TypeInv, TypeOK, services
<1>13. ASSUME NEW p \in Shares, EditSpec(p)
       PROVE  TypeInv'
  <2>1. edits' = edits + 1 /\ edits' \in 0..MaxEvents /\ edits < MaxEvents
    <3>1. Edit
      BY <1>13 DEF EditSpec
    <3> QED
      BY <1>0, <3>1 DEF Edit
  <2>2. share[p] \in PortShares /\ share[p].gen + 1 <= edits' + 1
    <3>1. share[p] # None
      BY <1>13 DEF EditSpec
    <3>2. share[p] \in PortShares /\ share[p].gen <= edits + 1
      BY <1>0, <3>1 DEF TypeInv, GenInv
    <3>3. share[p].gen \in Int
      BY <3>2, <1>0 DEF PortShares
    <3> QED
      BY <1>0, <2>1, <3>2, <3>3
  <2>3. share[p].gen + 1 \in 1..(MaxEvents + 1)
    BY <1>0, <2>1, <2>2 DEF PortShares
  <2>4. PICK ps : SetShare(p, ps) /\ EditedSpec(share[p], ps)
    BY <1>13 DEF EditSpec, EditedSpec
  <2>5. ps \in PortShares /\ ps.gen = share[p].gen + 1
    BY <1>0, <2>2, <2>3, <2>4, EditedType
  <2>6. /\ share' \in [Shares -> PortShares \cup {None}] /\ shareEvents' \subseteq Shares
        /\ GenInv'
    BY <2>1, <2>2, <2>4, <2>5, SetShareType
  <2> QED
    BY <1>13, <2>1, <2>6 DEF EditSpec, TypeInv, TypeOK, services
<1>14. CASE DeleteDesktop
  <2>1. edits' \in 0..MaxEvents /\ edits' = edits + 1
    BY <1>0, <1>14 DEF DeleteDesktop, Edit
  <2>2. UNCHANGED <<clock, shares, services, queue, timer, pass, faults>> /\ desk' \in BOOLEAN
    BY <1>14 DEF DeleteDesktop
  <2>3. GenInv'
    <3>1. ASSUME NEW p \in Shares, share[p] # None
          PROVE  share[p].gen <= edits + 2
      BY <1>0, <3>1 DEF TypeInv, GenInv, PortShares
    <3> QED
      BY <1>0, <2>1, <2>2, <3>1 DEF GenInv, shares
  <2> QED
    BY <2>1, <2>2, <2>3 DEF TypeInv, TypeOK, shares, services
<1>15. CASE CreateDesktop
  BY <1>15 DEF CreateDesktop, TypeInv, TypeOK, GenInv, shares, services, bounds
<1>16. ASSUME NEW n \in Ports, Collect(n)
       PROVE  TypeInv'
  <2>1. svc' \in [Ports -> Owners \cup {None}] /\ svcEvents' \in [Ports -> SUBSET Shares]
    BY <1>16, SetServiceType DEF Collect, TypeInv
  <2> QED
    BY <1>16, <2>1 DEF Collect, TypeInv, TypeOK, GenInv, shares, bounds
<1>17. CASE Tick
  <2>1. clock' \in 1..MaxTime
    BY <1>0, <1>17 DEF Tick
  <2> QED
    BY <1>17, <2>1 DEF Tick, TypeInv, TypeOK, GenInv, objects, shares, services, bounds
<1>18. CASE UNCHANGED vars
  BY <1>18 DEF vars, TypeInv, TypeOK, GenInv, objects, shares, services, bounds
<1> QED
  BY <1>1, <1>2, <1>3, <1>4, <1>5, <1>6, <1>7, <1>8, <1>9, <1>10, <1>11, <1>12, <1>13, <1>14,
     <1>15, <1>16, <1>17, <1>18 DEF Next, Reconcile

\* The types of the PortShare controller are an invariant: caches, copies and patches of
\* late copies are shares, and generations and identities stay within the number of
\* changes that users made.
THEOREM TypeCorrect == Spec => []TypeOK
<1>1. TypeInv => TypeOK
  BY DEF TypeInv
<1> QED
  BY <1>1, TypeInit, TypeStep, PTL DEF Spec

-----------------------------------------------------------------------------
(* What a step may change *)

\* The services change in five actions only.
LEMMA ServicesFrame ==
  ASSUME [Next]_vars
  PROVE  \/ Close \/ CreateOrUpdate \/ Restart
         \/ \E n \in Ports : SyncService(n) \/ Collect(n)
         \/ UNCHANGED services
  BY DEF Next, Reconcile, vars, objects, DesktopNotFound, Expiry, Record, DeleteDesktop,
         CreateDesktop, Tick, Start, SyncShare, Fire, Create, Delete, EditSpec

\* The shares change by patches of the status and by users.
LEMMA SharesFrame ==
  ASSUME [Next]_vars
  PROVE  \/ DesktopNotFound \/ Expiry \/ Record \/ Restart
         \/ \E p \in Shares : Start(p) \/ SyncShare(p) \/ Create(p) \/ Delete(p) \/ EditSpec(p)
         \/ UNCHANGED shares
  BY DEF Next, Reconcile, vars, objects, Close, CreateOrUpdate, DeleteDesktop,
         CreateDesktop, Tick, Fire, SyncService, Collect

\* The timers change in four actions.
LEMMA TimerFrame ==
  ASSUME [Next]_vars
  PROVE  \/ DesktopNotFound \/ Record \/ Restart
         \/ \E p \in Shares : Fire(p)
         \/ UNCHANGED timer
  BY DEF Next, Reconcile, vars, objects, Close, CreateOrUpdate, Expiry, DeleteDesktop,
         CreateDesktop, Tick, Start, SyncShare, Create, Delete, EditSpec, SyncService, Collect

\* The pass under way changes in its own steps and when the operator ends.
LEMMA PassFrame ==
  ASSUME [Next]_vars
  PROVE  \/ Reconcile \/ Restart
         \/ \E p \in Shares : Start(p)
         \/ UNCHANGED pass
  BY DEF Next, vars, DeleteDesktop, CreateDesktop, Tick, SyncShare, Fire, Create, Delete, EditSpec,
         SyncService, Collect

\* Time passes only in Tick.
LEMMA ClockFrame ==
  ASSUME [Next]_vars
  PROVE  Tick \/ clock' = clock
  BY DEF Next, Reconcile, vars, Close, CreateOrUpdate, Expiry, DesktopNotFound, Record, Restart,
         DeleteDesktop, CreateDesktop, Start, SyncShare, Fire, Create, Delete, EditSpec,
         SyncService, Collect

\* The changes of users are counted.
LEMMA EditsFrame ==
  ASSUME [Next]_vars
  PROVE  \/ edits' = edits
         \/ edits' = edits + 1 /\ \/ DeleteDesktop
                                  \/ \E p \in Shares : Delete(p) \/ EditSpec(p)
  BY DEF Next, Reconcile, vars, bounds, Close, CreateOrUpdate, Expiry, DesktopNotFound, Record,
         Restart, DeleteDesktop, CreateDesktop, Start, SyncShare, Fire, Create, Delete, EditSpec,
         SyncService, Collect, Tick, Edit

\* A step that patches the status of a share, described by the patch.
Patching(p, from, to, copy) ==
  /\ p \in Shares /\ from \in PortShares /\ to \in PortShares
  /\ SameSpec(from, to)
  /\ Patched(p, from, to, copy)

LEMMA StartPatch ==
  ASSUME TypeInv, NEW p \in Shares, Start(p), shareSeen[p] # None
  PROVE  \E copy :
           /\ Patching(p, shareSeen[p], Condition(shareSeen[p], "Valid"), copy)
           /\ pass' = [at |-> "desktop", p |-> p, ps |-> copy, closing |-> FALSE]
<1>1. shareSeen[p] \in PortShares /\ "Valid" \in Conditions
  BY DEF TypeInv, TypeOK, Conditions
<1> QED
  BY <1>1, StartStep, CopyFacts DEF Patching

LEMMA DesktopNotFoundPatch ==
  ASSUME TypeInv, DesktopNotFound
  PROVE  \E copy : Patching(pass.p, pass.ps, Condition(pass.ps, "DesktopNotFound"), copy)
<1>1. pass # Idle
  BY IdleAt DEF DesktopNotFound
<1>2. pass.p \in Shares /\ pass.ps \in PortShares /\ "DesktopNotFound" \in Conditions
  BY <1>1, PassType DEF TypeInv, Conditions
<1> QED
  BY <1>2, DesktopNotFoundStep, CopyFacts DEF Patching

LEMMA ExpiryPatch ==
  ASSUME TypeInv, Expiry
  PROVE  \E copy :
           /\ Patching(pass.p, pass.ps, [pass.ps EXCEPT !.exp = Desired(pass.ps)], copy)
           /\ pass' = [at |-> "act", p |-> pass.p, ps |-> copy, closing |-> Past(Desired(pass.ps))]
<1>1. pass # Idle
  BY IdleAt DEF Expiry
<1>2. pass.p \in Shares /\ pass.ps \in PortShares
  BY <1>1, PassType DEF TypeInv
<1> QED
  BY <1>2, ExpiryStep, CopyFacts DEF Patching

LEMMA RecordPatch ==
  ASSUME TypeInv, Record
  PROVE  \E copy : Patching(pass.p, pass.ps, Final(pass.ps, pass.closing), copy)
<1>1. pass # Idle
  BY IdleAt DEF Record
<1>2. pass.p \in Shares /\ pass.ps \in PortShares /\ pass.closing \in BOOLEAN
  BY <1>1, PassType DEF TypeInv
<1> QED
  BY <1>2, RecordStep, CopyFacts DEF Patching

\* Whichever step it is, its patch is one.
LEMMA SomePatch ==
  ASSUME TypeInv, DesktopNotFound \/ Expiry \/ Record \/ \E p \in Shares : Start(p)
  PROVE  \/ \E p, from, to, copy : Patching(p, from, to, copy)
         \/ UNCHANGED <<share, shareEvents, faults>>
<1>1. CASE \E p \in Shares : Start(p)
  <2>1. PICK p \in Shares : Start(p)
    BY <1>1
  <2>2. CASE shareSeen[p] = None
    BY <2>1, <2>2 DEF Start
  <2>3. CASE shareSeen[p] # None
    BY <2>1, <2>3, StartPatch
  <2> QED
    BY <2>2, <2>3
<1> QED
  BY <1>1, DesktopNotFoundPatch, ExpiryPatch, RecordPatch

\* Failed calls and ends of the operator are counted.
LEMMA FaultsFrame ==
  ASSUME TypeInv, [Next]_vars
  PROVE  faults' \in {faults, faults + 1}
<1>1. CASE DesktopNotFound \/ Expiry \/ Record \/ \E p \in Shares : Start(p)
  BY <1>1, SomePatch, PatchFacts DEF TypeInv, Patching
<1>2. CASE ~(DesktopNotFound \/ Expiry \/ Record \/ \E p \in Shares : Start(p))
  BY <1>2 DEF Next, Reconcile, vars, bounds, Close, CreateOrUpdate, Restart, DeleteDesktop,
              CreateDesktop, SyncShare, Fire, Create, Delete, EditSpec, SyncService, Collect, Tick,
              Fault
<1> QED
  BY <1>1, <1>2

\* What a step may do to a share: nothing; a patch, which keeps the spec; the delete, the
\* creation, an edit of the spec.  Every write is an event.
LEMMA ShareSteps ==
  ASSUME TypeInv, [Next]_vars, NEW q \in Shares
  PROVE  \/ share'[q] = share[q]
         \/ /\ q \in shareEvents' /\ clock' = clock
            /\ \/ share[q] # None /\ share'[q] # None /\ SameSpec(share'[q], share[q])
               \/ share'[q] = None
               \/ share[q] = None /\ share'[q].start = clock
               \/ /\ share[q] # None /\ share'[q] # None
                  /\ share'[q].start \in {share[q].start, clock}
<1>0. share \in [Shares -> PortShares \cup {None}]
  BY DEF TypeInv, TypeOK
<1>1. CASE DesktopNotFound \/ Expiry \/ Record \/ \E p \in Shares : Start(p)
  <2>1. clock' = clock
    BY <1>1 DEF DesktopNotFound, Expiry, Record, Start
  <2>2. CASE \E p, from, to, copy : Patching(p, from, to, copy)
    <3>1. PICK p, from, to, copy : Patching(p, from, to, copy)
      BY <2>2
    <3>2. /\ p \in Shares
          /\ \A r \in Shares : r # p => share'[r] = share[r]
          /\ share[p] = None => share'[p] = None
          /\ share[p] # None => share'[p] # None /\ SameSpec(share'[p], share[p])
          /\ p \notin shareEvents' => share' = share
      BY <3>1, PatchFacts DEF Patching, TypeInv
    <3> QED
      BY <2>1, <3>2
  <2> QED
    BY <1>1, <2>2, SomePatch
<1>2. ASSUME NEW p \in Shares, Create(p)
      PROVE  share'[q] = share[q] \/ (/\ q \in shareEvents' /\ clock' = clock
                                      /\ share[q] = None /\ share'[q].start = clock)
  <2>1. PICK n \in Ports, ttl \in TTLs : SetShare(p, Fresh(edits + 1, n, ttl))
    BY <1>2 DEF Create
  <2>2. Fresh(edits + 1, n, ttl).start = clock
    BY DEF Fresh
  <2>3. share[p] = None /\ clock' = clock
    BY <1>2 DEF Create
  <2> QED
    BY <1>0, <2>1, <2>2, <2>3 DEF SetShare
<1>3. ASSUME NEW p \in Shares, Delete(p)
      PROVE  share'[q] = share[q] \/ (q \in shareEvents' /\ clock' = clock /\ share'[q] = None)
  BY <1>0, <1>3 DEF Delete, SetShare
<1>4. ASSUME NEW p \in Shares, EditSpec(p)
      PROVE  share'[q] = share[q] \/ (/\ q \in shareEvents' /\ clock' = clock
                                      /\ share[q] # None /\ share'[q] # None
                                      /\ share'[q].start \in {share[q].start, clock})
  <2>1. PICK ps : SetShare(p, ps) /\ EditedSpec(share[p], ps)
    BY <1>4 DEF EditSpec, EditedSpec
  <2>2. share[p] # None /\ clock' = clock
    BY <1>4 DEF EditSpec
  <2>3. share[p] \in PortShares /\ clock \in 1..MaxTime
    BY <1>0, <2>2 DEF TypeInv, TypeOK
  <2>4. ps.start \in {share[p].start, clock} /\ ps.uid = share[p].uid
    BY <2>1, <2>3 DEF EditedSpec, PortShares
  <2>5. ps # None
    BY <2>3, <2>4, ConstantsAssumption DEF None, PortShares
  <2> QED
    BY <1>0, <2>1, <2>2, <2>4, <2>5 DEF SetShare
<1>5. CASE Restart \/ \E p \in Shares : SyncShare(p)
  BY <1>5 DEF Restart, SyncShare
<1> QED
  BY <1>1, <1>2, <1>3, <1>4, <1>5, SharesFrame DEF shares

\* The cache of shares and the events that are to update it.
LEMMA SeenSteps ==
  ASSUME TypeInv, [Next]_vars, NEW q \in Shares
  PROVE  \/ shareSeen'[q] = share[q] /\ share'[q] = share[q]
         \/ shareSeen'[q] = shareSeen[q] /\ (q \in shareEvents => q \in shareEvents')
<1>0. shareSeen \in [Shares -> PortShares \cup {None}]
  BY DEF TypeInv, TypeOK
<1>1. CASE DesktopNotFound \/ Expiry \/ Record \/ \E p \in Shares : Start(p)
  <2>1. shareSeen' = shareSeen
    BY <1>1 DEF DesktopNotFound, Expiry, Record, Start
  <2>2. shareEvents \subseteq shareEvents'
    BY <1>1, SomePatch, PatchFacts DEF Patching, TypeInv
  <2> QED
    BY <2>1, <2>2
<1>2. CASE \E p \in Shares : Create(p) \/ Delete(p) \/ EditSpec(p)
  BY <1>2 DEF Create, Delete, EditSpec, SetShare
<1>3. CASE Restart
  BY <1>3 DEF Restart
<1>4. ASSUME NEW p \in Shares, SyncShare(p)
      PROVE  \/ shareSeen'[q] = share[q] /\ share'[q] = share[q]
             \/ shareSeen'[q] = shareSeen[q] /\ (q \in shareEvents => q \in shareEvents')
  BY <1>0, <1>4 DEF SyncShare
<1> QED
  BY <1>1, <1>2, <1>3, <1>4, SharesFrame DEF shares

\* A Service is written: an event for its old owner and for its new one.
LEMMA SetServiceFacts ==
  ASSUME TypeOK, NEW m \in Ports, NEW owner \in Owners \cup {None}, SetService(m, owner),
         NEW n \in Ports
  PROVE  /\ svcEvents[n] \subseteq svcEvents'[n]
         /\ svc'[n] = svc[n] \/ (n = m /\ svc'[n] = owner)
         /\ svc'[n] # svc[n] => /\ svc[n] # None => svc[n].share \in svcEvents'[n]
                                /\ svc'[n] # None => svc'[n].share \in svcEvents'[n]
<1> DEFINE touched == {o.share : o \in {svc[m], owner} \ {None}}
<1>1. svc \in [Ports -> Owners \cup {None}] /\ svcEvents \in [Ports -> SUBSET Shares]
  BY DEF TypeOK
<1>2. /\ svc[m] # None => svc[m].share \in touched
      /\ owner # None => owner.share \in touched
  OBVIOUS
<1> HIDE DEF touched
<1>3. svc' = [svc EXCEPT ![m] = owner] /\ svcEvents' = [svcEvents EXCEPT ![m] = @ \cup touched]
  BY DEF SetService, touched
<1> QED
  BY <1>1, <1>2, <1>3

\* What a step may do to a Service: nothing, or a write, which is an event for the owner
\* before it and the owner after it.
LEMMA ServiceSteps ==
  ASSUME TypeInv, [Next]_vars, NEW n \in Ports
  PROVE  /\ svc'[n] # svc[n] => /\ svc[n] # None => svc[n].share \in svcEvents'[n]
                                /\ svc'[n] # None => svc'[n].share \in svcEvents'[n]
         /\ \/ svcSeen'[n] = svc'[n] /\ svc'[n] = svc[n]
            \/ svcSeen'[n] = svcSeen[n] /\ svcEvents[n] \subseteq svcEvents'[n]
<1>0. svcSeen \in [Ports -> Owners \cup {None}] /\ svcEvents \in [Ports -> SUBSET Shares]
  BY DEF TypeInv, TypeOK
<1>1. ASSUME NEW m \in Ports, NEW owner \in Owners \cup {None}, SetService(m, owner), svcSeen' = svcSeen
      PROVE  /\ svc'[n] # svc[n] => /\ svc[n] # None => svc[n].share \in svcEvents'[n]
                                    /\ svc'[n] # None => svc'[n].share \in svcEvents'[n]
             /\ svcSeen'[n] = svcSeen[n] /\ svcEvents[n] \subseteq svcEvents'[n]
  BY <1>1, SetServiceFacts DEF TypeInv
<1>2. CASE Close
  <2>1. pass # Idle
    BY <1>2, IdleAt DEF Close
  <2>2. pass.ps.port \in Ports
    BY <2>1, PassType DEF TypeInv, PortShares
  <2> QED
    BY <1>1, <1>2, <2>2 DEF Close
<1>3. CASE CreateOrUpdate
  <2> DEFINE m == pass.ps.port
             me == [share |-> pass.p, uid |-> pass.ps.uid]
  <2>1. pass # Idle
    BY <1>3, IdleAt DEF CreateOrUpdate
  <2>2. m \in Ports /\ me \in Owners
    BY <2>1, PassType DEF TypeInv, PortShares, Owners
  <2>3. Written(m, me) \/ UNCHANGED <<svc, svcEvents>>
    BY <1>3 DEF CreateOrUpdate
  <2>4. svcSeen' = svcSeen
    BY <1>3 DEF CreateOrUpdate
  <2> HIDE DEF m, me
  <2>5. SetService(m, me) \/ UNCHANGED <<svc, svcEvents>>
    BY <2>3 DEF Written
  <2> QED
    BY <1>1, <2>2, <2>4, <2>5
<1>4. CASE Restart
  BY <1>4 DEF Restart
<1>5. ASSUME NEW m \in Ports, SyncService(m)
      PROVE  /\ svc' = svc
             /\ \/ svcSeen'[n] = svc'[n] /\ svc'[n] = svc[n]
                \/ svcSeen'[n] = svcSeen[n] /\ svcEvents[n] \subseteq svcEvents'[n]
  BY <1>0, <1>5 DEF SyncService
<1>6. ASSUME NEW m \in Ports, Collect(m)
      PROVE  SetService(m, None) /\ svcSeen' = svcSeen
  BY <1>6 DEF Collect
<1>7. CASE UNCHANGED services
  BY <1>7 DEF services
<1> QED
  BY <1>1, <1>2, <1>3, <1>4, <1>5, <1>6, <1>7, ServicesFrame

\* Something is under way for the share: it is in the workqueue or an event of it is to come.
Pending(p) ==
  \/ p \in queue \/ p \in shareEvents
  \/ \E n \in Ports : p \in svcEvents[n]

\* Only the start of a pass, or the end of the operator, takes that away.
LEMMA PendingSteps ==
  ASSUME TypeInv, [Next]_vars, NEW q \in Shares, Pending(q), ~Start(q), ~Restart
  PROVE  Pending(q)'
<1>1. CASE q \in queue
  <2>1. q \in queue'
    <3>1. ASSUME NEW p \in Shares, Start(p)
          PROVE  queue' = queue \ {p} /\ p # q
      <4>1. p # q
        BY <3>1
      <4>2. queue' = queue \ {p}
        BY <3>1 DEF Start
      <4> QED
        BY <4>1, <4>2
    <3>2. CASE ~\E p \in Shares : Start(p)
      BY <1>1, <3>2 DEF Next, Reconcile, vars, Close, CreateOrUpdate, Expiry, DesktopNotFound,
                Record, DeleteDesktop, CreateDesktop, SyncShare, Fire, Create, Delete, EditSpec,
                SyncService, Collect, Tick
    <3> QED
      BY <1>1, <3>1, <3>2
  <2> QED
    BY <2>1 DEF Pending
<1>2. CASE q \in shareEvents
  <2>1. CASE \E p \in Shares : SyncShare(p)
    BY <1>2, <2>1 DEF SyncShare, Pending
  <2>2. CASE DesktopNotFound \/ Expiry \/ Record \/ \E p \in Shares : Start(p)
    <3>1. shareEvents \subseteq shareEvents'
      BY <2>2, SomePatch, PatchFacts DEF Patching, TypeInv
    <3> QED
      BY <1>2, <3>1 DEF Pending
  <2>3. CASE \E p \in Shares : Create(p) \/ Delete(p) \/ EditSpec(p)
    <3>1. q \in shareEvents'
      BY <1>2, <2>3 DEF Create, Delete, EditSpec, SetShare
    <3> QED
      BY <3>1 DEF Pending
  <2>4. CASE UNCHANGED shares
    BY <1>2, <2>4 DEF shares, Pending
  <2> QED
    BY <2>1, <2>2, <2>3, <2>4, SharesFrame
<1>3. ASSUME NEW n \in Ports, q \in svcEvents[n]
      PROVE  Pending(q)'
  <2>1. CASE \E m \in Ports : SyncService(m)
    <3>1. PICK m \in Ports : SyncService(m)
      BY <2>1
    <3>2. svcEvents \in [Ports -> SUBSET Shares]
      BY DEF TypeInv, TypeOK
    <3>3. CASE m = n
      BY <1>3, <3>1, <3>3 DEF SyncService, Pending
    <3>4. CASE m # n
      <4>1. q \in svcEvents'[n]
        BY <1>3, <3>1, <3>2, <3>4 DEF SyncService
      <4> QED
        BY <4>1 DEF Pending
    <3> QED
      BY <3>3, <3>4
  <2>2. CASE svcEvents[n] \subseteq svcEvents'[n]
    BY <1>3, <2>2 DEF Pending
  <2>3. svcEvents[n] \subseteq svcEvents'[n] \/ \E m \in Ports : SyncService(m)
    <3>1. CASE Close \/ CreateOrUpdate \/ \E m \in Ports : Collect(m)
      <4>1. svcSeen' = svcSeen
        BY <3>1 DEF Close, CreateOrUpdate, Collect
      <4>2. PICK m, owner : SetService(m, owner) \/ UNCHANGED <<svc, svcEvents>>
        BY <3>1 DEF Close, CreateOrUpdate, Collect, Written
      <4>3. svcEvents \in [Ports -> SUBSET Shares]
        BY DEF TypeInv, TypeOK
      <4> QED
        BY <4>2, <4>3 DEF SetService
    <3>2. CASE UNCHANGED services
      BY <3>2 DEF services
    <3> QED
      BY <3>1, <3>2, ServicesFrame
  <2> QED
    BY <2>1, <2>2, <2>3
<1> QED
  BY <1>1, <1>2, <1>3 DEF Pending

-----------------------------------------------------------------------------
(* Caches and times *)

\* A share without events is cached as it is; a cached Service that has changed has an
\* event for the owner that the cache has.
CacheInv ==
  /\ \A p \in Shares : p \notin shareEvents => shareSeen[p] = share[p]
  /\ \A n \in Ports : svcSeen[n] # svc[n] /\ svcSeen[n] # None => svcSeen[n].share \in svcEvents[n]

LEMMA CacheInit == Init => CacheInv
  BY DEF Init, CacheInv

LEMMA CacheStep ==
  ASSUME TypeInv, CacheInv, [Next]_vars
  PROVE  CacheInv'
<1>1. ASSUME NEW q \in Shares, q \notin shareEvents'
      PROVE  shareSeen'[q] = share'[q]
  BY <1>1, ShareSteps, SeenSteps DEF CacheInv
<1>2. ASSUME NEW n \in Ports, svcSeen'[n] # svc'[n], svcSeen'[n] # None
      PROVE  svcSeen'[n].share \in svcEvents'[n]
  BY <1>2, ServiceSteps DEF CacheInv
<1> QED
  BY <1>1, <1>2 DEF CacheInv

\* A start that is not after the start of the share, and what is due by its end.
Early(x, p) == x <= clock /\ (share[p] # None => x <= share[p].start)

DueBy(x, p) == x <= clock + TTL /\ (share[p] # None => x <= share[p].start + TTL)

\* As before, or due already.
Soon(x, p) == x <= clock + TTL /\ (share[p] # None => x <= clock \/ x <= share[p].start + TTL)

\* Copies of a share, late as they may be, are of no later start than the share has, as
\* starts only move forward; so no timer is set for later than the end that the share now
\* has, unless it is due already.
TimesInv ==
  /\ \A p \in Shares : share[p] # None => share[p].start <= clock
  /\ \A p \in Shares : shareSeen[p] # None => Early(shareSeen[p].start, p)
  /\ \A p \in Shares : Soon(timer[p], p)
  /\ pass # Idle => Early(pass.ps.start, pass.p)
  /\ pass # Idle /\ pass.at # "desktop" => DueBy(pass.ps.exp, pass.p)

\* Starts and the clock only move forward.
LEMMA TimesMove ==
  ASSUME TypeInv, [Next]_vars, NEW q \in Shares, share[q] # None => share[q].start <= clock,
         NEW x \in Nat
  PROVE  /\ share'[q] # None => share'[q].start <= clock'
         /\ Early(x, q) => Early(x, q)'
         /\ DueBy(x, q) => DueBy(x, q)'
         /\ Soon(x, q) => Soon(x, q)'
<1>0. /\ clock \in Nat /\ TTL \in Nat /\ MaxTime \in Nat
      /\ share[q] # None => share[q].start \in Nat
  BY ConstantsAssumption DEF TypeInv, TypeOK, PortShares
<1>1. CASE share'[q] = share[q] /\ clock' \in {clock, clock + 1}
  <2> DEFINE s == share[q].start
             gone == share[q] = None
  <2>1. /\ share'[q].start = s /\ (share'[q] = None <=> gone)
        /\ ~gone => s \in Nat /\ s <= clock
    BY <1>0, <1>1
  <2>2. /\ Early(x, q) <=> x <= clock /\ (~gone => x <= s)
        /\ DueBy(x, q) <=> x <= clock + TTL /\ (~gone => x <= s + TTL)
        /\ Soon(x, q) <=> x <= clock + TTL /\ (~gone => x <= clock \/ x <= s + TTL)
    BY DEF Early, DueBy, Soon
  <2>3. /\ Early(x, q)' <=> x <= clock' /\ (~gone => x <= s)
        /\ DueBy(x, q)' <=> x <= clock' + TTL /\ (~gone => x <= s + TTL)
        /\ Soon(x, q)' <=> x <= clock' + TTL /\ (~gone => x <= clock' \/ x <= s + TTL)
    BY <2>1 DEF Early, DueBy, Soon
  <2> HIDE DEF s, gone
  <2> QED
    BY <1>0, <1>1, <2>1, <2>2, <2>3
<1>2. CASE clock' = clock /\ share'[q] = None
  BY <1>0, <1>2 DEF Early, DueBy, Soon
<1>3. CASE clock' = clock /\ share[q] = None /\ share'[q].start = clock
  BY <1>0, <1>3 DEF Early, DueBy, Soon
<1>4. CASE /\ clock' = clock /\ share[q] # None /\ share'[q] # None
           /\ share'[q].start \in {share[q].start, clock}
  BY <1>0, <1>4 DEF Early, DueBy, Soon
<1>5. clock' \in {clock, clock + 1}
  BY ClockFrame DEF Tick
<1>6. SameSpec(share'[q], share[q]) => share'[q].start = share[q].start
  BY DEF SameSpec
<1> QED
  BY <1>1, <1>2, <1>3, <1>4, <1>5, <1>6, ShareSteps

\* The timer of a share after a step.
LEMMA TimerSteps ==
  ASSUME TypeInv, [Next]_vars, NEW q \in Shares
  PROVE  \/ timer'[q] = timer[q]
         \/ timer'[q] = 0 /\ (Restart \/ Fire(q))
         \/ DesktopNotFound /\ q = pass.p /\ timer'[q] = clock
         \/ Record /\ q = pass.p /\ ~pass.closing /\ pass.ps.exp > clock /\ timer'[q] = pass.ps.exp
<1>0. timer \in [Shares -> Nat]
  BY DEF TypeInv, TypeOK
<1>1. CASE DesktopNotFound
  BY <1>0, <1>1 DEF DesktopNotFound, After
<1>2. CASE Record
  BY <1>0, <1>2 DEF Record, After
<1>3. CASE Restart
  BY <1>3 DEF Restart
<1>4. ASSUME NEW p \in Shares, Fire(p)
      PROVE  timer'[q] = timer[q] \/ (timer'[q] = 0 /\ Fire(q))
  <2>1. timer' = [timer EXCEPT ![p] = 0]
    BY <1>4 DEF Fire
  <2>2. CASE p = q
    BY <1>0, <1>4, <2>1, <2>2
  <2>3. CASE p # q
    BY <1>0, <2>1, <2>3
  <2> QED
    BY <2>2, <2>3
<1> QED
  BY <1>1, <1>2, <1>3, <1>4, TimerFrame

\* The pass under way after a step.
LEMMA PassSteps ==
  ASSUME TypeInv, [Next]_vars
  PROVE  \/ pass' = pass
         \/ pass' = Idle
         \/ \E p \in Shares : Start(p) /\ shareSeen[p] # None
         \/ Expiry
         \/ pass # Idle /\ pass.at = "act" /\ pass' = [pass EXCEPT !.at = "record"]
<1>1. ASSUME NEW p \in Shares, Start(p)
      PROVE  shareSeen[p] # None \/ pass' = pass
  BY <1>1 DEF Start
<1>2. CASE DesktopNotFound
  BY <1>2, DesktopNotFoundStep
<1>3. CASE Close
  BY <1>3, IdleAt DEF Close
<1>4. CASE CreateOrUpdate
  BY <1>4, IdleAt DEF CreateOrUpdate
<1>5. CASE Record
  BY <1>5, RecordStep
<1>6. CASE Restart
  BY <1>6 DEF Restart
<1> QED
  BY <1>1, <1>2, <1>3, <1>4, <1>5, <1>6, PassFrame DEF Reconcile

LEMMA TimesInit == Init => TimesInv
<1> SUFFICES ASSUME Init PROVE TimesInv
  OBVIOUS
<1>1. PICK n \in Ports : share = [p \in Shares |-> Fresh(1, n, TTL)]
  BY DEF Init
<1>2. Fresh(1, n, TTL).start = 1 /\ clock = 1 /\ TTL \in Nat
  BY ConstantsAssumption DEF Init, Fresh
<1> QED
  BY <1>1, <1>2 DEF Init, TimesInv, Early, DueBy, Soon

LEMMA TimesStep ==
  ASSUME TypeInv, TimesInv, [Next]_vars
  PROVE  TimesInv'
<1>0. TypeInv'
  BY TypeStep
<1>1. /\ clock \in Nat /\ TTL \in Nat
      /\ share \in [Shares -> PortShares \cup {None}]
      /\ shareSeen \in [Shares -> PortShares \cup {None}]
      /\ timer \in [Shares -> Nat]
      /\ timer' \in [Shares -> Nat]
  BY <1>0, ConstantsAssumption DEF TypeInv, TypeOK
<1>2. \A ps \in PortShares : ps.start \in Nat /\ ps.exp \in Nat
  BY ConstantsAssumption DEF PortShares
<1>3. ASSUME NEW q \in Shares
      PROVE  share[q] # None => share[q].start <= clock
  BY DEF TimesInv
<1>4. \A q \in Shares : share'[q] # None => share'[q].start <= clock'
  BY <1>3, TimesMove
<1>5. ASSUME NEW q \in Shares, NEW ps \in PortShares,
             \/ Early(ps.start, q)
             \/ share[q] # None /\ ps.start = share[q].start
      PROVE  Early(ps.start, q)'
  <2>1. PICK x \in Nat : x = ps.start
    BY <1>2
  <2>2. Early(x, q)
    BY <1>1, <1>2, <1>3, <1>5, <2>1 DEF Early
  <2>3. Early(x, q)'
    BY <1>3, <2>2, TimesMove
  <2> QED
    BY <2>1, <2>3
<1>6. ASSUME NEW q \in Shares, shareSeen'[q] # None
      PROVE  Early(shareSeen[q].start, q)'
  <2>1. CASE shareSeen'[q] = share[q] /\ share'[q] = share[q]
    BY <1>1, <1>4, <1>6, <1>2, <2>1 DEF Early
  <2>2. CASE shareSeen'[q] = shareSeen[q]
    <3>1. PICK ps \in PortShares : ps = shareSeen[q]
      BY <1>1, <1>6, <2>2
    <3>2. Early(ps.start, q)
      BY <1>6, <2>2, <3>1 DEF TimesInv
    <3>3. Early(ps.start, q)'
      BY <1>5, <3>2
    <3> QED
      BY <2>2, <3>1, <3>3 DEF Early
  <2> QED
    BY <2>1, <2>2, SeenSteps
<1>7. ASSUME NEW q \in Shares
      PROVE  Soon(timer[q], q)'
  <2>1. PICK x \in Nat : x = timer'[q]
    BY <1>1
  <2>2. CASE x = timer[q]
    <3>1. Soon(x, q)
      BY <2>2 DEF TimesInv
    <3> QED
      BY <1>3, <2>1, <3>1, TimesMove
  <2>3. CASE x = 0 \/ x = clock
    <3>1. Soon(x, q)
      BY <1>1, <2>3 DEF Soon
    <3> QED
      BY <1>3, <2>1, <3>1, TimesMove
  <2>4. CASE Record /\ q = pass.p /\ x = pass.ps.exp
    <3>1. pass # Idle /\ pass.at # "desktop"
      BY <2>4, IdleAt DEF Record
    <3>2. DueBy(x, q)
      BY <2>4, <3>1 DEF TimesInv
    <3>3. Soon(x, q)
      BY <3>2 DEF DueBy, Soon
    <3> QED
      BY <1>3, <2>1, <3>3, TimesMove
  <2> QED
    BY <2>1, <2>2, <2>3, <2>4, TimerSteps
<1>8. ASSUME pass' # Idle
      PROVE  /\ Early(pass.ps.start, pass.p)'
             /\ pass'.at # "desktop" => DueBy(pass.ps.exp, pass.p)'
  <2>1. CASE pass # Idle /\ pass'.p = pass.p /\ pass'.ps = pass.ps
             /\ (pass.at = "desktop" => pass'.at = "desktop")
    <3>1. PICK q \in Shares, ps \in PortShares : q = pass.p /\ ps = pass.ps
      BY <2>1, PassType DEF TypeInv
    <3>2. Early(ps.start, q)
      BY <2>1, <3>1 DEF TimesInv
    <3>3. Early(ps.start, q)'
      BY <1>5, <3>2
    <3>4. ASSUME pass'.at # "desktop"
          PROVE  DueBy(ps.exp, q)'
      <4>1. PICK x \in Nat : x = ps.exp
        BY <1>2
      <4>2. DueBy(x, q)
        BY <2>1, <3>1, <3>4, <4>1 DEF TimesInv
      <4>3. DueBy(x, q)'
        BY <1>3, <4>2, TimesMove
      <4> QED
        BY <4>1, <4>3
    <3> QED
      BY <2>1, <3>1, <3>3, <3>4 DEF Early, DueBy
  <2>2. ASSUME NEW p \in Shares, Start(p), shareSeen[p] # None
        PROVE  /\ Early(pass.ps.start, pass.p)'
               /\ pass'.at = "desktop"
    <3>1. PICK copy :
            /\ Patching(p, shareSeen[p], Condition(shareSeen[p], "Valid"), copy)
            /\ pass' = [at |-> "desktop", p |-> p, ps |-> copy, closing |-> FALSE]
      BY <2>2, StartPatch
    <3>2. /\ copy \in PortShares
          /\ \/ SameSpec(copy, shareSeen[p])
             \/ share[p] # None /\ SameSpec(copy, share[p])
      BY <3>1, PatchFacts DEF Patching, TypeInv
    <3>3. Early(copy.start, p) \/ (share[p] # None /\ copy.start = share[p].start)
      BY <2>2, <3>2 DEF SameSpec, TimesInv
    <3>4. Early(copy.start, p)'
      BY <1>5, <3>2, <3>3
    <3>5. pass'.ps = copy /\ pass'.p = p /\ pass'.at = "desktop"
      BY <3>1
    <3> QED
      BY <3>4, <3>5 DEF Early
  <2>3. CASE Expiry
    <3> DEFINE to == [pass.ps EXCEPT !.exp = Desired(pass.ps)]
    <3>0. pass # Idle
      BY <2>3, IdleAt DEF Expiry
    <3>1. PICK p \in Shares, ps \in PortShares : p = pass.p /\ ps = pass.ps
      BY <3>0, PassType DEF TypeInv
    <3>2. PICK copy :
            /\ Patching(pass.p, pass.ps, to, copy)
            /\ pass' = [at |-> "act", p |-> pass.p, ps |-> copy, closing |-> Past(Desired(pass.ps))]
      BY <2>3, ExpiryPatch
    <3>3. /\ to.exp = Desired(ps) /\ (to.exp = pass.ps.exp => to = pass.ps)
      BY <3>1 DEF PortShares
    <3> HIDE DEF to
    <3>4. /\ copy \in PortShares
          /\ \/ SameSpec(copy, ps)
             \/ share[p] # None /\ SameSpec(copy, share[p])
          /\ to.exp # ps.exp => copy.exp = to.exp
          /\ to = ps => copy = to
      BY <3>1, <3>2, PatchFacts DEF Patching, TypeInv
    <3>5. Early(ps.start, p)
      BY <3>0, <3>1 DEF TimesInv
    <3>6. Early(copy.start, p)'
      <4>1. Early(copy.start, p) \/ (share[p] # None /\ copy.start = share[p].start)
        BY <3>4, <3>5 DEF SameSpec
      <4> QED
        BY <1>5, <3>4, <4>1
    <3>7. DueBy(copy.exp, p)'
      <4>1. PICK x \in Nat : x = copy.exp
        BY <1>2, <3>4
      <4>2. x = Desired(ps)
        BY <3>1, <3>3, <3>4, <4>1
      <4>3. x <= ps.start + TTL
        BY <1>1, <1>2, <4>2, ConstantsAssumption DEF Desired, PortShares, TTLs
      <4>4. DueBy(x, p)
        BY <1>1, <1>2, <3>5, <4>3 DEF Early, DueBy
      <4>5. DueBy(x, p)'
        BY <1>3, <4>4, TimesMove
      <4> QED
        BY <4>1, <4>5
    <3>8. pass'.ps = copy /\ pass'.p = p
      BY <3>1, <3>2
    <3> QED
      BY <3>6, <3>7, <3>8 DEF Early, DueBy
  <2>4. CASE pass # Idle /\ pass.at = "act" /\ pass' = [pass EXCEPT !.at = "record"]
    <3>1. pass \in Passes
      BY <2>4 DEF TypeInv, TypeOK
    <3> QED
      BY <2>1, <2>4, <3>1 DEF Passes
  <2> QED
    BY <1>8, <2>1, <2>2, <2>3, <2>4, PassSteps
<1> QED
  BY <1>4, <1>6, <1>7, <1>8 DEF TimesInv

-----------------------------------------------------------------------------
(* A pass that nothing has disturbed, and what it leaves *)

InPass(p) == pass # Idle /\ pass.p = p

\* The share, as it is now, controls the Service of its port.
Has(p) == svc[share[p].port] = [share |-> p, uid |-> share[p].uid]

\* Between two steps after which nothing is under way for a share, it and its hold of the
\* Service are the same: every write is an event.
LEMMA Quiet ==
  ASSUME TypeInv, [Next]_vars, NEW q \in Shares, ~Pending(q)', share'[q] # None
  PROVE  /\ share'[q] = share[q] /\ share[q] \in PortShares
         /\ Has(q)' <=> Has(q)
         /\ Ended(q) => Ended(q)'
         /\ Pending(q) => Start(q)
         /\ ~Restart
<1>1. share'[q] = share[q] /\ share[q] \in PortShares
  <2>1. q \notin shareEvents'
    BY DEF Pending
  <2> QED
    BY <2>1, ShareSteps DEF TypeInv, TypeOK
<1>2. Has(q)' <=> Has(q)
  <2> DEFINE me == [share |-> q, uid |-> share[q].uid]
  <2>1. PICK n \in Ports : n = share[q].port
    BY <1>1 DEF PortShares
  <2>2. me # None /\ me.share = q
    BY DEF None
  <2>3. Has(q) <=> svc[n] = me
    BY <2>1 DEF Has
  <2>4. Has(q)' <=> svc'[n] = me
    BY <1>1, <2>1 DEF Has
  <2> HIDE DEF me
  <2>5. q \notin svcEvents'[n]
    BY <2>1 DEF Pending
  <2> QED
    BY <2>2, <2>3, <2>4, <2>5, ServiceSteps
<1>3. Ended(q) => Ended(q)'
  <2>1. PICK x \in Nat : x = Desired(share[q])
    BY <1>1, CopyFacts
  <2>2. clock' \in {clock, clock + 1} /\ clock \in Nat
    BY ClockFrame, ConstantsAssumption DEF Tick, TypeInv, TypeOK
  <2>3. Desired(share[q])' = x
    BY <1>1, <2>1 DEF Desired
  <2> QED
    BY <2>1, <2>2, <2>3 DEF Ended, Past
<1>4. ~Restart
  <2>1. Restart => q \in queue'
    BY <1>1, NoShare DEF Restart
  <2> QED
    BY <2>1 DEF Pending
<1> QED
  BY <1>1, <1>2, <1>3, <1>4, PendingSteps

\* The pass has the share's spec and, unless a call failed, its status; it closes only a
\* share that has ended, and if it does not close one that has ended, a timer is to come; when it
\* has acted, the share controls the Service or not, as it decided.
PassOK(p) ==
  /\ share[p] # None
  /\ SameSpec(pass.ps, share[p])
  /\ faults = 0 => pass.ps = share[p]
  /\ pass.closing => Ended(p)
  /\ pass.at # "desktop" => pass.ps.exp = Desired(share[p])
  /\ pass.at # "desktop" /\ ~pass.closing /\ Ended(p) /\ ~Crossing => timer[p] # 0
  /\ pass.at = "record" /\ ~pass.closing => Has(p)
  /\ pass.at = "record" /\ pass.closing /\ faults = 0 => ~Has(p)

PassInv == \A p \in Shares : InPass(p) /\ ~Pending(p) => PassOK(p)

LEMMA PassInit == Init => PassInv
  BY DEF Init, PassInv, InPass

\* Unless the call fails, the Service is deleted.
LEMMA CloseFacts ==
  ASSUME TypeInv, Close, ~Fault, NEW q \in Shares, pass.p = q, SameSpec(pass.ps, share[q])
  PROVE  ~Has(q)'
<1>1. SetService(pass.ps.port, None) /\ share' = share /\ pass # Idle
  BY IdleAt DEF Close, shares
<1>2. pass.ps.port \in Ports /\ svc \in [Ports -> Owners \cup {None}]
  BY <1>1, PassType DEF TypeInv, TypeOK, PortShares
<1>3. svc'[share[q].port] = None
  BY <1>1, <1>2 DEF SetService, SameSpec
<1> QED
  BY <1>1, <1>3 DEF Has, None

\* The first step of a pass.
LEMMA PassStart ==
  ASSUME TypeInv, CacheInv, CacheInv', NEW q \in Shares, Start(q), InPass(q)', ~Pending(q)'
  PROVE  PassOK(q)'
<1>1. shareSeen[q] # None
  BY DEF Start, InPass
<1>2. PICK copy :
        /\ Patching(q, shareSeen[q], Condition(shareSeen[q], "Valid"), copy)
        /\ pass' = [at |-> "desktop", p |-> q, ps |-> copy, closing |-> FALSE]
  BY <1>1, StartPatch
<1>3. q \notin shareEvents'
  BY DEF Pending
<1>4. shareSeen' = shareSeen
  BY DEF Start
<1>5. shareSeen[q] = share'[q]
  BY <1>3, <1>4 DEF CacheInv
<1>6. /\ share' = share
      /\ \/ /\ copy = Condition(shareSeen[q], "Valid")
            /\ share[q] # None /\ faults' = faults => shareSeen[q] = copy
         \/ copy = share[q]
      /\ faults' \in {faults, faults + 1}
  BY <1>2, <1>3, PatchFacts DEF Patching, TypeInv
<1>7. SameSpec(shareSeen[q], copy)
  BY <1>2, <1>5, <1>6 DEF Patching, SameSpec
<1>8. faults' = 0 => faults' = faults
  BY <1>6, ConstantsAssumption DEF TypeInv, TypeOK
<1>9. pass'.ps = copy /\ pass'.at = "desktop" /\ pass'.closing = FALSE
  BY <1>2
<1> QED
  BY <1>1, <1>5, <1>6, <1>7, <1>8, <1>9 DEF PassOK, SameSpec

LEMMA PassStep ==
  ASSUME TypeInv, CacheInv, PassInv, [Next]_vars
  PROVE  PassInv'
<1> SUFFICES ASSUME NEW q \in Shares, InPass(q)', ~Pending(q)'
             PROVE  PassOK(q)'
  BY DEF PassInv
<1>0. CacheInv' /\ TypeInv'
  BY CacheStep, TypeStep
<1>1. CASE Start(q)
  BY <1>0, <1>1, PassStart
<1>2. CASE ~Start(q)
  <2>1. pass' # Idle /\ pass'.p = q
    BY DEF InPass
  <2>2. ~Restart
    BY <2>1 DEF Restart
  <2>3. ~Pending(q)
    BY <1>2, <2>2, PendingSteps
  <2>4. ASSUME NEW p \in Shares, Start(p), shareSeen[p] # None
        PROVE  FALSE
    <3>1. pass'.p = p
      BY <2>4, StartPatch
    <3> QED
      BY <1>2, <2>1, <2>4, <3>1
  <2>5. InPass(q)
    <3>1. CASE Expiry
      <4>1. pass'.p = pass.p /\ pass # Idle
        BY <3>1, ExpiryPatch, IdleAt DEF Expiry
      <4> QED
        BY <2>1, <4>1 DEF InPass
    <3>2. CASE pass # Idle /\ pass' = [pass EXCEPT !.at = "record"]
      <4>1. pass \in Passes
        BY <3>2 DEF TypeInv, TypeOK
      <4>2. pass'.p = pass.p
        BY <3>2, <4>1 DEF Passes
      <4> QED
        BY <2>1, <3>2, <4>2 DEF InPass
    <3> QED
      BY <2>1, <2>4, <3>1, <3>2, PassSteps DEF InPass
  <2>6. PassOK(q)
    BY <2>3, <2>5 DEF PassInv
  <2>7. share'[q] # None
    <3>1. q \notin shareEvents' /\ share[q] # None
      BY <2>6 DEF Pending, PassOK
    <3> QED
      BY <3>1, ShareSteps
  <2>8. /\ share'[q] = share[q] /\ share[q] \in PortShares
        /\ Has(q)' <=> Has(q)
        /\ Ended(q) => Ended(q)'
    BY <2>7, Quiet
  <2>9. faults' = 0 => faults = 0
    BY FaultsFrame, ConstantsAssumption DEF TypeInv, TypeOK
  <2>10. CASE pass' = pass
    <3>1. ~DesktopNotFound /\ ~Record
      BY <2>1, DesktopNotFoundStep, RecordStep
    <3>2. ~Fire(q)
      BY DEF Fire, Pending
    <3>3. timer'[q] = timer[q]
      BY <2>2, <3>1, <3>2, TimerSteps
    <3>4. Desired(share[q])' = Desired(share[q])
      BY <2>8 DEF Desired
    <3>5. ASSUME pass.at # "desktop", ~pass.closing, Ended(q)', ~Crossing
          PROVE  timer[q] # 0
      <4>1. CASE Ended(q)
        BY <3>5, <4>1, <2>6 DEF PassOK
      <4>2. CASE ~Ended(q)
        <5>1. pass.ps.exp = Desired(share[q])
          BY <2>6, <3>5 DEF PassOK
        <5>2. Tick
          BY <3>4, <3>5, <4>2, ClockFrame DEF Ended, Past
        <5>3. Desired(share[q]) = clock + 1
          <6>1. PICK x \in Nat : x = Desired(share[q])
            BY <2>8, CopyFacts
          <6>2. x # 0 /\ clock' >= x /\ ~(clock >= x)
            BY <3>4, <3>5, <4>2, <6>1 DEF Ended, Past
          <6>3. clock' = clock + 1 /\ clock \in Nat
            BY <5>2, ConstantsAssumption DEF Tick, TypeInv, TypeOK
          <6> QED
            BY <6>1, <6>2, <6>3
        <5>4. ~Crosses
          BY <3>5, <5>2 DEF Tick
        <5>5. pass.at \in {"act", "record"} /\ pass.p = q
          BY <2>5, <3>5, PassType DEF TypeInv, InPass
        <5>6. pass.p \notin queue \cup shareEvents \cup UNION {svcEvents[n] : n \in Ports}
          BY <2>3, <5>5 DEF Pending
        <5> QED
          BY <3>5, <5>1, <5>3, <5>4, <5>5, <5>6 DEF Crosses
      <4> QED
        BY <4>1, <4>2
    <3> QED
      BY <2>6, <2>8, <2>9, <2>10, <3>3, <3>4, <3>5 DEF PassOK
  <2>11. CASE Expiry
    <3> DEFINE to == [pass.ps EXCEPT !.exp = Desired(pass.ps)]
    <3>1. pass.p = q /\ pass.ps \in PortShares
      BY <2>5, PassType DEF TypeInv, InPass
    <3>2. PICK copy :
            /\ Patching(q, pass.ps, to, copy)
            /\ pass' = [at |-> "act", p |-> q, ps |-> copy, closing |-> Past(Desired(pass.ps))]
      BY <2>11, <3>1, ExpiryPatch
    <3>3. to.exp = Desired(pass.ps) /\ SameSpec(pass.ps, to)
      BY <3>1 DEF PortShares, SameSpec
    <3> HIDE DEF to
    <3>4. q \notin shareEvents'
      BY DEF Pending
    <3>5. /\ \/ copy = to /\ (share[q] # None /\ faults' = faults => pass.ps = to)
             \/ copy = share[q]
          /\ to.exp # pass.ps.exp => copy.exp = to.exp
          /\ pass.ps = to => copy = to
      BY <3>2, <3>4, PatchFacts DEF Patching, TypeInv
    <3>x. to.exp = pass.ps.exp => pass.ps = to
      BY <3>1 DEF to, PortShares
    <3>6. Desired(pass.ps) = Desired(share[q]) /\ Desired(share[q])' = Desired(share[q])
      BY <2>6, <2>8 DEF PassOK, SameSpec, Desired
    <3>7. clock' = clock
      BY <2>11 DEF Expiry
    <3>8. Past(Desired(pass.ps)) <=> Ended(q)'
      BY <3>6, <3>7 DEF Ended, Past
    <3>9. /\ SameSpec(copy, share'[q]) /\ copy.exp = Desired(share[q])'
      BY <2>6, <2>8, <3>3, <3>5, <3>6, <3>x DEF PassOK, SameSpec
    <3>10. faults' = 0 => copy = share'[q]
      <4>1. faults' = 0 => faults' = faults
        BY <2>9
      <4> QED
        BY <2>6, <2>8, <2>9, <3>5, <4>1 DEF PassOK
    <3>11. pass'.at = "act" /\ pass'.ps = copy /\ pass'.closing = Past(Desired(pass.ps))
      BY <3>2
    <3> QED
      BY <2>7, <3>8, <3>9, <3>10, <3>11 DEF PassOK
  <2>12. CASE pass # Idle /\ pass.at = "act" /\ pass' = [pass EXCEPT !.at = "record"] /\ ~Expiry
    <3>1. pass \in Passes /\ pass.p = q
      BY <2>5 DEF TypeInv, TypeOK, InPass
    <3>2. pass'.at = "record" /\ pass'.ps = pass.ps /\ pass'.closing = pass.closing
      BY <2>12, <3>1 DEF Passes
    <3>3. Close \/ CreateOrUpdate
      <4>1. pass' # pass
        BY <2>12, <3>2
      <4>2. ~DesktopNotFound /\ ~Record
        BY <2>1, DesktopNotFoundStep, RecordStep
      <4>3. ~\E p \in Shares : Start(p)
        BY <2>12 DEF Start
      <4> QED
        BY <2>2, <2>12, <4>1, <4>2, <4>3, PassFrame DEF Reconcile
    <3>4. timer' = timer /\ clock' = clock
      BY <3>3 DEF Close, CreateOrUpdate
    <3>5. Desired(share[q])' = Desired(share[q])
      BY <2>8 DEF Desired
    <3>6. pass.ps.port = share[q].port /\ pass.ps.uid = share[q].uid
      BY <2>6 DEF PassOK, SameSpec
    <3>7. Ended(q)' <=> Ended(q)
      BY <3>4, <3>5 DEF Ended, Past
    <3>8. CASE Close
      <4>1. pass.closing
        BY <3>8 DEF Close
      <4>2. faults' = 0 => ~Has(q)'
        <5>1. CASE Fault
          BY <5>1, ConstantsAssumption DEF Fault, TypeInv, TypeOK
        <5>2. CASE ~Fault
          BY <2>6, <3>1, <3>8, <5>2, CloseFacts DEF PassOK
        <5> QED
          BY <5>1, <5>2
      <4> QED
        <5>1. pass'.closing
          BY <3>2, <4>1
        <5> QED
          BY <2>6, <2>7, <2>8, <2>9, <2>12, <3>2, <3>5, <3>7, <4>2, <5>1 DEF PassOK
    <3>9. CASE CreateOrUpdate
      <4> DEFINE n == pass.ps.port
                 me == [share |-> pass.p, uid |-> pass.ps.uid]
      <4>1. ~pass.closing
        BY <3>9 DEF CreateOrUpdate
      <4>2. Written(n, me)
        BY <2>1, <3>9 DEF CreateOrUpdate
      <4>3. n \in Ports /\ me # None /\ me.share = q
        BY <2>8, <3>1, <3>6 DEF PortShares, None
      <4>4. (Has(q) <=> svc[n] = me) /\ (Has(q)' <=> svc'[n] = me)
        BY <2>8, <3>1, <3>6 DEF Has
      <4> HIDE DEF n, me
      <4>5. svc \in [Ports -> Owners \cup {None}]
        BY DEF TypeInv, TypeOK
      <4>6. Has(q)'
        <5>1. CASE svcSeen[n] = me /\ UNCHANGED <<svc, svcEvents>>
          <6>1. q \notin svcEvents[n]
            BY <2>3, <4>3 DEF Pending
          <6> QED
            BY <4>3, <4>4, <5>1, <6>1 DEF CacheInv
        <5>2. CASE SetService(n, me)
          <6>1. svc'[n] = me
            BY <4>3, <4>5, <5>2 DEF SetService
          <6> QED
            BY <4>4, <6>1
        <5> QED
          BY <4>2, <5>1, <5>2 DEF Written
      <4> QED
        <5>1. ~pass'.closing
          BY <3>2, <4>1
        <5>2. Ended(q)' /\ ~Crossing => timer'[q] # 0
          BY <2>6, <2>12, <3>4, <3>7, <4>1 DEF PassOK
        <5> QED
          BY <2>6, <2>7, <2>8, <2>9, <2>12, <3>2, <3>5, <4>6, <5>1, <5>2 DEF PassOK
    <3> QED
      BY <3>3, <3>8, <3>9
  <2> QED
    BY <2>1, <2>4, <2>10, <2>11, <2>12, PassSteps
<1> QED
  BY <1>1, <1>2

-----------------------------------------------------------------------------
(* One failed call, when users change nothing *)

LEMMA UserEdits ==
  ASSUME edits \in Nat, NEW p \in Shares, Delete(p) \/ EditSpec(p)
  PROVE  edits' # edits
<1>1. Edit
  BY DEF Delete, EditSpec
<1> QED
  BY <1>1 DEF Edit

\* Without a change by a user a share keeps its spec, and what has ended stays so.
LEMMA NoEdit ==
  ASSUME TypeInv, [Next]_vars, edits' = edits, NEW q \in Shares, share[q] # None
  PROVE  /\ share[q] \in PortShares /\ share'[q] \in PortShares /\ share'[q] # None
         /\ SameSpec(share'[q], share[q])
         /\ Ended(q) => Ended(q)'
<1>0. edits \in Nat /\ share[q] \in PortShares /\ share \in [Shares -> PortShares \cup {None}]
  BY ConstantsAssumption DEF TypeInv, TypeOK
<1>1. share'[q] # None /\ SameSpec(share'[q], share[q])
  <2>1. CASE DesktopNotFound \/ Expiry \/ Record \/ \E p \in Shares : Start(p)
    <3>1. CASE \E p, from, to, copy : Patching(p, from, to, copy)
      <4>1. PICK p, from, to, copy : Patching(p, from, to, copy)
        BY <3>1
      <4>2. /\ p \in Shares
            /\ \A r \in Shares : r # p => share'[r] = share[r]
            /\ share[p] # None => share'[p] # None /\ SameSpec(share'[p], share[p])
        BY <4>1, PatchFacts DEF Patching, TypeInv
      <4> QED
        BY <4>2 DEF SameSpec
    <3> QED
      BY <2>1, <3>1, SomePatch DEF SameSpec
  <2>2. ASSUME NEW p \in Shares, Create(p)
        PROVE  share'[q] = share[q]
    <3>1. share[p] = None
      BY <2>2 DEF Create
    <3>2. p # q
      BY <3>1
    <3> QED
      BY <1>0, <2>2, <3>2 DEF Create, SetShare
  <2>3. ~(\E p \in Shares : Delete(p) \/ EditSpec(p))
    BY <1>0, UserEdits
  <2>4. CASE Restart \/ \E p \in Shares : SyncShare(p)
    BY <2>4 DEF Restart, SyncShare, SameSpec
  <2>5. CASE UNCHANGED shares
    BY <2>5 DEF shares, SameSpec
  <2> QED
    BY <2>1, <2>2, <2>3, <2>4, <2>5, SharesFrame DEF SameSpec
<1>2. share'[q] \in PortShares
  BY <1>1, TypeStep DEF TypeInv, TypeOK
<1>3. Ended(q) => Ended(q)'
  <2>1. PICK x \in Nat : x = Desired(share[q])
    BY <1>0, CopyFacts
  <2>2. clock' \in {clock, clock + 1} /\ clock \in Nat
    BY ClockFrame, ConstantsAssumption DEF Tick, TypeInv, TypeOK
  <2>3. Desired(share[q])' = x
    BY <1>1, <2>1 DEF Desired, SameSpec
  <2> QED
    BY <2>1, <2>2, <2>3 DEF Ended, Past
<1> QED
  BY <1>0, <1>1, <1>2, <1>3

\* Nothing but the end of a pass changes status.active.
LEMMA ActiveSteps ==
  ASSUME TypeInv, [Next]_vars, edits' = edits, faults' = faults, NEW q \in Shares, share[q] # None
  PROVE  /\ ~(Record /\ q = pass.p) => share'[q].active = share[q].active
         /\ Record /\ q = pass.p =>
              /\ pass.ps.active = ~pass.closing => share'[q].active = share[q].active
              /\ pass.ps.active # ~pass.closing => share'[q].active = ~pass.closing
<1>0. edits \in Nat /\ share[q] \in PortShares /\ share \in [Shares -> PortShares \cup {None}]
  BY ConstantsAssumption DEF TypeInv, TypeOK
<1>1. CASE Record
  <2>1. PICK copy : Patching(pass.p, pass.ps, Final(pass.ps, pass.closing), copy)
    BY <1>1, RecordPatch
  <2>2. CASE q # pass.p
    BY <2>1, <2>2, PatchFacts DEF Patching, TypeInv
  <2>3. CASE q = pass.p
    <3> DEFINE to == Final(pass.ps, pass.closing)
    <3>1. to.active = ~pass.closing
      BY <2>1 DEF Patching, Final, PortShares
    <3> HIDE DEF to
    <3>2. share'[q].active = IF to.active = pass.ps.active THEN share[q].active ELSE to.active
      BY <2>1, <2>3, PatchActive DEF Patching, TypeInv, to
    <3> QED
      BY <1>1, <2>3, <3>1, <3>2
  <2> QED
    BY <1>1, <2>2, <2>3
<1>2. ASSUME NEW p, NEW from, NEW to, NEW copy, Patching(p, from, to, copy), from.active = to.active
      PROVE  share'[q].active = share[q].active
  <2>1. CASE q # p
    BY <1>2, <2>1, PatchFacts DEF Patching, TypeInv
  <2>2. CASE q = p
    BY <1>2, <2>2, PatchActive DEF Patching, TypeInv
  <2> QED
    BY <2>1, <2>2
<1>3. CASE DesktopNotFound
  <2>1. PICK copy : Patching(pass.p, pass.ps, Condition(pass.ps, "DesktopNotFound"), copy)
    BY <1>3, DesktopNotFoundPatch
  <2>2. pass.ps.active = Condition(pass.ps, "DesktopNotFound").active
    BY <2>1 DEF Patching, PortShares, Condition
  <2>3. ~Record
    BY <1>3 DEF DesktopNotFound, Record
  <2> QED
    BY <1>2, <2>1, <2>2, <2>3
<1>4. CASE Expiry
  <2> DEFINE to == [pass.ps EXCEPT !.exp = Desired(pass.ps)]
  <2>1. PICK copy : Patching(pass.p, pass.ps, to, copy)
    BY <1>4, ExpiryPatch
  <2>2. pass.ps.active = to.active
    BY <2>1 DEF Patching, PortShares
  <2>3. ~Record
    BY <1>4 DEF Expiry, Record
  <2> HIDE DEF to
  <2> QED
    BY <1>2, <2>1, <2>2, <2>3
<1>5. ASSUME NEW p \in Shares, Start(p)
      PROVE  share'[q].active = share[q].active /\ ~Record
  <2>1. ASSUME shareSeen[p] = None
        PROVE  share'[q].active = share[q].active
    BY <1>5, <2>1 DEF Start
  <2>2. ASSUME shareSeen[p] # None
        PROVE  share'[q].active = share[q].active
    <3>1. PICK copy : Patching(p, shareSeen[p], Condition(shareSeen[p], "Valid"), copy)
      BY <1>5, <2>2, StartPatch
    <3>2. shareSeen[p].active = Condition(shareSeen[p], "Valid").active
      BY <3>1 DEF Patching, PortShares, Condition
    <3> QED
      BY <1>2, <3>1, <3>2
  <2>3. ~Record
    BY <1>5, IdleAt DEF Start, Record
  <2> QED
    BY <2>1, <2>2, <2>3
<1>6. ASSUME NEW p \in Shares, Create(p)
      PROVE  share'[q] = share[q]
  <2>1. share[p] = None
    BY <1>6 DEF Create
  <2>2. p # q
    BY <2>1
  <2> QED
    BY <1>0, <1>6, <2>2 DEF Create, SetShare
<1>7. ~(\E p \in Shares : Delete(p) \/ EditSpec(p))
  BY <1>0, UserEdits
<1>8. CASE ~Record /\ (Restart \/ (\E p \in Shares : SyncShare(p)) \/ UNCHANGED shares)
  BY <1>8 DEF Restart, SyncShare, shares
<1> QED
  BY <1>1, <1>3, <1>4, <1>5, <1>6, <1>7, <1>8, SharesFrame

\* A share comes to control the Service of its port in a pass of its own only.
LEMMA HasSteps ==
  ASSUME TypeInv, [Next]_vars, edits' = edits, NEW q \in Shares, share[q] # None,
         Has(q)', ~Has(q)
  PROVE  CreateOrUpdate /\ q = pass.p
<1> DEFINE me == [share |-> q, uid |-> share[q].uid]
<1>1. SameSpec(share'[q], share[q]) /\ share[q] \in PortShares
  BY NoEdit
<1>2. PICK n \in Ports : n = share[q].port
  BY <1>1 DEF PortShares
<1>3. svc'[n] = me /\ svc[n] # me /\ me # None /\ me.share = q
  BY <1>1, <1>2 DEF Has, SameSpec, None
<1> HIDE DEF me
<1>4. svc \in [Ports -> Owners \cup {None}]
  BY DEF TypeInv, TypeOK
<1>5. CASE Close \/ \E m \in Ports : Collect(m)
  <2>1. PICK m : SetService(m, None) \/ UNCHANGED svc
    BY <1>5 DEF Close, Collect
  <2>2. svc'[n] \in {svc[n], None}
    BY <1>2, <1>4, <2>1 DEF SetService
  <2> QED
    BY <1>3, <2>2
<1>6. CASE CreateOrUpdate
  <2> DEFINE m == pass.ps.port
             owner == [share |-> pass.p, uid |-> pass.ps.uid]
  <2>1. Written(m, owner) \/ UNCHANGED <<svc, svcEvents>>
    BY <1>6 DEF CreateOrUpdate
  <2>2. owner.share = pass.p
    OBVIOUS
  <2> HIDE DEF m, owner
  <2>3. svc'[n] \in {svc[n], owner}
    BY <1>2, <1>4, <2>1 DEF Written, SetService
  <2> QED
    BY <1>3, <1>6, <2>2, <2>3
<1>7. CASE Restart \/ \E m \in Ports : SyncService(m)
  BY <1>3, <1>7 DEF Restart, SyncService
<1>8. CASE UNCHANGED services
  BY <1>3, <1>8 DEF services
<1> QED
  BY <1>5, <1>6, <1>7, <1>8, ServicesFrame

\* As long as users change nothing every copy of a share has the spec of the share, and a
\* pass that closes it does so after its end.
SpecFixed(p) ==
  /\ share[p] # None /\ shareSeen[p] # None
  /\ SameSpec(shareSeen[p], share[p])
  /\ InPass(p) => SameSpec(pass.ps, share[p]) /\ (pass.closing => Ended(p))

\* As long as no call has failed either, a share that controls the Service is active, or
\* the pass that made it so is about to say so; a copy that is active when the share no
\* longer is belongs to a share that has ended.
StatusFollows(p) ==
  /\ shareSeen[p].active /\ ~share[p].active => Ended(p)
  /\ InPass(p) /\ pass.ps.active /\ ~share[p].active =>
       IF pass.at = "desktop" THEN Ended(p) ELSE pass.closing
  /\ InPass(p) /\ pass.at = "record" /\ pass.closing => ~Has(p)
  /\ Has(p) => \/ share[p].active
               \/ InPass(p) /\ pass.at = "record" /\ ~pass.closing /\ ~pass.ps.active

\* So the pass in which the first call fails, and leaves the Service, has a status to
\* change that the API server has too: an event, which brings the next pass.
CloseNoticed(p) ==
  InPass(p) /\ ~Pending(p) /\ pass.at = "record" /\ pass.closing /\ Has(p) =>
    pass.ps.active /\ share[p].active

FaultInv ==
  edits = 0 =>
    \A p \in Shares : /\ SpecFixed(p)
                      /\ faults = 0 => StatusFollows(p)
                      /\ faults <= 1 => CloseNoticed(p)

LEMMA FaultInit == Init => FaultInv
<1> SUFFICES ASSUME Init PROVE FaultInv
  OBVIOUS
<1>1. PICK n \in Ports : share = [p \in Shares |-> Fresh(1, n, TTL)]
  BY DEF Init
<1>2. Fresh(1, n, TTL).port = n /\ Fresh(1, n, TTL).active = FALSE /\ Fresh(1, n, TTL) # None
  BY DEF Fresh, None
<1>3. \A p \in Shares : share[p].port = n /\ ~share[p].active /\ share[p] # None
  BY <1>1, <1>2
<1>4. \A p \in Shares : ~Has(p)
  BY <1>3 DEF Init, Has, None
<1> QED
  BY <1>3, <1>4 DEF Init, FaultInv, SpecFixed, StatusFollows, CloseNoticed, SameSpec, InPass

LEMMA SpecFixedStep ==
  ASSUME TypeInv, [Next]_vars, edits' = edits, NEW q \in Shares, SpecFixed(q)
  PROVE  SpecFixed(q)'
<1>1. /\ share[q] \in PortShares /\ share'[q] \in PortShares /\ share'[q] # None
      /\ SameSpec(share'[q], share[q])
      /\ Ended(q) => Ended(q)'
  BY NoEdit DEF SpecFixed
<1>2. shareSeen'[q] # None /\ SameSpec(shareSeen'[q], share'[q])
  BY <1>1, SeenSteps DEF SpecFixed, SameSpec
<1>3. ASSUME InPass(q)'
      PROVE  SameSpec(pass'.ps, share'[q]) /\ (pass'.closing => Ended(q)')
  <2>1. CASE pass # Idle /\ pass'.p = pass.p /\ pass'.ps = pass.ps /\ pass'.closing = pass.closing
    BY <1>1, <1>3, <2>1 DEF SpecFixed, InPass, SameSpec
  <2>2. ASSUME NEW p \in Shares, Start(p), shareSeen[p] # None
        PROVE  SameSpec(pass'.ps, share'[q]) /\ ~pass'.closing
    <3>1. PICK copy :
            /\ Patching(p, shareSeen[p], Condition(shareSeen[p], "Valid"), copy)
            /\ pass' = [at |-> "desktop", p |-> p, ps |-> copy, closing |-> FALSE]
      BY <2>2, StartPatch
    <3>2. p = q /\ pass'.ps = copy /\ ~pass'.closing
      BY <1>3, <3>1 DEF InPass
    <3>3. SameSpec(copy, shareSeen[q]) \/ SameSpec(copy, share[q])
      BY <3>1, <3>2, PatchFacts DEF Patching, TypeInv
    <3>4. SameSpec(copy, share'[q])
      BY <1>1, <3>3 DEF SpecFixed, SameSpec
    <3> QED
      BY <3>2, <3>4
  <2>3. CASE Expiry
    <3> DEFINE to == [pass.ps EXCEPT !.exp = Desired(pass.ps)]
    <3>1. PICK copy :
            /\ Patching(pass.p, pass.ps, to, copy)
            /\ pass' = [at |-> "act", p |-> pass.p, ps |-> copy, closing |-> Past(Desired(pass.ps))]
      BY <2>3, ExpiryPatch
    <3> HIDE DEF to
    <3>2. pass.p = q /\ pass'.ps = copy /\ (pass'.closing <=> Past(Desired(pass.ps))) /\ pass # Idle
      BY <1>3, <2>3, <3>1, IdleAt DEF InPass, Expiry
    <3>3. SameSpec(pass.ps, share[q])
      BY <3>2 DEF SpecFixed, InPass
    <3>4. SameSpec(copy, pass.ps) \/ SameSpec(copy, share[q])
      BY <3>1, <3>2, PatchFacts DEF Patching, TypeInv
    <3>5. SameSpec(copy, share'[q])
      BY <1>1, <3>3, <3>4 DEF SameSpec
    <3>6. Past(Desired(pass.ps)) <=> Ended(q)
      BY <3>3 DEF SameSpec, Desired, Ended
    <3> QED
      BY <1>1, <3>2, <3>5, <3>6
  <2>4. CASE pass # Idle /\ pass' = [pass EXCEPT !.at = "record"]
    <3>1. pass \in Passes
      BY <2>4 DEF TypeInv, TypeOK
    <3>2. pass'.p = pass.p /\ pass'.ps = pass.ps /\ pass'.closing = pass.closing
      BY <2>4, <3>1 DEF Passes
    <3> QED
      BY <2>1, <2>4, <3>2
  <2> QED
    BY <1>3, <2>1, <2>2, <2>3, <2>4, PassSteps DEF InPass
<1> QED
  BY <1>1, <1>2, <1>3 DEF SpecFixed

\* The pass of a share goes from one step to the next.
LEMMA InPassSteps ==
  ASSUME TypeInv, [Next]_vars, NEW q \in Shares, InPass(q)'
  PROVE  \/ InPass(q) /\ pass' = pass
         \/ Start(q) /\ shareSeen[q] # None
         \/ InPass(q) /\ Expiry
         \/ /\ InPass(q) /\ (Close \/ CreateOrUpdate)
            /\ pass.at = "act" /\ pass'.at = "record"
            /\ pass'.ps = pass.ps /\ pass'.closing = pass.closing
<1>0. pass' # Idle /\ pass'.p = q
  BY DEF InPass
<1>1. CASE pass' = pass
  BY <1>1 DEF InPass
<1>2. ASSUME NEW p \in Shares, Start(p), shareSeen[p] # None
      PROVE  p = q
  BY <1>0, <1>2, StartPatch
<1>3. CASE Expiry
  <2>1. pass'.p = pass.p /\ pass # Idle
    BY <1>3, ExpiryPatch, IdleAt DEF Expiry
  <2> QED
    BY <1>0, <1>3, <2>1 DEF InPass
<1>4. CASE pass # Idle /\ pass.at = "act" /\ pass' = [pass EXCEPT !.at = "record"] /\ ~Expiry
  <2>1. pass \in Passes
    BY <1>4 DEF TypeInv, TypeOK
  <2>2. pass'.p = pass.p /\ pass'.ps = pass.ps /\ pass'.closing = pass.closing /\ pass'.at = "record"
    BY <1>4, <2>1 DEF Passes
  <2>3. Close \/ CreateOrUpdate
    <3>1. pass' # pass
      BY <1>4, <2>2
    <3>2. ~DesktopNotFound /\ ~Record /\ ~Restart
      BY <1>0, DesktopNotFoundStep, RecordStep DEF Restart
    <3>3. ~\E p \in Shares : Start(p)
      BY <1>4 DEF Start
    <3> QED
      BY <1>4, <3>1, <3>2, <3>3, PassFrame DEF Reconcile
  <2> QED
    BY <1>0, <1>4, <2>2, <2>3 DEF InPass
<1> QED
  BY <1>0, <1>1, <1>2, <1>3, <1>4, PassSteps

LEMMA StatusFollowsStep ==
  ASSUME TypeInv, [Next]_vars, edits' = edits, faults' = faults, NEW q \in Shares,
         SpecFixed(q), StatusFollows(q), ~Restart
  PROVE  StatusFollows(q)'
<1>1. /\ share[q] # None /\ share[q] \in PortShares /\ share'[q] \in PortShares /\ share'[q] # None
      /\ SameSpec(share'[q], share[q])
      /\ Ended(q) => Ended(q)'
  BY NoEdit DEF SpecFixed
<1>2. ~(Record /\ q = pass.p) => share'[q].active = share[q].active
  BY <1>1, ActiveSteps
<1>3. ASSUME Record, q = pass.p
      PROVE  /\ InPass(q) /\ ~InPass(q)' /\ pass.at = "record"
             /\ pass.ps.active \in BOOLEAN /\ pass.closing \in BOOLEAN
             /\ pass.ps.active = ~pass.closing => share'[q].active = share[q].active
             /\ pass.ps.active # ~pass.closing => share'[q].active = ~pass.closing
  <2>1. InPass(q) /\ pass.at = "record"
    BY <1>3, IdleAt DEF Record, InPass
  <2>2. pass.ps.active \in BOOLEAN /\ pass.closing \in BOOLEAN
    BY <2>1, PassType DEF TypeInv, PortShares, InPass
  <2>3. ~InPass(q)'
    BY <1>3, RecordStep DEF InPass
  <2> QED
    BY <1>1, <1>3, <2>1, <2>2, <2>3, ActiveSteps
<1>4. share[q].active \in BOOLEAN /\ share'[q].active \in BOOLEAN
  BY <1>1 DEF PortShares
<1>5. ASSUME shareSeen'[q].active, ~share'[q].active
      PROVE  Ended(q)'
  <2>1. shareSeen'[q] = shareSeen[q]
    BY <1>5, SeenSteps
  <2>2. CASE share'[q].active = share[q].active
    BY <1>1, <1>5, <2>1, <2>2 DEF StatusFollows
  <2>3. CASE share'[q].active # share[q].active
    <3>1. Record /\ q = pass.p
      BY <1>2, <2>3
    <3>2. InPass(q) /\ pass.closing
      BY <1>3, <1>5, <2>3, <3>1
    <3> QED
      BY <1>1, <3>2 DEF SpecFixed
  <2> QED
    BY <2>2, <2>3
<1>6. ASSUME InPass(q)', pass'.ps.active, ~share'[q].active
      PROVE  IF pass'.at = "desktop" THEN Ended(q)' ELSE pass'.closing
  <2>0. share'[q].active = share[q].active
    BY <1>2, <1>3, <1>6
  <2>1. CASE InPass(q) /\ pass' = pass
    BY <1>1, <1>6, <2>0, <2>1 DEF StatusFollows
  <2>2. CASE Start(q) /\ shareSeen[q] # None
    <3>1. PICK copy :
            /\ Patching(q, shareSeen[q], Condition(shareSeen[q], "Valid"), copy)
            /\ pass' = [at |-> "desktop", p |-> q, ps |-> copy, closing |-> FALSE]
      BY <2>2, StartPatch
    <3>2. pass'.ps = copy /\ pass'.at = "desktop"
      BY <3>1
    <3>3. copy.active = share'[q].active \/ copy.active = shareSeen[q].active
      BY <1>1, <3>1, PatchActive DEF Patching, TypeInv
    <3>4. shareSeen[q].active
      BY <1>6, <3>2, <3>3
    <3>5. Ended(q)
      BY <1>6, <2>0, <3>4 DEF StatusFollows
    <3> QED
      BY <1>1, <3>2, <3>5
  <2>3. CASE InPass(q) /\ Expiry
    <3> DEFINE to == [pass.ps EXCEPT !.exp = Desired(pass.ps)]
    <3>1. pass.p = q /\ pass.at = "desktop"
      BY <2>3 DEF InPass, Expiry
    <3>2. PICK copy :
            /\ Patching(q, pass.ps, to, copy)
            /\ pass' = [at |-> "act", p |-> q, ps |-> copy, closing |-> Past(Desired(pass.ps))]
      BY <2>3, <3>1, ExpiryPatch
    <3> HIDE DEF to
    <3>3. pass'.ps = copy /\ pass'.at = "act" /\ (pass'.closing <=> Past(Desired(pass.ps)))
      BY <3>2
    <3>4. copy.active = share'[q].active \/ copy.active = pass.ps.active
      BY <1>1, <3>2, PatchActive DEF Patching, TypeInv
    <3>5. pass.ps.active
      BY <1>6, <3>3, <3>4
    <3>6. Ended(q)
      BY <1>6, <2>0, <2>3, <3>1, <3>5 DEF StatusFollows
    <3>7. Past(Desired(pass.ps)) <=> Ended(q)
      BY <2>3 DEF SpecFixed, SameSpec, Desired, Ended
    <3> QED
      BY <3>3, <3>6, <3>7
  <2>4. CASE /\ InPass(q) /\ pass.at = "act" /\ pass'.at = "record"
             /\ pass'.ps = pass.ps /\ pass'.closing = pass.closing
    BY <1>6, <2>0, <2>4 DEF StatusFollows
  <2> QED
    BY <1>6, <2>1, <2>2, <2>3, <2>4, InPassSteps
<1>7. ASSUME InPass(q)', pass'.at = "record", pass'.closing
      PROVE  ~Has(q)'
  <2>1. CASE InPass(q) /\ pass' = pass
    <3>1. ~Has(q)
      BY <1>7, <2>1 DEF StatusFollows
    <3>2. ~CreateOrUpdate
      BY <1>7, <2>1 DEF CreateOrUpdate
    <3> QED
      BY <1>1, <3>1, <3>2, HasSteps
  <2>2. CASE /\ InPass(q) /\ (Close \/ CreateOrUpdate)
             /\ pass.at = "act" /\ pass'.at = "record" /\ pass'.closing = pass.closing
    <3>1. Close /\ pass.p = q
      BY <1>7, <2>2 DEF CreateOrUpdate, InPass
    <3>2. SameSpec(pass.ps, share[q])
      BY <2>2 DEF SpecFixed
    <3>3. ~Fault
      BY ConstantsAssumption DEF Fault, TypeInv, TypeOK
    <3> QED
      BY <3>1, <3>2, <3>3, CloseFacts
  <2>3. CASE Start(q) /\ shareSeen[q] # None
    <3>1. pass'.at = "desktop"
      BY <2>3, StartPatch
    <3> QED
      BY <1>7, <3>1
  <2>4. CASE Expiry
    <3>1. pass'.at = "act"
      BY <2>4, ExpiryPatch
    <3> QED
      BY <1>7, <3>1
  <2> QED
    BY <1>7, <2>1, <2>2, <2>3, <2>4, InPassSteps
<1>8. ASSUME Has(q)', ~share'[q].active
      PROVE  InPass(q)' /\ pass'.at = "record" /\ ~pass'.closing /\ ~pass'.ps.active
  <2>1. CASE ~Has(q)
    <3>1. CreateOrUpdate /\ q = pass.p
      BY <1>1, <1>8, <2>1, HasSteps
    <3>2. InPass(q) /\ pass.at = "act" /\ ~pass.closing
      BY <3>1, IdleAt DEF CreateOrUpdate, InPass
    <3>3. pass' = [pass EXCEPT !.at = "record"]
      <4>1. svc' # svc
        <5>1. share' = share
          BY <3>1 DEF CreateOrUpdate, shares
        <5> QED
          BY <1>8, <2>1, <5>1 DEF Has
      <4>2. ~Fault
        BY ConstantsAssumption DEF Fault, TypeInv, TypeOK
      <4> QED
        BY <3>1, <4>1, <4>2 DEF CreateOrUpdate
    <3>4. pass \in Passes
      BY <3>2 DEF TypeInv, TypeOK, InPass
    <3>5. pass' # Idle /\ pass'.p = q /\ pass'.at = "record" /\ pass'.closing = pass.closing
          /\ pass'.ps = pass.ps
      BY <3>1, <3>3, <3>4, IdleAt DEF Passes
    <3>6. share'[q].active = share[q].active
      BY <3>1 DEF CreateOrUpdate, shares
    <3>7. ~pass.ps.active
      BY <1>8, <3>2, <3>6 DEF StatusFollows
    <3> QED
      BY <3>2, <3>5, <3>7 DEF InPass
  <2>2. CASE Has(q)
    <3>1. ~(Record /\ q = pass.p)
      <4> SUFFICES ASSUME Record, q = pass.p PROVE FALSE
        OBVIOUS
      <4>1. /\ InPass(q) /\ pass.at = "record"
            /\ pass.ps.active \in BOOLEAN /\ pass.closing \in BOOLEAN
            /\ pass.ps.active = ~pass.closing => share'[q].active = share[q].active
            /\ pass.ps.active # ~pass.closing => share'[q].active = ~pass.closing
        BY <1>3
      <4>2. ~pass.closing
        BY <2>2, <4>1 DEF StatusFollows
      <4>3. share[q].active \/ ~pass.ps.active
        BY <2>2 DEF StatusFollows
      <4>4. CASE pass.ps.active
        BY <1>8, <4>1, <4>2, <4>3, <4>4
      <4>5. CASE ~pass.ps.active
        BY <1>8, <4>1, <4>2, <4>5
      <4> QED
        BY <4>4, <4>5
    <3>2. ~share[q].active
      BY <1>2, <1>8, <3>1
    <3>3. InPass(q) /\ pass.at = "record" /\ ~pass.closing /\ ~pass.ps.active
      BY <2>2, <3>2 DEF StatusFollows
    <3>4. pass' = pass
      <4>1. ~Record
        BY <3>1, <3>3 DEF InPass
      <4>2. ~(DesktopNotFound \/ Expiry \/ Close \/ CreateOrUpdate)
        BY <3>3 DEF DesktopNotFound, Expiry, Close, CreateOrUpdate
      <4>3. ~\E p \in Shares : Start(p)
        BY <3>3 DEF Start, InPass
      <4> QED
        BY <4>1, <4>2, <4>3, PassFrame DEF Reconcile
    <3> QED
      BY <3>3, <3>4 DEF InPass
  <2> QED
    BY <2>1, <2>2
<1> QED
  BY <1>5, <1>6, <1>7, <1>8 DEF StatusFollows

LEMMA CloseNoticedStep ==
  ASSUME TypeInv, PassInv, [Next]_vars, edits' = edits, NEW q \in Shares, SpecFixed(q),
         faults = 0 => StatusFollows(q), faults' = faults => CloseNoticed(q), faults' <= 1,
         faults' # faults => faults = 0
  PROVE  CloseNoticed(q)'
<1> SUFFICES ASSUME InPass(q)', ~Pending(q)', pass'.at = "record", pass'.closing, Has(q)'
             PROVE  pass'.ps.active /\ share'[q].active
  BY DEF CloseNoticed
<1>1. share[q] # None /\ share'[q] # None
  BY NoEdit DEF SpecFixed
<1>2. share'[q] = share[q] /\ Has(q) /\ (Pending(q) => Start(q)) /\ ~Restart
  BY <1>1, Quiet
<1>3. CASE Start(q)
  <2>1. shareSeen[q] # None
    BY DEF SpecFixed
  <2>2. pass'.at = "desktop"
    BY <1>3, <2>1, StartPatch
  <2> QED
    BY <2>2
<1>4. CASE ~Start(q) /\ InPass(q) /\ pass' = pass
  <2>1. ~Pending(q)
    BY <1>2, <1>4
  <2>2. CASE faults' = faults
    BY <1>2, <1>4, <2>1, <2>2 DEF CloseNoticed
  <2>3. CASE faults' # faults
    BY <1>2, <1>4, <2>3 DEF StatusFollows
  <2> QED
    BY <2>2, <2>3
<1>5. CASE Expiry
  <2>1. pass'.at = "act"
    BY <1>5, ExpiryPatch
  <2> QED
    BY <2>1
<1>6. CASE /\ ~Start(q) /\ InPass(q) /\ (Close \/ CreateOrUpdate)
           /\ pass.at = "act" /\ pass'.at = "record"
           /\ pass'.ps = pass.ps /\ pass'.closing = pass.closing
  <2>1. Close /\ pass.p = q
    BY <1>6 DEF CreateOrUpdate, InPass
  <2>2. ~Pending(q)
    BY <1>2, <1>6
  <2>3. PassOK(q)
    BY <1>6, <2>2 DEF PassInv
  <2>4. Fault
    BY <2>1, <2>3, CloseFacts DEF PassOK
  <2>5. faults = 0
    BY <2>4, ConstantsAssumption DEF Fault, TypeInv, TypeOK
  <2>6. share[q].active
    BY <1>2, <1>6, <2>5 DEF StatusFollows
  <2>7. pass.ps = share[q]
    BY <2>3, <2>5 DEF PassOK
  <2> QED
    BY <1>2, <1>6, <2>6, <2>7
<1> QED
  BY <1>3, <1>4, <1>5, <1>6, InPassSteps

LEMMA FaultStep ==
  ASSUME TypeInv, PassInv, FaultInv, [Next]_vars
  PROVE  FaultInv'
<1> SUFFICES ASSUME edits' = 0, NEW q \in Shares
             PROVE  /\ SpecFixed(q)'
                    /\ faults' = 0 => StatusFollows(q)'
                    /\ faults' <= 1 => CloseNoticed(q)'
  BY DEF FaultInv
<1>0. edits \in Nat /\ faults \in Nat
  BY ConstantsAssumption DEF TypeInv, TypeOK
<1>1. edits' = edits /\ edits = 0
  BY <1>0, EditsFrame
<1>2. SpecFixed(q) /\ (faults = 0 => StatusFollows(q)) /\ (faults <= 1 => CloseNoticed(q))
  BY <1>1 DEF FaultInv
<1>3. faults' \in {faults, faults + 1}
  BY FaultsFrame
<1>4. SpecFixed(q)'
  BY <1>1, <1>2, SpecFixedStep
<1>5. ASSUME faults' = 0
      PROVE  StatusFollows(q)'
  <2>1. faults = 0 /\ faults' = faults
    BY <1>0, <1>3, <1>5
  <2>2. ~Restart
    BY <1>0, <2>1 DEF Restart, Fault
  <2> QED
    BY <1>1, <1>2, <2>1, <2>2, StatusFollowsStep
<1>6. ASSUME faults' <= 1
      PROVE  CloseNoticed(q)'
  <2>1. faults' = faults => CloseNoticed(q)
    BY <1>2, <1>6
  <2>2. faults' # faults => faults = 0
    BY <1>0, <1>3, <1>6
  <2> QED
    BY <1>1, <1>2, <1>6, <2>1, <2>2, CloseNoticedStep
<1> QED
  BY <1>4, <1>5, <1>6

-----------------------------------------------------------------------------
(* What passes leave *)

\* No call failed, or one did and users changed nothing.
Careful == faults = 0 \/ (edits = 0 /\ faults <= 1)

Served(p) == Has(p) /\ (share[p].ttl # 0 => timer[p] # 0 \/ (Crossing /\ Ended(p)))

Closed(p) == Ended(p) /\ (Careful => ~Has(p))

\* A share for which nothing is under way and no timer is due is as the last pass left it:
\* open, with a timer for its end, or ended and closed; and its status says so.
DoneOK(p) ==
  \/ Served(p) /\ (faults = 0 => share[p].active = TRUE /\ share[p].svc = share[p].port)
  \/ Closed(p) /\ (faults = 0 => share[p].active = FALSE /\ share[p].svc = NoPort)

DoneInv ==
  \A p \in Shares :
    share[p] # None /\ ~InPass(p) /\ ~Pending(p) /\ ~Past(timer[p]) => DoneOK(p)

LEMMA DoneInit == Init => DoneInv
  BY DEF Init, DoneInv, Pending

\* The last step of a pass that nothing has disturbed.
LEMMA DoneRecord ==
  ASSUME TypeInv, FaultInv, [Next]_vars, Record, NEW q \in Shares, InPass(q), ~Pending(q), PassOK(q),
         ~Pending(q)', share'[q] # None
  PROVE  DoneOK(q)'
<1> DEFINE to == Final(pass.ps, pass.closing)
<1>0. /\ share'[q] = share[q] /\ share[q] \in PortShares
      /\ Has(q)' <=> Has(q)
      /\ Ended(q) => Ended(q)'
  BY Quiet
<1>1. /\ pass.p = q /\ pass.ps \in PortShares /\ pass.closing \in BOOLEAN /\ pass.at = "record"
      /\ edits' = edits
  BY PassType DEF TypeInv, InPass, Record
<1>2. PICK copy : Patching(q, pass.ps, to, copy)
  BY <1>1, RecordPatch
<1>3. to.active = ~pass.closing /\ to.svc = (IF pass.closing THEN NoPort ELSE pass.ps.port)
  BY <1>1 DEF Final, PortShares
<1> HIDE DEF to
<1>4. faults' = faults =>
        share'[q].active = IF to.active = pass.ps.active THEN share[q].active ELSE to.active
  BY <1>0, <1>2, NoShare, PatchActive DEF Patching, TypeInv
<1>5. /\ share[q] = pass.ps /\ faults' = faults => share'[q] = to
      /\ faults' \in {faults, faults + 1}
  BY <1>2, PatchFacts DEF Patching, TypeInv
<1>6. faults \in Nat /\ edits \in Nat /\ timer \in [Shares -> Nat] /\ clock \in Nat
  BY ConstantsAssumption DEF TypeInv, TypeOK
<1>7. ASSUME faults' = 0
      PROVE  /\ share'[q].active = ~pass.closing
             /\ share'[q].svc = (IF pass.closing THEN NoPort ELSE share'[q].port)
  <2>1. faults = 0 /\ faults' = faults
    BY <1>5, <1>6, <1>7
  <2>2. share[q] # None /\ pass.ps = share[q]
    BY <2>1 DEF PassOK
  <2>3. share'[q] = to
    BY <1>5, <2>1, <2>2
  <2> QED
    BY <1>0, <1>3, <2>2, <2>3
<1>8. CASE pass.closing
  <2>1. Ended(q)'
    BY <1>0, <1>8 DEF PassOK
  <2>2. ASSUME Careful', Has(q)
        PROVE  FALSE
    <3>1. CASE faults' = 0
      BY <1>1, <1>5, <1>6, <1>8, <2>2, <3>1 DEF PassOK
    <3>2. CASE edits' = 0 /\ faults' <= 1
      <4>1. edits = 0 /\ faults <= 1
        BY <1>1, <1>5, <1>6, <3>2
      <4>2. pass.ps.active /\ share[q].active
        BY <1>1, <1>8, <2>2, <4>1 DEF FaultInv, CloseNoticed
      <4>3. faults' = faults => share'[q].active = FALSE
        BY <1>3, <1>4, <1>8, <4>2
      <4>4. faults' # faults
        BY <1>0, <4>2, <4>3
      <4>5. faults = 0
        BY <1>5, <1>6, <3>2, <4>4
      <4> QED
        BY <1>1, <1>8, <2>2, <4>5 DEF PassOK
    <3> QED
      BY <2>2, <3>1, <3>2 DEF Careful
  <2>3. Closed(q)'
    BY <1>0, <2>1, <2>2 DEF Closed
  <2>4. faults' = 0 => share'[q].active = FALSE /\ share'[q].svc = NoPort
    BY <1>7, <1>8
  <2> QED
    BY <2>3, <2>4 DEF DoneOK
<1>9. CASE ~pass.closing
  <2>1. Has(q)'
    BY <1>0, <1>1, <1>9 DEF PassOK
  <2>2. ASSUME share'[q].ttl # 0
        PROVE  timer'[q] # 0 \/ (Crossing /\ Ended(q)')
    <3>1. pass.ps.exp = Desired(share[q])
      BY <1>1 DEF PassOK
    <3>2. Desired(share[q]) \in Nat /\ Desired(share[q]) # 0
      BY <1>0, <2>2, ConstantsAssumption DEF Desired, PortShares, TTLs
    <3>3. CASE pass.ps.exp > clock
      <4>1. After(q, pass.ps.exp)
        BY <1>1, <1>9, <3>3 DEF Record
      <4> QED
        BY <1>6, <3>1, <3>2, <4>1 DEF After
    <3>4. CASE ~(pass.ps.exp > clock)
      <4>1. Ended(q)
        BY <1>6, <3>1, <3>2, <3>4 DEF Ended, Past
      <4>2. timer' = timer
        BY <1>9, <3>4 DEF Record
      <4>3. Crossing \/ timer[q] # 0
        BY <1>1, <1>9, <4>1 DEF PassOK
      <4> QED
        BY <1>0, <4>1, <4>2, <4>3
    <3> QED
      BY <3>3, <3>4
  <2>3. Served(q)'
    BY <2>1, <2>2 DEF Served
  <2>4. faults' = 0 => share'[q].active = TRUE /\ share'[q].svc = share'[q].port
    BY <1>7, <1>9
  <2> QED
    BY <2>3, <2>4 DEF DoneOK
<1> QED
  BY <1>8, <1>9

LEMMA DoneStep ==
  ASSUME TypeInv, CacheInv, PassInv, FaultInv, DoneInv, [Next]_vars
  PROVE  DoneInv'
<1> SUFFICES ASSUME NEW q \in Shares, share'[q] # None, ~InPass(q)', ~Pending(q)', ~Past(timer[q])'
             PROVE  DoneOK(q)'
  BY DEF DoneInv
<1>0. /\ share'[q] = share[q] /\ share[q] \in PortShares
      /\ Has(q)' <=> Has(q)
      /\ Ended(q) => Ended(q)'
      /\ Pending(q) => Start(q)
      /\ ~Restart
  BY Quiet
<1>1. /\ faults \in Nat /\ edits \in Nat /\ timer \in [Shares -> Nat] /\ clock \in Nat /\ clock # 0
  BY ConstantsAssumption DEF TypeInv, TypeOK
<1>2. CASE InPass(q)
  <2>1. pass # Idle /\ pass.p = q /\ pass' # pass /\ ~Start(q)
    BY <1>2 DEF InPass, Start
  <2>2. ~Pending(q) /\ PassOK(q)
    BY <1>0, <1>2, <2>1 DEF PassInv
  <2>3. ~DesktopNotFound
    <3> SUFFICES ASSUME DesktopNotFound PROVE FALSE
      OBVIOUS
    <3>1. After(q, clock) /\ clock' = clock
      BY <2>1 DEF DesktopNotFound
    <3>2. timer'[q] # 0 /\ timer'[q] <= clock
      BY <1>1, <3>1 DEF After
    <3> QED
      BY <1>1, <3>1, <3>2 DEF Past
  <2>4. ~Expiry
    <3>1. Expiry => pass' # Idle /\ pass'.p = q
      BY <2>1, ExpiryPatch, IdleAt
    <3> QED
      BY <3>1 DEF InPass
  <2>5. ~Close /\ ~CreateOrUpdate
    <3>1. pass \in Passes
      BY <2>1 DEF TypeInv, TypeOK
    <3>2. pass' # [pass EXCEPT !.at = "record"]
      <4>1. [pass EXCEPT !.at = "record"].p = q /\ [pass EXCEPT !.at = "record"].at = "record"
        BY <2>1, <3>1 DEF Passes
      <4> QED
        BY <4>1, IdleAt DEF InPass
    <3>3. q \notin queue'
      BY DEF Pending
    <3> QED
      BY <2>1, <3>2, <3>3 DEF Close, CreateOrUpdate
  <2>6. ~\E p \in Shares : Start(p)
    BY <2>1 DEF Start
  <2>7. Record
    BY <1>0, <2>1, <2>3, <2>4, <2>5, <2>6, PassFrame DEF Reconcile
  <2> QED
    BY <1>2, <2>2, <2>7, DoneRecord
<1>3. CASE ~InPass(q)
  <2>1. ~Start(q)
    <3> SUFFICES ASSUME Start(q) PROVE FALSE
      OBVIOUS
    <3>1. CASE shareSeen[q] = None
      <4>1. shareSeen' = shareSeen /\ q \notin shareEvents'
        BY DEF Start, Pending
      <4>2. CacheInv'
        BY CacheStep
      <4> QED
        BY <3>1, <4>1, <4>2 DEF CacheInv
    <3>2. CASE shareSeen[q] # None
      <4>1. pass'.p = q /\ pass'.at = "desktop"
        BY <3>2, StartPatch
      <4> QED
        BY <4>1, IdleAt DEF InPass
    <3> QED
      BY <3>1, <3>2
  <2>2. ~Pending(q)
    BY <1>0, <2>1
  <2>3. timer'[q] = timer[q]
    <3>1. ~Fire(q)
      BY DEF Fire, Pending
    <3>2. ~(DesktopNotFound /\ q = pass.p) /\ ~(Record /\ q = pass.p)
      BY <1>3, IdleAt DEF DesktopNotFound, Record, InPass
    <3> QED
      BY <1>0, <3>1, <3>2, TimerSteps
  <2>4. ~Past(timer[q])
    <3>1. clock' \in {clock, clock + 1}
      BY ClockFrame DEF Tick
    <3>2. PICK x \in Nat : x = timer[q]
      BY <1>1
    <3> QED
      BY <1>1, <2>3, <3>1, <3>2 DEF Past
  <2>5. DoneOK(q)
    BY <1>0, <1>3, <2>2, <2>4 DEF DoneInv
  <2>6. faults' \in {faults, faults + 1} /\ edits' \in {edits, edits + 1}
    BY FaultsFrame, EditsFrame
  <2>7. (faults' = 0 => faults = 0) /\ (Careful' => Careful)
    BY <1>1, <2>6 DEF Careful
  <2>8. (Served(q) => Served(q)') /\ (Closed(q) => Closed(q)')
    BY <1>0, <2>3, <2>7 DEF Served, Closed
  <2> QED
    BY <1>0, <2>5, <2>7, <2>8 DEF DoneOK
<1> QED
  BY <1>2, <1>3

-----------------------------------------------------------------------------
(* The properties *)

\* The inductive invariant of the PortShare controller: what caches, timers, the pass
\* under way, failed calls and finished passes may be, together.
SharesInv == TypeInv /\ CacheInv /\ TimesInv /\ PassInv /\ FaultInv /\ DoneInv

LEMMA SharesInvariant == Spec => []SharesInv
<1>1. Init => SharesInv
  BY TypeInit, CacheInit, TimesInit, PassInit, FaultInit, DoneInit DEF SharesInv
<1>2. SharesInv /\ [Next]_vars => SharesInv'
  BY TypeStep, CacheStep, TimesStep, PassStep, FaultStep, DoneStep DEF SharesInv
<1> QED
  BY <1>1, <1>2, PTL DEF Spec

\* A settled share is as its last pass left it, and owning a Service is to have it: there
\* are no Services of shares of the same name that are gone.
LEMMA SettledFacts ==
  ASSUME SharesInv, NEW p \in Shares, Settled(p)
  PROVE  /\ DoneOK(p)
         /\ share[p] \in PortShares
         /\ timer[p] \in Nat /\ ~Past(timer[p])
         /\ Owns(p, share[p].port) <=> Has(p)
<1>1. share[p] # None /\ ~InPass(p) /\ ~Pending(p) /\ ~Past(timer[p])
  BY DEF Settled, InPass, Pending
<1>2. DoneOK(p)
  BY <1>1 DEF SharesInv, DoneInv
<1>3. share[p] \in PortShares /\ timer[p] \in Nat
  BY <1>1 DEF SharesInv, TypeInv, TypeOK
<1>4. PICK n \in Ports : n = share[p].port
  BY <1>3 DEF PortShares
<1>5. svc[n] \in Owners \cup {None} /\ ~Orphan(n)
  BY DEF SharesInv, TypeInv, TypeOK, Settled
<1>6. PICK u \in 1..(MaxEvents + 1) : u = share[p].uid
  BY <1>3 DEF PortShares
<1>7. ASSUME Owns(p, n) PROVE Has(p)
  <2>1. PICK o \in Owners : o = svc[n] /\ o.share = p
    BY <1>5, <1>7 DEF Owns
  <2>2. o.uid = share[p].uid
    BY <1>5, <1>7, <2>1 DEF Orphan, Owns
  <2>3. o = [share |-> p, uid |-> o.uid]
    BY <2>1 DEF Owners
  <2> QED
    BY <1>4, <2>1, <2>2, <2>3 DEF Has
<1>8. ASSUME Has(p) PROVE Owns(p, n)
  <2>1. svc[n] = [share |-> p, uid |-> u]
    BY <1>4, <1>6, <1>8 DEF Has
  <2>2. svc[n].share = p /\ svc[n].uid = u
    BY <2>1
  <2>3. svc[n] # None
    BY <1>6, <2>2 DEF None
  <2> QED
    BY <2>2, <2>3 DEF Owns
<1> QED
  BY <1>1, <1>2, <1>3, <1>4, <1>7, <1>8

\* A share that is settled before its end has its Service and, if it ends at all, a
\* timer, whatever calls failed, users changed and other shares of the port did, and
\* however long passes last: "status.active" is not left over from a Service that the
\* end of another share deleted, and no restart loses the end of a share.
THEOREM ShareServedHolds == Spec => []ShareServed
<1>1. SharesInv => ShareServed
  <2> SUFFICES ASSUME SharesInv, NEW p \in Shares, Settled(p), ~Ended(p)
               PROVE  Owns(p, share[p].port) /\ (share[p].ttl # 0 => timer[p] # 0)
    BY DEF ShareServed
  <2>1. Served(p)
    BY SettledFacts DEF DoneOK, Closed
  <2> QED
    BY <2>1, SettledFacts DEF Served
<1> QED
  BY <1>1, SharesInvariant, PTL

\* An ended share that has a timer will be looked at again: the timer is not after its end.
LEMMA EndedTimer ==
  ASSUME SharesInv, NEW p \in Shares, share[p] \in PortShares, timer[p] \in Nat, Ended(p),
         timer[p] # 0
  PROVE  Past(timer[p])
<1>1. Soon(timer[p], p)
  BY DEF SharesInv, TimesInv
<1>2. PICK s \in Nat, x \in Nat : s = share[p].start /\ x = timer[p]
  BY DEF PortShares
<1>3. clock \in Nat /\ TTL \in Nat /\ share[p].ttl \in {0, TTL}
  BY ConstantsAssumption DEF SharesInv, TypeInv, TypeOK, PortShares, TTLs
<1>4. share[p].ttl = TTL /\ clock >= s + TTL
  BY <1>2, <1>3 DEF Ended, Desired, Past
<1>5. share[p] # None
  BY NoShare
<1> QED
  BY <1>1, <1>2, <1>3, <1>4, <1>5 DEF Soon, Past

\* "PortShares expire": a settled share whose time is over does not own the Service of its
\* port, if passes do not return after an end they began before, and no call failed
\* whatever users changed, or one did, or the operator ended once, and users changed
\* nothing: the error of the call that deletes the Service is dropped, but the status that
\* is written next brings another pass.
THEOREM ExpiredClosedHolds == ~Crossing => (Spec => [](Careful => ExpiredClosed))
<1> SUFFICES ASSUME ~Crossing PROVE Spec => [](Careful => ExpiredClosed)
  OBVIOUS
<1>1. SharesInv => (Careful => ExpiredClosed)
  <2> SUFFICES ASSUME SharesInv, Careful, NEW p \in Shares, Settled(p), Ended(p), Has(p)
               PROVE  FALSE
    BY SettledFacts DEF ExpiredClosed
  <2>1. Served(p)
    BY SettledFacts DEF DoneOK, Closed
  <2>2. share[p].ttl # 0
    BY DEF Ended, Desired, Past
  <2>3. timer[p] # 0
    BY <2>1, <2>2 DEF Served
  <2> QED
    BY <2>3, EndedTimer, SettledFacts
<1> QED
  BY <1>1, SharesInvariant, PTL

\* status.active and status.serviceName of a settled share say what is so, unless a call
\* failed: whatever users changed while a pass was under way, however late the caches
\* are and whatever the other shares of the port did.
THEOREM StatusTrueHolds == Spec => []StatusTrue
<1>1. SharesInv => StatusTrue
  <2> SUFFICES ASSUME SharesInv, faults = 0, NEW p \in Shares, Settled(p)
               PROVE  /\ share[p].active = Owns(p, share[p].port)
                      /\ share[p].svc = IF share[p].active THEN share[p].port ELSE NoPort
    BY DEF StatusTrue
  <2>1. CASE Served(p) /\ share[p].active = TRUE /\ share[p].svc = share[p].port
    <3>1. Owns(p, share[p].port) = TRUE
      BY <2>1, SettledFacts DEF Served, Owns
    <3> QED
      BY <2>1, <3>1
  <2>2. CASE Closed(p) /\ share[p].active = FALSE /\ share[p].svc = NoPort
    <3>1. Owns(p, share[p].port) = FALSE
      BY <2>2, SettledFacts DEF Closed, Careful, Owns
    <3> QED
      BY <2>2, <3>1
  <2> QED
    BY <2>1, <2>2, SettledFacts DEF DoneOK
<1> QED
  BY <1>1, SharesInvariant, PTL
=============================================================================
