------------------------------ MODULE Rendezvous ------------------------------
(***************************************************************************)
(* What the relay promises its callers and the desktops, without control   *)
(* connections, tables, channels and slots: for each dial a caller waits   *)
(* for a connection from the desktop, the two are joined at most once, and *)
(* neither end is left hanging.                                            *)
(***************************************************************************)
CONSTANT Dials

VARIABLES
  caller, \* the client of each dial: "idle", "asked", "connected", "over"
  far     \* the desktop's connection for it: "none", "offered", "joined", "closed"

vars == <<caller, far>>

Init ==
  /\ caller = [d \in Dials |-> "idle"]
  /\ far = [d \in Dials |-> "none"]

Ask(d) ==
  /\ caller[d] = "idle"
  /\ caller' = [caller EXCEPT ![d] = "asked"]
  /\ UNCHANGED far

\* The caller is told that there is no connection, at once or after having asked.
Refuse(d) ==
  /\ caller[d] \in {"idle", "asked"}
  /\ caller' = [caller EXCEPT ![d] = "over"]
  /\ UNCHANGED far

\* A desktop offers a connection only for a dial that was asked for, and once; the
\* caller may have been refused meanwhile.
Offer(d) ==
  /\ caller[d] \in {"asked", "over"} /\ far[d] = "none"
  /\ far' = [far EXCEPT ![d] = "offered"]
  /\ UNCHANGED caller

Join(d) ==
  /\ caller[d] = "asked" /\ far[d] = "offered"
  /\ caller' = [caller EXCEPT ![d] = "connected"]
  /\ far' = [far EXCEPT ![d] = "joined"]

\* An offer that is not taken up is closed.
Drop(d) ==
  /\ far[d] = "offered"
  /\ far' = [far EXCEPT ![d] = "closed"]
  /\ UNCHANGED caller

\* The two ends of a joined connection are closed together.
Close(d) ==
  /\ caller[d] = "connected" /\ far[d] = "joined"
  /\ caller' = [caller EXCEPT ![d] = "over"]
  /\ far' = [far EXCEPT ![d] = "closed"]

Next ==
  \E d \in Dials : Ask(d) \/ Refuse(d) \/ Offer(d) \/ Join(d) \/ Drop(d) \/ Close(d)

\* Whoever asks is connected or refused, and every offer is taken up or closed.
Answered ==
  \A d \in Dials : /\ caller[d] = "asked" ~> caller[d] # "asked"
                   /\ far[d] = "offered" ~> far[d] # "offered"

Safety == Init /\ [][Next]_vars

Spec == Safety /\ Answered
=============================================================================
