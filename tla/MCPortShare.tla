----------------------------- MODULE MCPortShare -----------------------------
(* The PortShare controller for TLC. *)
EXTENDS PortShare, TLC

\* Shares are alike, and so are ports.
Symmetry == {f @@ g : f \in Permutations(Shares), g \in Permutations(Ports)}
=============================================================================
