------------------------------- MODULE MCRelay -------------------------------
(***************************************************************************)
(* Model checking of Relay: dials are interchangeable.                     *)
(***************************************************************************)
EXTENDS Relay, TLC

Interchangeable == Permutations(Dials)

=============================================================================
