---------------------------- MODULE MCEgressProxy ----------------------------
(* A small instance of EgressProxy for TLC. *)
EXTENDS EgressProxy

\* Grants select the first pod; the second one's job has none.
OnePod == {{1}}

NoPods == {}

\* Not set: the default of 2 is cut to the cap of 1.
TTLsDefault == {0}

=============================================================================
