--------------------------- MODULE MCNetworkGrant ---------------------------
(* Small instances of NetworkGrant for TLC. *)
EXTENDS NetworkGrant

\* Not set, so that the default is cut to the cap of 1, and the cap itself.
TTLsCapped == {0, 1}

\* Below and above a cap of 2.
TTLsSet == {1, 3}

\* Automatic grants have the other mode.
StrictOnly == {"STRICT_FQDN"}

=============================================================================
