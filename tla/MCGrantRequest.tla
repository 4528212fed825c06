--------------------------- MODULE MCGrantRequest ---------------------------
(***************************************************************************)
(* GrantRequest for TLC: two profiles, "restricted" without an override    *)
(* and "browser", whose override lists a host, a name and a port.  svc is  *)
(* an internal host, cdn and name are on browser's lists only.             *)
(***************************************************************************)
EXTENDS GrantRequest, TLC

CONSTANTS j1, j2

ProfileOf == j1 :> "restricted" @@ j2 :> "browser"

\* An internal and a public host in one list, with an internal and a public name:
\* browser's job may have it, restricted's once browser's lists are in the maps.
ShapeSet ==
  {[hosts |-> {"svc", "cdn"}, ports |-> {443}, dns |-> {"svc", "name"},
    tcp |-> TRUE, non443 |-> FALSE, mode |-> None]}

InternalOf == [restricted |-> {"svc"}, browser |-> {"svc"}]
OverrideHosts == [browser |-> {"cdn"}]
OverrideDNS == [browser |-> {"name"}]
OverridePorts == [browser |-> {22}]

Symmetry == {f @@ g : f \in Permutations(Requests), g \in Permutations(Names)}
=============================================================================
