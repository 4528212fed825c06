SPECIFICATION Spec
CONSTANTS
  j1 = j1
  j2 = j2
  None = None
  Requests = {r1, r2}
  Jobs = {j1, j2}
  Names = {n1, n2, n3}
  Profile <- ProfileOf
  Shapes <- ShapeSet
  Internal <- InternalOf
  AllowMode = {}
  BaseHosts = {}
  BaseDNS = {}
  MoreHosts <- OverrideHosts
  MoreDNS <- OverrideDNS
  AllowNon443 = {"browser"}
  MorePorts <- OverridePorts
  MaxGrants = 1
  Lifetime = 2
  Margin = 1
  Timeout = 1
  MaxTime = 2
INVARIANTS ProxyFirst CapExceeded TokenLive
SYMMETRY Symmetry
