SPECIFICATION Spec
CONSTANTS
  None = None
  Tunnels = {x1, x2}
  Sessions = {c1, c2}
  AllTokens = {k1, k2, a1}
  Tokens = {k1, k2}
  Subdomains = {s1, s2}
  Ports = {p1}
  MaxTunnels <- OneEach
  Requests <- RandomRequests
  SubdomainAttempts = 2
  PortAttempts = 2
SYMMETRY Symmetry
INVARIANTS RegistryInv QuotaCovers AnonOnePerSession
PROPERTIES OnlyLateRegistrationsStrand ImplementsLease TMSpec
