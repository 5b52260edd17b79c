SPECIFICATION FairSpec
CONSTANTS
  None = None
  Tunnels = {x1, x2}
  Sessions = {c1, c2}
  AllTokens = {k1}
  Tokens = {k1}
  Subdomains = {s1}
  Ports = {p1}
  MaxTunnels <- TwoEach
  Requests <- NamedRequests
  SubdomainAttempts = 1
  PortAttempts = 1
PROPERTIES SessionEnds ReservationsEnd
