SPECIFICATION FairSpec
CONSTANTS
  Procs = {p1, p2}
  Tunnelers = {p1}
  Servers = {"s1"}
  Keys = {"k1"}
  Subdomains = {"n1", "n2"}
  Requested = {"n1"}
INVARIANTS TypeOK LogoutSticks ServerKept StartsWithOwnName
PROPERTIES LoginEnds CallbackServerStops
