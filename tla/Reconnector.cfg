SPECIFICATION FairSpec
CONSTANTS
  Conns = {c1, c2}
  Names = {n1, n2}
  Types = {"http", "tcp"}
  MaxTunnels = 2
  BaseBackoff = 1
  MaxBackoff = 2
  None = None
  Other = Other
  Dead = Dead
  AnyName = AnyName
PROPERTIES ComesBack NamesReturn
