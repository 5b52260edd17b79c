SPECIFICATION FairSpec
CONSTANTS
  MaxUnits = 2
  Cap <- SmallBuffers
INVARIANTS TypeOK InOrder WholeTransfers
PROPERTIES PipeEnds
