SPECIFICATION FairSpec
CONSTANTS
  e1 = e1
  e2 = e2
  e3 = e3
  t1 = t1
  t2 = t2
  h1 = h1
  Entries = {e1, e2, e3}
  Tunnels = {t1, t2}
  Conns = {t1}
  Messages = {e1, e2, e3, "resp", "ack"}
  Empty = {"ack"}
  Streams = {h1}
  TunnelOf <- OneAndTwo
  Filter <- OwnTunnel
  MaxLogEntries = 2
  ChanSize = 1
  Window = 1
  MaxAcks = 1
INVARIANTS TypeOK FramesIntact RecentIsNewest TrafficAccounts NoPanic StreamIsFaithful
PROPERTIES ForwarderEnds RequestsAreLogged
