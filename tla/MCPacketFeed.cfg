CONSTANTS
  Sources = {s1, s2}
  Capacity = 2
  SocketRoom = 1
  ChanRoom = 1
  MinInterval = 10
  MaxInterval = 300
  Width = 12
  MaxPackets = 4
  MaxConns = 2
  MaxFailures = 12
SPECIFICATION FairSpec
INVARIANTS
  FeedInv
  FeedInOrder
  GapsAreReported
  OnlyOldSkipped
  MetricsAddUp
  BackoffInRange
PROPERTIES
  DeliversOrReports
  Resubscribes
