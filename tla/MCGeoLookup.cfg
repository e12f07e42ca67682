CONSTANTS
  Ips = {"a", "b", "x"}
  Flows <- MCFlows
  Known = {"a", "b"}
  CacheCapacity = 1
  ChanRoom = 1
  HistorySize = 2
  MaxPackets = 3
  MaxRestarts = 1
SPECIFICATION FairSpec
INVARIANTS
  GeoInv
  CacheSound
  SearchingIsPending
  LabelsCoherent
PROPERTIES
  LookupsEnd
