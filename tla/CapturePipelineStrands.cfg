CONSTANTS
  Workers = {w1}
  RawCapacity = 2
  DisCapacity = 2
  MaxPackets = 3
  Faults = {}
SPECIFICATION FairSpec
PROPERTIES
  StopEnds
