CONSTANTS
  Workers = {w1, w2}
  RawCapacity = 2
  DisCapacity = 2
  MaxPackets = 3
  Faults = {}
SPECIFICATION FairSpec
PROPERTIES
  StopsOrStrands
  BurstDrains
