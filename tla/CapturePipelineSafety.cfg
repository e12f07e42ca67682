CONSTANTS
  Workers = {w1, w2}
  RawCapacity = 2
  DisCapacity = 2
  MaxPackets = 4
  Faults = {"stall", "close"}
SPECIFICATION Spec
SYMMETRY WorkerSymmetry
INVARIANTS
  FlowInv
  Accounted
  OvertakesFew
  DrainsRaw
