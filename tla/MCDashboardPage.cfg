CONSTANTS
  Pages = {p1}
  Requests = {r1, r2}
  Filters = {"f"}
  HistorySize = 2
  ChanRoom = 1
  MaxPackets = 3
  MaxBreaks = 1
SPECIFICATION Spec
INVARIANTS
  PageInv
  MissingIsExplained
  StatusUnlessOverlap
