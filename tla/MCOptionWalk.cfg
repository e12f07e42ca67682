CONSTANTS
  Walks = {"tcp", "dhcp", "lldp", "dns", "sni", "text"}
  Lens = {0, 1, 2, 13, 40, 43, 44, 66, 132}
  Byte = {0, 1, 2, 3, 4, 5, 8, 10, 29, 34, 40, 53, 63, 64, 255}
  Word = {0, 1, 5, 32, 33, 64, 511}
  Host = {0, 32}
SPECIFICATION FairSpec
INVARIANTS
  AccessesFit
PROPERTIES
  Advances
  WalkEnds
CHECK_DEADLOCK FALSE
