CONSTANTS
  Noise = {6, 44, 80}
  Frames <- FramesOther
  Cuts <- MCCuts
SPECIFICATION Spec
INVARIANTS
  ArpAddresses
