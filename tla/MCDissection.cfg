CONSTANTS
  Noise = {6, 44, 80}
  Frames <- MCFrames
  Cuts <- MCCuts
SPECIFICATION Spec
INVARIANTS
  NothingInvented
  RecordComplete
  ServiceSeesRecord
