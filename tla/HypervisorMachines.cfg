CONSTANTS
  NumVM = 2
  NumLR = 1
  Pids = {40, 41}
  PcMod = 3
  Code <- LoopCode
  DataMod = 2
  Slice = 1
SPECIFICATION Spec
PROPERTY GuestsSeeOwnMachine
