CONSTANTS
  NumVM = 2
  NumLR = 1
  Pids = {40, 41}
  PcMod = 1
  Code <- AnyCode
  DataMod = 1
  Slice = 1
  ResetEnabled = {34}
SPECIFICATION IFairSpec
INVARIANT MaskedTakenOnce
PROPERTIES InjectedOnlyIfUnmasked UnmaskedArrives TimeShared
