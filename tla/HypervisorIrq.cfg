CONSTANTS
  NumVM = 2
  NumLR = 2
  Pids = {40, 44, 41}
  PcMod = 1
  Code <- AnyCode
  DataMod = 1
  Slice = 1
  MaxEvents = 4
SPECIFICATION MCSpec
INVARIANTS TypeOK OwnershipConsistent StageTwoOwned IrqConserved NoLostWakeup AssertionsHold
INVARIANTS CountsOwnTraps IrqsBalance
