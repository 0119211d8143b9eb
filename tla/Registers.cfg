CONSTANTS
  NumLR = 2
  Irqs <- MCIrqs
  NumVM = 3
  Versions = 2
  LoadRegs = {5}
  Values = {0, 1, 5, 255}
SPECIFICATION MCSpec
INVARIANTS OwnRegisters TrapsArmed NamedAccess
PROPERTY RefinesSlots
