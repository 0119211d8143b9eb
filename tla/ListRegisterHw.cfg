CONSTANTS
  NumLR = 2
  Irqs <- MCIrqs
  NumVM = 1
  Versions = 1
  LoadRegs = {}
  Values = {}
SPECIFICATION MCSpec
INVARIANT HwFlagKept
