CONSTANTS
  NumVM = 2
  Entries = 4
  AddrPages = 68
  RamPages = 12
  HighBase = 24
  L3Tables = 8
  MaxTables = 10
  PageCount = 24
  DevIpa <- MCDevIpa
  Emulated <- MCEmulated
  KernelBase = 1
  KernelFull = 1
  InitrdBase = 4
  InitrdFull = 1
  Touch <- MCRam
  Modes <- MCOnDemand
SPECIFICATION Spec
INVARIANT L3TablesPrepared
