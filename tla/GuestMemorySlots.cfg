CONSTANTS
  NumVM = 2
  Entries = 4
  AddrPages = 68
  RamPages = 8
  HighBase = 24
  L3Tables = 8
  MaxTables = 10
  PageCount = 16
  DevIpa <- MCDevIpa
  Emulated <- MCEmulated
  KernelBase = 1
  KernelFull = 1
  InitrdBase = 4
  InitrdFull = 1
  Touch <- MCPast
  Modes <- MCStatic
SPECIFICATION Spec
INVARIANT SlotIsFree
