CONSTANTS
  Top = 256
  heap_start = 8
  heap_end = 120
  Incr <- Increments
  Slice = 6
  Max16 = 3
  Max32 = 7
  Reset = {{}, {5}, {0, 5, 7}, {1, 5, 6, 7}}
  Depth = 2
  Texts <- SomeTexts
  Files = {StdoutPtr, 1}
  StdoutPtr = StdoutPtr
  StderrPtr = StderrPtr
  MaxCalls = 2
  Contents <- TwoFiles
  Fds = {3, 4}
  Data <- Bytes
  Offsets <- Back
  PathMax = 3
  BufMax = 2
  SizeMax = 1
  Units = {u1, u2}
  MaxLines = 2
SPECIFICATION MCSpec
INVARIANTS HeapExact TextInOrder FilesUsedOpen
PROPERTIES RefinesSlice SliceEnds TextSent ServedAsAsked LogsKept
