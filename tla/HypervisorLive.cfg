CONSTANTS
  NumVM = 3
  NumLR = 1
  Pids = {40, 41, 42}
  PcMod = 1
  Code <- AnyCode
  DataMod = 1
  Slice = 2
SPECIFICATION FairSpec
INVARIANTS SleepConsistent BoundedWait
PROPERTIES RunnableIsScheduled InterruptWakes
