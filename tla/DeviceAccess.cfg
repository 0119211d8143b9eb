CONSTANTS
  NumVM = 2
  Words = {0, 1, 2}
  Data = {5, 33, 36, 37, 44, 70}
  Outcomes <- MCOutcomes
  TimerOutcomes <- MCTimerOutcomes
  Regs = {1, 14}
  Values <- MCValues
  Accesses <- MCAccesses
SPECIFICATION MCSpec
INVARIANTS ForwardingExact
PROPERTIES OwnForwarding AccessExact
