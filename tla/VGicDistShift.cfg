CONSTANTS
  NumVM = 2
  Words = {0, 1}
  Data = {5, 33, 36, 37, 44}
  Outcomes = {}
SPECIFICATION Spec
INVARIANT ForwardingFollows
