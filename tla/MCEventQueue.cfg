SPECIFICATION PollersSpec
CONSTANTS
  Workers = {w1, w2}
  Fds = {f1, f2}
  Boxes <- MCBoxes
INVARIANTS
  NoDanglingPointer
  NothingStranded
  OneFilterArmed
PROPERTIES
  HungUpReleased
CHECK_DEADLOCK FALSE
