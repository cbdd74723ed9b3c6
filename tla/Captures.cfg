SPECIFICATION Spec
CONSTANTS
  Caps = {1, 2}
  Kept = {1}
  Ticks = 2
  Holds = 1
  StubCap = 1
  MaxWins = 1
  MaxCrashes = 1
INVARIANTS OneToastPerUpload DeletedStaysDeleted
PROPERTIES  FeedbackArrives
CHECK_DEADLOCK FALSE
