SPECIFICATION Spec
CONSTANTS
  N = 2
  MaxOther = 1
  PerSweep = 1
  MaxCrashes = 0
  MaxEdits = 0
  Answers = {"credit", "auth"}
INVARIANTS
  OneAttempt
