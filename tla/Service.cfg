SPECIFICATION Spec
CONSTANTS
  MaxVersion = 3
  Chunks = 2
  MaxAttempts = 2
  Unix = TRUE
  MaxMishaps = 1
  Nudged = {"feedback", "detectors"}
  ReadAtStart = {"aec"}
  MaxSaves = 2
  Launches = {1, 2}
  Kids = {1, 2}
  MaxDeaths = 1
INVARIANTS ReadyIsWhole   OnePrimary
PROPERTIES PlainQuitInstallsNothing AgentReturns ClickIsAnswered
CHECK_DEADLOCK FALSE
