SPECIFICATION Spec
CONSTANTS
  Attempts = 2
  ServerStates = {"active", "suspended"}
  MaxLogins = 2
  MaxTokens = 2
  MaxFaults = 1
  MaxQuits = 1
  MaxMishaps = 1
INVARIANTS NoSelfRefusal NewestIsReachable
PROPERTIES GateRemembers SignInIsNoticed SetupIsWhole 
CHECK_DEADLOCK FALSE
