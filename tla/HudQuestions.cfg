SPECIFICATION Spec
CONSTANTS
  watcher = watcher
  hotkey = hotkey
  Callers = {watcher, hotkey}
  Superseding = {hotkey}
  Pausing = {hotkey}
  Default <- BothDefault
  MaxRespawns = 0
  Buffer = 1
  MissedPongs = 1
  MaxAsks = 1
  MaxSessions = 0
  MaxQuits = 1
  MaxFaults = 1
CHECK_DEADLOCK FALSE
INVARIANTS NobodyWaitsOnGivenUp
PROPERTIES ImplementsConsent
