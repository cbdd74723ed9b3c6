SPECIFICATION Spec
CONSTANTS
  watcher = watcher
  hotkey = hotkey
  Callers = {hotkey}
  Superseding = {hotkey}
  Pausing = {hotkey}
  Default <- HotkeyDefault
  MaxRespawns = 1
  Buffer = 2
  MissedPongs = 1
  MaxAsks = 1
  MaxSessions = 1
  MaxQuits = 0
  MaxFaults = 1
CHECK_DEADLOCK FALSE
PROPERTIES PillComesBack HungIsReplaced
