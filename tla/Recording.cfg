SPECIFICATION Spec
CONSTANTS
  Batch = 2
  QueueSize = 2
  Tolerance <- TightMic
  MaxFill = 2
  Jitter = 1
  MaxLate = 1
  MaxClock = 5
  MaxSessions = 2
  Long = 3
  Win = 3
  Hop = 3
  MinKeep = 2
  MinTurn = 2
  Pad = 1
  Search = 2
  MaxLag = 1
  Levels = {30, 36, 44, 50}
  Crests = {4, 12}
  Floor = 40
  MaxBoost = 6
  Ceiling = 52
  Combos = {"a", "b", "r"}
  Reserved = {"r"}
  Default = "a"
  MaxPicks = 2
  MaxTroubles = 2
  MaxEdits = 2
  MaxEntries = 2
  MaxClicks = 2
  MaxFailures = 1
INVARIANTS  NothingFromBefore CaptureKeepsSpeech 
INVARIANTS  MeetingIsFollowed DismissalSticks
CHECK_DEADLOCK FALSE
