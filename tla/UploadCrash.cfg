SPECIFICATION FairSpec
CONSTANTS
  N = 1
  MaxOther = 1
  PerSweep = 1
  MaxCrashes = 1
  MaxEdits = 1
  Answers = {"credit", "auth", "transient", "client"}
INVARIANTS
  UploadedIsReceived
  InFlightIsReal
PROPERTY EveryCaptureSettles
