SPECIFICATION FairSpec
CONSTANTS
  Tasks = {t1, t2}
  Watcher = w
  Apps = {zoom}
  MaxArms = 2
  Suspending = FALSE
  ConfirmStop = TRUE
  None = none
INVARIANTS
  ArmedImpliesSession
  
  ArmOwnsTasks
PROPERTY PendingResolved
CHECK_DEADLOCK FALSE
