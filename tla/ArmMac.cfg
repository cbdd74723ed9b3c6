SPECIFICATION FairSpec
CONSTANTS
  Tasks = {t1, t2}
  Watcher = w
  Apps = {}
  MaxArms = 2
  Suspending = TRUE
  ConfirmStop = FALSE
  None = none
PROPERTY TrayReleased
CHECK_DEADLOCK FALSE
