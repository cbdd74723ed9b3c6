SPECIFICATION Spec
CONSTANTS
  MaxArms = 2
  Pid = {p1}
PROPERTIES QuietOnceDisarmed
CHECK_DEADLOCK FALSE
