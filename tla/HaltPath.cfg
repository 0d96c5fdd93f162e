\* The watchdog and its halt path: an escape and a suspicious detector, one clearing.
CONSTANTS
  Detectors <- MCDetectors
  Suspicious = {"schema"}
  Unreliable = {"freeze", "checkpoint_and_halt", "preserve"}
  NoDetector = "none"
  MaxClears = 1
  Breakable = {"flow"}
  Restartable = {"flow"}
  MaxTotal = 1
  RunIds = {"run"}
  NoRun = "noRun"
SPECIFICATION FairSpec
INVARIANTS
  TypeOK
  CleanIsClean
  HaltTakesHold
PROPERTY TroubleHalts
CHECK_DEADLOCK FALSE
