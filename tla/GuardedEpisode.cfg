\* An episode of three steps, severed at any time.
CONSTANTS
  Episodes = {"e1"}
  MaxSteps = 3
  NoEpisode = "none"
  MaxEvents = 1
SPECIFICATION Spec
INVARIANTS
  TypeOK
  AgentGoesQuiet
  MinefieldIsFinal
  BypassIsExplained
CHECK_DEADLOCK FALSE
