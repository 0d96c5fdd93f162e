\* Sites and runs: rollbacks, retirements, a watchdog halt.
CONSTANTS
  KeyIds = {"pipe", "dev", "rot", "next"}
  RunIds = {"run1"}
  SiteIds = {"siteA", "siteB"}
  Hostnames = {"a", "b"}
  None = None
  Signer <- MCSigner
  Sequence <- MCSequence
  Type <- MCType
  Defect <- MCDefect
  SiteOf <- MCSiteOf
  HostOf <- MCHostOf
  Supersedes <- MCSupersedes
  Command <- MCCommand
  ProvisionedTypes <- MCProvisionedTypes
  RotationKeys = {"rot"}
  Bundles = {"r1", "r2", "thief", "r3", "back", "retire", "start", "stop"}
  MaxCrashes = 1
  MaxHalts = 2
SPECIFICATION Spec
INVARIANTS
  OneLivePerHostname
  HaltedRunIsStopped
PROPERTY OnlyCommandsTakeSitesDown
VIEW ButQuarantine
CHECK_DEADLOCK FALSE
