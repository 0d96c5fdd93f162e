\* Trust and replay: floor commands, rotations, forgeries and a restart.
CONSTANTS
  KeyIds = {"pipe", "dev", "rot", "next"}
  RunIds = {"run1"}
  SiteIds = {"siteA", "siteB"}
  Hostnames = {"a", "b"}
  None = None
  Signer <- MCSigner
  Sequence <- MCSequence
  Type <- MCType
  Defect <- MCDefect
  SiteOf <- MCSiteOf
  HostOf <- MCHostOf
  Supersedes <- MCSupersedes
  Command <- MCCommand
  ProvisionedTypes <- MCProvisionedTypes
  RotationKeys = {"rot"}
  Bundles = {"late", "n1", "wrong", "floor", "rotate", "rogue"}
  MaxCrashes = 1
  MaxHalts = 0
SPECIFICATION FairSpec
INVARIANTS
  TypeOK
  AcceptedOnce
  ChainOfTrust
  TrustIsDurable
PROPERTIES
  CommandsInOrder
  CommandsDrain
CHECK_DEADLOCK FALSE
