\* The process dies between recording a sequence and dispatching the bundle.
CONSTANTS
  KeyIds = {"pipe", "dev", "rot", "next"}
  RunIds = {"run1"}
  SiteIds = {"siteA", "siteB"}
  Hostnames = {"a", "b"}
  None = None
  Signer <- MCSigner
  Sequence <- MCSequence
  Type <- MCType
  Defect <- MCDefect
  SiteOf <- MCSiteOf
  HostOf <- MCHostOf
  Supersedes <- MCSupersedes
  Command <- MCCommand
  ProvisionedTypes <- MCProvisionedTypes
  RotationKeys = {"rot"}
  Bundles = {"r1", "start"}
  MaxCrashes = 1
  MaxHalts = 0
SPECIFICATION Spec
PROPERTY ReceiveIsTransactional
CHECK_DEADLOCK FALSE
