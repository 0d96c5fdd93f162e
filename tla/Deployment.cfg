\* Worker, go-live, intake and registry, with one restart and one lowered floor.
CONSTANTS
  Bundles = {"r1", "r2", "e1", "e2"}
  KeyIds = {"pipe", "dev"}
  RunIds = {}
  SiteIds = {"siteA"}
  Hostnames = {"a"}
  None = None
  Signer <- MCSigner
  Sequence <- MCSequence
  Type <- MCType
  Defect <- MCDefect
  SiteOf <- MCSiteOf
  HostOf <- MCHostOf
  Supersedes <- MCSupersedes
  Command <- MCCommand
  Questions = {"q"}
  QuestionOf <- MCQuestionOf
  EvalSite <- MCEvalSite
  Fits <- MCFits
  MaxAttempts = 3
  MaxCrashes = 1
  Floors = {0}
  MaxFloors = 1
SPECIFICATION FairSpec
INVARIANTS
  TypeOK
  RegisteredIsServable
  FiledIsWhole
PROPERTIES
  DefinitionsAdvance
  InboxDrains
CHECK_DEADLOCK FALSE
