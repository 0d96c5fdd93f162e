SPECIFICATION FairSpec
CONSTANTS
  eval_loop = eval_loop
  worker = worker
  NoName = NoName
  Sources = {eval_loop, worker}
  SourceRank <- MCRank
  Payloads = {"text", "other", "implant"}
  Implants = {"implant"}
  MaxSeq <- MCMaxSeq
  Says <- MCSays
  MaxDamaged = 1
  MaxEmitterRestarts = 1
  MaxTierRestarts = 1
  MaxClashes = 1
  MaxFaults = 2
INVARIANTS TypeOK IndexedOnce GapsAreExact
PROPERTIES PromotedIsKept EveryRecordSettles
CHECK_DEADLOCK FALSE
