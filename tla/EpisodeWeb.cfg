SPECIFICATION Spec
CONSTANTS
  Documents <- MCDocuments
  Table = "replies"
  Columns = {"id", "thread_id", "body", "author", "created_at", "writer"}
  Values <- MCValues
  Hosts = {"h1", "h2"}
  HomeHost = "h1"
  Home = "forum"
  OtherSite = "wiki"
  NoSite = "none"
  LiveAtFirst <- MCLive
  Seed <- MCSeed
  Threads = {1, 2}
  MaxActions = 4
  MaxAmbient = 1
  MaxSteps = 4
  MaxMoves = 1
INVARIANTS TypeOK AcceptedDocumentsCompose OwnedRowsExist
CHECK_DEADLOCK FALSE
