SPECIFICATION FairSpec
CONSTANTS
  Docs = {"fees", "dates"}
  Uploads = {"new"}
  Legacy = {"dates"}
  Parts = 2
  Requests = {"r1", "r2"}
  Syncers = {"healer"}
  Troubles = 1
INVARIANTS
  IndexHonest
PROPERTIES
  IndexFollows
  DocumentsAsPromised
CHECK_DEADLOCK FALSE
