CONSTANTS
  Items = {i1}
  Users = {u1}
  Filters = {"true"}
  Handlers = {h1, h2}
  Faults = {"redis", "inventory"}
  None = None
SPECIFICATION FairSpec
INVARIANTS TypeOK UnindexedOnlyByOverlap StaleIsExplained
PROPERTY ListsConverge
