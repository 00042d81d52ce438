CONSTANTS
  Items = {i1}
  Users = {u1, u2}
  Staff = {u2}
  Data = {d1}
  Handlers = {h1, h2}
  Faults = {"redis", "inventory"}
  None = None
SPECIFICATION FairInventorySpec
INVARIANT InventoryTypeOK
PROPERTIES OnlyCreateRevives FlagsIndependent OnlyManagersWrite StaleOnlyByRace Converges
