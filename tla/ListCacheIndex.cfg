CONSTANTS
  Items = {i1}
  Users = {u1}
  Filters = {"true"}
  Handlers = {h1, h2}
  Faults = {}
  None = None
SPECIFICATION Spec
PROPERTY EveryListIsFound
