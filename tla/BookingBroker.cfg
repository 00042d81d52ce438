CONSTANTS
  Items = {i1}
  Users = {u1, u2}
  Staff = {}
  Admins = {}
  Data = {d1}
  Bookings = {b1}
  Requests = {r1}
  Direct = {}
  Handlers = {r1}
  MaxInFlight = 1
  Faults = {"broker"}
  None = None
SPECIFICATION Spec
PROPERTY BrokerHiccupIsHarmless
