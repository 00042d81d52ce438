CONSTANTS
  Items = {i1}
  Users = {u1, u2}
  Staff = {}
  Admins = {}
  Data = {d1}
  Bookings = {b1}
  Requests = {r1, r2}
  Direct = {}
  Handlers = {r1, r2}
  MaxInFlight = 2
  Faults = {}
  None = None
SPECIFICATION Spec
PROPERTY TransitionsFollowTable
