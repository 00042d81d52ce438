CONSTANTS
  Items = {i1}
  Users = {u1, u2}
  Staff = {}
  Admins = {}
  Data = {d1, d2}
  Bookings = {b1, b2}
  Requests = {r1}
  Direct = {h1}
  Handlers = {r1, h1}
  MaxInFlight = 1
  Faults = {"mongo"}
  None = None
SPECIFICATION Spec
SYMMETRY Symmetric
INVARIANTS NoPhantomLock CoherentWhenQuiet OwnerSnapshotGenuine
PROPERTIES CreatedOnlyWhenBookable FollowsTable
