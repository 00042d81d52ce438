CONSTANTS
  Items = {i1}
  Users = {u1, u2}
  Staff = {u2}
  Admins = {u2}
  Data = {d1}
  Bookings = {b1}
  Requests = {r1, r2}
  Direct = {}
  Handlers = {r1, r2}
  MaxInFlight = 2
  Faults = {"redis", "inventory", "mongo", "crash", "broker"}
  None = None
SPECIFICATION Spec
SYMMETRY Symmetric
INVARIANTS TypeOK StampsRecordHistory EventsAreTrue LockOnlyByApproval
PROPERTIES FollowsSomePast UnlockOnlyByReturn
