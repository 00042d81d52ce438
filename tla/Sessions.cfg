CONSTANTS
  Ids = {u1, u2}
  Emails = {e1, e2}
  Roles = {"STUDENT", "ADMIN"}
  OtherRole = "GUEST"
  Tokens = {t1}
  Life = 1
  Grain = 2
  Requests = {r1, r2}
  None = None
SPECIFICATION FairSpec
INVARIANTS TypeOK OneAccountPerAddress
PROPERTIES RevokedStaysOut RevocationsRunOut StaleRolesRunOut
