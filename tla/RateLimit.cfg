CONSTANTS
  Keys = {"rl:auth:ip", "rl:user:id"}
  Max <- Limits
  Window <- Windows
  Requests = {r1, r2}
  None = None
SPECIFICATION FairSpec
INVARIANTS TypeOK  ImmortalOnlyByFailure
PROPERTIES LostTtlStaysLost NobodyLockedOut
