CONSTANTS
  Messages = {m1, m2}
  Double = {m1}
  Poison = {m2}
  MaxRetries = 2
  Operators = {o1}
  Limits = {1, 2}
  MaxCrashes = 1
  None = None
SPECIFICATION FairSpec
INVARIANTS TypeOK DuplicatesNeedCrash FullLadder
PROPERTIES DeliversAtLeastOnce EventuallySettled
