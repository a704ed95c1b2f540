CONSTANTS
  Limit = 65536
  Durations = {0, 1, 3, 100, 257, 5000, 40000, 65535, 65537, 131071}
  MaxRetries = 18
SPECIFICATION Spec
CHECK_DEADLOCK FALSE
INVARIANTS
  TypeOK
  NeverLongerThanMax
  NeverTooEager
PROPERTY NeverCollapses
