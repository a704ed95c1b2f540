CONSTANTS
  Unset = "unset"
  Text = "text"
  Values = {"unset", "text"}
  Calls = {retried}
  RetryableCalls = {retried}
  MaxRetries = 1
SPECIFICATION FairSpec
CHECK_DEADLOCK FALSE
PROPERTY TransientStatusRetried
