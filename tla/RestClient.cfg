CONSTANTS
  Unset = "unset"
  Text = "text"
  Values = {"unset", "text"}
  Calls = {retried, once}
  RetryableCalls = {retried}
  MaxRetries = 2
SPECIFICATION FairSpec
CHECK_DEADLOCK FALSE
INVARIANTS
  TypeOK
  AtMostOneDelivery
  OutcomeIsTruthful
  TypedErrorUnchanged
  RetryBudgetSpent
PROPERTIES
  CallReturns
  ImplementsContract
