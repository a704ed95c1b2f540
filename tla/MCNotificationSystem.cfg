CONSTANTS
  Calls = {c1}
  RetryableCalls = {c1}
  MaxRetries = 2
  Values = {"text"}
  Unset = "text"
  Text = "text"
  DeliveryIds = {d1, d2}
  Users <- MCUsers
  Channels = {"email"}
  MaxRestarts = 1
SPECIFICATION Spec
CHECK_DEADLOCK FALSE
INVARIANTS
  TypeOK
  AttemptsDoNotOverlap
  OkIsKnown
PROPERTY
  ImplementsContract
