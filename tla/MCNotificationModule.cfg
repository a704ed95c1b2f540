CONSTANTS
  Sends = {s1, s2}
  DeliveryIds = {d1, d2}
  Users <- MCUsers
  Channels = {"email"}
  MaxRestarts = 1
SPECIFICATION FairSpec
CHECK_DEADLOCK FALSE
INVARIANTS
  TypeOK
  NoGhostStatus
PROPERTIES
  ReadsOwnSend
  StatusKept
  SendEnds
  ImplementsContract
