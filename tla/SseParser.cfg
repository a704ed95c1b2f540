CONSTANTS
  Blocks = {"lines", "junk", "keepalive", "accent"}
  MaxBlocks = 3
SPECIFICATION FairSpec
CHECK_DEADLOCK FALSE
INVARIANTS
  TypeOK
  InOrder
  NothingLost
  Prompt
PROPERTY Ends
