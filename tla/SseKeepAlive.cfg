CONSTANTS
  Blocks = {"plain", "keepalive"}
  MaxBlocks = 3
SPECIFICATION FairSpec
CHECK_DEADLOCK FALSE
INVARIANTS
  AllParsed
