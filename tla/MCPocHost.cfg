CONSTANTS
  NoPaths = NoPaths  Down = Down  Silent = Silent  Nothing = Nothing
  Documents <- MCDocuments
  Deployed <- MCDeployed
SPECIFICATION FairSpec
INVARIANTS TypeOK WiredRight PanicExplained

PROPERTY HostEnds
