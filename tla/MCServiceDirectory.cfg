CONSTANTS
  NoPaths = NoPaths  Down = Down  Silent = Silent  Nothing = Nothing
  Contracts <- MCContracts
  Prefix <- MCPrefix
  Registrations <- MCRegistrations
  Manual <- MCManual
  Documents <- MCDocuments
  Deployed <- MCDeployed
  Hosts = {h1, h2}
  Clients = {c1}
SPECIFICATION FairSpec
INVARIANTS TypeOK EntriesPassed AcceptedIsFound CallsServed

PROPERTY RegistrationEnds
