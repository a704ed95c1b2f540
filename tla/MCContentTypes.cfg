CONSTANTS
  NoPaths = NoPaths  Down = Down  Silent = Silent  Nothing = Nothing
  Contracts <- RichContracts
  Prefix <- RichPrefix
  Registrations <- RichRegistrations
  Manual <- None
  Documents <- RichDocuments
  Deployed <- RichDeployed
  Hosts = {h1}
  Clients = {c1}
SPECIFICATION Spec
INVARIANT ContentTypesPresent
