SPECIFICATION FairSpec
CHECK_DEADLOCK FALSE
INVARIANTS
  TypeOK
  CompleteUnlessCut
PROPERTIES
  ImplementsStream
  DeliveryFinishes
  StreamEnds
