SPECIFICATION FairSpec
CONSTANTS
  Events = {e1, e2}
  Foreign = {e2}
  Own = {o1}
  Retries = 1
  OwnRetries = 2
  MaxTroubles = 4
INVARIANTS
  TypeOK
  DeliveredOnceOrTrouble
PROPERTY
  SendsEnd
CHECK_DEADLOCK FALSE
