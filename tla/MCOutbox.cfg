SPECIFICATION FairSpec
CONSTANTS
  Never = Never
  NoAnswer = NoAnswer
  MaxTries = 3
  BatchLimit = 2
  BackoffCap = 1
  MaxEvents = 3
INVARIANTS
  TypeOK
  BatchIsCurrent
  GivenUpWasTried
PROPERTIES
  ImplementsDelivery
  EveryEventSettles
CHECK_DEADLOCK FALSE
