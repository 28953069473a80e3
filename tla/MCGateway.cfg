SPECIFICATION GatewayFair
CONSTANTS
  Never = Never
  NoAnswer = NoAnswer
  i1 = i1
  i2 = i2
  Invoices = {i1, i2}
  MaxTries = 2
  BatchLimit = 2
  BackoffCap = 2
  MaxEvents = 2
INVARIANTS
  BelievesOnlyTheFinal
  LagIsOnRecord
PROPERTIES
  MerchantLearns
CHECK_DEADLOCK FALSE
