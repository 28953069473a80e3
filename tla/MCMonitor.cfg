SPECIFICATION Spec
CONSTANTS
  i1 = i1
  t1 = t1
  t2 = t2
  t3 = t3
  Outside = Outside
  NoReply = NoReply
  Invoices = {i1}
  Tx = {t1, t2, t3}
  Payee <- ExtraPayee
  Coin <- ExtraCoin
  Amount <- OneEach
  Due <- DueOne
  Required <- RequireThree
  Window = 3
  MaxHeight = 3
  MaxRewinds = 1
INVARIANTS
  TypeOK
  PassesNoPaymentBy
  LedgerAgrees
PROPERTIES
  CountsOnlyChainMoney
  ConfirmedIsReal
  ExpiresOnlyUnpaid
  WeakestGoverns
  OnePollIsEnough
