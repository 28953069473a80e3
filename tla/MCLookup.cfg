SPECIFICATION LookupSpec
CONSTANTS
  i1 = i1
  i2 = i2
  t1 = t1
  t2 = t2
  Outside = Outside
  NoReply = NoReply
  NoLookup = NoLookup
  Invoices = {i1, i2}
  Tx = {t1, t2}
  Payee <- RivalPayee
  Coin <- SharedCoin
  Amount <- OneEach
  Due <- DueOneOrTwo
  Required <- RequireTwo
  Window = 2
  MaxHeight = 2
  MaxRewinds = 1
INVARIANTS
  FiguresExplainStatus
  ConfirmedAnswerShowsMoney
PROPERTIES
  CountsOnlyChainMoney
  ReplayIsHarmless
  ImplementsLifecycle
