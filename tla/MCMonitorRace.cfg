SPECIFICATION Spec
CONSTANTS
  i1 = i1
  t1 = t1
  t2 = t2
  t3 = t3
  Outside = Outside
  NoReply = NoReply
  Invoices = {i1}
  Tx = {t1}
  Payee <- OnePayee
  Coin <- OneCoin
  Amount <- OneEach
  Due <- DueOne
  Required <- RequireOne
  Window = 2
  MaxHeight = 2
  MaxRewinds = 0
PROPERTIES
  PaidInTimeNeverExpires
