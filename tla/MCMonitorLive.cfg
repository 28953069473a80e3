SPECIFICATION FairSpec
CONSTANTS
  i1 = i1
  t1 = t1
  t2 = t2
  t3 = t3
  Outside = Outside
  NoReply = NoReply
  Invoices = {i1}
  Tx = {t1, t2}
  Payee <- StrangerPayee
  Coin <- SharedCoin
  Amount <- OneEach
  Due <- DueOne
  Required <- RequireTwo
  Window = 2
  MaxHeight = 3
  MaxRewinds = 1
PROPERTIES
  SettlesInTheEnd
  ExpiresInTheEnd
