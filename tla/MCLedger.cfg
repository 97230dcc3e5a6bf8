SPECIFICATION FairSpec
CONSTANTS
  Provers = {p1, p2}
  Known = {1, 2}
  Unknown = {3}
  Amounts = {2}
  Balances = {1}
  W = 5
  MaxTxn = 2
  MaxSend = 2
  MaxRedelivery = 1
INVARIANT BalanceIsNet
INVARIANT SameOrderSameRoot
PROPERTY OneRoot
CHECK_DEADLOCK FALSE
