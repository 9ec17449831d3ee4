SPECIFICATION FairSpec
CONSTANTS
  c1 = c1  c2 = c2
  o1 = o1
  t1 = t1  t2 = t2
  Calls = {c1, c2}
  OrderIds = {o1}
  Empty = Empty
  Malformed = Malformed
  PayMethods <- MCPayMethods
  Txns = {t1, t2}
  None = None
INVARIANTS
  ChargeIsKnown
  ChargedOnce
  StopDropsNothing
PROPERTIES
  CallEnds
  StopEnds
  ImplementsPayment
