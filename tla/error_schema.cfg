SPECIFICATION Spec
CONSTANTS
  p1 = p1  p2 = p2  o1 = o1  x1 = x1  t1 = t1  t2 = t2
  Null = Null
  Garbage = Garbage
  Nothing = Nothing
  PartIds = {p1, p2}
  OrderIds = {o1}
  Txs = {x1}
  Prices = {500}
  Unset = Unset
  Times = {t1, t2}
  Rfc3339 <- MCRfc3339
  Ships <- MCShips
  HttpRequests <- MCHttpRequests
INVARIANTS
  OneErrorSchema
