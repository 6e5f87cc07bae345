CONSTANTS
  p1 = p1
  p2 = p2
  c1 = c1
  Account = {p1, p2, c1}
  Personal = {p1, p2}
  Request <- MCRequest
  Key = {k1}
  NoKey = NoKey
  Call = {h1, h2}
  MaxBalance = 1
  MaxTxn = 2
SYMMETRY Handlers
SPECIFICATION Spec
INVARIANTS
  BooksBalance
  OneBookingPerKey
  ReimbursementsStayWhole
  FlowIsOrdered
PROPERTY ImplementsIdempotentCreation
