SPECIFICATION Spec
CONSTANTS
  p1 = p1
  p2 = p2
  s1 = s1
  h1 = h1
  h2 = h2
  hs = hs
  v1 = v1
  v2 = v2
  Payments = {p1, p2}
  Empty = Empty
  SpendOf <- MCSpendOf
  PaymentId <- MCPaymentId
  ConfirmHooks = {h1, h2}
  SpendHooks = {hs}
  Requested <- MCRequested
  Scanners = {v1, v2}
  MaxHeight = 4
  MaxRollbacks = 1
  MaxRescans = 1
SYMMETRY MCSymmetry
INVARIANTS
  EventsResolve
  PaymentsToldOnce
  EventsAreOngoing
CHECK_DEADLOCK FALSE
