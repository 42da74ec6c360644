SPECIFICATION Spec
CONSTANTS
  Users = {u1}
  Levels = {A1, A2}
  Prices = {200}
  OrderIds = {o1, o2}
  Intents = {i1, i2}
  Requests = {r1}
  Callbacks = {c1}
  AccessDays = 1
  PendingDays = 0
  MaxRetries = 1
  MaxDay = 1
  None = None
INVARIANTS
  PaymentBuysItsLevel
