SPECIFICATION Spec
CONSTANTS
  Users = {u1, u2}
  Levels = {A1}
  Prices = {150, 200}
  OrderIds = {o1, o2}
  Intents = {i1, i2}
  Requests = {r1}
  Callbacks = {c1, c2}
  AccessDays = 1
  PendingDays = 0
  MaxRetries = 1
  MaxDay = 1
  None = None
SYMMETRY Symmetry
INVARIANTS
  TypeOK
  OnePaymentOneOrder
  SettledByItsUser
  AcknowledgedUserOwns
  AccessWindow
  InFlight
  AccessViewsAgree
PROPERTIES
  SettledIsFinal
  ImplementsLedger
