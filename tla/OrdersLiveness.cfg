SPECIFICATION FairSpec
CONSTANTS
  Users = {u1}
  Levels = {A1}
  Prices = {200}
  OrderIds = {o1, o2}
  Intents = {i1, i2}
  Requests = {r1}
  Callbacks = {c1}
  AccessDays = 1
  PendingDays = 0
  MaxRetries = 1
  MaxDay = 2
  None = None
INVARIANTS
  PeriodsPartitionTime
PROPERTIES
  CallbackAnswered
  AbandonedIsRemoved
  PaidAccessRunsOut
  FiguresStand
