SPECIFICATION Spec
CONSTANTS
  Users = {u1, u2}
  Levels = {A1}
  TaskNames = {t1}
  LastDay = 3
  CertificateIds = {x1, x2}
  Requests = {r1, r2}
  None = None
SYMMETRY Symmetry
INVARIANTS
  TypeOK
  NoDaySkipped
  TasksWithinReach
  OneCertificate
  CertificateEarned
  CertificateNotLost
  PageLeadsOn
