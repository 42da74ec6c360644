SPECIFICATION Spec
CONSTANTS
  Emails = {e1}
  Processes = {p1, p2}
  MaxUsers = 2
  MaxOtps = 2
  MaxSessions = 2
  None = None
INVARIANTS
  TypeOK
  UsedCodesAreGone
  CodesServeTheirPurpose
  TokensWereCurrent
PROPERTIES
  NewestSessionWins
SYMMETRY Symmetry
