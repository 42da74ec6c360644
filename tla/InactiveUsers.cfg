SPECIFICATION FairSpec
CONSTANTS
  NumUsers = 2
  BatchSize = 1
  MailDays = 1
  SuspendDays = 2
  MaxDay = 2
  MaxFailures = 1
  MaxChanges = 1
  None = None
INVARIANTS
  TypeOK
  SuspensionRecorded
  SuspendedWereInactive
PROPERTIES
  LeftOutWereDisplaced
  JobEnds
  NobodyStaysDue
