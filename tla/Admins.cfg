SPECIFICATION Spec
CONSTANTS
  Emails = {seed, other}
  SeedEmail = seed
  Processes = {p1, p2}
  Instances = {i1, i2}
  MaxAdmins = 2
  None = None
INVARIANTS
  TypeOK
PROPERTIES
  SeededAtBoot
SYMMETRY Symmetry
