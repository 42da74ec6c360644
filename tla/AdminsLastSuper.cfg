SPECIFICATION Spec
CONSTANTS
  Emails = {seed, other}
  SeedEmail = seed
  Processes = {p1, p2}
  Instances = {i1}
  MaxAdmins = 2
  None = None
PROPERTIES
  LastSuperIsKept
SYMMETRY Symmetry
