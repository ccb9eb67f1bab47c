SPECIFICATION FairSpec
CONSTANTS
  p = p  q = q  r = r
  i1 = i1  i2 = i2
  Installers = {i1, i2}
  Packages = {p, q, r}
  Version <- Versions
  BuildNo <- BuildNos
  NFiles = 2
  Modules = {1}
  Absent = absent  Partial = partial  Foreign = foreign  None = none
INVARIANTS TypeOK InstalledMatches UndisturbedFinishes
PROPERTIES UpgradesOnly RunsEnd
