CONSTANTS
  Network = {1, 2}
  Onw = {9}
  TS = {11, 12}
  Service = {21, 22}
  Lcn = {101, 102}
  RegionCode = {0, 31, 65535}
  AnyRegion = 65535
  FreesatId = {0, 41}
  Name = {"A", "B", "R", "S"}
  Text = {"one", "p", "q"}
  NoText = ""
  LeadingNumber <- MCLeadingNumber
  Property <- MCProperty
  Nit <- MCNit
  Bat <- MCBat
  Sdt <- MCSdt
  MaxRuns = 2
SPECIFICATION Spec
INVARIANTS TypeOK NoDanglingLcn CommitExact LcnAsGiven
CHECK_DEADLOCK FALSE
