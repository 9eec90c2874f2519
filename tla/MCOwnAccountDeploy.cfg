SPECIFICATION Spec
CONSTANTS
  MaxClass = 2
  Bystanders = {other}
  Subnets = {s1, s2}
  Zone <- TwoZones
  Editions = {e1, e2}
  RolesQuota = 6
  MaxOthers = 1
  MaxCommands = 3
  NoConfig = NoConfig
SYMMETRY SameEditions
INVARIANTS
  TypeOK
  ReportTrue
  HeadroomHolds
  DeleteClears
PROPERTIES
  SeatKept
  DeleteAsked
