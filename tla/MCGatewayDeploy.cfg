SPECIFICATION Spec
CONSTANTS
  Tools = 2
  MaxNames = 2
  LastPassword = 2
  MaxFaults = 2
INVARIANTS
  TypeOK
  ToolsServe
  RerunKeepsServing
PROPERTIES
  RerunFinishes
