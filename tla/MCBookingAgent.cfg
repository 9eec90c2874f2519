SPECIFICATION Spec
CONSTANTS
  Invocations = {i1, i2}
  Calls = {c1, c2, c3, c4}
  RequestIds = {"r1"}
  Hotels = {"cairo"}
  Inputs <- ModelInputs
  MaxReadResults = 2
PROPERTIES
  ImplementsRuntimeContract
CHECK_DEADLOCK FALSE
SYMMETRY Interchangeable
INVARIANTS
  TypeOK
  WritesGrounded
  OneRequestPerCallerId
  ReportsTrue
  SilenceMeansNothingWritten
  EvidenceReturned
