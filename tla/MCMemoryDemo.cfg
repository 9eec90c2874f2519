SPECIFICATION Spec
CONSTANTS
  Runs = {r1, r2}
  Cleaners = {c1}
  Outsiders = {guest}
SYMMETRY Interchangeable
INVARIANTS
  TypeOK
  FinishedRunsRemoved
  ChecksPass
PROPERTIES
  SharedPreferencesKept
