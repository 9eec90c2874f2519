SPECIFICATION Spec
CONSTANTS
  Runs = {r1}
  Cleaners = {c1}
  Outsiders = {guest}
INVARIANTS
  StoppedRunsRemoved
