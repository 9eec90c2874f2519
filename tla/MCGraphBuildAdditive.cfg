SPECIFICATION Spec
CONSTANTS
  paris = paris
  cairo = cairo
  rome = rome
  Sources = {paris, cairo}
  Restored = {rome}
  Amenities <- SharedPool
  Modes <- AdditiveTwice
  Recipes = {"r1"}
  Malformed = {}
  Fixtures = {rome}
  IndexesBefore = {"absent"}
  Concurrency = 2
  Canary = {paris}
  HotelCounts = {1}
  MaxLeft = 2
CHECK_DEADLOCK FALSE
INVARIANTS
  TypeOK
  RestoredUntouched
  OneDocumentPerSource
PROPERTIES
  SuccessIsExact
