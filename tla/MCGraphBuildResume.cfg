SPECIFICATION Spec
CONSTANTS
  paris = paris
  cairo = cairo
  rome = rome
  Sources = {paris, cairo}
  Restored = {}
  Amenities <- SharedPool
  Modes <- RebuildThenResume
  Recipes = {"r1", "r2", "bad"}
  Malformed = {"bad"}
  Fixtures = {paris}
  IndexesBefore = {"absent", "other"}
  Concurrency = 1
  Canary = {paris}
  HotelCounts = {1, 2}
  MaxLeft = 1
CHECK_DEADLOCK FALSE
INVARIANTS
  OneDocumentPerSource
PROPERTIES
  SuccessIsExact
  BuildEnds
