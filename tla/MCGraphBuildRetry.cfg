SPECIFICATION Spec
CONSTANTS
  paris = paris
  cairo = cairo
  rome = rome
  Sources = {paris, cairo}
  Restored = {}
  Amenities <- SharedPool
  Modes <- AdditiveOnce
  Recipes = {"r1"}
  Malformed = {}
  Fixtures = {}
  IndexesBefore = {"absent"}
  Concurrency = 1
  Canary = {paris}
  HotelCounts = {1}
  MaxLeft = 0
CHECK_DEADLOCK FALSE
INVARIANTS
  FailedOnceIsRetried
