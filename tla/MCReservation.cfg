SPECIFICATION Spec
CONSTANTS
  FixtureHotels = {"cairo"}
  MaxGuests = 2
  EditedRules <- LoweredRule
  MaxEdits = 1
  Deliveries = {d1, d2, d3}
  Payloads <- RacingPayloads
  LastDay = 0
  MaxFaults = 1
SYMMETRY DeliverySymmetry
INVARIANTS
  TypeOK
  OneNodePerRequestId
  AcceptedMatchesGraph
  CommittedUnderLimitInForce
