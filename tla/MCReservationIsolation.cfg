SPECIFICATION Spec
CONSTANTS
  FixtureHotels = {"cairo"}
  MaxGuests = 2
  EditedRules = {}
  MaxEdits = 0
  Deliveries = {d1, d2}
  Payloads <- RacingPayloads
  LastDay = 0
  MaxFaults = 0
INVARIANTS
  ChecksHoldUntilWrite
