SPECIFICATION Spec
CONSTANTS
  FixtureHotels = {"cairo"}
  MaxGuests = 2
  EditedRules <- BrokenRules
  MaxEdits = 1
  Deliveries = {d1, d2}
  Payloads <- VariedPayloads
  LastDay = 1
  MaxFaults = 1
PROPERTIES
  ImplementsContract
  EveryDeliveryAnswered
