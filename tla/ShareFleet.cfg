CONSTANTS
  Helper = {"a", "b", "c"}
  Planned = {"a", "b"}
  Faulty = {"c"}
  Gen = {"g1"}
  NoGen = NoGen
  Deliverer = {"d"}
  Tracker = {"t"}
  Target = 2
  MaxClock = 2
  MaxFaults = 0
  Cancels = FALSE
SPECIFICATION Spec
CHECK_DEADLOCK FALSE
INVARIANTS
  ConfirmedIsRevealed
  PlacementBound
PROPERTIES
  NoPostOnceConfirmed
