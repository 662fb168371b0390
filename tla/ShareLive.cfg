CONSTANTS
  Helper = {"a", "b"}
  Planned = {"a"}
  Faulty = {}
  Gen = {"g1"}
  NoGen = NoGen
  Deliverer = {"d"}
  Tracker = {"t"}
  Target = 2
  MaxClock = 2
  MaxFaults = 1
  Cancels = FALSE
SPECIFICATION LiveSpec
CHECK_DEADLOCK FALSE
PROPERTIES
  EventuallyConfirmed
  KeepsLedger
