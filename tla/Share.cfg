CONSTANTS
  Helper = {"a", "b"}
  Planned = {"a"}
  Faulty = {}
  Gen = {"g1", "g2"}
  NoGen = NoGen
  Deliverer = {"d"}
  Tracker = {"t"}
  Target = 1
  MaxClock = 2
  MaxFaults = 0
  Cancels = TRUE
SPECIFICATION Spec
CHECK_DEADLOCK FALSE
INVARIANTS
  TypeOK
  AcceptedIsHeld
