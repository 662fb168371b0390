CONSTANTS
  Gen = {"d1", "c1", "c2"}
  Hash = {"hd1", "hc1", "hc2"}
  Kind <- CombinedKind
  Bundle <- CombinedBundle
  Proposal <- OneProposal
  HashOf <- CombinedHashOf
  NoGen = NoGen
  NoHash = NoHash
  Task = {1}
  MaxAttempts = 2
  MaxReservations = 3
  Ambiguities = {"AmbiguousDispatch"}
  Misreports <- NoMisreports
SPECIFICATION Spec
INVARIANTS
  TypeOK
  NeverForgotten
  OneSpender
PROPERTIES
  CancelledHidesNothing
  LedgerSpec
