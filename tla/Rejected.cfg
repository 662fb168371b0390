CONSTANTS
  Gen = {"d1"}
  Hash = {"hd1"}
  Kind <- LoneKind
  Bundle <- LoneBundle
  Proposal <- OneProposal
  HashOf <- LoneHashOf
  NoGen = NoGen
  NoHash = NoHash
  Task = {1}
  MaxAttempts = 2
  MaxReservations = 2
  Ambiguities = {"AmbiguousDispatch"}
  Misreports <- NoMisreports
SPECIFICATION Spec
INVARIANTS
  ChainRejectedSpentNothing
