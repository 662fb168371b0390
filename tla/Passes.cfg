CONSTANTS
  Gen = {"d1", "c1"}
  Hash = {"hd1", "hd1x", "hc1"}
  Kind <- PairKind
  Bundle <- PairBundle
  Proposal <- OneProposal
  HashOf <- PairHashOf
  NoGen = NoGen
  NoHash = NoHash
  Task = {1, 2}
  MaxAttempts = 2
  MaxReservations = 3
  Ambiguities = {"AmbiguousDispatch"}
  Misreports <- NoMisreports
SPECIFICATION Spec
INVARIANTS
  NoIllegalTransition
  SettledIsTrue
