CONSTANTS
  Gen = {"i1", "b1", "d2"}
  Hash = {"hi1", "hb1", "hd2"}
  Kind <- MixedKind
  Bundle <- MixedBundle
  Proposal <- OneProposal
  HashOf <- MixedHashOf
  NoGen = NoGen
  NoHash = NoHash
  Task = {1}
  MaxAttempts = 2
  MaxReservations = 2
  Ambiguities = {"AmbiguousDispatch"}
  Misreports <- MixedMisreports
SPECIFICATION Spec
INVARIANTS
  UniqueCandidate
  ReservedBeforePost
