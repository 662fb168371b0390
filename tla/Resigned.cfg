CONSTANTS
  Gen = {"i1", "v1", "v2", "v3"}
  Hash = {"hi1", "hv1", "hv2", "hv3"}
  Kind <- ResignedKind
  Bundle <- ResignedBundle
  Proposal <- ResignedProposal
  HashOf <- ResignedHashOf
  NoGen = NoGen
  NoHash = NoHash
  Task = {1}
  MaxAttempts = 2
  MaxReservations = 2
  Ambiguities = {"AmbiguousDispatch", "EndpointUnsupported"}
  Misreports <- NoMisreports
SPECIFICATION Spec
INVARIANTS
  VanNeverBehind
  RecoveryMaterialKept
  SignedWorkStaysViable
PROPERTIES
  CandidateDroppedWithCause
