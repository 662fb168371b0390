CONSTANTS
  Gen = {"d1"}
  Hash = {"hd1", "hd1x"}
  Kind <- LoneKind
  Bundle <- LoneBundle
  Proposal <- OneProposal
  HashOf <- TwiceHashOf
  NoGen = NoGen
  NoHash = NoHash
  Task = {1}
  MaxAttempts = 2
  MaxReservations = 2
  Ambiguities = {"AmbiguousDispatch"}
  Misreports <- NoMisreports
SPECIFICATION FairSpec
PROPERTIES
  LandedIsSettled
