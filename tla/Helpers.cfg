\* The helper client.
CONSTANTS
  Endpoint = {"a"}
  r1 = r1
  r2 = r2
  Request = {r1, r2}
  OpsOf <- MCOpsOf
  Cancels = {r1}
  RetryDelays <- MCRetryDelays
  HelperTimeout = 1
  DeliveryBudgets = {0, 2}
  Threshold = 2
  Cooldown = 2
  MaxInstant = 4
\* Share policy, placement and preflight.
  MaxSeconds = 40
  Timing <- MCTiming
  BufferMax = 4
  DelayMax = 6
  ServerCounts = {0, 1, 2, 3, 5, 8}
  ShareCounts = {0, 1, 3, 16}
  VoteWindows <- MCVoteWindows
  FleetLists <- MCFleetLists
  IdentityOf <- MCIdentityOf
\* The tracking driver.
  Share = {1, 2}
  DriveRun = {"A", "B"}
  Scenarios <- MCScenarios
  VoteEnd = 13
  FailureRetry = 1
  MaxFailures = 2
  PollMax = 1
  Clock = 13
\* The ledger of one share.
  Helper = {"a", "b"}
  Faulty = {"b"}
  Gen = {"g1", "g2"}
  NoGen = NoGen
\* Status polls.
  PollFleets <- MCPollFleets
  MaxPolls = 2
  PollGens = {"g1", "g2"}
\* Completing a vote unit.
  VoteIn = {1, 2}
  Payload = {1, 2}
  MaxActive = 2
  Permits = 4
  TargetOf <- MCTargetOf
  MinimumCharge = 1
  MaxSteps = 2
\* The immediate share.
  Proposal = {1, 2}
  BundleCount = 2
  Options = {"yes", "no"}
SPECIFICATION HelpersSpec
INVARIANTS
  HelperTypes
  OutcomesAreTrue
  PlacementKeepsContract
  PreflightIsPatient
  OverdueIsCaught
  RunReportIsTrue
  NothingForgotten
  PollDecidesByEvidence
  ConfirmedUnitHasPlans
  AdvancedMeansHeld
PROPERTIES
  DemotionIsFair
  RoundIsHandedOver
  
CHECK_DEADLOCK FALSE
