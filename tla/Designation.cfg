CONSTANTS
  Proposal = {1, 2}
  BundleCount = 2
  Options = {"yes", "no"}
SPECIFICATION DesignationSpec
INVARIANT RepeatCallReturnsStoredPlan
CHECK_DEADLOCK FALSE
