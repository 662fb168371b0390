SPECIFICATION RoundsSpec
CONSTANTS
    Bundles = {1, 2}
    Proposals = {1, 2}
    Options = {"yes", "no"}
    MaxChanges = 2
    MaxDispatches = 2
    MaxConcurrency = 2
    Starts <- MCStarts
INVARIANTS RoundTypes PlanIsSound VotedAsDecided ReportIsTrue OneTryPerShare
CHECK_DEADLOCK FALSE
PROPERTY RunEnds
