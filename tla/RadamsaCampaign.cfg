\* Three runs, every outcome of each, an interrupt or a failure anywhere.
SPECIFICATION Spec
CONSTANTS
    NumRuns = 3
    ExitCodes = {1, 124, 127, 200}
INVARIANTS RunsAreAccounted StopLosesOneRun LoggedIsSaved
PROPERTY CampaignEnds
