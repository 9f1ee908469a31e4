SPECIFICATION Spec
CONSTANTS
    Campaigns <- MCCampaigns
    max_runs <- MCMaxRuns
    MaxCases <- MCMaxCases
    MaxKills = 1
INVARIANTS CasesRunOnce FinishedRunsAreRun PromptIsFresh
PROPERTY CampaignEnds
