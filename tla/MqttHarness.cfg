\* Two iterations of the AFL loop with every way out of run_once.
SPECIFICATION HarnessSpec
CONSTANTS
    Argvs <- MCArgvs
    Behind <- MCBehind
    Inputs <- MCInputs
    Packets <- MCPackets
    ModeArgs = {0, 1, 2, 3, 4, 5}
    Frags = {0, 1}
    ReadLens = {1, 3}
    MaxReplies = 2
    AflLoops = 2
    MaxSteps = 7
INVARIANTS NoLeakBetweenInputs ReadsThisInput VersionsAgree
PROPERTY EveryInputEnds
