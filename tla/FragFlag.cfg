\* The command line of README.md line 76, with --frag=2.
SPECIFICATION HarnessSpec
CONSTANTS
    Argvs <- FragArgvs
    Behind <- MCBehind
    Inputs <- MCInputs
    Packets <- MCPackets
    ModeArgs = {0, 1, 2, 3, 4, 5}
    Frags = {0, 1}
    ReadLens = {3}
    MaxReplies = 1
    AflLoops = 1
    MaxSteps = 2
INVARIANT FragFlagCounts
