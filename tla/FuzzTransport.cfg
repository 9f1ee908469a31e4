\* Every call order on every mode, with and without autopilot and fragments.
SPECIFICATION Spec
CONSTANTS
    Inputs <- MCInputs
    Packets <- MCPackets
    ModeArgs = {0, 1, 2, 3, 4, 5}
    Frags = {0, 2}
    ReadLens = {1, 3}
    MaxReplies = 2
INVARIANT RepliesAnswer
PROPERTIES ReadBounded PollThenRead ImplementsStream
