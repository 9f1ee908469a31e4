SPECIFICATION Spec
CONSTANTS
    Writes <- SeedWrites
    MaxStops = 1
INVARIANTS SeedsParse TwinsAgree CompleteWhenDone
