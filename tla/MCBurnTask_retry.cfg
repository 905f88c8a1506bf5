SPECIFICATION Spec
CONSTANTS
    NumItems = 3
    NumTracks = 2
    MaxAttempts = 1
    ByTrack = {1, 2}
    MayDecline = {2}
    MayRetry = {1, 3}
    MayRefuse = {3}
    MaxRuns = 2
    MaxStored = 1
INVARIANT QuietWhenIdle
PROPERTY PipesFollowWriters
