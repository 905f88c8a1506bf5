SPECIFICATION FairSpec
CONSTANTS
    NumItems = 3
    NumTracks = 2
    MaxAttempts = 1
    ByTrack = {1, 2}
    MayDecline = {2}
    MayRetry = {}
    MayRefuse = {3}
    MaxRuns = 2
    MaxStored = 1
INVARIANTS LoopIsServed RunIsAnsweredFor CancelIsFinal
PROPERTY TaskReturns
