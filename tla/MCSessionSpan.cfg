SPECIFICATION FairSpec
CONSTANTS
    NumItems = 4
    MaxSize = 2
    Spaces = {0, 2, 3, 5, 10}
    Overhead = 1
    MaxCopies = 2
    Inputs = {"project"}
INVARIANTS TypeOK EachItemOnce SessionIsGivenBack
PROPERTY DialogEnds
