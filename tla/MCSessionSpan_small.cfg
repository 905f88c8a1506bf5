SPECIFICATION Spec
CONSTANTS
    NumItems = 2
    MaxSize = 2
    Spaces = {0, 1, 3, 5}
    Overhead = 1
    MaxCopies = 0
    Inputs = {"small"}
INVARIANT SuccessIsComplete
