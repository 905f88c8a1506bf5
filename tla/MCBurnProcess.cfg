SPECIFICATION Spec
CONSTANTS
    Roles = {"alone", "first", "last"}
    Posts = {"track", "session", "toc"}
    Ends = {"ok", "bad"}
    LateErrors = FALSE
    NumTracks = 2
    MaxLines = 2
    MaxRuns = 2
INVARIANTS SourcesServeTheProgram SuccessIsEarned
PROPERTY ProgramIsReaped
