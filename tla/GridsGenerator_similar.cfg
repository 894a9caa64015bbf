CONSTANTS
    Requests <- Squares
    ErrTolerance <- MCErrTolerance
    MaxOptIterations = 4
    MaxSampleRepeat = 2
    MaxGenTimes = 2
SPECIFICATION Spec
INVARIANT NoLayoutTwice
