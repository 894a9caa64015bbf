CONSTANTS
    Requests <- MCRequests
    ErrTolerance <- MCErrTolerance
    MaxOptIterations = 4
    MaxSampleRepeat = 2
    MaxGenTimes = 2
SPECIFICATION Spec
INVARIANTS EachPhotoPlacedOnce FoundTreeFits GridsTile OneSlotPerPhoto
PROPERTIES PairIsTheNearest OptimizeReturns
