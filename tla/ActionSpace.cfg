SPECIFICATION FairSpec
CONSTANTS
    w1 = w1
    w2 = w2
    w3 = w3
    Window = {w1, w2, w3}
    AppOf <- Apps
    NoSpace = NoSpace
    NoCall = NoCall
    SettleReads = 3
    MaxObs = 2
INVARIANT TypeOK
INVARIANT OneDispatchPerObservation
INVARIANT RetryableMeansNotSent
PROPERTY ConfirmedMeansHappened
PROPERTY CallReturns
