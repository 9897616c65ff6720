SPECIFICATION FairSpec
CONSTANTS
    w1 = w1
    w2 = w2
    Worker = {w1, w2}
    MaxCalls <- MCMaxCalls
    MaxRetries = 1
INVARIANTS TypeOK NoReplay PoolBound
PROPERTIES ImplementsCall CallsReturn
