SPECIFICATION Spec
CONSTANTS
    Providers <- AllProviders
    MaxFaults = 2
    MaxOverlapFaults = 1
INVARIANTS TypeOK Published CleanUpTruthful NothingLeft RoundSucceeds MutexReleased
PROPERTIES ElsewhereKept ImplementsContract
