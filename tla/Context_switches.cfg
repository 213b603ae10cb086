SPECIFICATION Spec
CONSTANTS
    ShareMin = 3
    Captions <- MCCaptions
    SelectorLabels <- MCSelectorLabels
    OddPeriods <- MCOddPeriods
    MeasureOf <- MCMeasureOf
    NumberOf <- MCNumberOf
    FactorOf <- MCFactorOf
    NoiseRatio = 1000
    MaxFloat = 100000
    RangeMin = 4
    Books <- SelectBooks
    BatchSize = 2
    WarnMax = 4
    ObsLimit = 6
    MinValueRows = 3
    SlugOf <- MCSlugOf
    ValueWords <- MCValueWords
    Builds <- MCBuilds
    Faults <- MCFaults
INVARIANTS SwitchesSame
CHECK_DEADLOCK FALSE
