SPECIFICATION Spec
CONSTANTS
    MaxSettled = 3
    BatchSize = 2
    RateWindow = 1
    CyclePeriod = 3
PROPERTY EverySettledTipRechecked
