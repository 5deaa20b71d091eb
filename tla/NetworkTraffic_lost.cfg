SPECIFICATION TrafficSpec
CONSTANTS
    HourTicks = 2
    MaxTick = 2
    BatchSize = 2
    RawChoices = {2}
    HourlyRetention = 3
    MaxBreaks = 1
PROPERTIES LossCostsNothing
CHECK_DEADLOCK FALSE
