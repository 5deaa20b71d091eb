SPECIFICATION TrafficSpec
CONSTANTS
    HourTicks = 2
    MaxTick = 4
    BatchSize = 2
    RawChoices = {3}
    HourlyRetention = 6
    MaxBreaks = 0
PROPERTIES RerunKeepsTotals
CHECK_DEADLOCK FALSE
