CONSTANTS
    Templates <- SomeEvents
    MaxEvents = 2
    MaxDays = 0
    MaxFaults = 1
SPECIFICATION Spec
INVARIANT OffMeansOff
