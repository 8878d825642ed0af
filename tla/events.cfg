CONSTANTS
    Templates <- SomeEvents
    MaxEvents = 2
    MaxDays = 1
    MaxFaults = 2
SPECIFICATION FairSpec
INVARIANTS TypeOK PayloadFaithful NoMissedTimer NoGhostTimer CancelReaches ListMatchesTable SortedWithinOneDay
PROPERTIES BootRearms
