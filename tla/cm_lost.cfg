CONSTANTS
    t1 = t1
    t2 = t2
    t3 = t3
    t4 = t4
    Main = Main
    NoTask = NoTask
    Tasks <- ThreeTasks
    MayHang = {}
SPECIFICATION FairSpec
PROPERTY EveryRequestRuns
CHECK_DEADLOCK FALSE
