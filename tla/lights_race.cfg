CONSTANTS
    lamp1 = lamp1
    lamp2 = lamp2
    on = on
    off = off
    dim = dim
    NoCommand = NoCommand
    First = off
    Lights <- TwoLights
    Colors <- ThreeColors
    Commands <- AllCommands
    MaxCommands = 2
SPECIFICATION Spec
INVARIANTS TypeOK OneBatchAtATime CompletesOnce LatestTakesEffect
CHECK_DEADLOCK FALSE
