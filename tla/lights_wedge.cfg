CONSTANTS
    lamp1 = lamp1
    lamp2 = lamp2
    on = on
    off = off
    dim = dim
    NoCommand = NoCommand
    First = off
    Lights <- TwoLights
    Colors <- ThreeColors
    Commands <- FewCommands
    MaxCommands = 2
SPECIFICATION SerialSpec
PROPERTY RequestRuns
CHECK_DEADLOCK FALSE
