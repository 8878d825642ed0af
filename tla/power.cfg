CONSTANTS
    StripPassword <- One
    Tokens <- SomeTokens
    Settings <- SomeSettings
    FirstSettings <- RightSettings
    UsedPlugs = {0}
    Timers <- OneTimer
    FirstPlugs <- ThirdOn
    MaxRequests = 2
    MaxPresses = 1
    MaxActivities = 2
    NoStatus = NoStatus
    MayHang = TRUE
SPECIFICATION Spec
INVARIANTS TypeOK ScreenMatchesStrip LastCommandWins StatusIsOfTheSettings CrashesOnlyIfUnsafe
PROPERTIES OnlyAskedPlugSwitches LoadingEnds
CHECK_DEADLOCK FALSE
