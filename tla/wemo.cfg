CONSTANTS
    Addresses = {"first", "second"}
    NoAddress = "null"
    Names = {"plug", "lamp"}
    NewNames = {"lamp"}
    FirstSaved <- FirstPlugs
    FirstWhere = "first"
    MaxTaps = 1
    MaxRenames = 1
    MaxPresses = 1
    Switches = {TRUE}
    MaxActivities = 2
    MayHang = TRUE
SPECIFICATION Spec
INVARIANTS TypeOK ScreenMatchesPlug FoundBeatsTimeout SavedUnlessBothWrote CrashesOnlyIfUnsafe
PROPERTIES LoadingEnds
CHECK_DEADLOCK FALSE
