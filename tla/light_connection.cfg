CONSTANTS
    MaxAlarms = 1
    MaxEvents = 2
SPECIFICATION Spec
CHECK_DEADLOCK FALSE
INVARIANTS TypeOK CrashesOnlyIfUnsafe OnlineIsConnected AlarmsLetGo
PROPERTIES LoadingEnds AlarmAnswered
