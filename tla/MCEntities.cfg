SPECIFICATION EntitiesSpec
CONSTANTS
    MaxItems = 2
    MaxVersion = 3
    MaxRuntimes = 1
    MaxReads = 2
    Message = {m1, m2, m3}
    MaxNotifications = 2
    MaxWeight = 3
    Sample <- Samples
    MaxShows = 3
    Horizon = 2
    Sensor = {door, motion}
    Motion = {motion}
    Tolerated = {motion}
    MaxCommands = 2
    MaxMoves = 2
    MaxChoices = 2
    MaxReboots = 2
    MaxFailures = 2
    MaxOps = 2
    MaxElsewhere = 1
    MaxEvents = 3
    MaxReloads = 1
INVARIANTS
    AlarmTrue
    CodecTrue
    SwitchesTrue
    PushedTrue
PROPERTIES
    ItemsKept
    ItemsCatchUp
    NotificationsKept
    DisplayIsWoken
    CommandIsAnswered
    CodecResolves
CHECK_DEADLOCK FALSE
