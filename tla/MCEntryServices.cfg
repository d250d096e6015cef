SPECIFICATION EntryServicesSpec
CONSTANTS
    Task = {t1, t2}
    Filter = {f1, f2}
    Nothing = Nothing
    NoSub = NoSub
    MaxOrphans = 1
    MaxLate = 1
    MaxBegun = 3
INVARIANTS
    RegistrationSafe
    DisplayPatchTrue
PROPERTIES
    ServesOrShows
    LockComesBack
CHECK_DEADLOCK FALSE
