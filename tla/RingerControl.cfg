SPECIFICATION FairRinger
CONSTANTS
    Client = {c1, c2}
    None = None
    MaxAnnounced = 1
    MaxReload = 1
    MaxRestart = 1
PROPERTIES
    RingerTrue
    RingerServes
