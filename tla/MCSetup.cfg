SPECIFICATION SetupPartsSpec
CONSTANTS
    Job = {j1, j2, j3}
    NoJob = NoJob
    Capacity = 2
    Outcome <- Outcomes
    Callback = {c1, c2}
    Filter <- Filters
    Id = {id1}
    Metrics = metrics
    Doorbell = doorbell
    Voicemail = voicemail
    Memos = memos
    NoSub = NoSub
    MaxGeneration = 3
    MaxSample = 3
    MaxEdits = 1
    MaxRestarts = 1
    Flow = {f1, f2}
    Host = {h1, h2}
    MaxTokens = 3
    MaxTroubles = 2
    Address = {a1, a2}
    MaxItems = 2
    MaxChanges = 2
    MaxSaves = 2
SYMMETRY Blocks
INVARIANTS
    SetupTrue
    SettingsTrue
    DecisionsAgree
PROPERTIES
    EntryKept
    DeliveryTrue
    QueueSpec
CHECK_DEADLOCK FALSE
