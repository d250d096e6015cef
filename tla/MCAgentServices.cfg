SPECIFICATION AgentServicesSpec
CONSTANTS
    Job = {j1, j2, j3, j4}
    NoJob = NoJob
    Capacity = 3
    Outcome <- Outcomes
    MaxFailures = 2
    MaxInstance = 3
    MaxSample = 2
    MaxFlight = 2
    MaxChanges = 1
    MaxErrors = 1
INVARIANTS
    UpdateTrue
    IssuesTrue
    RecoverySafe
PROPERTIES
    QueueSafe
    JobsResolve
    MailboxHolds
    UpdateReturns
    SnapshotTrue
    CaughtUp
    IssueComesBack
CHECK_DEADLOCK FALSE
