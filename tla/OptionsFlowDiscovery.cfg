SPECIFICATION OptionsSpec
CONSTANTS
    Address = {"h1", "h2"}
    MaxItems = 2
    MaxSaves = 2
    MaxChanges = 2
PROPERTIES
    FollowsDiscovery
CHECK_DEADLOCK FALSE
