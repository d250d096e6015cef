SPECIFICATION FairSpec
CONSTANTS
    c1 = c1
    c2 = c2
    Client = {c1, c2}
    Http = http
    Capacity = 1
    MaxStarts = 1
CONSTRAINT NotOvertaken
PROPERTIES
    SessionEnds
