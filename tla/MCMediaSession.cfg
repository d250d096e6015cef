SPECIFICATION Spec
CONSTANTS
    c1 = c1
    c2 = c2
    Client = {c1, c2}
    Http = http
    Capacity = 2
    MaxStarts = 2
SYMMETRY Alike
CONSTRAINT NotOvertaken
INVARIANTS
    SessionTrue
