CONSTANTS
    Path = {p, q}
    Buffer = {a, b}
    nowhere = nowhere
    MaxTime = 2
SPECIFICATION FileSpec
INVARIANTS NoChangeHidden AskedOnce
PROPERTIES WritesSeen
