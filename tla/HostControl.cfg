CONSTANTS
    Commands = {"input", "set", "start", "enter"}
    MaxRequests = 2
    MaxBoots = 2
    LineRoom = 1
    Attempts = 2
SPECIFICATION LiveSpec
INVARIANTS
    TypeOK
    ReadBackIsFinal
    NothingForgotten
PROPERTIES
    ActsOnce
    EnterReachesSettings
