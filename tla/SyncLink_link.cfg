\* Two machines of one person, two edits or choices of theirs, one fault.
CONSTANTS
    Devices = {1, 2}
    Keys = {theme}
    Values = {dark}
    Unset = Unset
    Nothing = Nothing
    Chunk = 1
    ClocksAgree = TRUE
    SkewOf <- MCNoSkew
    MaxNow = 3
    MaxLog = 2
    MaxPushes = 1
    MaxActs = 2
    MaxFaults = 1
SPECIFICATION Spec
INVARIANTS
    OwedUntilTaken
    EveryMachineAgrees
\* The bounds end every behaviour.
CHECK_DEADLOCK FALSE
