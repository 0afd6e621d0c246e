\* More is owed than one push takes: a new machine's offer of two settings, in pushes of one.
CONSTANTS
    Devices = {1}
    Keys = {theme, font}
    Values = {dark}
    Unset = Unset
    Nothing = Nothing
    Chunk = 1
    ClocksAgree = TRUE
    SkewOf <- MCNoSkew
    MaxNow = 2
    MaxLog = 2
    MaxPushes = 2
    MaxActs = 0
    MaxFaults = 1
SPECIFICATION Spec
INVARIANT OwedUntilTaken
CHECK_DEADLOCK FALSE
