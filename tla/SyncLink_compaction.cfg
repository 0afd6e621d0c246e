\* A machine away while the server compacts.
CONSTANTS
    Devices = {1, 2}
    Keys = {theme}
    Values = {dark}
    Unset = Unset
    Nothing = Nothing
    Chunk = 1
    ClocksAgree = TRUE
    SkewOf <- MCNoSkew
    MaxNow = 3
    MaxLog = 2
    MaxPushes = 1
    MaxActs = 2
    MaxFaults = 1
SPECIFICATION Spec
INVARIANT AwayStillConverges
CHECK_DEADLOCK FALSE
