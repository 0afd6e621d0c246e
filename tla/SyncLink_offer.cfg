\* A setting edited between the pairing and the end of the first catch-up.
CONSTANTS
    Devices = {1, 2}
    Keys = {theme}
    Values = {dark}
    Unset = Unset
    Nothing = Nothing
    Chunk = 1
    ClocksAgree = TRUE
    SkewOf <- MCNoSkew
    MaxNow = 3
    MaxLog = 2
    MaxPushes = 1
    MaxActs = 2
    MaxFaults = 0
SPECIFICATION Spec
INVARIANT OffersYield
CHECK_DEADLOCK FALSE
