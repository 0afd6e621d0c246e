\* An upload that stalls and resumes after another was let in.
CONSTANTS
    phone = phone
    laptop = laptop
    desk = desk
    Nobody = Nobody
    AnyDevice = AnyDevice
    Devices = {laptop, desk}
    UserOf <- MCUserOf
    Ids = {h1, h2}
    MaxParts = 1
    Ttl = 2
    ClaimHold = 1
    Keep = 0
    Stall = 1
    MaxOpenSent = 2
    MaxPending = 1
    MaxNow = 3
    MaySetBack = FALSE
SPECIFICATION Spec
INVARIANT HeldWithinQuota
CHECK_DEADLOCK FALSE
