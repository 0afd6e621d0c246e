\* A message admitted before its device is revoked.
CONSTANTS
    phone = phone
    laptop = laptop
    desk = desk
    Nobody = Nobody
    AnyDevice = AnyDevice
    Devices = {laptop, desk}
    UserOf <- MCUserOf
    Ids = {h1}
    MaxParts = 1
    Ttl = 1
    ClaimHold = 2
    Keep = 0
    Stall = 1
    MaxOpenSent = 1
    MaxPending = 2
    MaxNow = 3
    MaySetBack = FALSE
SPECIFICATION Spec
INVARIANT RevokedHoldsNothing
CHECK_DEADLOCK FALSE
