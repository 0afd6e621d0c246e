\* Three machines, one handoff of two parts, a clock that may be set back; under fairness it ends.
CONSTANTS
    phone = phone
    laptop = laptop
    desk = desk
    Nobody = Nobody
    AnyDevice = AnyDevice
    Devices = {phone, laptop, desk}
    UserOf <- MCUserOf
    Ids = {h1}
    MaxParts = 2
    Ttl = 1
    ClaimHold = 2
    Keep = 0
    Stall = 1
    MaxOpenSent = 1
    MaxPending = 2
    MaxNow = 3
    MaySetBack = TRUE
SPECIFICATION FairSpec
INVARIANTS
    TypeOK
    SealedStaysIntact
    NothingOutlivesItsHandoff
    OffLeavesNothingOpen
    EndsWithItsMachine
PROPERTIES
    OneOwner
    EveryHandoffEnds
\* Every machine may be revoked with nothing open and the clock at its bound.
CHECK_DEADLOCK FALSE
