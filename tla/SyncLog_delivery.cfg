\* Two machines of two people, both kinds of filtered stream, pages of one event, under fairness.
CONSTANTS
    phone = phone
    laptop = laptop
    desk = desk
    Devices = {laptop, desk}
    UserOf <- MCUserOf
    MemoryDevices = {laptop}
    Kinds = {"shared", "personal"}
    Page = 1
    Writers = {laptop}
    MaxPush = 2
    MaxLog = 2
    MaxConns = 3
SPECIFICATION FairSpec
INVARIANTS
    TypeOK
    NothingSkipped
    PersonalStaysPersonal
PROPERTIES
    CursorsNeverRewind
    EveryEventArrives
\* The bounds on events and connections end every behaviour.
CHECK_DEADLOCK FALSE
