\* Two machines push at the same time, a third listens.
CONSTANTS
    phone = phone
    laptop = laptop
    desk = desk
    Devices = {phone, laptop, desk}
    UserOf <- MCUserOf
    MemoryDevices = {laptop}
    Kinds = {"shared"}
    Page = 1
    Writers = {phone, laptop}
    MaxPush = 1
    MaxLog = 2
    MaxConns = 3
SPECIFICATION Spec
INVARIANT EveryPushHeard
CHECK_DEADLOCK FALSE
