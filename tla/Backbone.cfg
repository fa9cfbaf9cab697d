SPECIFICATION Spec
CONSTANTS
    Cap = 1
    Load = 3
    Tables = 4
    Kinds = {"Report", "LinkageRequest", "UpdateFirmware", "Heartbeat", "on", "off", "gone"}
INVARIANTS TypeOK NoCircularWait NewestNoticeIsCurrent
