\* Lost calls, crashes, failed disk writes, torn records and suspensions; windows down to half a second.
CONSTANTS
    TicksPerSecond = 2
    Period = 2
    Limit = 2
    Faults = {"network", "crash", "disk", "torn", "suspend"}
    MaxReports = 3
    MaxClock = 4
SPECIFICATION Spec
PROPERTIES
    NothingLost
    ReportsLandInOrder
