\* Lost calls, torn records, a clock that is set back and windows down to half a second.
CONSTANTS
    TicksPerSecond = 2
    Period = 2
    Limit = 0
    Faults = {"network", "torn", "clock"}
    MaxReports = 2
    MaxClock = 3
SPECIFICATION FairSpec
INVARIANT OneRowPerWindow
PROPERTY JournalledReportsLand
