\* Streams: every cut of nine samples into blocks of up to four, twice.  Rds: two
\* blocks out of place and in every position, and every burst of up to six bits.
\* Spectrum: see MCReadings.  Windows: four dwells, a clock that stands, runs on,
\* and jumps a day.  Cadence: one node of a fleet, a short and a long cycle.
\* Detection: four days of two hours of three windows.  Ops: more samples than the
\* history holds.  Partitions: two windows, and days enough for both to age.
\* Deadlock is allowed: the bounds end most of the machines.
CONSTANTS
    Widths = {1, 2, 3}
    Factors = {1, 2, 4}
    Hops = {1, 2}
    MaxBlock = 4
    MaxSamples = 9
    MaxTunings = 2
    Infos = {{0, 3, 5, 9, 15}}
    Starts = {0, 26, 103}
    Groups = 3
    MaxBurst = 6
    Receivers <- MCReceivers
    Raster <- MCRaster
    Tunings <- MCTunings
    Noise <- MCNoise
    Levels = {40, 1000}
    MaxSignals = 2
    Metrics = {"snr", "offset", "unknown"}
    RangeOf <- MCRange
    NaN = NaN
    Dwells <- MCDwells
    MaxDwells = 4
    TicksPerSecond = 2
    Clocks = {0, 1, 2, 5, 172804}
    Nothing = Nothing
    Nodes = {2}
    Cycles = {0, 400000}
    Waits = {0, 50000}
    Skews <- MCSkews
    MaxMissed = 2
    Never = Never
    WindowsPerHour = 3
    Usual <- MCUsual
    Fault = 7
    BaselineDays = 4
    MinBuckets = 2
    Consecutive = 2
    MaxWindows = 22
    MaxSwitches = 3
    RateSamples = 2
    History = 3
    IngestStall = 2
    DetectorStall = 1
    MinCalls = 2
    MaxCalls = 2
    MaxNow = 4
    Unset = Unset
    Retention = 2
    Ahead = 1
    MaxDay = 5
    MaxRows = 2
    Default = Default
SPECIFICATION MCSpec
INVARIANTS
    FiltersIgnoreTheCuts BlocksAreCounted ReadingsStandOnNoise MessagesAreTaken PageIsTrue
    BackfillLeavesTheDefault
PROPERTIES
    AnnouncedIsMeasured ReportsAreOfTheirWindow SlotsAreKept HealthIsHeardAgain VerdictsAreJust
    OnlyTheAgedLeave
CHECK_DEADLOCK FALSE
