\* Two series, windows that come in as late as can be, failing and interrupted passes,
\* time enough for raw windows, hourly and daily rollups to age out; every bucket fits
\* in one run.
CONSTANTS
    Series = {s1, s2}
    Day = 2
    DaysInWeek = 2
    RawDays = 2
    HourlyDays = 3
    DailyDays = 3
    MaxBuckets = 12
    Faults = {"database", "crash"}
    MaxLate = 2
    MaxNow = 9
    MaxWindows = 2
    None = None
SPECIFICATION Spec
SYMMETRY MCSymmetry
INVARIANTS SumsAreComplete AgedOutIsSummedUp
