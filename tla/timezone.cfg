CONSTANTS
    SecondsPerMinute = 2
    MinutesPerHour = 2
    HoursPerDay = 2
    kMicroSecondsPerSecond = 2
    MinYear = 1898
    MaxYear = 2101
    Span = 45
    EastOfUtc <- West
    ZoneFiles <- SomeZones
    Garbage = garbage
    EndOfFile = endOfFile
    NotLoaded = notLoaded
    Invalid = invalid
SPECIFICATION Spec
INVARIANTS
    CalendarKept
    LoadedAsWritten
    LocalTimeShown
    LocalTimeResolved
\* The clock stops at its bounds, and at once when the file was refused.
CHECK_DEADLOCK FALSE
