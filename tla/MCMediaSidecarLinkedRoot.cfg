SPECIFICATION Spec
CONSTANTS
    Roots <- LinkedRoot
    FileSystems <- JustPlain
    Requests <- ThroughLink
    Ttls <- NoTtl
    DefaultTTL = 4
    MaxTTL = 6
    TicksPerSecond = 2
    DurationLimit = 16
    MaxSteps = 8
    Keys = {k1}
    Callers = {c1}
    Fetchers = {f1}
    MaxTime = 2
    MaxIssued = 1
INVARIANT RoundTrip
