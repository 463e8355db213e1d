SPECIFICATION Spec
CONSTANTS
    Roots <- TwoRoots
    FileSystems <- Variants
    Requests <- Paths
    Ttls <- NoTtl
    DefaultTTL = 2
    MaxTTL = 3
    TicksPerSecond = 1
    DurationLimit = 16
    MaxSteps = 8
    Keys = {k1}
    Callers = {c1}
    Fetchers = {f1}
    MaxTime = 0
    MaxIssued = 1
INVARIANT TypeOK
INVARIANT IssuedFenced
INVARIANT RoundTrip
INVARIANT EscapeOnlyByRace
