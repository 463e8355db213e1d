SPECIFICATION Spec
CONSTANTS
    Roots <- OneRoot
    FileSystems <- JustPlain
    Requests <- OnePath
    Ttls <- AllTtls
    DefaultTTL = 4
    MaxTTL = 6
    TicksPerSecond = 2
    DurationLimit = 16
    MaxSteps = 8
    Keys = {k1, k2}
    Callers = {c1}
    Fetchers = {f1}
    MaxTime = 7
    MaxIssued = 2
INVARIANT AcceptedWasIssued
INVARIANT NeverOutlives
INVARIANT UsableWhenMinted
PROPERTY ImplementsGrants
