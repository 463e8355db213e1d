\* Every annotation on every pod, submitted once more with other containers asked for.
SPECIFICATION Spec
CONSTANTS
    Annotations <- MCAnnotations
    Workloads <- MCWorkloads
    Labels <- MCLabels
    Numbers <- MCNumbers
    Positive <- MCPositive
    Digits <- MCDigits
    Regexes <- MCRegexes
    LongSecrets <- MCLongSecrets
    MaxCopies = 1
INVARIANTS
    TypeOK
    Idempotent
    SidecarStarts
    ProxyStarts
    LocalMintHasSidecar
\* A pod that runs and may not be copied any more stays.
CHECK_DEADLOCK FALSE
