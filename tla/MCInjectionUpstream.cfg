\* Is the upstream port detected?
SPECIFICATION Spec
CONSTANTS
    Annotations <- FewAnnotations
    Workloads <- PlainWorkload
    Labels <- MCLabels
    Numbers <- MCNumbers
    Positive <- MCPositive
    Digits <- MCDigits
    Regexes <- MCRegexes
    LongSecrets <- MCLongSecrets
    MaxCopies = 1
INVARIANTS
    UpstreamDetected
\* A pod that runs and may not be copied any more stays.
CHECK_DEADLOCK FALSE
