\* One workload, two edits, one fault.
SPECIFICATION FairSpec
CONSTANTS
    Texts <- MCTexts
    Names <- MCNames
    Templates <- MCTemplates
    Charts <- MCCharts
    Stores <- MCStores
    MaxEdits = 2
    MaxFaults = 1
INVARIANT TypeOK
INVARIANT HostNeverGrows
PROPERTY NeverStolen
PROPERTY StepsDone
PROPERTY StaysRight
PROPERTY Settles
CHECK_DEADLOCK FALSE
