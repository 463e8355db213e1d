\* A call of any tool while the workload writes; calls have nothing but the volume in common.
\* TOOL_MATCH matches one tool of each kind.
SPECIFICATION FairSpec
CONSTANTS
    sub = sub
    top = top
    subPath = subPath
    base = base
    gone = gone
    own = own
    None = None
    Clients = {c1}
    Files <- MCFiles
    Requests <- MCRequests
    FileOf <- MCFileOf
    BaseName <- MCBaseName
    Mimes <- MCMimes
    Sizes <- MCSizes
    Values <- MCValues
    Items <- MCItems
    Replies <- MCReplies
    Mirrored = {"save", "list"}
    Matches = {"save", "download_file"}
    InlineMax = 2
    MaxInt64 = 7
    MaxWrites = 2
INVARIANTS
    TypeOK
    InlineWithin
    InlineWhole
    FieldsAgree
    MirroredKept
PROPERTY GenericReturns
\* Every call has returned and the workload writes no more.
CHECK_DEADLOCK FALSE
