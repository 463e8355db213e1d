\* TOOL_MATCH matches a generic tool as well.
SPECIFICATION Spec
CONSTANTS
    sub = sub
    top = top
    subPath = subPath
    base = base
    gone = gone
    own = own
    None = None
    Clients = {c1}
    Files <- MCFiles
    Requests <- MCRequests
    FileOf <- MCFileOf
    BaseName <- MCBaseName
    Mimes <- MCMimes
    Sizes <- MCSizes
    Values <- MCValues
    Items <- MCItems
    Replies <- MCReplies
    Mirrored = {"save", "list"}
    Matches = {"save", "stream_media"}
    InlineMax = 2
    MaxInt64 = 7
    MaxWrites = 2
INVARIANT GenericKeepsUrl
\* Every call has returned and the workload writes no more.
CHECK_DEADLOCK FALSE
