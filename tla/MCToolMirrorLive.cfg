SPECIFICATION FairSpec
CONSTANTS
    a = a
    b = b
    media = media
    d1 = d1
    d2 = d2
    bad = bad
    NoTool = NoTool
    Own = Own
    Nobody = Nobody
    Main = Main
    Tools <- MCTools
    Reserved <- MCReserved
    Defs <- MCDefs
    Mirrorable <- MCMirrorable
    NPages = 2
    Handlers = {h1}
    Callers = {c1}
    Catalogs <- FewCatalogs
    MaxVersions = 2
    MaxSessions = 1
PROPERTY SyncReturns
PROPERTY LookupProceeds
CHECK_DEADLOCK FALSE
