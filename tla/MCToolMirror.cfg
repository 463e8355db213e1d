\* Two Connects, two notification handlers, an upstream that changes twice.
SPECIFICATION Spec
CONSTANTS
    a = a
    b = b
    media = media
    d1 = d1
    d2 = d2
    bad = bad
    NoTool = NoTool
    Own = Own
    Nobody = Nobody
    Main = Main
    Tools <- MCTools
    Reserved <- MCReserved
    Defs <- MCDefs
    Mirrorable <- MCMirrorable
    NPages = 2
    Handlers = {h1, h2}
    Callers = {}
    Catalogs <- MCCatalogs
    MaxVersions = 3
    MaxSessions = 2
INVARIANT TypeOK
INVARIANT LockDiscipline
INVARIANT RegistryKnown
INVARIANT NoSessionLeak
INVARIANT Converged
PROPERTY ImplementsView
CHECK_DEADLOCK FALSE
