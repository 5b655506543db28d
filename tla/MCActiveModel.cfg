SPECIFICATION Spec
CONSTANTS
    Handlers = {h1, h2}
    Processes = {p1, p2}
    NoProcess = NoProcess
    Models = {m1, m2}
    Default = m1
    NoModel = NoModel
    MaxVersion = 2
SYMMETRY Symmetry
INVARIANTS ProvidersFollow CacheFollows
CHECK_DEADLOCK FALSE
