SPECIFICATION Spec
CONSTANTS
    d1 = d1
    d2 = d2
    d3 = d3
    Docs = {d1, d2, d3}
    Clients = {c1, c2}
    Workers = {w1, w2}
    NoDoc = NoDoc
    SizeOf <- MCSizeOf
    ChunksOf <- MCChunksOf
    DocLimit = 1
    ByteLimit = 3
    EagerModes = {TRUE, FALSE}
    MaxAborts = 1
    MaxRedeliveries = 0
SYMMETRY Symmetry
INVARIANTS CountOvershootBounded DamageBounded
PROPERTY KeepsLife
CHECK_DEADLOCK FALSE
