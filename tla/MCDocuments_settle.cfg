SPECIFICATION FairSpec
CONSTANTS
    d1 = d1
    d2 = d2
    d3 = d3
    Docs = {d1, d2}
    Clients = {c1, c2}
    Workers = {w1, w2}
    NoDoc = NoDoc
    SizeOf <- MCSizeOf
    ChunksOf <- MCChunksOf
    DocLimit = 1
    ByteLimit = 3
    EagerModes = {TRUE, FALSE}
    MaxAborts = 0
    MaxRedeliveries = 1
PROPERTY Settles
CHECK_DEADLOCK FALSE
