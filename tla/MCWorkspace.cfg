SPECIFICATION MCSpec
CONSTANTS
    Results = {r1}
    ExportIds = {e1}
    MaxMishaps = 1
    Docs = {d1}
    Links = {l1}
    Visitors = {v1, v2}
    First = v1
    MaxViews = 3
INVARIANTS RowsHaveFiles ErasureIsWhole SharesHold
PROPERTY ExportSettles
CHECK_DEADLOCK FALSE
