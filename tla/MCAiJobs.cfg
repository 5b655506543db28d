SPECIFICATION Spec
CONSTANTS
    Handlers = {h1, h2, h3}
    Jobs = {j1, j2}
    NoJob = NoJob
    RequestLimit = 2
    TokenLimit = 3
    Estimate = 1
    Cost = 2
    EagerModes = {TRUE, FALSE}
    MaxAborts = 1
SYMMETRY Symmetry
INVARIANTS OvershootBounded AnswersCounted StrandedBounded
PROPERTY DoneIsFinal
CHECK_DEADLOCK FALSE
