SPECIFICATION FairSpec
CONSTANTS
    Handlers = {h1, h2}
    Cron = Cron
    Length = 3
    Histories <- Endings
    MaxAborts = 1
INVARIANTS SerialInSync EventsOnce
PROPERTIES Repaired EndsOnFree
CHECK_DEADLOCK FALSE
