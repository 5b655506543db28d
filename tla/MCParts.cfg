SPECIFICATION PartsSpec
CONSTANTS
    Chars = {"x", " ", "nl", "|", "nul"}
    Space = " "
    Blanks = {" ", "nl"}
    Size = 3
    Overlap = 2
    LineEnd = "nl"
    Bar = "|"
    Nul = "nul"
    MaxBytes = 1
    Ocr = FALSE
    Files <- MCFiles
    Bodies <- MCBodies
    Budget = 4
    Documents <- MCDocuments
    Answers <- MCAnswers
    Values <- MCValues
    Atoms <- MCAtoms
    Papers = {d1, d2}
    Days = 2
    DayLength = 2
    MaxTick = 4
    GgufFiles = {"b", "c"}
    Tags = {"a", "b"}
    TagOf <- MCTagOf
    EnvModel <- MCEnvModel
    Rows = {1, 2, 3, 4}
    BatchSize = 2
    OldDim = 1
    NewDim = 2
    Learns = TRUE
    MaxMoves = 2
    Servers = {p1, p2}
    Shared = Shared
    Backends = {"memory", "redis"}
    Limit = 1
    Window = 2
    MaxTime = 3
    MaxAsked = 2
    MaxRestarts = 1
    Clients = {c1, c2}
    Mails = {m1, m2}
    First = m1
    MaxSuffix = 1
    MaxSecrets = 2
    Handlers = {h1, h2}
    MaxEntries = 5
INVARIANTS
    ChunksCover AcceptedIsRead
    AnswerIsUsable ExportShowsResult
    TrendCountsDays ChosenAnswers RebuildMissesFew WindowsHold
    AccountsAreWhole SerialFactorConfirmed
    DamageShows SerialBreaksAreDamage
CHECK_DEADLOCK FALSE
