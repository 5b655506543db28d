SPECIFICATION MCSpec
CONSTANTS
    Handlers = {h1, h2}
    Tokens = {t1, t2, t3}
    ResetTokens = {r1}
    NoToken = NoToken
    Tabs = {b1, b2}
    NoTab = NoTab
    Calls = {c1, c2}
SYMMETRY Symmetry
CONSTRAINT Unmixed
INVARIANTS SerialResetCloses TokensSpent NeverTakenForTheft LogoutHolds
PROPERTY SerialReuseClosesAll
CHECK_DEADLOCK FALSE
