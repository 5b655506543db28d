SPECIFICATION Spec
CONSTANTS
    Handlers = {h1, h2}
    MaxEntries = 3
SYMMETRY Symmetry
INVARIANT UntouchedIsValid
CHECK_DEADLOCK FALSE
