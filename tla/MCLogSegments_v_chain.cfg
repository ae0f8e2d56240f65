SPECIFICATION Spec
CONSTANTS
    Letters = {a, b}
    CR = CR
    LF = LF
    MaxBytes = 6
    MaxChunk = 2
    MaxBuf = 9
    Adjacent = TRUE
    Torn = FALSE
CHECK_DEADLOCK FALSE
INVARIANTS
    EndedLinesStay
