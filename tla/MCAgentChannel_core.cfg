SPECIFICATION ScenesSpec
CONSTANTS
    Pages = {p1, p2}
    MaxLines = 3
    Replay = 2
    Kept = 1
    QueueMax = 12
    SendMax = 1
    MaxUses = 3
    MaxFaults = 1
    Ops = {"silent", "stuck", "restart", "lost", "burst"}
    Reset = Reset
    End = End
    None = None
    Alone = p1
    Letters = {a, b}
    CR = CR
    LF = LF
    MaxBytes = 7
    MaxChunk = 3
CHECK_DEADLOCK FALSE
INVARIANT ViewFaithful
INVARIANT StreamsAsWanted
INVARIANT ScreenIsTerminal
PROPERTY Shown
PROPERTY StatusFollows
