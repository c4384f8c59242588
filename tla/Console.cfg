SPECIFICATION Spec
CONSTANTS
    plain = plain
    nl = nl
    blank = blank
    junk = junk
    MAX_LOG_LEN = 4
    Levels = {2, 3}
    Char = {2, 3, plain, nl}
    Plain = plain
    NL = nl
    Blank = blank
    Junk = junk
    N_ROWS = 2
    N_COLS = 2
    BUFFER_HEIGHT = 2
    BUFFER_WIDTH = 3
    BUFSIZ = 2
    REPLAY_LEN = 2
    MaxPrinted = 7
INVARIANTS LogHoldsTail VgaShowsOutput FrameShowsLog ColouredByLevel
CHECK_DEADLOCK FALSE
