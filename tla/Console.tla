------------------------------ MODULE Console ------------------------------
(***************************************************************************)
(* What the kernel prints and where it goes: messages of lib/logger.cpp    *)
(* and plain printf go through the C library's line-buffered stdout to     *)
(* duck_write of kern/duck64_syscall_handler.cpp, which writes to the VGA  *)
(* text screen (lib/vga_buffer.cpp), the frame buffer                      *)
(* (lib/framebuffer.cpp) and the system log.                               *)
(*                                                                         *)
(* A character is the message level that prints it, Plain or NL, so that   *)
(* what is on a screen says what should be its colour.                     *)
(***************************************************************************)
EXTENDS SysLog

CONSTANTS
    Levels,                        \* message levels, LL_FATAL = 0 first
    Plain, NL, Blank, Junk,        \* characters; Junk: the firmware's text
    N_ROWS, N_COLS,                \* the frame buffer
    BUFFER_HEIGHT, BUFFER_WIDTH,   \* the VGA screen
    BUFSIZ,                        \* stdout's buffer
    REPLAY_LEN,                    \* characters per read when replaying, 32
    MaxPrinted                     \* bound on the characters printed

LL_WARN  == 2
LL_INFO  == 3
LL_DEBUG == 4

ASSUME ConsoleAssumption ==
    /\ Levels \subseteq 0 .. LL_DEBUG
    /\ {N_ROWS, N_COLS, BUFFER_HEIGHT, BUFFER_WIDTH, BUFSIZ, REPLAY_LEN}
           \subseteq Nat \ {0}
    /\ MaxPrinted \in Nat
    /\ Char = Levels \cup {Plain, NL}
    /\ Blank \notin Char /\ Junk \notin Char

VARIABLES
    log_level,
    color_code,       \* of the VGA writer: Plain or the level of a message
    logger,           \* the TimedLogger alive: <<>> or <<level, saved colour>>
    closing,          \* its destructor has flushed stdout
    stdout,           \* characters in stdout's buffer
    toScreen, toLog,  \* what duck_write has still to write
    vga,              \* [chars, col]
    initialized, fb,  \* frame buffer: [chars, col, color]
    output,           \* every character written to the screens
    lost              \* characters gone from the log when it was replayed

vars == <<log_level, color_code, logger, closing, stdout, toScreen, toLog,
          vga, initialized, fb, output, lost, logVars>>
loggerVars == <<log_level, color_code, logger, closing>>
screenVars == <<vga, initialized, fb, output, lost>>

Cell(b, c) == [byte |-> b, color |-> c]
Screen(rows, cols, cell) == [r \in 0 .. rows - 1 |-> [c \in 0 .. cols - 1 |-> cell]]

Init == /\ log_level = LL_DEBUG
        /\ color_code = Plain
        /\ logger = <<>> /\ closing = FALSE
        /\ stdout = <<>> /\ toScreen = <<>> /\ toLog = <<>>
        /\ vga = [chars |-> Screen(BUFFER_HEIGHT, BUFFER_WIDTH, Cell(Junk, Plain)), col |-> 0]
        /\ initialized = FALSE
        /\ fb = [chars |-> Screen(N_ROWS, N_COLS, Cell(Junk, Plain)), col |-> 0,
                 color |-> Plain]
        /\ output = <<>> /\ lost = 0
        /\ LogInit

-----------------------------------------------------------------------------
(* Screens.                                                                *)

\* Every row moves up by one and the last one is blank.
Scrolled(chars, rows, cols, color) ==
    [r \in 0 .. rows - 1 |-> IF r < rows - 1 THEN chars[r + 1]
                             ELSE [c \in 0 .. cols - 1 |-> Cell(Blank, color)]]

draw_new_line(f) == [f EXCEPT !.chars = Scrolled(@, N_ROWS, N_COLS, f.color), !.col = 0]

FbWrite(f, b, color) ==
    IF b = NL THEN draw_new_line([f EXCEPT !.color = color])
    ELSE LET g == IF f.col >= N_COLS THEN draw_new_line(f) ELSE f
         IN  [chars |-> [g.chars EXCEPT ![N_ROWS - 1][g.col] = Cell(b, color)],
              col |-> g.col + 1, color |-> color]

\* A new line that keeps the column.
NewLineKeepsColumn(v) ==
    [v EXCEPT !.chars = Scrolled(v.chars, BUFFER_HEIGHT, BUFFER_WIDTH, color_code)]

new_line(v) ==
    [chars |-> Scrolled(v.chars, BUFFER_HEIGHT, BUFFER_WIDTH, color_code), col |-> 0]

VgaWrite(v, b) ==
    IF b = NL THEN new_line(v)
    ELSE LET w == IF v.col >= BUFFER_WIDTH THEN new_line(v) ELSE v
         IN  [chars |-> [w.chars EXCEPT ![BUFFER_HEIGHT - 1][w.col] = Cell(b, color_code)],
              col |-> w.col + 1]

\* The characters of a text, written one after the other.
FbWriteAll(f, text, color) ==
    LET written[n \in 0 .. Len(text)] ==
            IF n = 0 THEN f ELSE FbWrite(written[n - 1], text[n], color)
    IN  written[Len(text)]

\* A replay that starts with the second character.
ReplayFromOne ==
    LET read[n \in 0 .. MAX_LOG_LEN] ==
            IF n = 0 THEN <<>> ELSE read[n - 1] \o get(Len(read[n - 1]) + 1, REPLAY_LEN)
    IN  read[MAX_LOG_LEN]

\* The log, read in pieces: each from the end of the one before it, until a
\* piece is empty, which adds nothing.  MAX_LOG_LEN rounds are enough.
ReplayedLog ==
    LET read[n \in 0 .. MAX_LOG_LEN] ==
            IF n = 0 THEN <<>> ELSE read[n - 1] \o get(Len(read[n - 1]), REPLAY_LEN)
    IN  read[MAX_LOG_LEN]

-----------------------------------------------------------------------------
(* Actions.                                                                *)

Writing == toScreen # <<>> \/ toLog # <<>>

\* duck_write: first the screens, then the serial port, then the log.
duck_write(s) == toScreen' = s /\ toLog' = s

\* stdout is line-buffered: ioctl of the kernel's handler returns 0.  duck_writev
\* writes the buffer and the new characters one after the other, each first to the
\* screens and then to the log; both get the same characters in the same order.
stdout_put(c) == IF c = NL \/ Len(stdout) = BUFSIZ
                 THEN stdout' = <<>> /\ duck_write(Append(stdout, c))
                 ELSE stdout' = Append(stdout, c) /\ UNCHANGED <<toScreen, toLog>>

write_byte ==
    /\ toScreen # <<>>
    /\ toScreen' = Tail(toScreen)
    /\ fb' = IF initialized THEN FbWrite(fb, Head(toScreen), color_code) ELSE fb
    /\ vga' = VgaWrite(vga, Head(toScreen))
    /\ output' = Append(output, Head(toScreen))
    /\ UNCHANGED <<loggerVars, stdout, toLog, initialized, lost, logVars>>

LogPut ==
    /\ toScreen = <<>> /\ toLog # <<>>
    /\ toLog' = Tail(toLog)
    /\ putchar(Head(toLog))
    /\ UNCHANGED <<loggerVars, stdout, toScreen, screenVars>>

\* The bound of the model; one more character for the end of a message.
MayPrint == ~Writing /\ Len(output) + Len(stdout) + 1 < MaxPrinted

\* printf without a logger.
PrintPlain(c) ==
    /\ MayPrint /\ logger = <<>>
    /\ stdout_put(c)
    /\ UNCHANGED <<loggerVars, screenVars, logVars>>

\* LFATAL, LERROR, ... print nothing above the level that is set.
Muted(level) == level > log_level

\* A message that is not muted; what was printed before it ended its line.
TimedLogger(level) ==
    /\ MayPrint /\ logger = <<>> /\ stdout = <<>>
    /\ ~Muted(level)
    /\ logger' = <<level, color_code>>
    /\ color_code' = level
    /\ UNCHANGED <<log_level, closing, stdout, toScreen, toLog, screenVars, logVars>>

PrintMessage(c) ==
    /\ MayPrint /\ logger # <<>> /\ ~closing
    /\ stdout_put(c)
    /\ UNCHANGED <<loggerVars, screenVars, logVars>>

\* A destructor that restores the colour without flushing.
CloseUnflushed ==
    /\ ~Writing /\ logger # <<>> /\ ~closing
    /\ closing' = TRUE
    /\ UNCHANGED <<log_level, color_code, logger, stdout, toScreen, toLog, screenVars, logVars>>

\* The destructor: fflush(stdout) ...
Close ==
    /\ ~Writing /\ logger # <<>> /\ ~closing
    /\ closing' = TRUE
    /\ stdout' = <<>> /\ duck_write(stdout)
    /\ UNCHANGED <<log_level, color_code, logger, screenVars, logVars>>

\* ... then the saved colour and the end of the line.
CloseEnd ==
    /\ ~Writing /\ closing
    /\ color_code' = logger[2]
    /\ logger' = <<>> /\ closing' = FALSE
    /\ stdout_put(NL)
    /\ UNCHANGED <<log_level, screenVars, logVars>>

set_log_level(level) ==
    /\ ~Writing /\ logger = <<>>
    /\ log_level' = level
    /\ UNCHANGED <<color_code, logger, closing, stdout, toScreen, toLog, screenVars, logVars>>

\* FrameBuffer::init, on a machine with a frame buffer: a blank line, then the
\* log is written again, in the colour of the moment.
FrameBufferInit ==
    /\ ~Writing /\ logger = <<>> /\ stdout = <<>> /\ ~initialized
    /\ initialized' = TRUE
    /\ fb' = FbWriteAll(draw_new_line(fb), ReplayedLog, color_code)
    /\ lost' = Len(logged) - buf_len
    /\ UNCHANGED <<loggerVars, stdout, toScreen, toLog, vga, output, logVars>>

Next == \/ write_byte
        \/ LogPut
        \/ \E c \in {Plain, NL} : PrintPlain(c)
        \/ \E level \in Levels : TimedLogger(level)
        \/ logger # <<>> /\ \E c \in {logger[1], NL} : PrintMessage(c)
        \/ Close
        \/ CloseEnd
        \/ \E level \in {LL_INFO, LL_WARN} : set_log_level(level)
        \/ FrameBufferInit

Spec == Init /\ [][Next]_vars

-----------------------------------------------------------------------------
(* Properties.                                                             *)

\* Column and line, from 0, of position k of a text on a screen with cols
\* columns: a line break is an NL, or a character that follows a full line.
LineStart(text, k) == CHOOSE j \in 0 .. k - 1 :
    /\ j = 0 \/ text[j] = NL
    /\ \A i \in j + 1 .. k - 1 : text[i] # NL
Column(text, k, cols) == (k - 1 - LineStart(text, k)) % cols
Line(text, k, cols) ==
    Cardinality({j \in 1 .. k - 1 : text[j] = NL})
    + Cardinality({j \in 2 .. k : /\ text[j] # NL /\ text[j - 1] # NL
                                  /\ Column(text, j, cols) = 0})

\* The rows of chars are the last lines of text.
Shows(chars, rows, cols, text) ==
    LET n == Len(text)
        last == IF n = 0 THEN 0
                ELSE Line(text, n, cols) + (IF text[n] = NL THEN 1 ELSE 0)
        place(k) == <<rows - 1 - (last - Line(text, k, cols)), Column(text, k, cols)>>
        visible == {k \in 1 .. n : text[k] # NL /\ place(k)[1] >= 0}
    IN  /\ \A k \in visible : chars[place(k)[1]][place(k)[2]].byte = text[k]
        /\ \A r \in 0 .. rows - 1, c \in 0 .. cols - 1 :
              (\A k \in visible : place(k) # <<r, c>>) => chars[r][c].byte \in {Blank, Junk}

\* The VGA screen shows the last lines of everything that was printed.
VgaShowsOutput == Shows(vga.chars, BUFFER_HEIGHT, BUFFER_WIDTH, output)

\* The frame buffer shows what the log still had when it started, and all
\* output since then, as if it had been there from the first of these
\* characters on.
FrameShowsLog ==
    initialized => Shows(fb.chars, N_ROWS, N_COLS, SubSeq(output, lost + 1, Len(output)))

\* The text of a message is on the screen in the colour of its level and
\* plain text in the plain colour, although the colour is one variable and
\* the text passes through the buffer of stdout.
ColouredByLevel ==
    \A r \in 0 .. BUFFER_HEIGHT - 1, c \in 0 .. BUFFER_WIDTH - 1 :
        LET cell == vga.chars[r][c]
        IN  cell.byte \in Char => cell.color = cell.byte

=============================================================================
