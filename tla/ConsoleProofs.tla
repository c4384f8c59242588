--------------------------- MODULE ConsoleProofs ---------------------------
(***************************************************************************)
(* Proofs about the console and the system log: the log answers from the   *)
(* last characters, cells are coloured by their message, and both screens  *)
(* show the end of the text, for every size and every order of messages.   *)
(***************************************************************************)
EXTENDS Console, FiniteSetTheorems, WellFoundedInduction, TLAPS

\* Indices of a ring, below its size and in the next round (lib/syslog.cpp
\* never goes further).
LEMMA ModSmall ==
    ASSUME NEW n \in Nat, n > 0, NEW x \in 0 .. n - 1
    PROVE  x % n = x
  OBVIOUS

\* See ModSmall.
LEMMA ModWrap ==
    ASSUME NEW n \in Nat, n > 0, NEW x \in n .. 2 * n - 1
    PROVE  x % n = x - n
  OBVIOUS

\* The place k steps after place a of a ring.
LEMMA RingIndex ==
    ASSUME NEW n \in Nat, n > 0, NEW a \in 0 .. n - 1, NEW k \in 0 .. n - 1
    PROVE  (a + k) % n = IF a + k < n THEN a + k ELSE a + k - n
<1>1. CASE a + k < n
  BY <1>1, ModSmall
<1>2. CASE ~(a + k < n)
  <2>1. a + k \in n .. 2 * n - 1
    BY <1>2
  <2>2. ASSUME NEW x \in n .. 2 * n - 1 PROVE x % n = x - n
    BY ModWrap
  <2> QED
    BY <1>2, <2>1, <2>2
<1> QED
  BY <1>1, <1>2

\* What is on its way from printf to the log is made of characters.
QueueTypes == /\ {stdout, toScreen, toLog} \subseteq Seq(Char)
              /\ logger # <<>> => logger[1] \in Levels

\* Only characters are on their way to the screens and the log.
LEMMA Queues == Spec => []QueueTypes
<1> USE DEF QueueTypes
<1>1. Init => QueueTypes
  BY DEF Init
<1>2. QueueTypes /\ [Next]_vars => QueueTypes'
  <2> SUFFICES ASSUME QueueTypes, [Next]_vars PROVE QueueTypes'
    OBVIOUS
  <2>0. Levels \cup {Plain, NL} = Char
    BY ConsoleAssumption
  <2>a. ASSUME NEW c \in Char, stdout_put(c)
        PROVE  {stdout', toScreen', toLog'} \subseteq Seq(Char)
    <3>1. Append(stdout, c) \in Seq(Char) /\ <<>> \in Seq(Char)
      <4>1. stdout \in Seq(Char)
        OBVIOUS
      <4> QED
        BY <4>1
    <3> QED
      BY <2>a, <3>1 DEF stdout_put, duck_write
  <2>1. CASE write_byte
    BY <2>1 DEF write_byte, loggerVars
  <2>2. CASE LogPut
    BY <2>2 DEF LogPut, loggerVars
  <2>3. ASSUME NEW c \in {Plain, NL}, PrintPlain(c) PROVE QueueTypes'
    BY <2>3, <2>0, <2>a DEF PrintPlain, loggerVars
  <2>4. ASSUME NEW level \in Levels, TimedLogger(level) PROVE QueueTypes'
    BY <2>4 DEF TimedLogger
  <2>5. ASSUME logger # <<>>, NEW c \in {logger[1], NL}, PrintMessage(c) PROVE QueueTypes'
    BY <2>5, <2>0, <2>a DEF PrintMessage, loggerVars
  <2>6. CASE Close
    BY <2>6 DEF Close, duck_write
  <2>7. CASE CloseEnd
    BY <2>7, <2>0, <2>a DEF CloseEnd
  <2>8. ASSUME NEW level \in {LL_INFO, LL_WARN}, set_log_level(level) PROVE QueueTypes'
    BY <2>8 DEF set_log_level
  <2>9. CASE FrameBufferInit
    BY <2>9 DEF FrameBufferInit, loggerVars
  <2>10. CASE UNCHANGED vars
    BY <2>10 DEF vars
  <2> QED
    BY <2>1, <2>2, <2>3, <2>4, <2>5, <2>6, <2>7, <2>8, <2>9, <2>10 DEF Next
<1> QED
  BY <1>1, <1>2, PTL DEF Spec

-----------------------------------------------------------------------------

\* The ring holds the last characters: as many as it has places but one.
LogInv ==
    /\ buffer \in [0 .. MAX_LOG_LEN - 1 -> Char \cup {0}]
    /\ head \in 0 .. MAX_LOG_LEN - 1 /\ tail \in 0 .. MAX_LOG_LEN - 1
    /\ logged \in Seq(Char)
    /\ tail = IF head + Kept < MAX_LOG_LEN THEN head + Kept ELSE head + Kept - MAX_LOG_LEN
    /\ \A i \in 0 .. Kept - 1 :
          buffer[IF head + i < MAX_LOG_LEN THEN head + i ELSE head + i - MAX_LOG_LEN]
              = logged[Len(logged) - Kept + i + 1]

\* SysLog::putchar keeps it, also when the oldest character is overwritten.
LEMMA PutKeepsLog ==
    ASSUME LogInv, NEW c \in Char, putchar(c)
    PROVE  LogInv'
<1> DEFINE N == MAX_LOG_LEN
<1>0. N \in Nat /\ N >= 2
  BY SysLogAssumption
<1>1. /\ Kept \in 0 .. N - 1
      /\ Len(logged) \in Nat /\ Len(logged) >= Kept
  BY <1>0 DEF LogInv, Kept
<1>2. /\ logged' = Append(logged, c)
      /\ Len(logged') = Len(logged) + 1
      /\ logged' \in Seq(Char)
      /\ \A i \in 1 .. Len(logged) : logged'[i] = logged[i]
      /\ logged'[Len(logged) + 1] = c
  BY DEF putchar, LogInv
<1>3. Kept' = IF Kept = N - 1 THEN N - 1 ELSE Kept + 1
  BY <1>0, <1>1, <1>2 DEF Kept
<1>4. tail' = IF tail = N - 1 THEN 0 ELSE tail + 1
  <2>1. CASE tail = N - 1
    BY <2>1, <1>0, ModWrap DEF putchar
  <2>2. CASE tail # N - 1
    <3>1. tail + 1 \in 0 .. N - 1
      BY <2>2, <1>0 DEF LogInv
    <3> QED
      BY <3>1, <2>2, <1>0, ModSmall DEF putchar
  <2> QED
    BY <2>1, <2>2
<1>5. (head + 1) % N = IF head = N - 1 THEN 0 ELSE head + 1
  <2>1. CASE head = N - 1
    BY <2>1, <1>0, ModWrap
  <2>2. CASE head # N - 1
    <3>1. head + 1 \in 0 .. N - 1
      BY <2>2, <1>0 DEF LogInv
    <3> QED
      BY <3>1, <2>2, <1>0, ModSmall
  <2> QED
    BY <2>1, <2>2
<1>6. tail' = head <=> Kept = N - 1
  BY <1>0, <1>1, <1>4 DEF LogInv
<1>7. head' = IF Kept = N - 1 THEN (IF head = N - 1 THEN 0 ELSE head + 1) ELSE head
  BY <1>5, <1>6 DEF putchar
<1>8. /\ buffer' \in [0 .. N - 1 -> Char \cup {0}]
      /\ buffer'[tail] = c
      /\ \A i \in 0 .. N - 1 : i # tail => buffer'[i] = buffer[i]
  BY DEF putchar, LogInv
<1>9. head' \in 0 .. N - 1 /\ tail' \in 0 .. N - 1
  BY <1>0, <1>4, <1>7 DEF LogInv
<1>10. tail' = IF head' + Kept' < N THEN head' + Kept' ELSE head' + Kept' - N
  BY <1>0, <1>1, <1>3, <1>4, <1>7 DEF LogInv
<1>11. ASSUME NEW i \in 0 .. Kept' - 1
       PROVE  buffer'[IF head' + i < N THEN head' + i ELSE head' + i - N]
                  = logged'[Len(logged') - Kept' + i + 1]
  <2> DEFINE p == IF head' + i < N THEN head' + i ELSE head' + i - N
  <2>1. CASE i = Kept' - 1
    <3>1. p = tail
      BY <2>1, <1>0, <1>1, <1>3, <1>7 DEF LogInv
    <3>2. Len(logged') - Kept' + i + 1 = Len(logged) + 1
      BY <2>1, <1>1, <1>2, <1>3
    <3> QED
      BY <3>1, <3>2, <1>2, <1>8
  <2>2. CASE i # Kept' - 1 /\ Kept = N - 1
    <3>1. i + 1 \in 0 .. Kept - 1
      BY <2>2, <1>0, <1>1, <1>3
    <3>2. p = (IF head + (i + 1) < N THEN head + (i + 1) ELSE head + (i + 1) - N)
          /\ p # tail /\ p \in 0 .. N - 1
      BY <2>2, <3>1, <1>0, <1>1, <1>3, <1>7 DEF LogInv
    <3>3. buffer[p] = logged[Len(logged) - Kept + (i + 1) + 1]
      BY <3>1, <3>2 DEF LogInv
    <3>4. /\ Len(logged) - Kept + (i + 1) + 1 \in 1 .. Len(logged)
          /\ Len(logged) - Kept + (i + 1) + 1 = Len(logged') - Kept' + i + 1
      BY <2>2, <3>1, <1>0, <1>1, <1>2, <1>3
    <3> QED
      BY <3>2, <3>3, <3>4, <1>2, <1>8
  <2>3. CASE i # Kept' - 1 /\ Kept # N - 1
    <3>1. i \in 0 .. Kept - 1
      BY <2>3, <1>0, <1>1, <1>3
    <3>2. p = (IF head + i < N THEN head + i ELSE head + i - N)
          /\ p # tail /\ p \in 0 .. N - 1
      BY <2>3, <3>1, <1>0, <1>1, <1>3, <1>7 DEF LogInv
    <3>3. buffer[p] = logged[Len(logged) - Kept + i + 1]
      BY <3>1, <3>2 DEF LogInv
    <3>4. /\ Len(logged) - Kept + i + 1 \in 1 .. Len(logged)
          /\ Len(logged) - Kept + i + 1 = Len(logged') - Kept' + i + 1
      BY <2>3, <3>1, <1>1, <1>2, <1>3
    <3> QED
      BY <3>2, <3>3, <3>4, <1>2, <1>8
  <2> QED
    BY <2>1, <2>2, <2>3
<1> QED
  BY <1>2, <1>8, <1>9, <1>10, <1>11 DEF LogInv

\* The ring holds the last characters that were printed.
LEMMA AlwaysLogInv == Spec => []LogInv
<1>1. Init => LogInv
  BY SysLogAssumption DEF Init, LogInit, LogInv, Kept
<1>2. LogInv /\ QueueTypes /\ [Next]_vars => LogInv'
  <2> SUFFICES ASSUME LogInv, QueueTypes, [Next]_vars PROVE LogInv'
    OBVIOUS
  <2>1. CASE LogPut
    <3>1. Head(toLog) \in Char /\ putchar(Head(toLog))
      BY <2>1 DEF LogPut, QueueTypes
    <3> QED
      BY <3>1, PutKeepsLog
  <2>2. CASE UNCHANGED logVars
    BY <2>2 DEF logVars, LogInv, Kept
  <2> QED
    BY <2>1, <2>2 DEF Next, vars, write_byte, PrintPlain, TimedLogger, PrintMessage,
       Close, CloseEnd, set_log_level, FrameBufferInit
<1> QED
  BY <1>1, <1>2, Queues, PTL DEF Spec

\* The ring knows how many characters it has.
LEMMA LogLength ==
    ASSUME LogInv
    PROVE  /\ Kept \in 0 .. MAX_LOG_LEN - 1
           /\ Len(logged) \in Nat /\ Len(logged) >= Kept
           /\ buf_len = Kept
<1> DEFINE N == MAX_LOG_LEN
<1>0. N \in Nat /\ N >= 2
  BY SysLogAssumption
<1>1. /\ Kept \in 0 .. N - 1
      /\ Len(logged) \in Nat /\ Len(logged) >= Kept
  BY <1>0 DEF LogInv, Kept
<1>2. buf_len = Kept
  <2>1. CASE head + Kept < N
    <3>1. tail - head + N = Kept + N /\ Kept + N \in N .. 2 * N - 1
      BY <2>1, <1>0, <1>1 DEF LogInv
    <3> QED
      BY <3>1, <1>0, <1>1, ModWrap DEF buf_len
  <2>2. CASE ~(head + Kept < N)
    <3>1. tail - head + N = Kept
      BY <2>2, <1>0, <1>1 DEF LogInv
    <3> QED
      BY <3>1, <1>0, <1>1, ModSmall DEF buf_len
  <2> QED
    BY <2>1, <2>2
<1> QED BY <1>1, <1>2

\* SysLog::get gives the characters from where it starts reading.
LEMMA AnswerIs ==
    ASSUME LogInv, NEW start \in Int, NEW len \in Nat, NEW s \in 0 .. Kept, From(start) = s
    PROVE  /\ Len(get(start, len)) = IF len > Kept - s THEN Kept - s ELSE len
           /\ \A i \in 1 .. Len(get(start, len)) : get(start, len)[i] = KeptChar(s + i)
           /\ get(start, len) \in Seq(Char)
<1> DEFINE N == MAX_LOG_LEN
<1>0. N \in Nat /\ N >= 2
  BY SysLogAssumption
<1>1. /\ Kept \in 0 .. N - 1
      /\ Len(logged) \in Nat /\ Len(logged) >= Kept
  BY LogLength
<1>2. buf_len = Kept
  BY LogLength
<1>3. ASSUME NEW i \in 1 .. Kept - s
      PROVE  buffer[(head + s + i - 1) % N] = KeptChar(s + i)
  <2> DEFINE k == s + i - 1
  <2>1. k \in 0 .. Kept - 1
    BY <1>1
  <2>2. (head + s + i - 1) % N = IF head + k < N THEN head + k ELSE head + k - N
    <3>1. head + s + i - 1 = head + k /\ k \in 0 .. N - 1 /\ head \in 0 .. N - 1
      BY <2>1, <1>0, <1>1 DEF LogInv
    <3> HIDE DEF k
    <3>2. (head + k) % N = IF head + k < N THEN head + k ELSE head + k - N
      BY <3>1, <1>0, RingIndex
    <3> QED
      BY <3>1, <3>2
  <2>3. buffer[IF head + k < N THEN head + k ELSE head + k - N]
            = logged[Len(logged) - Kept + k + 1]
    BY <2>1 DEF LogInv
  <2>4. Len(logged) - Kept + k + 1 = Len(logged) - Kept + (s + i)
    BY <1>1
  <2> QED
    BY <2>2, <2>3, <2>4 DEF KeptChar
<1> DEFINE n == IF len > Kept - s THEN Kept - s ELSE len
           ans == get(start, len)
<1>4. n \in Nat /\ n <= Kept - s
  BY <1>0, <1>1
<1>5. ans = [i \in 1 .. n |-> buffer[(head + s + i - 1) % N]]
  BY <1>2 DEF get
<1> HIDE DEF n, ans
<1>6. Len(ans) = n
  BY <1>4, <1>5
<1>7. ASSUME NEW i \in 1 .. n PROVE ans[i] = KeptChar(s + i) /\ KeptChar(s + i) \in Char
  <2>1. i \in 1 .. Kept - s
    BY <1>1, <1>4
  <2>2. ans[i] = KeptChar(s + i)
    BY <1>3, <1>5, <2>1
  <2>3. Len(logged) - Kept + (s + i) \in 1 .. Len(logged)
    BY <1>1, <2>1
  <2> QED BY <2>2, <2>3 DEF KeptChar, LogInv
<1>8. ans \in Seq(Char)
  <2>1. \A i \in 1 .. n : buffer[(head + s + i - 1) % N] \in Char
    BY <1>5, <1>7
  <2> QED BY <1>4, <1>5, <2>1
<1> QED BY <1>6, <1>7, <1>8 DEF n, ans

\* A query of the system log is answered from the last characters printed,
\* for every size of the ring, every start and every length.
THEOREM LogAnswers == Spec => []LogHoldsTail
<1>1. LogInv => LogHoldsTail
  <2> SUFFICES ASSUME LogInv, NEW start \in -MAX_LOG_LEN .. MAX_LOG_LEN,
                      NEW len \in 0 .. MAX_LOG_LEN
               PROVE  LET ans == get(start, len)
                      IN  /\ start >= 0 =>
                               /\ Len(ans) = IF start >= Kept THEN 0
                                             ELSE IF start + len > Kept THEN Kept - start ELSE len
                               /\ \A i \in 1 .. Len(ans) : ans[i] = KeptChar(start + i)
                          /\ start < 0 /\ -start <= Kept =>
                               /\ Len(ans) = IF len > -start THEN -start ELSE len
                               /\ \A i \in 1 .. Len(ans) : ans[i] = logged[Len(logged) + start + i]
                          /\ start < 0 /\ -start > Kept => ans = get(0, len)
    BY DEF LogHoldsTail
  <2> DEFINE N == MAX_LOG_LEN
  <2>0. N \in Nat /\ N >= 2
    BY SysLogAssumption
  <2>1. /\ Kept \in 0 .. N - 1
        /\ Len(logged) \in Nat /\ Len(logged) >= Kept
    BY LogLength
  <2>2. buf_len = Kept
    BY LogLength
  <2>4. ASSUME NEW s \in 0 .. Kept, From(start) = s
        PROVE  /\ Len(get(start, len)) = IF len > Kept - s THEN Kept - s ELSE len
               /\ \A i \in 1 .. Len(get(start, len)) : get(start, len)[i] = KeptChar(s + i)
    BY <2>0, <2>4, AnswerIs
  <2>5. ASSUME start >= 0
        PROVE  /\ Len(get(start, len)) = IF start >= Kept THEN 0
                     ELSE IF start + len > Kept THEN Kept - start ELSE len
               /\ \A i \in 1 .. Len(get(start, len)) :
                     get(start, len)[i] = KeptChar(start + i)
    <3>1. CASE start >= Kept
      <4>1. From(start) = Kept
        BY <3>1, <2>5, <2>0, <2>1, <2>2 DEF From
      <4>2. Len(get(start, len)) = 0
        BY <4>1, <2>4, <2>0, <2>1
      <4> QED
        BY <4>2, <3>1
    <3>2. CASE start < Kept
      <4>1. From(start) = start /\ start \in 0 .. Kept
        BY <3>2, <2>5, <2>0, <2>1, <2>2 DEF From
      <4> QED
        BY <4>1, <3>2, <2>4, <2>0, <2>1
    <3> QED
      BY <3>1, <3>2, <2>1
  <2>6. ASSUME start < 0, -start <= Kept
        PROVE  /\ Len(get(start, len)) = IF len > -start THEN -start ELSE len
               /\ \A i \in 1 .. Len(get(start, len)) :
                     get(start, len)[i] = logged[Len(logged) + start + i]
    <3>1. From(start) = Kept + start /\ Kept + start \in 0 .. Kept
      BY <2>6, <2>0, <2>1, <2>2 DEF From
    <3>2. \A i \in 1 .. Len(get(start, len)) : get(start, len)[i] = KeptChar((Kept + start) + i)
      BY <3>1, <2>4
    <3>3. Len(get(start, len)) = IF len > -start THEN -start ELSE len
      BY <3>1, <2>4, <2>0, <2>1
    <3>4. ASSUME NEW i \in 1 .. Len(get(start, len))
          PROVE  Len(logged) - Kept + ((Kept + start) + i) = Len(logged) + start + i
      BY <3>3, <2>0, <2>1
    <3> QED
      BY <3>2, <3>3, <3>4 DEF KeptChar
  <2>7. ASSUME start < 0, -start > Kept
        PROVE  get(start, len) = get(0, len)
    <3>1. From(start) = 0 /\ From(0) = 0
      BY <2>7, <2>0, <2>1, <2>2 DEF From
    <3> QED
      BY <3>1 DEF get
  <2> QED
    BY <2>5, <2>6, <2>7
<1> QED
  BY <1>1, AlwaysLogInv, PTL

-----------------------------------------------------------------------------
(* Colours.                                                                *)

\* The characters of a text are all in colour x, or line ends.
InColour(text, x) == \A i \in 1 .. Len(text) : text[i] \in {x, NL}

\* One logger at a time, which saved the plain colour; what waits in stdout or
\* for the screen is its text, or plain text when there is none; and once its
\* destructor has flushed, stdout is empty.
ColourInv ==
    /\ color_code \in Levels \cup {Plain}
    /\ logger = <<>> => color_code = Plain /\ closing = FALSE
    /\ logger # <<>> => logger = <<color_code, Plain>>
    /\ closing = TRUE => stdout = <<>>
    /\ closing \in BOOLEAN
    /\ InColour(stdout, color_code)
    /\ InColour(toScreen, color_code)

\* stdout_put keeps text in the colour of the moment.
LEMMA PutInColour ==
    ASSUME QueueTypes, NEW x \in Char, NEW c \in {x, NL}, InColour(stdout, x), InColour(toScreen, x),
           stdout_put(c)
    PROVE  InColour(stdout', x) /\ InColour(toScreen', x)
<1>0. c \in Char
  BY ConsoleAssumption
<1>1. stdout \in Seq(Char) /\ Len(stdout) \in Nat
  BY DEF QueueTypes
<1>2. InColour(Append(stdout, c), x)
  <2>1. /\ Len(Append(stdout, c)) = Len(stdout) + 1
        /\ \A i \in 1 .. Len(stdout) : Append(stdout, c)[i] = stdout[i]
        /\ Append(stdout, c)[Len(stdout) + 1] = c
    BY <1>0, <1>1
  <2> SUFFICES ASSUME NEW i \in 1 .. Len(stdout) + 1
               PROVE  Append(stdout, c)[i] \in {x, NL}
    BY <2>1 DEF InColour
  <2>2. CASE i = Len(stdout) + 1
    BY <2>1, <2>2
  <2>3. CASE i # Len(stdout) + 1
    <3>1. i \in 1 .. Len(stdout)
      BY <1>1, <2>3
    <3> QED
      BY <2>1, <3>1 DEF InColour
  <2> QED
    BY <2>2, <2>3
<1>3. InColour(<<>>, x)
  BY DEF InColour
<1> QED
  BY <1>2, <1>3 DEF stdout_put, duck_write

\* Every step keeps what waits in the colour of the moment.
LEMMA Colours == Spec => []ColourInv
<1>0. InColour(<<>>, Plain) /\ \A x : InColour(<<>>, x)
  BY DEF InColour
<1>1. Init => ColourInv
  BY <1>0 DEF Init, ColourInv
<1>2. QueueTypes /\ ColourInv /\ [Next]_vars => ColourInv'
  <2> SUFFICES ASSUME QueueTypes, ColourInv, [Next]_vars PROVE ColourInv'
    OBVIOUS
  <2>0. color_code \in Char /\ Plain \in Char /\ NL \in Char
    BY ConsoleAssumption DEF ColourInv
  <2>1. CASE write_byte
    <3>1. toScreen \in Seq(Char) /\ toScreen # <<>> /\ toScreen' = Tail(toScreen)
      BY <2>1 DEF write_byte, QueueTypes
    <3>2. InColour(Tail(toScreen), color_code)
      BY <3>1 DEF ColourInv, InColour
    <3> QED
      BY <2>1, <3>1, <3>2 DEF write_byte, ColourInv, loggerVars
  <2>2. CASE LogPut
    BY <2>2 DEF LogPut, ColourInv, loggerVars
  <2>3. ASSUME NEW c \in {Plain, NL}, PrintPlain(c) PROVE ColourInv'
    <3>1. logger = <<>> /\ stdout_put(c) /\ UNCHANGED loggerVars
      BY <2>3 DEF PrintPlain
    <3>2. color_code = Plain
      BY <3>1 DEF ColourInv
    <3>3. InColour(stdout', color_code) /\ InColour(toScreen', color_code)
      BY <2>0, <3>1, <3>2, PutInColour DEF ColourInv
    <3> QED
      BY <3>1, <3>3 DEF ColourInv, loggerVars
  <2>4. ASSUME NEW level \in Levels, TimedLogger(level) PROVE ColourInv'
    <3>1. /\ stdout = <<>> /\ toScreen = <<>> /\ UNCHANGED <<closing, stdout, toScreen>>
          /\ logger = <<>> /\ logger' = <<level, color_code>> /\ color_code' = level
      BY <2>4 DEF TimedLogger, MayPrint, Writing
    <3>2. color_code = Plain /\ closing = FALSE
      BY <3>1 DEF ColourInv
    <3>3. InColour(stdout', level) /\ InColour(toScreen', level)
      BY <1>0, <3>1
    <3>4. logger' # <<>>
      BY <3>1
    <3> QED
      BY <3>1, <3>2, <3>3, <3>4 DEF ColourInv
  <2>5. ASSUME logger # <<>>, NEW c \in {logger[1], NL}, PrintMessage(c) PROVE ColourInv'
    <3>1. ~closing /\ stdout_put(c) /\ UNCHANGED loggerVars
      BY <2>5 DEF PrintMessage
    <3>2. logger[1] = color_code
      BY <2>5 DEF ColourInv
    <3>3. InColour(stdout', color_code) /\ InColour(toScreen', color_code)
      BY <2>0, <3>1, <3>2, PutInColour DEF ColourInv
    <3> QED
      BY <3>1, <3>3 DEF ColourInv, loggerVars
  <2>6. CASE Close
    BY <1>0, <2>6 DEF Close, ColourInv, duck_write
  <2>7. CASE CloseEnd
    <3>1. /\ toScreen = <<>> /\ closing /\ color_code' = logger[2] /\ logger' = <<>>
          /\ closing' = FALSE /\ stdout_put(NL)
      BY <2>7 DEF CloseEnd, Writing
    <3>2. stdout = <<>> /\ logger # <<>>
      BY <3>1 DEF ColourInv
    <3>3. color_code' = Plain
      BY <3>1, <3>2 DEF ColourInv
    <3>4. InColour(stdout', Plain) /\ InColour(toScreen', Plain)
      BY <1>0, <2>0, <3>1, <3>2, PutInColour
    <3> QED
      BY <3>1, <3>3, <3>4 DEF ColourInv
  <2>8. ASSUME NEW level \in {LL_INFO, LL_WARN}, set_log_level(level) PROVE ColourInv'
    BY <2>8 DEF set_log_level, ColourInv
  <2>9. CASE FrameBufferInit
    BY <2>9 DEF FrameBufferInit, ColourInv, loggerVars
  <2>10. CASE UNCHANGED vars
    BY <2>10 DEF vars, ColourInv
  <2> QED
    BY <2>1, <2>2, <2>3, <2>4, <2>5, <2>6, <2>7, <2>8, <2>9, <2>10 DEF Next
<1> QED
  BY <1>1, <1>2, Queues, PTL DEF Spec

\* The cells of the VGA screen: a character in its own colour, or an empty
\* cell in any.
Coloured == {x \in [byte : Char \cup {Blank, Junk}, color : Char] :
                x.byte \in Char => x.color = x.byte}

VgaInv ==
    /\ vga \in [chars : [0 .. BUFFER_HEIGHT - 1 -> [0 .. BUFFER_WIDTH - 1 -> Coloured]],
                col : 0 .. BUFFER_WIDTH]

\* A new line moves cells and adds empty ones.
LEMMA NewLineCells ==
    ASSUME VgaInv, color_code \in Char
    PROVE  new_line(vga) \in
              [chars : [0 .. BUFFER_HEIGHT - 1 -> [0 .. BUFFER_WIDTH - 1 -> Coloured]],
               col : 0 .. BUFFER_WIDTH]
<1>0. BUFFER_HEIGHT \in Nat \ {0} /\ BUFFER_WIDTH \in Nat \ {0}
  BY ConsoleAssumption
<1>1. Cell(Blank, color_code) \in Coloured
  BY ConsoleAssumption DEF Cell, Coloured
<1>2. Scrolled(vga.chars, BUFFER_HEIGHT, BUFFER_WIDTH, color_code)
         \in [0 .. BUFFER_HEIGHT - 1 -> [0 .. BUFFER_WIDTH - 1 -> Coloured]]
  <2>1. ASSUME NEW r \in 0 .. BUFFER_HEIGHT - 1, r < BUFFER_HEIGHT - 1
        PROVE  vga.chars[r + 1] \in [0 .. BUFFER_WIDTH - 1 -> Coloured]
    <3>1. r + 1 \in 0 .. BUFFER_HEIGHT - 1
      BY <1>0, <2>1
    <3> QED
      BY <3>1 DEF VgaInv
  <2>2. [c \in 0 .. BUFFER_WIDTH - 1 |-> Cell(Blank, color_code)]
           \in [0 .. BUFFER_WIDTH - 1 -> Coloured]
    BY <1>1
  <2> QED
    BY <2>1, <2>2 DEF Scrolled
<1>3. 0 \in 0 .. BUFFER_WIDTH
  BY <1>0
<1> QED
  BY <1>2, <1>3 DEF new_line

\* A character is written in the colour of the moment, which is its own.
LEMMA VgaWriteCells ==
    ASSUME VgaInv, color_code \in Char, NEW b \in {color_code, NL}
    PROVE  VgaWrite(vga, b) \in
              [chars : [0 .. BUFFER_HEIGHT - 1 -> [0 .. BUFFER_WIDTH - 1 -> Coloured]],
               col : 0 .. BUFFER_WIDTH]
<1> DEFINE S == [chars : [0 .. BUFFER_HEIGHT - 1 -> [0 .. BUFFER_WIDTH - 1 -> Coloured]],
                 col : 0 .. BUFFER_WIDTH]
<1>0. BUFFER_HEIGHT \in Nat \ {0} /\ BUFFER_WIDTH \in Nat \ {0}
  BY ConsoleAssumption
<1>1. CASE b = NL
  BY <1>1, NewLineCells DEF VgaWrite
<1>2. CASE b # NL
  <2> DEFINE w == IF vga.col >= BUFFER_WIDTH THEN new_line(vga) ELSE vga
  <2>1. w \in S /\ w.col \in 0 .. BUFFER_WIDTH - 1
    <3>1. CASE vga.col >= BUFFER_WIDTH
      <4>1. new_line(vga).col = 0
        BY DEF new_line
      <4> QED
        BY <1>0, <3>1, <4>1, NewLineCells
    <3>2. CASE ~(vga.col >= BUFFER_WIDTH)
      BY <1>0, <3>2 DEF VgaInv
    <3> QED
      BY <3>1, <3>2
  <2>2. Cell(b, color_code) \in Coloured
    BY <1>2 DEF Cell, Coloured
  <2>3. VgaWrite(vga, b) =
           [chars |-> [w.chars EXCEPT ![BUFFER_HEIGHT - 1][w.col] = Cell(b, color_code)],
            col |-> w.col + 1]
    BY <1>2 DEF VgaWrite
  <2> HIDE DEF w
  <2>4. w.chars \in [0 .. BUFFER_HEIGHT - 1 -> [0 .. BUFFER_WIDTH - 1 -> Coloured]]
    BY <2>1
  <2>5. [w.chars EXCEPT ![BUFFER_HEIGHT - 1][w.col] = Cell(b, color_code)]
           \in [0 .. BUFFER_HEIGHT - 1 -> [0 .. BUFFER_WIDTH - 1 -> Coloured]]
    BY <1>0, <2>1, <2>2, <2>4
  <2>6. w.col + 1 \in 0 .. BUFFER_WIDTH
    BY <1>0, <2>1
  <2> QED
    BY <2>3, <2>5, <2>6
<1> QED
  BY <1>1, <1>2

\* Every cell of the VGA screen is coloured by its character.
LEMMA Cellwise == Spec => []VgaInv
<1>1. Init => VgaInv
  <2> SUFFICES ASSUME Init PROVE VgaInv
    OBVIOUS
  <2>1. Cell(Junk, Plain) \in Coloured
    BY ConsoleAssumption DEF Cell, Coloured
  <2>2. 0 \in 0 .. BUFFER_WIDTH
    BY ConsoleAssumption
  <2> QED
    BY <2>1, <2>2 DEF Init, VgaInv, Screen
<1>2. QueueTypes /\ ColourInv /\ VgaInv /\ [Next]_vars => VgaInv'
  <2> SUFFICES ASSUME QueueTypes, ColourInv, VgaInv, [Next]_vars PROVE VgaInv'
    OBVIOUS
  <2>1. CASE write_byte
    <3>1. toScreen \in Seq(Char) /\ toScreen # <<>>
      BY <2>1 DEF write_byte, QueueTypes
    <3>2. Head(toScreen) \in {color_code, NL}
      BY <3>1 DEF ColourInv, InColour
    <3>3. color_code \in Char
      BY ConsoleAssumption DEF ColourInv
    <3>4. vga' = VgaWrite(vga, Head(toScreen))
      BY <2>1 DEF write_byte
    <3>5. VgaWrite(vga, Head(toScreen)) \in
              [chars : [0 .. BUFFER_HEIGHT - 1 -> [0 .. BUFFER_WIDTH - 1 -> Coloured]],
               col : 0 .. BUFFER_WIDTH]
      BY <3>2, <3>3, VgaWriteCells
    <3> QED
      BY <3>4, <3>5 DEF VgaInv
  <2>2. CASE UNCHANGED vga
    BY <2>2 DEF VgaInv
  <2> QED
    BY <2>1, <2>2 DEF Next, vars, screenVars, LogPut, PrintPlain, TimedLogger, PrintMessage,
       Close, CloseEnd, set_log_level, FrameBufferInit
<1> QED
  BY <1>1, <1>2, Queues, Colours, PTL DEF Spec

\* The text of a message is on the screen in the colour of its level and plain
\* text in the plain colour, for every order of messages, flushes and prints.
THEOREM ScreenColours == Spec => []ColouredByLevel
<1>1. VgaInv => ColouredByLevel
  BY DEF VgaInv, ColouredByLevel, Coloured
<1> QED
  BY <1>1, Cellwise, PTL

-----------------------------------------------------------------------------
(* Induction.  Nothing is assumed of the property but that it describes a  *)
(* set.                                                                    *)

\* A set of numbers that is not empty has a least element.
LEMMA LeastNumber ==
    ASSUME NEW T \in SUBSET Nat, T # {}
    PROVE  \E x \in T : \A y \in T : x <= y
<1>1. PICK x \in T : \A y \in T : ~ (<<y, x>> \in OpToRel(<, Nat))
  BY NatLessThanWellFounded, WFMin
<1>2. \A y \in T : ~ (y < x)
  BY <1>1 DEF OpToRel
<1> QED BY <1>2

\* A set that holds 0 and with each number the next one holds all up to n.
LEMMA Steps ==
    ASSUME NEW n \in Nat, NEW T, 0 \in T, \A i \in 1 .. n : i - 1 \in T => i \in T
    PROVE  \A i \in 0 .. n : i \in T
<1> SUFFICES ASSUME NEW j \in 0 .. n, j \notin T PROVE FALSE
  OBVIOUS
<1> DEFINE Out == {i \in 0 .. n : i \notin T}
<1>1. Out \in SUBSET Nat /\ Out # {}
  OBVIOUS
<1>2. PICK x \in Out : \A y \in Out : x <= y
  BY <1>1, LeastNumber
<1>3. x \in 1 .. n /\ x - 1 \notin Out
  BY <1>2
<1> QED BY <1>2, <1>3

\* What the rounds of a loop do to a value of S.
Loop(n, S, F) == F \in [(1 .. n) \X S -> S]

\* A value can be carried through n rounds.
LEMMA Iterated ==
    ASSUME NEW S, NEW c \in S, NEW n \in Nat, NEW F, Loop(n, S, F)
    PROVE  \E f \in [0 .. n -> S] :
              f[0] = c /\ \A k \in 1 .. n : f[k] = F[<<k, f[k - 1]>>]
<1> DEFINE Carried(m, f) == f[0] = c /\ \A k \in 1 .. m : f[k] = F[<<k, f[k - 1]>>]
           T == {m \in 0 .. n : \E f \in [0 .. m -> S] : Carried(m, f)}
<1>1. 0 \in T
  <2> DEFINE g == [k \in 0 .. 0 |-> c]
  <2>1. g \in [0 .. 0 -> S] /\ g[0] = c
    OBVIOUS
  <2> HIDE DEF g
  <2>2. Carried(0, g)
    BY <2>1
  <2> HIDE DEF Carried
  <2> QED BY <2>1, <2>2
<1>2. ASSUME NEW i \in 1 .. n, i - 1 \in T PROVE i \in T
  <2>1. PICK f \in [0 .. i - 1 -> S] : Carried(i - 1, f)
    BY <1>2
  <2> DEFINE g == [k \in 0 .. i |-> IF k = i THEN F[<<i, f[i - 1]>>] ELSE f[k]]
  <2>2. f[i - 1] \in S
    BY <2>1
  <2>3. g \in [0 .. i -> S]
    BY <2>1, <2>2 DEF Loop
  <2>4. g[i] = F[<<i, f[i - 1]>>] /\ \A k \in 0 .. i - 1 : g[k] = f[k]
    OBVIOUS
  <2> HIDE DEF g
  <2>5. g[0] = c
    BY <2>1, <2>4
  <2>6. \A k \in 1 .. i : g[k] = F[<<k, g[k - 1]>>]
    <3> TAKE k \in 1 .. i
    <3>1. CASE k = i
      BY <2>4, <3>1
    <3>2. CASE k # i
      <4>1. k \in 1 .. i - 1 /\ k \in 0 .. i - 1 /\ k - 1 \in 0 .. i - 1
        BY <3>2
      <4> QED BY <2>1, <2>4, <4>1
    <3> QED BY <3>1, <3>2
  <2> QED BY <2>3, <2>5, <2>6
<1> HIDE DEF T
<1>3. n \in T
  BY <1>1, <1>2, Steps
<1> QED BY <1>3 DEF T

-----------------------------------------------------------------------------
(* Where a text is on a screen *)

\* Line k begins after position j of the text.
Begins(text, k, j) ==
    /\ j \in 0 .. k - 1
    /\ j = 0 \/ text[j] = NL
    /\ \A i \in j + 1 .. k - 1 : text[i] # NL

\* LineStart is the only beginning.
LEMMA LineStartIs ==
    ASSUME NEW text, NEW k \in Nat \ {0}
    PROVE  /\ Begins(text, k, LineStart(text, k))
           /\ \A j : Begins(text, k, j) => j = LineStart(text, k)
<1> DEFINE B == {x \in 0 .. k - 1 : k - 1 - x = 0 \/ text[k - 1 - x] = NL}
<1>1. B \in SUBSET Nat /\ B # {}
  <2>1. k - 1 \in B
    OBVIOUS
  <2>2. \A x \in B : x \in Nat
    OBVIOUS
  <2> HIDE DEF B
  <2> QED BY <2>1, <2>2
<1>2. PICK x \in B : \A y \in B : x <= y
  BY <1>1, LeastNumber
<1> DEFINE l == k - 1 - x
<1>3. Begins(text, k, l)
  <2>1. l \in 0 .. k - 1 /\ (l = 0 \/ text[l] = NL)
    BY <1>2
  <2>2. ASSUME NEW i \in l + 1 .. k - 1 PROVE text[i] # NL
    <3>1. k - 1 - i \in 0 .. k - 1 /\ k - 1 - i < x /\ k - 1 - (k - 1 - i) = i
      BY <1>2
    <3>2. k - 1 - i \notin B
      BY <1>2, <3>1
    <3> QED BY <3>1, <3>2
  <2> QED BY <2>1, <2>2 DEF Begins
<1>4. \A i, j : Begins(text, k, i) /\ Begins(text, k, j) => i = j
  BY DEF Begins
<1>5. LineStart(text, k) = CHOOSE j \in 0 .. k - 1 : Begins(text, k, j)
  <2>1. \A j \in 0 .. k - 1 : Begins(text, k, j) <=>
          /\ j = 0 \/ text[j] = NL
          /\ \A i \in j + 1 .. k - 1 : text[i] # NL
    BY Zenon DEF Begins
  <2> QED BY <2>1, Zenon DEF LineStart
<1>6. l \in 0 .. k - 1
  BY <1>3 DEF Begins
<1> HIDE DEF l
<1>7. Begins(text, k, LineStart(text, k))
  BY <1>3, <1>5, <1>6, Zenon
<1> QED BY <1>4, <1>7

\* A multiple leaves no rest.
LEMMA ModExact ==
    ASSUME NEW a \in Nat, NEW c \in Nat \ {0}, NEW p \in Int, a = c * p
    PROVE  a % c = 0
<1> DEFINE q == a \div c
           r == a % c
           d == p - q
<1>1. q \in Int /\ r \in 0 .. c - 1 /\ a = c * q + r
  OBVIOUS
<1> HIDE DEF q, r
<1>2. d \in Int /\ c * d = r
  BY <1>1
<1> HIDE DEF d
<1>3. ASSUME d >= 1 PROVE FALSE
  <2>1. c * d >= c
    BY <1>2, <1>3
  <2> QED BY <1>1, <1>2, <2>1
<1>4. ASSUME d <= -1 PROVE FALSE
  <2>1. c * d <= -c
    BY <1>2, <1>4
  <2> QED BY <1>1, <1>2, <2>1
<1>5. d = 0
  BY <1>2, <1>3, <1>4
<1>6. r = 0
  BY <1>2, <1>5
<1> QED BY <1>6 DEF r

\* A line and a position of a text in it.
LEMMA ColumnSteps ==
    ASSUME NEW text, NEW cols \in Nat \ {0}, NEW k \in Nat \ {0}
    PROVE  /\ Column(text, k, cols) \in 0 .. cols - 1
           /\ k = 1 => Column(text, k, cols) = 0
           /\ text[k] = NL => Column(text, k + 1, cols) = 0
           /\ text[k] # NL =>
                Column(text, k + 1, cols) = IF Column(text, k, cols) + 1 = cols THEN 0
                                            ELSE Column(text, k, cols) + 1
<1> DEFINE s == LineStart(text, k)
           t == LineStart(text, k + 1)
           x == k - 1 - s
<1>1. Begins(text, k, s) /\ s \in 0 .. k - 1 /\ x \in Nat
  BY LineStartIs DEF Begins
<1>2. k + 1 \in Nat \ {0} /\ (k + 1) - 1 = k
  OBVIOUS
<1>3. \A j : Begins(text, k + 1, j) => j = t
  BY <1>2, LineStartIs
<1> HIDE DEF s, t
<1>4. Column(text, k, cols) = x % cols /\ Column(text, k + 1, cols) = (k - t) % cols
  BY <1>2 DEF Column, s, t
<1>5. \A y \in Nat : y % cols \in 0 .. cols - 1
  OBVIOUS
<1>6. k = 1 => x = 0
  <2>1. k = 1 => s = 0
    BY <1>1
  <2> QED BY <2>1
<1>7. 0 % cols = 0
  BY ModSmall
<1>8. text[k] = NL => t = k
  <2>1. text[k] = NL => Begins(text, k + 1, k)
    BY <1>2 DEF Begins
  <2> QED BY <1>3, <2>1
<1>9. text[k] # NL => t = s
  <2>1. text[k] # NL => Begins(text, k + 1, s)
    <3>1. \A i \in s + 1 .. k : i = k \/ i \in s + 1 .. k - 1
      BY <1>1
    <3> QED BY <1>1, <1>2, <3>1 DEF Begins
  <2> QED BY <1>3, <2>1
<1>10. (x + 1) % cols = IF (x % cols) + 1 = cols THEN 0 ELSE (x % cols) + 1
  <2> DEFINE q == x \div cols
             r == x % cols
  <2>1. x = cols * q + r /\ q \in Int /\ r \in 0 .. cols - 1
    BY <1>1
  <2> HIDE DEF q, r
  <2>2. CASE r + 1 = cols
    <3>1. x + 1 = cols * (q + 1) + 0 /\ q + 1 \in Int
      BY <2>1, <2>2
    <3>2. (x + 1) % cols = 0
      <4> DEFINE a == x + 1
                 p == q + 1
      <4>1. a \in Nat /\ p \in Int /\ a = cols * p
        BY <1>1, <3>1
      <4> HIDE DEF a, p
      <4>2. a % cols = 0
        BY <4>1, ModExact
      <4> QED BY <4>2 DEF a
    <3> QED BY <2>2, <3>2 DEF r
  <2>3. CASE r + 1 # cols
    <3>1. x + 1 = cols * q + (r + 1) /\ r + 1 \in 0 .. cols - 1
      BY <2>1, <2>3
    <3> QED BY <2>1, <2>3, <3>1 DEF r
  <2> QED BY <2>2, <2>3 DEF r
<1>11. text[k] # NL => k - t = x + 1
  BY <1>1, <1>9
<1>12. text[k] = NL => k - t = 0
  BY <1>8
<1> QED BY <1>1, <1>4, <1>5, <1>6, <1>7, <1>10, <1>11, <1>12

\* The line ends before position k, and the full lines.
Ends(text, k) == {j \in 1 .. k - 1 : text[j] = NL}
Fulls(text, k, cols) ==
    {j \in 2 .. k : /\ text[j] # NL /\ text[j - 1] # NL
                    /\ Column(text, j, cols) = 0}

\* A position is a line below the one before it after a line end, or when it is
\* the first of a new line.
LEMMA LineSteps ==
    ASSUME NEW text, NEW cols \in Nat \ {0}, NEW k \in Nat \ {0}
    PROVE  /\ Line(text, k, cols) \in Nat
           /\ k = 1 => Line(text, k, cols) = 0
           /\ Line(text, k + 1, cols) = Line(text, k, cols)
                + (IF text[k] = NL \/ (text[k + 1] # NL /\ Column(text, k + 1, cols) = 0)
                   THEN 1 ELSE 0)
<1> DEFINE A == Ends(text, k)
           B == Fulls(text, k, cols)
<1>1. \A i \in Nat : Line(text, i, cols) = Cardinality(Ends(text, i)) + Cardinality(Fulls(text, i, cols))
  BY Zenon DEF Line, Ends, Fulls
<1>2. /\ IsFiniteSet(A) /\ Cardinality(A) \in Nat
      /\ IsFiniteSet(B) /\ Cardinality(B) \in Nat
  <2>1. A \in SUBSET Nat /\ B \in SUBSET Nat /\ \A x \in A : x <= k
    BY DEF Ends, Fulls
  <2>2. \A x \in B : x <= k
    BY DEF Fulls
  <2> HIDE DEF A, B
  <2>3. IsFiniteSet(A) /\ IsFiniteSet(B)
    BY <2>1, <2>2, FS_BoundedSetOfNaturals
  <2> QED BY <2>3, FS_CardinalityType
<1>3. k = 1 => A = {} /\ B = {}
  BY DEF Ends, Fulls
<1>4. Ends(text, k + 1) = IF text[k] = NL THEN A \cup {k} ELSE A
  BY DEF Ends
<1>5. Fulls(text, k + 1, cols) =
        IF text[k + 1] # NL /\ text[k] # NL /\ Column(text, k + 1, cols) = 0
        THEN B \cup {k + 1} ELSE B
  <2>1. k + 1 \in 2 .. k + 1 /\ (k + 1) - 1 = k /\ \A j : j \in 2 .. k + 1 <=> j \in 2 .. k \/ j = k + 1
    OBVIOUS
  <2> QED BY <2>1 DEF Fulls
<1>6. k \notin A /\ k + 1 \notin B
  BY DEF Ends, Fulls
<1> HIDE DEF A, B
<1>7. Cardinality(Ends(text, k + 1)) = Cardinality(A) + (IF text[k] = NL THEN 1 ELSE 0)
  <2>1. Cardinality(A \cup {k}) = Cardinality(A) + 1
    BY <1>2, <1>6, FS_AddElement
  <2> QED BY <1>2, <1>4, <2>1
<1>8. Cardinality(Fulls(text, k + 1, cols)) = Cardinality(B) +
        (IF text[k + 1] # NL /\ text[k] # NL /\ Column(text, k + 1, cols) = 0 THEN 1 ELSE 0)
  <2> DEFINE y == k + 1
  <2>1. Cardinality(B \cup {y}) = Cardinality(B) + 1
    <3>1. y \notin B
      BY <1>6
    <3> HIDE DEF y
    <3> QED BY <1>2, <3>1, FS_AddElement
  <2> QED BY <1>2, <1>5, <2>1
<1>9. Line(text, k, cols) = Cardinality(A) + Cardinality(B)
  BY <1>1 DEF A, B
<1>10. k = 1 => Line(text, k, cols) = 0
  BY <1>3, <1>9, FS_EmptySet
<1>11. Line(text, k + 1, cols) = Cardinality(Ends(text, k + 1)) + Cardinality(Fulls(text, k + 1, cols))
  BY <1>1
<1> QED BY <1>2, <1>7, <1>8, <1>9, <1>10, <1>11

\* What comes later does not change where a text is.
LEMMA SamePlaces ==
    ASSUME NEW text, NEW new, NEW n \in Nat, \A i \in 1 .. n : new[i] = text[i],
           NEW cols \in Nat \ {0}
    PROVE  \A k \in 1 .. n : /\ Column(new, k, cols) = Column(text, k, cols)
                             /\ Line(new, k, cols) = Line(text, k, cols)
<1>1. ASSUME NEW k \in 1 .. n PROVE Column(new, k, cols) = Column(text, k, cols)
  <2>1. k \in Nat \ {0}
    OBVIOUS
  <2>2. Begins(new, k, LineStart(new, k))
    BY <2>1, LineStartIs
  <2>3. \A j : Begins(new, k, j) => Begins(text, k, j)
    BY DEF Begins
  <2>4. LineStart(new, k) = LineStart(text, k)
    BY <2>1, <2>2, <2>3, LineStartIs
  <2> QED BY <2>4 DEF Column
<1>2. ASSUME NEW k \in 1 .. n PROVE Line(new, k, cols) = Line(text, k, cols)
  <2>1. Ends(new, k) = Ends(text, k)
    BY DEF Ends
  <2>2. ASSUME NEW j \in 2 .. k
        PROVE  new[j] = text[j] /\ new[j - 1] = text[j - 1]
               /\ Column(new, j, cols) = Column(text, j, cols)
    <3>1. j \in 1 .. n /\ j - 1 \in 1 .. n
      OBVIOUS
    <3> QED BY <1>1, <3>1
  <2>3. Fulls(new, k, cols) = Fulls(text, k, cols)
    BY <2>2 DEF Fulls
  <2>4. \A x : Line(x, k, cols) = Cardinality(Ends(x, k)) + Cardinality(Fulls(x, k, cols))
    BY Zenon DEF Line, Ends, Fulls
  <2> QED BY <2>1, <2>3, <2>4
<1> QED BY <1>1, <1>2

\* The line of a screen's last row, the column of the next character, and the
\* row of position k of the text.
LastLine(text, cols) ==
    IF Len(text) = 0 THEN 0
    ELSE Line(text, Len(text), cols) + (IF text[Len(text)] = NL THEN 1 ELSE 0)
Cursor(text, cols) ==
    IF Len(text) = 0 \/ text[Len(text)] = NL THEN 0 ELSE Column(text, Len(text), cols) + 1
Row(rows, cols, text, k) == rows - 1 - (LastLine(text, cols) - Line(text, k, cols))

\* Nothing is below the last line, or on it behind the cursor.
Behind(text, cols) ==
    \A k \in 1 .. Len(text) :
        /\ Line(text, k, cols) <= LastLine(text, cols)
        /\ text[k] # NL /\ Line(text, k, cols) = LastLine(text, cols)
             => Column(text, k, cols) < Cursor(text, cols)

\* The next character begins a new line.
Breaks(text, cols, b) == b = NL \/ Cursor(text, cols) >= cols

\* new is text and b.
Longer(text, b, new) ==
    /\ Len(text) \in Nat /\ Len(new) = Len(text) + 1 /\ new[Len(text) + 1] = b
    /\ \A i \in 1 .. Len(text) : new[i] = text[i]

\* How a character moves the cursor.
LEMMA Advance ==
    ASSUME NEW text, NEW b, NEW new, Longer(text, b, new),
           NEW cols \in Nat \ {0}, Behind(text, cols)
    PROVE  LET n == Len(text)
           IN  /\ LastLine(text, cols) \in Nat /\ Cursor(text, cols) \in 0 .. cols
               /\ \A k \in 1 .. n : /\ Line(text, k, cols) \in Nat
                                    /\ Column(text, k, cols) \in 0 .. cols - 1
                                    /\ Line(new, k, cols) = Line(text, k, cols)
                                    /\ Column(new, k, cols) = Column(text, k, cols)
               /\ LastLine(new, cols) = LastLine(text, cols) + (IF Breaks(text, cols, b) THEN 1 ELSE 0)
               /\ Cursor(new, cols) = IF b = NL THEN 0
                                      ELSE IF Breaks(text, cols, b) THEN 1
                                      ELSE Cursor(text, cols) + 1
               /\ b # NL => /\ Line(new, n + 1, cols) = LastLine(new, cols)
                            /\ Column(new, n + 1, cols) =
                                 IF Breaks(text, cols, b) THEN 0 ELSE Cursor(text, cols)
               /\ Behind(new, cols)
<1> DEFINE n == Len(text)
           m == n + 1
           L == LastLine(text, cols)
           C == Cursor(text, cols)
<1>1. /\ n \in Nat /\ Len(new) = m /\ new[m] = b /\ m \in Nat \ {0}
      /\ \A i \in 1 .. n : new[i] = text[i]
  BY DEF Longer
<1>2. \A k \in 1 .. n : /\ Line(text, k, cols) \in Nat
                        /\ Column(text, k, cols) \in 0 .. cols - 1
                        /\ Line(new, k, cols) = Line(text, k, cols)
                        /\ Column(new, k, cols) = Column(text, k, cols)
  <2>1. \A k \in 1 .. n : k \in Nat \ {0}
    OBVIOUS
  <2> HIDE DEF n
  <2>2. \A k \in 1 .. n : Column(new, k, cols) = Column(text, k, cols)
                          /\ Line(new, k, cols) = Line(text, k, cols)
    BY <1>1, SamePlaces
  <2>3. \A k \in 1 .. n : Column(text, k, cols) \in 0 .. cols - 1
    BY <2>1, ColumnSteps
  <2>4. \A k \in 1 .. n : Line(text, k, cols) \in Nat
    BY <2>1, LineSteps
  <2> QED BY <2>2, <2>3, <2>4
<1>3. n = 0 => /\ L = 0 /\ C = 0 /\ Line(new, m, cols) = 0 /\ Column(new, m, cols) = 0
  <2>1. n = 0 => m = 1
    OBVIOUS
  <2>2. n = 0 => Line(new, m, cols) = 0
    BY <1>1, <2>1, LineSteps
  <2>3. n = 0 => Column(new, m, cols) = 0
    BY <1>1, <2>1, ColumnSteps
  <2> QED BY <2>2, <2>3 DEF LastLine, Cursor
<1>4. n # 0 => /\ n \in 1 .. n /\ n \in Nat \ {0}
               /\ L = Line(text, n, cols) + (IF text[n] = NL THEN 1 ELSE 0)
               /\ C = IF text[n] = NL THEN 0 ELSE Column(text, n, cols) + 1
  BY <1>1 DEF LastLine, Cursor
<1>5. n # 0 => /\ text[n] = NL => Column(new, m, cols) = 0
               /\ text[n] # NL => Column(new, m, cols) = IF C = cols THEN 0 ELSE C
  <2> SUFFICES ASSUME n # 0
               PROVE  /\ text[n] = NL => Column(new, m, cols) = 0
                      /\ text[n] # NL => Column(new, m, cols) = IF C = cols THEN 0 ELSE C
    OBVIOUS
  <2>1. /\ new[n] = NL => Column(new, n + 1, cols) = 0
        /\ new[n] # NL =>
             Column(new, n + 1, cols) = IF Column(new, n, cols) + 1 = cols THEN 0
                                        ELSE Column(new, n, cols) + 1
    <3> HIDE DEF n
    <3> QED BY <1>4, ColumnSteps
  <2> HIDE DEF n, C
  <2> QED BY <1>1, <1>2, <1>4, <2>1
<1>6. n # 0 => Line(new, m, cols) = Line(text, n, cols)
                 + (IF text[n] = NL \/ (b # NL /\ Column(new, m, cols) = 0) THEN 1 ELSE 0)
  <2> SUFFICES ASSUME n # 0
               PROVE  Line(new, m, cols) = Line(text, n, cols)
                        + (IF text[n] = NL \/ (b # NL /\ Column(new, m, cols) = 0) THEN 1 ELSE 0)
    OBVIOUS
  <2>1. Line(new, n + 1, cols) = Line(new, n, cols)
                + (IF new[n] = NL \/ (new[n + 1] # NL /\ Column(new, n + 1, cols) = 0)
                   THEN 1 ELSE 0)
    <3> HIDE DEF n
    <3> QED BY <1>4, LineSteps
  <2>2. Line(new, n, cols) = Line(text, n, cols) /\ new[n] = text[n]
    BY <1>1, <1>2, <1>4
  <2> HIDE DEF n
  <2> QED BY <1>1, <2>1, <2>2
<1>7. L \in Nat /\ C \in 0 .. cols
  <2> HIDE DEF n, L, C
  <2> QED BY <1>2, <1>3, <1>4
<1>8. /\ LastLine(new, cols) = Line(new, m, cols) + (IF b = NL THEN 1 ELSE 0)
      /\ Cursor(new, cols) = IF b = NL THEN 0 ELSE Column(new, m, cols) + 1
  BY <1>1 DEF LastLine, Cursor
<1> DEFINE K == Breaks(text, cols, b)
<1>9. K <=> b = NL \/ C >= cols
  BY DEF Breaks
<1>10. b # NL => Column(new, m, cols) = IF K THEN 0 ELSE C
  <2> HIDE DEF n, m, C, K
  <2> QED BY <1>2, <1>3, <1>4, <1>5, <1>7, <1>9
<1>11. b = NL => Line(new, m, cols) = L
  <2> HIDE DEF n, m, C, K, L
  <2> QED BY <1>2, <1>3, <1>4, <1>6
<1>12. b # NL => Line(new, m, cols) = L + (IF K THEN 1 ELSE 0)
  <2> SUFFICES ASSUME b # NL PROVE Line(new, m, cols) = L + (IF K THEN 1 ELSE 0)
    OBVIOUS
  <2> HIDE DEF n, m, C, K, L
  <2>1. CASE n = 0
    BY <1>3, <1>7, <1>9, <2>1
  <2>2. CASE n # 0 /\ text[n] = NL
    BY <1>2, <1>4, <1>6, <1>9, <2>2
  <2>3. CASE n # 0 /\ text[n] # NL
    BY <1>2, <1>4, <1>5, <1>6, <1>7, <1>9, <2>3
  <2> QED BY <2>1, <2>2, <2>3
<1>13. LastLine(new, cols) = L + (IF K THEN 1 ELSE 0)
  <2> HIDE DEF n, m, C, K, L
  <2> QED BY <1>7, <1>8, <1>9, <1>11, <1>12
<1>14. Cursor(new, cols) = IF b = NL THEN 0 ELSE IF K THEN 1 ELSE C + 1
  <2> HIDE DEF n, m, C, K, L
  <2> QED BY <1>7, <1>8, <1>10
<1>15. b # NL => Line(new, m, cols) = LastLine(new, cols)
  <2> HIDE DEF n, m, C, K, L
  <2> QED BY <1>7, <1>8, <1>12
<1>16. \A k \in 1 .. n : /\ Line(text, k, cols) <= L
                         /\ text[k] # NL /\ Line(text, k, cols) = L => Column(text, k, cols) < C
  BY DEF Behind
<1>17. Behind(new, cols)
  <2> SUFFICES ASSUME NEW k \in 1 .. m
               PROVE  /\ Line(new, k, cols) <= LastLine(new, cols)
                      /\ new[k] # NL /\ Line(new, k, cols) = LastLine(new, cols)
                           => Column(new, k, cols) < Cursor(new, cols)
    BY <1>1 DEF Behind
  <2>1. CASE k \in 1 .. n
    <3>1. /\ Line(new, k, cols) \in Nat /\ Line(new, k, cols) <= L /\ new[k] = text[k]
          /\ Column(new, k, cols) \in 0 .. cols - 1
          /\ text[k] # NL /\ Line(new, k, cols) = L => Column(new, k, cols) < C
      BY <1>1, <1>2, <1>16, <2>1
    <3> HIDE DEF n, m, C, K, L
    <3> QED BY <1>7, <1>9, <1>13, <1>14, <3>1
  <2>2. CASE k = m
    <3> HIDE DEF n, m, C, K, L
    <3> QED BY <1>1, <1>7, <1>8, <1>10, <1>11, <1>12, <1>13, <1>14, <1>15, <2>2
  <2>3. k \in 1 .. n \/ k = m
    BY <1>1
  <2> QED BY <2>1, <2>2, <2>3
<1> QED BY <1>2, <1>7, <1>10, <1>13, <1>14, <1>15, <1>17

-----------------------------------------------------------------------------
(* What a screen shows *)

\* The positions of the text that are on the screen; each is in its place, and
\* there is nothing else.
Visible(rows, cols, text) ==
    {k \in 1 .. Len(text) : text[k] # NL /\ Row(rows, cols, text, k) >= 0}
InPlace(chars, rows, cols, text) ==
    \A k \in Visible(rows, cols, text) :
        chars[Row(rows, cols, text, k)][Column(text, k, cols)].byte = text[k]
NothingElse(chars, rows, cols, text) ==
    \A r \in 0 .. rows - 1, c \in 0 .. cols - 1 :
        \/ \E k \in Visible(rows, cols, text) :
              Row(rows, cols, text, k) = r /\ Column(text, k, cols) = c
        \/ chars[r][c].byte \in {Blank, Junk}

\* That is what Shows says.
LEMMA ShowsIs ==
    ASSUME NEW chars, NEW rows, NEW cols, NEW text,
           InPlace(chars, rows, cols, text), NothingElse(chars, rows, cols, text)
    PROVE  Shows(chars, rows, cols, text)
<1> DEFINE n == Len(text)
           last == IF n = 0 THEN 0
                   ELSE Line(text, n, cols) + (IF text[n] = NL THEN 1 ELSE 0)
           place(k) == <<rows - 1 - (last - Line(text, k, cols)), Column(text, k, cols)>>
           visible == {k \in 1 .. n : text[k] # NL /\ place(k)[1] >= 0}
<1>1. last = LastLine(text, cols)
  BY Zenon DEF LastLine
<1>2. \A k : place(k) = <<Row(rows, cols, text, k), Column(text, k, cols)>>
  BY <1>1, Zenon DEF Row
<1> HIDE DEF place
<1>3. \A k : place(k)[1] = Row(rows, cols, text, k) /\ place(k)[2] = Column(text, k, cols)
  BY <1>2
<1>4. visible = Visible(rows, cols, text)
  BY <1>3 DEF Visible
<1> HIDE DEF visible
<1>5. \A k \in visible : chars[place(k)[1]][place(k)[2]].byte = text[k]
  BY <1>3, <1>4 DEF InPlace
<1>6. ASSUME NEW r \in 0 .. rows - 1, NEW c \in 0 .. cols - 1, \A k \in visible : place(k) # <<r, c>>
      PROVE  chars[r][c].byte \in {Blank, Junk}
  <2>1. \A k \in visible : ~ (Row(rows, cols, text, k) = r /\ Column(text, k, cols) = c)
    BY <1>2, <1>6, Zenon
  <2> QED BY <1>4, <2>1 DEF NothingElse
<1>7. /\ \A k \in visible : chars[place(k)[1]][place(k)[2]].byte = text[k]
      /\ \A r \in 0 .. rows - 1, c \in 0 .. cols - 1 :
            (\A k \in visible : place(k) # <<r, c>>) => chars[r][c].byte \in {Blank, Junk}
  BY <1>5, <1>6
<1> QED BY <1>7, Zenon DEF Shows, visible, place

\* A screen that shows a text, with the cursor behind it.
OnScreen(chars, col, rows, cols, text) ==
    /\ InPlace(chars, rows, cols, text) /\ NothingElse(chars, rows, cols, text)
    /\ col = Cursor(text, cols) /\ Behind(text, cols)

\* What new_line and draw_new_line leave of the cells, and what a character
\* does to a screen.
Base(chars, rows, broken, r, c) ==
    IF ~ broken THEN chars[r][c].byte
    ELSE IF r < rows - 1 THEN chars[r + 1][c].byte ELSE Blank
Drawn(chars, col, rows, cols, b, chars2, col2) ==
    LET broken == b = NL \/ col >= cols
        at     == IF broken THEN 0 ELSE col
    IN  /\ col2 = IF b = NL THEN 0 ELSE at + 1
        /\ \A r \in 0 .. rows - 1, c \in 0 .. cols - 1 :
              chars2[r][c].byte = IF b # NL /\ r = rows - 1 /\ c = at THEN b
                                  ELSE Base(chars, rows, broken, r, c)

\* A screen that shows a text shows it with the next character.
LEMMA DrawnShows ==
    ASSUME NEW rows \in Nat \ {0}, NEW cols \in Nat \ {0}, NEW text, NEW b, NEW new,
           Longer(text, b, new),
           NEW chars, NEW col, OnScreen(chars, col, rows, cols, text),
           NEW chars2, NEW col2, Drawn(chars, col, rows, cols, b, chars2, col2)
    PROVE  OnScreen(chars2, col2, rows, cols, new)
<1> DEFINE n == Len(text)
           m == n + 1
           K == Breaks(text, cols, b)
           at == IF K THEN 0 ELSE col
           L == LastLine(text, cols)
           d == IF K THEN 1 ELSE 0
<1>1. /\ n \in Nat /\ Len(new) = m /\ new[m] = b /\ \A i \in 1 .. n : new[i] = text[i]
  BY DEF Longer
<1>2. /\ L \in Nat /\ col = Cursor(text, cols) /\ col \in 0 .. cols
      /\ \A k \in 1 .. n : /\ Line(text, k, cols) \in Nat
                           /\ Column(text, k, cols) \in 0 .. cols - 1
                           /\ Line(new, k, cols) = Line(text, k, cols)
                           /\ Column(new, k, cols) = Column(text, k, cols)
      /\ LastLine(new, cols) = L + d
      /\ Cursor(new, cols) = IF b = NL THEN 0 ELSE IF K THEN 1 ELSE col + 1
      /\ b # NL => /\ Line(new, m, cols) = LastLine(new, cols)
                   /\ Column(new, m, cols) = at
      /\ Behind(new, cols)
  BY Advance DEF OnScreen
<1>3. K <=> b = NL \/ col >= cols
  BY <1>2 DEF Breaks
<1>4. /\ col2 = IF b = NL THEN 0 ELSE at + 1
      /\ \A r \in 0 .. rows - 1, c \in 0 .. cols - 1 :
            chars2[r][c].byte = IF b # NL /\ r = rows - 1 /\ c = at THEN b
                                ELSE Base(chars, rows, K, r, c)
  <2> DEFINE broken == b = NL \/ col >= cols
  <2>1. broken = K
    BY <1>3 DEF Breaks
  <2> HIDE DEF K
  <2> QED BY <2>1, Zenon DEF Drawn
<1>5. /\ \A k \in 1 .. n : /\ Line(text, k, cols) <= L
                           /\ text[k] # NL /\ Line(text, k, cols) = L => Column(text, k, cols) < col
  BY <1>2 DEF OnScreen, Behind
<1>6. d \in {0, 1} /\ at \in 0 .. cols - 1 /\ (K => d = 1 /\ at = 0) /\ (~ K => d = 0 /\ at = col)
  BY <1>2, <1>3
<1> HIDE DEF K, at, L, d
<1>7. \A k \in 1 .. n : Row(rows, cols, new, k) = Row(rows, cols, text, k) - d
                        /\ Row(rows, cols, text, k) \in Int /\ Row(rows, cols, text, k) <= rows - 1
  <2> TAKE k \in 1 .. n
  <2>1. Row(rows, cols, text, k) = rows - 1 - (L - Line(text, k, cols))
    BY DEF Row, L
  <2>2. Row(rows, cols, new, k) = rows - 1 - ((L + d) - Line(text, k, cols))
    BY <1>2 DEF Row
  <2> HIDE DEF n
  <2> QED BY <1>2, <1>5, <1>6, <2>1, <2>2
<1>8. b # NL => Row(rows, cols, new, m) = rows - 1 /\ m \in Visible(rows, cols, new)
  <2>1. b # NL => Row(rows, cols, new, m) = rows - 1
    BY <1>2, <1>6 DEF Row
  <2>2. m \in 1 .. Len(new) /\ rows - 1 >= 0
    BY <1>1
  <2> QED BY <1>1, <2>1, <2>2 DEF Visible
<1>9. \A k \in 1 .. n : k \in Visible(rows, cols, new) <=>
                          k \in Visible(rows, cols, text) /\ Row(rows, cols, text, k) - d >= 0
  <2> TAKE k \in 1 .. n
  <2>1. k \in 1 .. Len(new) /\ new[k] = text[k]
    BY <1>1
  <2> QED BY <1>6, <1>7, <2>1 DEF Visible
<1>10. \A k \in Visible(rows, cols, new) : k \in 1 .. n \/ (k = m /\ b # NL)
  BY <1>1 DEF Visible
<1>11. ASSUME NEW k \in Visible(rows, cols, new)
       PROVE  chars2[Row(rows, cols, new, k)][Column(new, k, cols)].byte = new[k]
  <2>1. CASE k \in 1 .. n
    <3> DEFINE r == Row(rows, cols, new, k)
               c == Column(text, k, cols)
               x == Row(rows, cols, text, k)
    <3>1. /\ k \in Visible(rows, cols, text) /\ r = x - d /\ x \in Int /\ x <= rows - 1 /\ r >= 0
          /\ c \in 0 .. cols - 1 /\ Column(new, k, cols) = c
      BY <1>2, <1>7, <1>9, <2>1
    <3>2. chars[x][c].byte = text[k] /\ text[k] # NL
      BY <3>1 DEF OnScreen, InPlace, Visible
    <3>3. x = rows - 1 => Line(text, k, cols) = L
      BY <1>2, <2>1 DEF Row, L
    <3>4. x = rows - 1 => c < col
      BY <1>5, <2>1, <3>2, <3>3
    <3> HIDE DEF r, c, x
    <3>5. r \in 0 .. rows - 1
      BY <1>6, <3>1
    <3>6. ~ (r = rows - 1 /\ c = at)
      BY <1>2, <1>6, <3>1, <3>4, <3>5
    <3>7. Base(chars, rows, K, r, c) = text[k]
      <4>1. CASE K
        <5>1. r + 1 = x /\ r < rows - 1
          BY <1>6, <3>1, <4>1
        <5> QED BY <3>2, <4>1, <5>1 DEF Base
      <4>2. CASE ~ K
        <5>1. r = x
          BY <1>6, <3>1, <4>2
        <5> QED BY <3>2, <4>2, <5>1 DEF Base
      <4> QED BY <4>1, <4>2
    <3>8. chars2[r][c].byte = text[k]
      BY <1>4, <3>1, <3>5, <3>6, <3>7
    <3>9. new[k] = text[k]
      BY <1>1, <2>1
    <3> QED BY <3>1, <3>8, <3>9 DEF r
  <2>2. CASE k = m /\ b # NL
    <3>1. Row(rows, cols, new, k) = rows - 1 /\ Column(new, k, cols) = at /\ rows - 1 \in 0 .. rows - 1
      BY <1>2, <1>8, <2>2
    <3> QED BY <1>1, <1>4, <1>6, <2>2, <3>1
  <2> QED BY <1>10, <2>1, <2>2
<1>12. ASSUME NEW r \in 0 .. rows - 1, NEW c \in 0 .. cols - 1,
              ~ \E k \in Visible(rows, cols, new) :
                    Row(rows, cols, new, k) = r /\ Column(new, k, cols) = c
       PROVE  chars2[r][c].byte \in {Blank, Junk}
  <2>1. ~ (b # NL /\ r = rows - 1 /\ c = at)
    BY <1>2, <1>8, <1>12
  <2>2. chars2[r][c].byte = Base(chars, rows, K, r, c)
    BY <1>4, <2>1
  <2>3. CASE K /\ ~ (r < rows - 1)
    BY <2>2, <2>3 DEF Base
  <2>4. CASE ~ (K /\ ~ (r < rows - 1))
    <3> DEFINE y == r + d
    <3>1. y \in 0 .. rows - 1 /\ chars2[r][c].byte = chars[y][c].byte /\ y - d = r
      BY <1>6, <2>2, <2>4 DEF Base
    <3> HIDE DEF y
    <3>2. ASSUME NEW k \in Visible(rows, cols, text),
                 Row(rows, cols, text, k) = y, Column(text, k, cols) = c
          PROVE  FALSE
      <4>1. k \in 1 .. n
        BY DEF Visible
      <4>2. k \in Visible(rows, cols, new) /\ Row(rows, cols, new, k) = r /\ Column(new, k, cols) = c
        BY <1>2, <1>7, <1>9, <3>1, <3>2, <4>1
      <4> QED BY <1>12, <4>2
    <3>3. chars[y][c].byte \in {Blank, Junk}
      BY <3>1, <3>2 DEF OnScreen, NothingElse
    <3> QED BY <3>1, <3>3
  <2> QED BY <2>3, <2>4
<1>13. InPlace(chars2, rows, cols, new)
  BY <1>11 DEF InPlace
<1>14. NothingElse(chars2, rows, cols, new)
  BY <1>12 DEF NothingElse
<1>15. col2 = Cursor(new, cols)
  BY <1>2, <1>4, <1>6
<1> QED BY <1>2, <1>13, <1>14, <1>15 DEF OnScreen

-----------------------------------------------------------------------------
(* The two screens *)

AnyCell == [byte : Char \cup {Blank, Junk}, color : Char]
Cells(rows, cols) == [0 .. rows - 1 -> [0 .. cols - 1 -> AnyCell]]

MovedUp(chars, rows, cols, new) ==
    \A r \in 0 .. rows - 1, c \in 0 .. cols - 1 : new[r][c].byte = Base(chars, rows, TRUE, r, c)
PutAt(chars, rows, cols, at, b, new) ==
    \A r \in 0 .. rows - 1, c \in 0 .. cols - 1 :
       new[r][c].byte = IF r = rows - 1 /\ c = at THEN b ELSE chars[r][c].byte

\* A new line moves the cells up.
LEMMA ScrolledCells ==
    ASSUME NEW rows \in Nat \ {0}, NEW cols \in Nat \ {0}, NEW chars \in Cells(rows, cols),
           NEW color \in Char, NEW new, new = Scrolled(chars, rows, cols, color)
    PROVE  new \in Cells(rows, cols) /\ MovedUp(chars, rows, cols, new)
<1>1. Cell(Blank, color) \in AnyCell /\ Cell(Blank, color).byte = Blank
  BY DEF Cell, AnyCell
<1> DEFINE blank == [c \in 0 .. cols - 1 |-> Cell(Blank, color)]
<1>2. blank \in [0 .. cols - 1 -> AnyCell] /\ \A c \in 0 .. cols - 1 : blank[c].byte = Blank
  BY <1>1
<1>3. new = [r \in 0 .. rows - 1 |-> IF r < rows - 1 THEN chars[r + 1] ELSE blank]
  BY Zenon DEF Scrolled
<1> HIDE DEF blank
<1>4. \A r \in 0 .. rows - 1 : r < rows - 1 => chars[r + 1] \in [0 .. cols - 1 -> AnyCell]
  BY DEF Cells
<1>5. new \in Cells(rows, cols)
  BY <1>2, <1>3, <1>4 DEF Cells
<1>6. \A r \in 0 .. rows - 1 : new[r] = IF r < rows - 1 THEN chars[r + 1] ELSE blank
  BY <1>3
<1>7. ASSUME NEW r \in 0 .. rows - 1, NEW c \in 0 .. cols - 1
      PROVE  new[r][c].byte = Base(chars, rows, TRUE, r, c)
  BY <1>2, <1>6 DEF Base
<1> QED BY <1>5, <1>7 DEF MovedUp

\* A character goes into one cell.
LEMMA PutCell ==
    ASSUME NEW rows \in Nat \ {0}, NEW cols \in Nat \ {0}, NEW chars \in Cells(rows, cols),
           NEW at \in 0 .. cols - 1, NEW b \in Char, NEW color \in Char, NEW new,
           new = [chars EXCEPT ![rows - 1][at] = Cell(b, color)]
    PROVE  new \in Cells(rows, cols) /\ PutAt(chars, rows, cols, at, b, new)
<1>1. Cell(b, color) \in AnyCell /\ Cell(b, color).byte = b
  BY DEF Cell, AnyCell
<1> DEFINE x == Cell(b, color)
           l == rows - 1
<1>2. l \in 0 .. l /\ x \in AnyCell /\ x.byte = b /\ chars \in [0 .. l -> [0 .. cols - 1 -> AnyCell]]
      /\ new = [chars EXCEPT ![l] = [chars[l] EXCEPT ![at] = x]]
  BY <1>1 DEF Cells
<1> HIDE DEF x, l
<1> DEFINE row == [chars[l] EXCEPT ![at] = x]
<1>3. /\ row \in [0 .. cols - 1 -> AnyCell]
      /\ \A c \in 0 .. cols - 1 : row[c] = IF c = at THEN x ELSE chars[l][c]
  BY <1>2
<1>4. new = [chars EXCEPT ![l] = row]
  BY <1>2
<1> HIDE DEF row
<1>5. /\ new \in [0 .. l -> [0 .. cols - 1 -> AnyCell]]
      /\ \A r \in 0 .. l : new[r] = IF r = l THEN row ELSE chars[r]
  BY <1>2, <1>3, <1>4
<1>6. \A r \in 0 .. l, c \in 0 .. cols - 1 :
         new[r][c].byte = IF r = l /\ c = at THEN b ELSE chars[r][c].byte
  BY <1>2, <1>3, <1>5
<1> QED BY <1>5, <1>6 DEF l, Cells, PutAt

\* What both screens do with a character.
Written(chars, col, rows, cols, b, color, up, chars2, col2) ==
    IF b = NL THEN chars2 = up /\ col2 = 0
    ELSE LET base == IF col >= cols THEN up ELSE chars
             at   == IF col >= cols THEN 0 ELSE col
         IN  chars2 = [base EXCEPT ![rows - 1][at] = Cell(b, color)] /\ col2 = at + 1

LEMMA WrittenDrawn ==
    ASSUME NEW rows \in Nat \ {0}, NEW cols \in Nat \ {0}, NEW chars \in Cells(rows, cols),
           NEW col \in 0 .. cols, NEW b \in Char, NEW color \in Char, NEW color1 \in Char,
           NEW up, up = Scrolled(chars, rows, cols, color1), NEW chars2, NEW col2,
           Written(chars, col, rows, cols, b, color, up, chars2, col2)
    PROVE  /\ Drawn(chars, col, rows, cols, b, chars2, col2)
           /\ chars2 \in Cells(rows, cols) /\ col2 \in 0 .. cols
<1>1. up \in Cells(rows, cols)
  BY ScrolledCells
<1>2. MovedUp(chars, rows, cols, up)
  BY ScrolledCells
<1>3. CASE b = NL
  <2>1. chars2 = up /\ col2 = 0
    BY <1>3 DEF Written
  <2>2. Drawn(chars, col, rows, cols, b, chars2, col2)
    BY <1>2, <1>3, <2>1 DEF Drawn, Base, MovedUp
  <2> QED BY <1>1, <2>1, <2>2
<1>4. CASE b # NL
  <2> DEFINE broken == col >= cols
             base == IF broken THEN up ELSE chars
             at == IF broken THEN 0 ELSE col
  <2>1. chars2 = [base EXCEPT ![rows - 1][at] = Cell(b, color)] /\ col2 = at + 1
    BY <1>4 DEF Written
  <2>2. at \in 0 .. cols - 1 /\ base \in Cells(rows, cols)
    BY <1>1
  <2>3. \A r \in 0 .. rows - 1, c \in 0 .. cols - 1 :
           base[r][c].byte = Base(chars, rows, broken, r, c)
    BY <1>2 DEF Base, MovedUp
  <2> HIDE DEF base
  <2>4. chars2 \in Cells(rows, cols) /\ PutAt(base, rows, cols, at, b, chars2)
    <3> HIDE DEF at
    <3> QED BY <2>1, <2>2, PutCell
  <2>5. Drawn(chars, col, rows, cols, b, chars2, col2)
    BY <1>4, <2>1, <2>3, <2>4 DEF Drawn, Base, PutAt
  <2> QED BY <2>1, <2>2, <2>4, <2>5
<1> QED BY <1>3, <1>4

\* The VGA screen takes a character as a screen does.
LEMMA VgaDrawn ==
    ASSUME NEW v \in [chars : Cells(BUFFER_HEIGHT, BUFFER_WIDTH), col : 0 .. BUFFER_WIDTH],
           NEW b \in Char, color_code \in Char
    PROVE  Drawn(v.chars, v.col, BUFFER_HEIGHT, BUFFER_WIDTH, b,
                 VgaWrite(v, b).chars, VgaWrite(v, b).col)
<1> DEFINE rows == BUFFER_HEIGHT
           cols == BUFFER_WIDTH
           color == color_code
           up == Scrolled(v.chars, rows, cols, color)
           new == VgaWrite(v, b)
<1>1. rows \in Nat \ {0} /\ cols \in Nat \ {0} /\ v.chars \in Cells(rows, cols)
      /\ v.col \in 0 .. cols /\ color \in Char
  BY ConsoleAssumption
<1>2. new_line(v) = [chars |-> up, col |-> 0]
  BY DEF new_line
<1>3. ASSUME b = NL PROVE Written(v.chars, v.col, rows, cols, b, color, up, new.chars, new.col)
  <2>1. new.chars = up /\ new.col = 0
    BY <1>2, <1>3 DEF VgaWrite
  <2> QED BY <1>3, <2>1 DEF Written
<1>4. ASSUME b # NL PROVE Written(v.chars, v.col, rows, cols, b, color, up, new.chars, new.col)
  <2> DEFINE w == IF v.col >= cols THEN new_line(v) ELSE v
  <2>1. /\ w.chars = IF v.col >= cols THEN up ELSE v.chars
        /\ w.col = IF v.col >= cols THEN 0 ELSE v.col
    BY <1>2
  <2>2. new.chars = [w.chars EXCEPT ![rows - 1][w.col] = Cell(b, color)] /\ new.col = w.col + 1
    BY <1>4 DEF VgaWrite
  <2> HIDE DEF w, new, up
  <2> QED BY <1>4, <2>1, <2>2 DEF Written
<1> DEFINE old == v.chars
           c1 == v.col
           c2 == new.col
           chars2 == new.chars
<1>5. Written(old, c1, rows, cols, b, color, up, chars2, c2) /\ up = Scrolled(old, rows, cols, color)
      /\ old \in Cells(rows, cols) /\ c1 \in 0 .. cols
  BY <1>1, <1>3, <1>4
<1> HIDE DEF old, c1, c2, chars2, new, up, rows, cols, color
<1>6. Drawn(old, c1, rows, cols, b, chars2, c2)
  BY <1>1, <1>5, WrittenDrawn
<1> QED BY <1>6 DEF old, c1, c2, chars2, new, rows, cols

\* A screen of the firmware's text shows nothing of the kernel's.
EmptyCells(chars, rows, cols) ==
    \A r \in 0 .. rows - 1, c \in 0 .. cols - 1 : chars[r][c].byte \in {Blank, Junk}
LEMMA EmptyScreen ==
    ASSUME NEW rows \in Nat \ {0}, NEW cols \in Nat \ {0}, NEW chars,
           EmptyCells(chars, rows, cols)
    PROVE  OnScreen(chars, 0, rows, cols, <<>>)
<1>1. Len(<<>>) = 0 /\ 1 .. 0 = {}
  OBVIOUS
<1>2. Behind(<<>>, cols) /\ Cursor(<<>>, cols) = 0
  BY <1>1 DEF Behind, Cursor
<1>3. InPlace(chars, rows, cols, <<>>)
  BY <1>1 DEF InPlace, Visible
<1>4. NothingElse(chars, rows, cols, <<>>)
  BY DEF NothingElse, EmptyCells
<1> QED BY <1>2, <1>3, <1>4 DEF OnScreen

\* One more character.
LEMMA LongerText ==
    ASSUME NEW text \in Seq(Char), NEW b \in Char
    PROVE  Longer(text, b, Append(text, b)) /\ Append(text, b) \in Seq(Char)
  BY DEF Longer

VgaTextInv ==
    /\ output \in Seq(Char)
    /\ OnScreen(vga.chars, vga.col, BUFFER_HEIGHT, BUFFER_WIDTH, output)

\* A character of duck_write keeps the VGA screen in step with the output.
LEMMA VgaStep ==
    ASSUME QueueTypes, ColourInv, VgaInv, VgaTextInv, write_byte
    PROVE  VgaTextInv'
<1> DEFINE b == Head(toScreen)
           text == output
           new == output'
           chars == vga.chars
           col == vga.col
           chars2 == vga'.chars
           col2 == vga'.col
           rows == BUFFER_HEIGHT
           cols == BUFFER_WIDTH
<1>1. b \in Char
  <2>1. toScreen \in Seq(Char) /\ toScreen # <<>>
    BY DEF write_byte, QueueTypes
  <2> QED BY <2>1
<1>2. color_code \in Char
  BY ConsoleAssumption DEF ColourInv
<1>3. vga \in [chars : Cells(BUFFER_HEIGHT, BUFFER_WIDTH), col : 0 .. BUFFER_WIDTH]
  <2>1. Coloured \subseteq AnyCell
    BY DEF Coloured, AnyCell
  <2>2. Coloured \subseteq AnyCell =>
           [0 .. BUFFER_HEIGHT - 1 -> [0 .. BUFFER_WIDTH - 1 -> Coloured]]
              \subseteq Cells(BUFFER_HEIGHT, BUFFER_WIDTH)
    BY DEF Cells
  <2> QED BY <2>1, <2>2 DEF VgaInv
<1>4. vga' = VgaWrite(vga, b) /\ new = Append(text, b)
  BY DEF write_byte
<1>5. Drawn(chars, col, rows, cols, b, chars2, col2)
  <2> HIDE DEF b
  <2> QED BY <1>1, <1>2, <1>3, <1>4, VgaDrawn
<1>6. Longer(text, b, new) /\ new \in Seq(Char)
  <2>1. text \in Seq(Char)
    BY DEF VgaTextInv
  <2> HIDE DEF b, text, new
  <2> QED BY <1>1, <1>4, <2>1, LongerText
<1>7. OnScreen(chars, col, rows, cols, text)
  BY DEF VgaTextInv
<1>8. rows \in Nat \ {0} /\ cols \in Nat \ {0}
  BY ConsoleAssumption
<1> HIDE DEF b, text, new, chars, col, chars2, col2, rows, cols
<1>9. OnScreen(chars2, col2, rows, cols, new)
  BY <1>5, <1>6, <1>7, <1>8, DrawnShows
<1> QED BY <1>6, <1>9 DEF VgaTextInv, new, chars2, col2, rows, cols

\* The VGA screen shows the last lines of everything that was printed, for
\* every size of the screen and every text: line breaks, full lines and
\* scrolling of write_byte lose, repeat and misplace nothing.
THEOREM VgaShows == Spec => []VgaShowsOutput
<1>1. Init => VgaTextInv
  <2> SUFFICES ASSUME Init PROVE VgaTextInv
    OBVIOUS
  <2> DEFINE chars == vga.chars
             rows == BUFFER_HEIGHT
             cols == BUFFER_WIDTH
  <2>1. vga.col = 0 /\ output = <<>> /\ chars = Screen(rows, cols, Cell(Junk, Plain))
    BY DEF Init
  <2>2. Cell(Junk, Plain).byte = Junk
    BY DEF Cell
  <2>3. \A r \in 0 .. rows - 1, c \in 0 .. cols - 1 : chars[r][c] = Cell(Junk, Plain)
    BY <2>1 DEF Screen
  <2>4. EmptyCells(chars, rows, cols)
    BY <2>2, <2>3 DEF EmptyCells
  <2>5. rows \in Nat \ {0} /\ cols \in Nat \ {0}
    BY ConsoleAssumption
  <2> HIDE DEF chars, rows, cols
  <2>6. OnScreen(chars, 0, rows, cols, <<>>)
    BY <2>4, <2>5, EmptyScreen
  <2>7. <<>> \in Seq(Char)
    OBVIOUS
  <2> QED BY <2>1, <2>6, <2>7 DEF VgaTextInv, chars, rows, cols
<1>2. QueueTypes /\ ColourInv /\ VgaInv /\ VgaTextInv /\ [Next]_vars => VgaTextInv'
  <2> SUFFICES ASSUME QueueTypes, ColourInv, VgaInv, VgaTextInv, [Next]_vars PROVE VgaTextInv'
    OBVIOUS
  <2>1. CASE write_byte
    BY <2>1, VgaStep
  <2>2. CASE UNCHANGED <<vga, output>>
    BY <2>2 DEF VgaTextInv
  <2> QED
    BY <2>1, <2>2 DEF Next, vars, screenVars, LogPut, PrintPlain, TimedLogger, PrintMessage,
       Close, CloseEnd, set_log_level, FrameBufferInit
<1>3. VgaTextInv => VgaShowsOutput
  <2> SUFFICES ASSUME VgaTextInv PROVE VgaShowsOutput
    OBVIOUS
  <2> DEFINE chars == vga.chars
             text == output
             rows == BUFFER_HEIGHT
             cols == BUFFER_WIDTH
  <2>1. InPlace(chars, rows, cols, text) /\ NothingElse(chars, rows, cols, text)
    BY DEF VgaTextInv, OnScreen
  <2> HIDE DEF chars, text, rows, cols
  <2>2. Shows(chars, rows, cols, text)
    BY <2>1, ShowsIs
  <2> QED BY <2>2 DEF VgaShowsOutput, chars, text, rows, cols
<1> QED
  BY <1>1, <1>2, <1>3, Queues, Colours, Cellwise, PTL DEF Spec

-----------------------------------------------------------------------------
(* The frame buffer.                                                       *)

Frames == [chars : Cells(N_ROWS, N_COLS), col : 0 .. N_COLS, color : Char]

\* The frame buffer takes a character as a screen does.
LEMMA FbDrawn ==
    ASSUME NEW f \in Frames, NEW b \in Char, NEW color \in Char, NEW new, new = FbWrite(f, b, color)
    PROVE  /\ Drawn(f.chars, f.col, N_ROWS, N_COLS, b, new.chars, new.col)
           /\ new \in Frames
<1> DEFINE rows == N_ROWS
           cols == N_COLS
           old == f.chars
           c1 == f.col
           color1 == IF b = NL THEN color ELSE f.color
           up == Scrolled(old, rows, cols, color1)
           chars2 == new.chars
           c2 == new.col
<1>1. rows \in Nat \ {0} /\ cols \in Nat \ {0} /\ old \in Cells(rows, cols)
      /\ c1 \in 0 .. cols /\ color1 \in Char
  BY ConsoleAssumption DEF Frames
<1>2. f = [chars |-> old, col |-> c1, color |-> f.color]
  BY DEF Frames
<1>3. ASSUME b = NL
      PROVE  Written(old, c1, rows, cols, b, color, up, chars2, c2)
             /\ new = [chars |-> chars2, col |-> c2, color |-> color]
  <2> DEFINE f1 == [f EXCEPT !.color = color]
  <2>0. f1 = [chars |-> old, col |-> c1, color |-> color]
    BY <1>2
  <2>a. draw_new_line(f1) = [f1 EXCEPT !.chars = Scrolled(old, rows, cols, color), !.col = 0]
    BY <2>0 DEF draw_new_line
  <2>b. new = draw_new_line(f1) /\ color1 = color
    BY <1>3 DEF FbWrite
  <2> HIDE DEF f1
  <2>1. new = [chars |-> up, col |-> 0, color |-> color]
    BY <2>0, <2>a, <2>b
  <2>2. chars2 = up /\ c2 = 0
    BY <2>1
  <2> QED BY <1>3, <2>1, <2>2 DEF Written
<1>4. ASSUME b # NL
      PROVE  Written(old, c1, rows, cols, b, color, up, chars2, c2)
             /\ new = [chars |-> chars2, col |-> c2, color |-> color]
  <2> DEFINE g == IF c1 >= cols THEN draw_new_line(f) ELSE f
             base == IF c1 >= cols THEN up ELSE old
             at == IF c1 >= cols THEN 0 ELSE c1
  <2>1. draw_new_line(f) = [chars |-> up, col |-> 0, color |-> f.color]
    <3>1. draw_new_line(f) = [f EXCEPT !.chars = Scrolled(old, rows, cols, f.color), !.col = 0]
      BY <1>2 DEF draw_new_line
    <3>2. color1 = f.color
      BY <1>4
    <3> HIDE DEF old, c1, rows, cols, color1
    <3> QED BY <1>2, <3>1, <3>2
  <2>2. g.chars = base /\ g.col = at
    BY <2>1
  <2>3. new = [chars |-> [g.chars EXCEPT ![rows - 1][g.col] = Cell(b, color)],
               col |-> g.col + 1, color |-> color]
    BY <1>4 DEF FbWrite
  <2> HIDE DEF g, up
  <2>4. chars2 = [base EXCEPT ![rows - 1][at] = Cell(b, color)] /\ c2 = at + 1
        /\ new = [chars |-> chars2, col |-> c2, color |-> color]
    BY <2>2, <2>3
  <2> QED BY <1>4, <2>4 DEF Written
<1>5. up = Scrolled(old, rows, cols, color1)
  OBVIOUS
<1> HIDE DEF old, c1, c2, chars2, up, rows, cols, color1
<1>6. Drawn(old, c1, rows, cols, b, chars2, c2) /\ chars2 \in Cells(rows, cols) /\ c2 \in 0 .. cols
  BY <1>1, <1>3, <1>4, <1>5, WrittenDrawn
<1>7. new \in Frames
  BY <1>3, <1>4, <1>6 DEF Frames, rows, cols
<1> QED BY <1>6, <1>7 DEF old, c1, c2, chars2, rows, cols

\* The body of FbWriteAll.
WriteBody(f, text, color, w, n) == IF n = 0 THEN f ELSE FbWrite(w[n - 1], text[n], color)

\* The loop of FrameBuffer::init, character by character.
LEMMA WriteAllSteps ==
    ASSUME NEW f \in Frames, NEW text \in Seq(Char), NEW color \in Char
    PROVE  \E w : /\ w[0] = f /\ FbWriteAll(f, text, color) = w[Len(text)]
                  /\ \A k \in 1 .. Len(text) :
                        w[k - 1] \in Frames => w[k] = FbWrite(w[k - 1], text[k], color)
<1> DEFINE N == Len(text)
           F == [p \in (1 .. N) \X Frames |-> FbWrite(p[2], text[p[1]], color)]
           K == CHOOSE g : g = [n \in 0 .. N |-> WriteBody(f, text, color, g, n)]
<1>1. N \in Nat /\ \A k \in 1 .. N : text[k] \in Char
  OBVIOUS
<1>2. \A k \in 1 .. N, p \in Frames : F[<<k, p>>] = FbWrite(p, text[k], color)
  <2> TAKE k \in 1 .. N, p \in Frames
  <2>1. <<k, p>> \in (1 .. N) \X Frames /\ <<k, p>>[2] = p /\ <<k, p>>[1] = k
    OBVIOUS
  <2>2. F[<<k, p>>] = FbWrite(<<k, p>>[2], text[<<k, p>>[1]], color)
    BY <2>1, Zenon
  <2> QED BY <2>1, <2>2, Zenon
<1>3. Loop(N, Frames, F)
  <2>1. \A p \in (1 .. N) \X Frames : p[2] \in Frames /\ text[p[1]] \in Char
    BY <1>1
  <2>2. \A p \in (1 .. N) \X Frames : FbWrite(p[2], text[p[1]], color) \in Frames
    BY <2>1, FbDrawn
  <2> QED BY <2>2 DEF Loop
<1> HIDE DEF F, N
<1>4. PICK h \in [0 .. N -> Frames] : h[0] = f /\ \A k \in 1 .. N : h[k] = F[<<k, h[k - 1]>>]
  BY <1>1, <1>3, Iterated
<1>5. \A k \in 1 .. N : h[k - 1] \in Frames
  BY <1>1
<1>6. \A k \in 1 .. N : h[k] = FbWrite(h[k - 1], text[k], color)
  BY <1>2, <1>4, <1>5
<1>7. h = [n \in 0 .. N |-> WriteBody(f, text, color, h, n)]
  <2>1. ASSUME NEW k \in 0 .. N PROVE h[k] = WriteBody(f, text, color, h, k)
    <3>1. CASE k = 0
      BY <1>4, <3>1 DEF WriteBody
    <3>2. CASE k # 0
      <4>1. k \in 1 .. N
        BY <1>1, <3>2
      <4> QED BY <1>6, <3>2, <4>1, Zenon DEF WriteBody
    <3> QED BY <3>1, <3>2
  <2> QED BY <2>1
<1>8. K = [n \in 0 .. N |-> WriteBody(f, text, color, K, n)]
  BY <1>7, Zenon
<1>9. FbWriteAll(f, text, color) = K[N]
  BY Zenon DEF FbWriteAll, WriteBody, N
<1> HIDE DEF K
<1>10. K[0] = f /\ \A k \in 1 .. N : K[k] = FbWrite(K[k - 1], text[k], color)
  <2>1. \A k \in 0 .. N : K[k] = WriteBody(f, text, color, K, k)
    BY <1>8, Zenon
  <2>2. 0 \in 0 .. N /\ \A k \in 1 .. N : k \in 0 .. N /\ k # 0
    BY <1>1
  <2> QED BY <2>1, <2>2, Zenon DEF WriteBody
<1> QED BY <1>9, <1>10 DEF N

\* The first k characters of a text.
Beginning(text, k) == [i \in 1 .. k |-> text[i]]

\* An empty screen on which a text is written shows the text.
LEMMA WriteAllShows ==
    ASSUME NEW f \in Frames, OnScreen(f.chars, f.col, N_ROWS, N_COLS, <<>>),
           NEW text \in Seq(Char), NEW color \in Char, NEW new, new = FbWriteAll(f, text, color)
    PROVE  new \in Frames /\ OnScreen(new.chars, new.col, N_ROWS, N_COLS, text)
<1> DEFINE N == Len(text)
<1>1. PICK w : /\ w[0] = f /\ new = w[N]
               /\ \A k \in 1 .. N :
                     w[k - 1] \in Frames => w[k] = FbWrite(w[k - 1], text[k], color)
  BY WriteAllSteps
<1> DEFINE Good(k) == w[k] \in Frames
                      /\ OnScreen(w[k].chars, w[k].col, N_ROWS, N_COLS, Beginning(text, k))
           T == {k \in 0 .. N : Good(k)}
<1>2. N \in Nat /\ Beginning(text, 0) = <<>> /\ Beginning(text, N) = text
  BY DEF Beginning
<1>3. 0 \in T
  <2>1. 0 \in 0 .. N /\ Good(0)
    BY <1>1, <1>2
  <2> QED BY <2>1
<1>4. ASSUME NEW i \in 1 .. N, i - 1 \in T PROVE i \in T
  <2> DEFINE old == Beginning(text, i - 1)
             now == Beginning(text, i)
             a == w[i - 1]
             b == text[i]
             c == w[i]
  <2>1. a \in Frames /\ OnScreen(a.chars, a.col, N_ROWS, N_COLS, old)
    BY <1>4
  <2>2. b \in Char /\ c = FbWrite(a, b, color)
    BY <1>1, <2>1
  <2>3. Longer(old, b, now)
    <3>1. i - 1 \in Nat /\ (i - 1) + 1 = i
      BY <1>2
    <3>2. Len(old) = i - 1 /\ Len(now) = i
      BY <3>1 DEF Beginning
    <3>3. now[i] = b /\ \A k \in 1 .. i - 1 : now[k] = old[k]
      BY <3>1 DEF Beginning
    <3> HIDE DEF old, now, b
    <3> QED BY <3>1, <3>2, <3>3 DEF Longer
  <2> HIDE DEF old, now, a, b, c
  <2>4. Drawn(a.chars, a.col, N_ROWS, N_COLS, b, c.chars, c.col) /\ c \in Frames
    BY <2>1, <2>2, FbDrawn
  <2>5. N_ROWS \in Nat \ {0} /\ N_COLS \in Nat \ {0}
    BY ConsoleAssumption
  <2> DEFINE x == c.chars
             y == c.col
             u == a.chars
             v == a.col
  <2>6. Drawn(u, v, N_ROWS, N_COLS, b, x, y) /\ OnScreen(u, v, N_ROWS, N_COLS, old)
    BY <2>1, <2>4
  <2> HIDE DEF x, y, u, v
  <2>7. OnScreen(x, y, N_ROWS, N_COLS, now)
    BY <2>3, <2>5, <2>6, DrawnShows
  <2> QED BY <2>4, <2>7 DEF x, y, c, now
<1> HIDE DEF T, N
<1>5. \A i \in 1 .. N : i - 1 \in T => i \in T
  BY <1>4
<1>6. \A i \in 0 .. N : i \in T
  BY <1>2, <1>3, <1>5, Steps
<1>7. N \in T
  BY <1>2, <1>6
<1> QED BY <1>1, <1>2, <1>7 DEF T

-----------------------------------------------------------------------------
(* Replaying the log.                                                      *)

\* The body of ReplayedLog.
ReadBody(r, n) == IF n = 0 THEN <<>> ELSE r[n - 1] \o get(Len(r[n - 1]), REPLAY_LEN)

\* A piece of the log from place l on, of the length that is left or asked for.
Piece(l, piece) ==
    /\ piece \in Seq(Char)
    /\ Len(piece) = IF REPLAY_LEN > Kept - l THEN Kept - l ELSE REPLAY_LEN
    /\ \A i \in 1 .. Len(piece) : piece[i] = KeptChar(l + i)

\* SysLog::get of the replay.
LEMMA ReadPiece ==
    ASSUME LogInv, NEW l \in Nat
    PROVE  /\ get(l, REPLAY_LEN) \in Seq(Char)
           /\ l <= Kept => Piece(l, get(l, REPLAY_LEN))
<1>1. Kept \in Nat /\ buf_len = Kept /\ REPLAY_LEN \in Nat
  BY LogLength, SysLogAssumption, ConsoleAssumption
<1>2. From(l) = IF l > Kept THEN Kept ELSE l
  BY <1>1 DEF From
<1>3. From(l) \in 0 .. Kept /\ l \in Int
  BY <1>1, <1>2
<1>4. get(l, REPLAY_LEN) \in Seq(Char)
  BY <1>1, <1>3, AnswerIs
<1>5. ASSUME l <= Kept PROVE Piece(l, get(l, REPLAY_LEN))
  <2>1. From(l) = l /\ l \in 0 .. Kept
    BY <1>1, <1>2, <1>5
  <2> QED BY <1>1, <1>3, <2>1, AnswerIs DEF Piece
<1> QED BY <1>4, <1>5

\* The loop of FrameBuffer::init over the log, piece by piece.
LEMMA ReplaySteps ==
    ASSUME LogInv
    PROVE  \E r : /\ r[0] = <<>> /\ ReplayedLog = r[MAX_LOG_LEN]
                  /\ \A k \in 1 .. MAX_LOG_LEN :
                        r[k] = r[k - 1] \o get(Len(r[k - 1]), REPLAY_LEN)
<1> DEFINE N == MAX_LOG_LEN
           S == Seq(Char)
           Round(s) == s \o get(Len(s), REPLAY_LEN)
           F == [p \in (1 .. N) \X S |-> Round(p[2])]
           K == CHOOSE g : g = [n \in 0 .. N |-> ReadBody(g, n)]
<1>1. N \in Nat
  BY SysLogAssumption
<1>2. ASSUME NEW i \in 1 .. N, NEW s \in S PROVE Round(s) \in S /\ F[<<i, s>>] = Round(s)
  <2>1. Len(s) \in Nat
    OBVIOUS
  <2>2. get(Len(s), REPLAY_LEN) \in S
    BY <2>1, ReadPiece
  <2>3. Round(s) \in S
    BY <2>2
  <2>4. <<i, s>> \in (1 .. N) \X S /\ <<i, s>>[2] = s
    OBVIOUS
  <2>5. F[<<i, s>>] = Round(<<i, s>>[2])
    BY <2>4, Zenon
  <2> HIDE DEF Round
  <2> QED BY <2>3, <2>4, <2>5, Zenon
<1>3. Loop(N, S, F)
  <2>1. \A p \in (1 .. N) \X S : p[1] \in 1 .. N /\ p[2] \in S
    OBVIOUS
  <2> HIDE DEF Round, S, N
  <2>2. \A p \in (1 .. N) \X S : Round(p[2]) \in S
    BY <1>2, <2>1
  <2> QED BY <2>2 DEF Loop
<1> HIDE DEF F
<1>4. PICK f \in [0 .. N -> S] : f[0] = <<>> /\ \A k \in 1 .. N : f[k] = F[<<k, f[k - 1]>>]
  <2> DEFINE c == << >>
  <2>1. c \in S
    OBVIOUS
  <2> HIDE DEF c, S, N
  <2>2. \E f \in [0 .. N -> S] : f[0] = c /\ \A k \in 1 .. N : f[k] = F[<<k, f[k - 1]>>]
    BY <1>1, <1>3, <2>1, Iterated
  <2> QED BY <2>2 DEF c
<1> HIDE DEF S
<1>5. \A k \in 1 .. N : f[k] = Round(f[k - 1])
  <2> TAKE k \in 1 .. N
  <2>1. f[k - 1] \in S
    BY <1>1
  <2> HIDE DEF Round
  <2> QED BY <1>2, <1>4, <2>1
<1>6. f = [n \in 0 .. N |-> ReadBody(f, n)]
  <2>1. ASSUME NEW k \in 0 .. N PROVE f[k] = ReadBody(f, k)
    <3>1. CASE k = 0
      BY <1>4, <3>1 DEF ReadBody
    <3>2. CASE k # 0
      <4>1. k \in 1 .. N
        BY <1>1, <3>2
      <4> QED BY <1>5, <3>2, <4>1, Zenon DEF ReadBody
    <3> QED BY <3>1, <3>2
  <2> QED BY <2>1
<1>7. K = [n \in 0 .. N |-> ReadBody(K, n)]
  BY <1>6, Zenon
<1>8. ReplayedLog = K[N]
  BY Zenon DEF ReplayedLog, ReadBody
<1> HIDE DEF K
<1>9. K[0] = <<>> /\ \A k \in 1 .. N : K[k] = K[k - 1] \o get(Len(K[k - 1]), REPLAY_LEN)
  <2>1. \A k \in 0 .. N : K[k] = ReadBody(K, k)
    BY <1>7, Zenon
  <2>2. 0 \in 0 .. N /\ \A k \in 1 .. N : k \in 0 .. N /\ k # 0
    BY <1>1
  <2> QED BY <2>1, <2>2, Zenon DEF ReadBody
<1> QED BY <1>8, <1>9

\* s is the beginning of what the log keeps.
ReadSoFar(s) ==
    /\ s \in Seq(Char) /\ Len(s) <= Kept
    /\ \A i \in 1 .. Len(s) : s[i] = KeptChar(i)

\* The replay reads all that the log keeps, once and in order.
LEMMA ReplayIs ==
    ASSUME LogInv
    PROVE  ReadSoFar(ReplayedLog) /\ Len(ReplayedLog) = Kept
<1> DEFINE N == MAX_LOG_LEN
<1>1. N \in Nat /\ Kept \in 0 .. N - 1 /\ REPLAY_LEN \in Nat \ {0}
  BY SysLogAssumption, LogLength, ConsoleAssumption
<1>2. PICK r : /\ r[0] = <<>> /\ ReplayedLog = r[N]
               /\ \A k \in 1 .. N : r[k] = r[k - 1] \o get(Len(r[k - 1]), REPLAY_LEN)
  BY ReplaySteps
<1> DEFINE Good(n) == ReadSoFar(r[n]) /\ (Len(r[n]) >= n \/ Len(r[n]) = Kept)
           T == {n \in 0 .. N : Good(n)}
<1>3. 0 \in T
  <2>1. 0 \in 0 .. N /\ Len(<<>>) = 0 /\ <<>> \in Seq(Char) /\ 1 .. 0 = {}
    BY <1>1
  <2>2. ReadSoFar(<<>>)
    BY <1>1, <2>1 DEF ReadSoFar
  <2>3. Good(0)
    BY <1>2, <2>1, <2>2
  <2> QED BY <2>1, <2>3
<1>4. ASSUME NEW k \in 1 .. N, k - 1 \in T PROVE k \in T
  <2> DEFINE s == r[k - 1]
             l == Len(s)
             t == get(l, REPLAY_LEN)
             new == r[k]
  <2>1. ReadSoFar(s) /\ (l >= k - 1 \/ l = Kept)
    BY <1>4
  <2>2. l \in Nat /\ l <= Kept /\ s \in Seq(Char)
    BY <2>1 DEF ReadSoFar
  <2>3. new = s \o t
    BY <1>2
  <2> HIDE DEF l
  <2>4. Piece(l, t)
    BY <2>2, ReadPiece
  <2> HIDE DEF s, t, new
  <2>5. t \in Seq(Char) /\ Len(t) \in Nat
        /\ Len(t) = IF REPLAY_LEN > Kept - l THEN Kept - l ELSE REPLAY_LEN
    BY <2>4 DEF Piece
  <2>6. new \in Seq(Char) /\ Len(new) = l + Len(t)
    <3>1. l = Len(s)
      BY DEF l
    <3>2. s \o t \in Seq(Char)
      BY <2>2, <2>5
    <3>3. Len(s \o t) = Len(s) + Len(t)
      BY <2>2, <2>5
    <3> QED BY <2>3, <3>1, <3>2, <3>3
  <2>7. ASSUME NEW i \in 1 .. Len(new) PROVE new[i] = KeptChar(i)
    <3>1. CASE i <= l
      <4>1. i \in 1 .. Len(s) /\ new[i] = s[i]
        BY <2>2, <2>3, <2>5, <2>6, <3>1 DEF l
      <4> QED BY <2>1, <4>1 DEF ReadSoFar
    <3>2. CASE i > l
      <4>1. i - l \in 1 .. Len(t) /\ new[i] = t[i - l] /\ l + (i - l) = i
        BY <2>2, <2>3, <2>5, <2>6, <3>2 DEF l
      <4> DEFINE d == i - l
      <4>2. t[d] = KeptChar(l + d)
        BY <2>4, <4>1 DEF Piece
      <4>3. KeptChar(l + d) = KeptChar(i)
        BY <4>1
      <4> QED BY <4>1, <4>2, <4>3
    <3> QED BY <2>2, <2>6, <3>1, <3>2
  <2>8. Len(new) <= Kept /\ (Len(new) >= k \/ Len(new) = Kept)
    BY <1>1, <2>1, <2>2, <2>5, <2>6
  <2>9. ReadSoFar(new)
    BY <2>6, <2>7, <2>8 DEF ReadSoFar
  <2> QED BY <2>8, <2>9 DEF new
<1>5. \A k \in 1 .. N : k - 1 \in T => k \in T
  BY <1>4
<1> HIDE DEF T
<1>6. \A k \in 0 .. N : k \in T
  BY <1>1, <1>3, <1>5, Steps
<1>7. Good(N)
  BY <1>1, <1>6 DEF T
<1>8. ReadSoFar(r[N]) /\ Len(r[N]) = Kept
  BY <1>1, <1>7 DEF ReadSoFar
<1> QED BY <1>2, <1>8

-----------------------------------------------------------------------------
(* The screens and the log get the same characters.                        *)

\* Two texts after one another.
Joins(s, t, m, n, v) ==
    /\ v \in Seq(Char) /\ Len(v) = m + n
    /\ \A i \in 1 .. m + n : v[i] = IF i <= m THEN s[i] ELSE t[i - m]
LEMMA JoinedTexts ==
    ASSUME NEW S, NEW s \in Seq(S), NEW t \in Seq(S)
    PROVE  /\ s \o t \in Seq(S) /\ Len(s \o t) = Len(s) + Len(t)
           /\ \A i \in 1 .. Len(s) + Len(t) :
                 (s \o t)[i] = IF i <= Len(s) THEN s[i] ELSE t[i - Len(s)]
  OBVIOUS

\* Two texts with the same characters.
LEMMA SameTexts ==
    ASSUME NEW S, NEW s \in Seq(S), NEW t \in Seq(S), Len(s) = Len(t),
           \A i \in 1 .. Len(s) : s[i] = t[i]
    PROVE  s = t
  OBVIOUS

LEMMA Joined ==
    ASSUME NEW s \in Seq(Char), NEW t \in Seq(Char), NEW m, NEW n, Len(s) = m, Len(t) = n,
           NEW v, v = s \o t
    PROVE  Joins(s, t, m, n, v)
<1>1. Joins(s, t, Len(s), Len(t), s \o t)
  BY JoinedTexts, Zenon DEF Joins
<1> QED BY <1>1

\* The next character moves from what has to be written to what is written.
LEMMA MoveHead ==
    ASSUME NEW s \in Seq(Char), NEW t \in Seq(Char), t # <<>>
    PROVE  Append(s, Head(t)) \o Tail(t) = s \o t
<1> DEFINE a == Append(s, Head(t))
           r == Tail(t)
           u == a \o r
           v == s \o t
           m == Len(s)
           n == Len(t)
<1>1. /\ n \in Nat \ {0} /\ m \in Nat /\ Head(t) = t[1] /\ t[1] \in Char
      /\ r \in Seq(Char) /\ Len(r) = n - 1
      /\ \A i \in 1 .. n - 1 : r[i] = t[i + 1]
  OBVIOUS
<1>2. a \in Seq(Char) /\ Len(a) = m + 1 /\ a[m + 1] = t[1]
      /\ \A i \in 1 .. m : a[i] = s[i]
  BY <1>1
<1> HIDE DEF a, r
<1>3. (m + 1) + (n - 1) = m + n
  BY <1>1
<1>4. Joins(s, t, m, n, v)
  BY Joined
<1>5. Joins(a, r, m + 1, n - 1, u)
  <2>1. u = a \o r
    OBVIOUS
  <2> HIDE DEF m, n, u
  <2> QED BY <1>1, <1>2, <2>1, Joined
<1> HIDE DEF u, v, m, n
<1>6. ASSUME NEW i \in 1 .. m + n PROVE u[i] = v[i]
  <2>0. u[i] = IF i <= m + 1 THEN a[i] ELSE r[i - (m + 1)]
    BY <1>3, <1>5 DEF Joins
  <2>1. CASE i <= m
    <3>1. i \in 1 .. m /\ i <= m + 1
      BY <1>1, <2>1
    <3> QED BY <1>2, <1>4, <2>0, <2>1, <3>1 DEF Joins
  <2>2. CASE i = m + 1
    <3>1. ~(i <= m) /\ i - m = 1 /\ i <= m + 1
      BY <1>1, <2>2
    <3> QED BY <1>2, <1>4, <2>0, <2>2, <3>1 DEF Joins
  <2>3. CASE i > m + 1
    <3> DEFINE d == i - (m + 1)
    <3>1. d \in 1 .. n - 1 /\ d + 1 = i - m /\ ~(i <= m) /\ ~(i <= m + 1)
      BY <1>1, <2>3
    <3>2. u[i] = r[d] /\ v[i] = t[i - m]
      BY <1>4, <2>0, <3>1 DEF Joins
    <3> HIDE DEF d
    <3>3. r[d] = t[d + 1]
      BY <1>1, <3>1
    <3> QED BY <3>1, <3>2, <3>3
  <2> QED BY <1>1, <2>1, <2>2, <2>3
<1>7. u = v
  <2>1. u \in Seq(Char) /\ v \in Seq(Char) /\ Len(u) = Len(v) /\ Len(u) = m + n
    BY <1>3, <1>4, <1>5 DEF Joins
  <2>2. \A i \in 1 .. Len(u) : u[i] = v[i]
    BY <1>6, <2>1
  <2> QED BY <2>1, <2>2, SameTexts, Zenon
<1> QED BY <1>7 DEF u, v, a, r

StreamInv ==
    /\ output \in Seq(Char) /\ logged \in Seq(Char)
    /\ output \o toScreen = logged \o toLog

\* duck_write gives the screens and the log the same text.
LEMMA SameText ==
    ASSUME QueueTypes, StreamInv, ~Writing, NEW s, duck_write(s), UNCHANGED <<output, logged>>
    PROVE  StreamInv'
<1>1. toScreen = <<>> /\ toLog = <<>> /\ toScreen' = s /\ toLog' = s
  BY DEF Writing, duck_write
<1>2. output = logged
  BY <1>1 DEF StreamInv
<1> QED BY <1>1, <1>2 DEF StreamInv

LEMMA SamePut ==
    ASSUME QueueTypes, StreamInv, ~Writing, NEW c, stdout_put(c), UNCHANGED <<output, logged>>
    PROVE  StreamInv'
<1>1. CASE c = NL \/ Len(stdout) = BUFSIZ
  <2>1. duck_write(Append(stdout, c))
    BY <1>1 DEF stdout_put
  <2> QED BY <2>1, SameText
<1>2. CASE ~(c = NL \/ Len(stdout) = BUFSIZ)
  BY <1>2 DEF stdout_put, StreamInv
<1> QED BY <1>1, <1>2

\* Between two calls of duck_write the log has got what the screens have.
LEMMA Streams == Spec => []StreamInv
<1>1. Init => StreamInv
  BY DEF Init, LogInit, StreamInv
<1>2. QueueTypes /\ StreamInv /\ [Next]_vars => StreamInv'
  <2> SUFFICES ASSUME QueueTypes, StreamInv, [Next]_vars PROVE StreamInv'
    OBVIOUS
  <2>0. toScreen \in Seq(Char) /\ toLog \in Seq(Char) /\ output \in Seq(Char) /\ logged \in Seq(Char)
    BY DEF QueueTypes, StreamInv
  <2>1. CASE write_byte
    <3>1. /\ toScreen # <<>> /\ output' = Append(output, Head(toScreen)) /\ toScreen' = Tail(toScreen)
          /\ toLog' = toLog /\ logged' = logged
      BY <2>1 DEF write_byte, logVars
    <3>2. output' \in Seq(Char)
      BY <2>0, <3>1
    <3> DEFINE s == output
               t == toScreen
    <3>3. s \in Seq(Char) /\ t \in Seq(Char) /\ t # <<>>
      BY <2>0, <3>1
    <3> HIDE DEF s, t
    <3>4. Append(s, Head(t)) \o Tail(t) = s \o t
      BY <3>3, MoveHead
    <3> QED BY <3>1, <3>2, <3>4 DEF StreamInv, s, t
  <2>2. CASE LogPut
    <3>1. /\ toLog # <<>> /\ logged' = Append(logged, Head(toLog)) /\ toLog' = Tail(toLog)
          /\ toScreen' = toScreen /\ output' = output
      BY <2>2 DEF LogPut, putchar, screenVars
    <3>2. logged' \in Seq(Char)
      BY <2>0, <3>1
    <3> DEFINE s == logged
               t == toLog
    <3>3. s \in Seq(Char) /\ t \in Seq(Char) /\ t # <<>>
      BY <2>0, <3>1
    <3> HIDE DEF s, t
    <3>4. Append(s, Head(t)) \o Tail(t) = s \o t
      BY <3>3, MoveHead
    <3> QED BY <3>1, <3>2, <3>4 DEF StreamInv, s, t
  <2>3. ASSUME NEW c, PrintPlain(c) PROVE StreamInv'
    BY <2>3, SamePut DEF PrintPlain, MayPrint, screenVars, logVars
  <2>4. ASSUME NEW level, TimedLogger(level) PROVE StreamInv'
    BY <2>4 DEF TimedLogger, screenVars, logVars, StreamInv
  <2>5. ASSUME NEW c, PrintMessage(c) PROVE StreamInv'
    BY <2>5, SamePut DEF PrintMessage, MayPrint, screenVars, logVars
  <2>6. CASE Close
    <3> DEFINE s == stdout
    <3>1. ~Writing /\ duck_write(s) /\ UNCHANGED <<output, logged>>
      BY <2>6 DEF Close, screenVars, logVars
    <3> QED BY <3>1 DEF StreamInv, duck_write, Writing
  <2>7. CASE CloseEnd
    BY <2>7, SamePut DEF CloseEnd, screenVars, logVars
  <2>8. ASSUME NEW level, set_log_level(level) PROVE StreamInv'
    BY <2>8 DEF set_log_level, screenVars, logVars, StreamInv
  <2>9. CASE FrameBufferInit
    BY <2>9 DEF FrameBufferInit, logVars, StreamInv
  <2>10. CASE UNCHANGED vars
    BY <2>10 DEF vars, logVars, StreamInv
  <2> QED
    BY <2>1, <2>2, <2>3, <2>4, <2>5, <2>6, <2>7, <2>8, <2>9, <2>10 DEF Next
<1> QED
  BY <1>1, <1>2, Queues, PTL DEF Spec

-----------------------------------------------------------------------------
(* What the frame buffer shows.                                            *)

\* The characters of a text after the first n.
Since(text, n) == SubSeq(text, n + 1, Len(text))

LEMMA SinceIs ==
    ASSUME NEW text \in Seq(Char), NEW n \in 0 .. Len(text)
    PROVE  /\ Since(text, n) \in Seq(Char) /\ Len(Since(text, n)) = Len(text) - n
           /\ \A i \in 1 .. Len(text) - n : Since(text, n)[i] = text[n + i]
<1>1. Since(text, n) \in Seq(Char)
  BY DEF Since
<1>2. Len(Since(text, n)) = Len(text) - n
  BY DEF Since
<1>3. ASSUME NEW i \in 1 .. Len(text) - n PROVE Since(text, n)[i] = text[n + i]
  BY DEF Since
<1> QED BY <1>1, <1>2, <1>3

\* One more character.
LEMMA LongerSince ==
    ASSUME NEW text \in Seq(Char), NEW n \in 0 .. Len(text), NEW b \in Char
    PROVE  /\ Longer(Since(text, n), b, Since(Append(text, b), n))
           /\ n \in 0 .. Len(Append(text, b))
<1> DEFINE new == Append(text, b)
           l == Len(text)
           x == Since(text, n)
           y == Since(new, n)
<1>1. /\ l \in Nat /\ n \in Nat /\ n <= l
      /\ new \in Seq(Char) /\ Len(new) = l + 1 /\ new[l + 1] = b
      /\ \A i \in 1 .. l : new[i] = text[i]
  OBVIOUS
<1> HIDE DEF new
<1>2. n \in 0 .. Len(new)
  BY <1>1
<1>3. Len(x) = l - n /\ \A i \in 1 .. l - n : x[i] = text[n + i]
  BY SinceIs
<1>4. Len(y) = (l + 1) - n /\ \A i \in 1 .. (l + 1) - n : y[i] = new[n + i]
  BY <1>1, <1>2, SinceIs
<1> HIDE DEF x, y, l
<1>5. Len(x) \in Nat /\ Len(y) = Len(x) + 1
  BY <1>1, <1>3, <1>4
<1>6. y[Len(x) + 1] = b
  <2>1. (l - n) + 1 \in 1 .. (l + 1) - n /\ n + ((l - n) + 1) = l + 1
    BY <1>1
  <2> QED BY <1>1, <1>3, <1>4, <2>1
<1>7. ASSUME NEW i \in 1 .. Len(x) PROVE y[i] = x[i]
  <2>1. i \in 1 .. l - n /\ i \in 1 .. (l + 1) - n /\ n + i \in 1 .. l
    BY <1>1, <1>3
  <2> QED BY <1>1, <1>3, <1>4, <2>1
<1>8. Longer(x, b, y)
  BY <1>5, <1>6, <1>7 DEF Longer
<1> QED BY <1>2, <1>8 DEF x, y, new

FbInv ==
    /\ initialized \in BOOLEAN
    /\ fb \in Frames
    /\ ~initialized => EmptyCells(fb.chars, N_ROWS, N_COLS)
    /\ initialized => /\ lost \in 0 .. Len(output)
                      /\ OnScreen(fb.chars, fb.col, N_ROWS, N_COLS, Since(output, lost))

\* A character of duck_write keeps the frame buffer in step with the output.
LEMMA FbStep ==
    ASSUME QueueTypes, ColourInv, StreamInv, FbInv, write_byte
    PROVE  FbInv'
<1> DEFINE b == Head(toScreen)
           color == color_code
<1>1. b \in Char
  <2>1. toScreen \in Seq(Char) /\ toScreen # <<>>
    BY DEF write_byte, QueueTypes
  <2> QED BY <2>1
<1>2. color \in Char
  BY ConsoleAssumption DEF ColourInv
<1>3. output' = Append(output, b) /\ initialized' = initialized /\ lost' = lost
      /\ fb' = IF initialized THEN FbWrite(fb, b, color) ELSE fb
  BY DEF write_byte
<1>4. CASE ~initialized
  BY <1>3, <1>4 DEF FbInv
<1>5. CASE initialized
  <2> DEFINE f == fb
             g == fb'
             text == output
             n == lost
             x == Since(text, n)
             y == Since(Append(text, b), n)
  <2>1. f \in Frames /\ text \in Seq(Char) /\ n \in 0 .. Len(text)
        /\ OnScreen(f.chars, f.col, N_ROWS, N_COLS, x)
    BY <1>5 DEF FbInv, StreamInv
  <2>2. g = FbWrite(f, b, color)
    BY <1>3, <1>5
  <2> HIDE DEF f, g, text, n, b, color
  <2>3. Longer(x, b, y) /\ n \in 0 .. Len(Append(text, b))
    BY <1>1, <2>1, LongerSince
  <2>4. Drawn(f.chars, f.col, N_ROWS, N_COLS, b, g.chars, g.col) /\ g \in Frames
    BY <1>1, <1>2, <2>1, <2>2, FbDrawn
  <2>5. N_ROWS \in Nat \ {0} /\ N_COLS \in Nat \ {0}
    BY ConsoleAssumption
  <2> DEFINE c1 == f.chars
             c2 == g.chars
             k1 == f.col
             k2 == g.col
  <2>6. Drawn(c1, k1, N_ROWS, N_COLS, b, c2, k2) /\ OnScreen(c1, k1, N_ROWS, N_COLS, x)
    BY <2>1, <2>4
  <2> HIDE DEF c1, c2, k1, k2, x, y
  <2>7. OnScreen(c2, k2, N_ROWS, N_COLS, y)
    BY <2>3, <2>5, <2>6, DrawnShows
  <2> QED BY <1>3, <1>5, <2>3, <2>4, <2>7 DEF FbInv, c2, k2, y, g, text, n
<1> QED BY <1>4, <1>5 DEF FbInv

\* FrameBuffer::init shows what the log keeps, which is the end of the output.
LEMMA FbStart ==
    ASSUME QueueTypes, ColourInv, StreamInv, LogInv, FbInv, FrameBufferInit
    PROVE  FbInv'
<1> DEFINE color == color_code
           f == draw_new_line(fb)
           text == ReplayedLog
           chars == fb.chars
           up == Scrolled(chars, N_ROWS, N_COLS, fb.color)
<1>1. /\ ~initialized /\ initialized' = TRUE /\ toScreen = <<>> /\ toLog = <<>>
      /\ fb' = FbWriteAll(f, text, color) /\ lost' = Len(logged) - buf_len /\ output' = output
  BY DEF FrameBufferInit, Writing
<1>2. color \in Char
  BY ConsoleAssumption DEF ColourInv
<1>3. fb \in Frames /\ EmptyCells(chars, N_ROWS, N_COLS)
  BY <1>1 DEF FbInv
<1>4. chars \in Cells(N_ROWS, N_COLS) /\ fb.color \in Char /\ N_ROWS \in Nat \ {0} /\ N_COLS \in Nat \ {0}
  BY <1>3, ConsoleAssumption DEF Frames
<1>5. f = [fb EXCEPT !.chars = up, !.col = 0]
  BY DEF draw_new_line
<1>6. up \in Cells(N_ROWS, N_COLS) /\ MovedUp(chars, N_ROWS, N_COLS, up)
  <2> DEFINE c == fb.color
  <2>1. up = Scrolled(chars, N_ROWS, N_COLS, c) /\ c \in Char
    BY <1>4
  <2> HIDE DEF c, up, chars
  <2> QED BY <1>4, <2>1, ScrolledCells
<1>7. EmptyCells(up, N_ROWS, N_COLS)
  <2> HIDE DEF up, chars
  <2> SUFFICES ASSUME NEW r \in 0 .. N_ROWS - 1, NEW c \in 0 .. N_COLS - 1
               PROVE  up[r][c].byte \in {Blank, Junk}
    BY DEF EmptyCells
  <2>1. up[r][c].byte = IF r < N_ROWS - 1 THEN chars[r + 1][c].byte ELSE Blank
    BY <1>6 DEF MovedUp, Base
  <2>2. r < N_ROWS - 1 => r + 1 \in 0 .. N_ROWS - 1
    BY <1>4
  <2>3. r < N_ROWS - 1 => chars[r + 1][c].byte \in {Blank, Junk}
    BY <1>3, <2>2 DEF EmptyCells
  <2> QED BY <2>1, <2>3
<1>8. f \in Frames /\ f.chars = up /\ f.col = 0
  <2> HIDE DEF up
  <2>1. 0 \in 0 .. N_COLS
    BY <1>4
  <2> QED BY <1>3, <1>5, <1>6, <2>1 DEF Frames
<1>9. OnScreen(f.chars, f.col, N_ROWS, N_COLS, <<>>)
  <2> HIDE DEF up, f
  <2>1. OnScreen(up, 0, N_ROWS, N_COLS, <<>>)
    BY <1>4, <1>7, EmptyScreen
  <2> QED BY <1>8, <2>1
<1>10. text \in Seq(Char) /\ ReadSoFar(text) /\ Len(text) = Kept
  BY ReplayIs DEF ReadSoFar
<1> DEFINE g == fb'
<1>11. g = FbWriteAll(f, text, color)
  BY <1>1
<1>12. g \in Frames /\ OnScreen(g.chars, g.col, N_ROWS, N_COLS, text)
  <2> HIDE DEF f, g, text, color
  <2> QED BY <1>2, <1>8, <1>9, <1>10, <1>11, WriteAllShows
<1>13. output = logged /\ output \in Seq(Char)
  BY <1>1 DEF StreamInv
<1>14. /\ Kept \in Nat /\ buf_len = Kept /\ Len(logged) \in Nat /\ Len(logged) >= Kept
  BY LogLength, SysLogAssumption
<1>15. lost' = Len(logged) - Kept /\ lost' \in 0 .. Len(output)
  BY <1>1, <1>13, <1>14
<1>16. text = Since(output, lost')
  <2> DEFINE out == output
             n == lost'
             x == Since(out, n)
  <2>1. out \in Seq(Char) /\ n \in 0 .. Len(out) /\ n = Len(out) - Kept
    BY <1>13, <1>15
  <2> HIDE DEF out, n
  <2>2. x \in Seq(Char) /\ Len(x) = Len(out) - n /\ \A i \in 1 .. Len(out) - n : x[i] = out[n + i]
    BY <2>1, SinceIs
  <2>3. Len(x) = Kept
    BY <1>14, <2>1, <2>2
  <2>4. ASSUME NEW i \in 1 .. Len(text) PROVE text[i] = x[i]
    <3>1. text[i] = KeptChar(i)
      BY <1>10 DEF ReadSoFar
    <3>2. KeptChar(i) = out[n + i]
      BY <1>13, <1>15 DEF KeptChar, out, n
    <3>3. i \in 1 .. Len(out) - n
      BY <1>10, <2>2, <2>3
    <3> QED BY <2>2, <3>1, <3>2, <3>3
  <2> HIDE DEF text, x
  <2>5. Len(text) = Len(x)
    BY <1>10, <2>3
  <2>6. text = x
    BY <1>10, <2>2, <2>4, <2>5, SameTexts, Zenon
  <2> QED BY <2>6 DEF x, out, n
<1> HIDE DEF text, f
<1> QED BY <1>1, <1>12, <1>15, <1>16 DEF FbInv, g

\* The frame buffer shows what the log still had when it started and all
\* output since then, for every size of the screen, of the log and of the
\* pieces in which init replays it, and for every moment at which init runs.
THEOREM FrameShows == Spec => []FrameShowsLog
<1>1. Init => FbInv
  <2> SUFFICES ASSUME Init PROVE FbInv
    OBVIOUS
  <2> DEFINE cell == Cell(Junk, Plain)
             chars == Screen(N_ROWS, N_COLS, cell)
  <2>1. cell \in AnyCell /\ cell.byte = Junk
    BY ConsoleAssumption DEF Cell, AnyCell
  <2>2. fb = [chars |-> chars, col |-> 0, color |-> Plain] /\ initialized = FALSE
    BY DEF Init
  <2> HIDE DEF cell
  <2>3. chars \in Cells(N_ROWS, N_COLS) /\ EmptyCells(chars, N_ROWS, N_COLS)
    BY <2>1 DEF Screen, Cells, EmptyCells
  <2>4. 0 \in 0 .. N_COLS /\ Plain \in Char
    BY ConsoleAssumption
  <2> HIDE DEF chars
  <2> QED BY <2>2, <2>3, <2>4 DEF FbInv, Frames
<1>2. QueueTypes /\ ColourInv /\ StreamInv /\ LogInv /\ FbInv /\ [Next]_vars => FbInv'
  <2> SUFFICES ASSUME QueueTypes, ColourInv, StreamInv, LogInv, FbInv, [Next]_vars PROVE FbInv'
    OBVIOUS
  <2>1. CASE write_byte
    BY <2>1, FbStep
  <2>2. CASE FrameBufferInit
    BY <2>2, FbStart
  <2>3. CASE UNCHANGED <<fb, initialized, lost, output>>
    BY <2>3 DEF FbInv
  <2> QED
    BY <2>1, <2>2, <2>3 DEF Next, vars, screenVars, LogPut, PrintPlain, TimedLogger, PrintMessage,
       Close, CloseEnd, set_log_level
<1>3. FbInv => FrameShowsLog
  <2> SUFFICES ASSUME FbInv, initialized
               PROVE  Shows(fb.chars, N_ROWS, N_COLS, SubSeq(output, lost + 1, Len(output)))
    BY DEF FrameShowsLog
  <2> DEFINE chars == fb.chars
             text == Since(output, lost)
  <2>1. InPlace(chars, N_ROWS, N_COLS, text) /\ NothingElse(chars, N_ROWS, N_COLS, text)
    BY DEF FbInv, OnScreen
  <2> HIDE DEF chars, text
  <2>2. Shows(chars, N_ROWS, N_COLS, text)
    BY <2>1, ShowsIs
  <2> QED BY <2>2 DEF chars, text, Since
<1> QED
  BY <1>1, <1>2, <1>3, Queues, Colours, Streams, AlwaysLogInv, PTL DEF Spec

=============================================================================
