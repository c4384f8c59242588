------------------------------- MODULE SysLog -------------------------------
(***************************************************************************)
(* The system log (lib/syslog.cpp): a ring that keeps the last characters  *)
(* the kernel printed, read by the server's syslog command and by the      *)
(* frame buffer when it starts.                                            *)
(***************************************************************************)
EXTENDS Integers, Sequences, SequencesExt

CONSTANTS MAX_LOG_LEN,   \* 32768
          Char

ASSUME SysLogAssumption == MAX_LOG_LEN \in Nat /\ MAX_LOG_LEN >= 2

VARIABLES buffer, head, tail,
          logged          \* every character that was put into the log

logVars == <<buffer, head, tail, logged>>

\* The buffer is static: it starts with zero bytes.
LogInit == /\ buffer \in [0 .. MAX_LOG_LEN - 1 -> {0}]
           /\ head = 0 /\ tail = 0
           /\ logged = <<>>

\* A ring that fills its last place without dropping the oldest character.
PutNoDrop(c) == /\ buffer' = [buffer EXCEPT ![tail] = c]
                /\ tail' = (tail + 1) % MAX_LOG_LEN
                /\ head' = IF tail = head /\ logged # <<>>
                           THEN (head + 1) % MAX_LOG_LEN ELSE head
                /\ logged' = Append(logged, c)

putchar(c) == /\ buffer' = [buffer EXCEPT ![tail] = c]
              /\ tail' = (tail + 1) % MAX_LOG_LEN
              /\ head' = IF tail' = head THEN (head + 1) % MAX_LOG_LEN ELSE head
              /\ logged' = Append(logged, c)

buf_len == (tail - head + MAX_LOG_LEN) % MAX_LOG_LEN

\* Where reading starts: a negative start counts from the end.
From(start) == LET s == IF start < 0 THEN buf_len + start ELSE start
               IN  IF s < 0 THEN 0 ELSE IF s > buf_len THEN buf_len ELSE s

get(start, len) ==
    [i \in 1 .. (IF len > buf_len - From(start) THEN buf_len - From(start) ELSE len)
        |-> buffer[(head + From(start) + i - 1) % MAX_LOG_LEN]]

-----------------------------------------------------------------------------
(* Properties.                                                             *)

\* What a log of this size can still know: one place of the ring stays empty.
Kept == IF Len(logged) < MAX_LOG_LEN THEN Len(logged) ELSE MAX_LOG_LEN - 1

\* Position k, counted from 1, of the characters kept.
KeptChar(k) == logged[Len(logged) - Kept + k]

\* A query is answered from the last characters printed, whatever was
\* overwritten: with start >= 0 it gives the characters from that place on,
\* with start < 0 it begins that many before the end, and it never gives
\* more than there are.
LogHoldsTail ==
    \A start \in -MAX_LOG_LEN .. MAX_LOG_LEN, len \in 0 .. MAX_LOG_LEN :
        LET ans == get(start, len)
        IN  /\ start >= 0 =>
                 /\ Len(ans) = IF start >= Kept THEN 0
                               ELSE IF start + len > Kept THEN Kept - start ELSE len
                 /\ \A i \in 1 .. Len(ans) : ans[i] = KeptChar(start + i)
            /\ start < 0 /\ -start <= Kept =>
                 /\ Len(ans) = IF len > -start THEN -start ELSE len
                 /\ \A i \in 1 .. Len(ans) : ans[i] = logged[Len(logged) + start + i]
            /\ start < 0 /\ -start > Kept => ans = get(0, len)

=============================================================================
