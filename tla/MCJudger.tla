------------------------------- MODULE MCJudger -------------------------------
(* A buffer of four cells: the program, its stdin, its stdout and its OB. *)
EXTENDS Judger

Range(off, len) == [off |-> off, len |-> len]

JudgePacket(seq, limit, stdout, memory_ok) ==
  [op |-> "judge", seq_num |-> seq, time_limit_ns |-> limit, memory_ok |-> memory_ok,
   ELF |-> Range(0, 1), stdin |-> Range(1, 1), stdout |-> stdout,
   stderr |-> Range(3, 0), IB |-> Range(3, 0), OB |-> Range(3, 1)]

MCPacket ==
  { JudgePacket(1, 2, Range(2, 1), TRUE),
    JudgePacket(2, 2, Range(2, 1), TRUE),
    JudgePacket(0, 2, Range(2, 1), TRUE),    \* -1ul: the seq_num of no judge
    JudgePacket(1, 3, Range(2, 1), TRUE),    \* a time limit that is too large
    JudgePacket(2, 2, Range(1, 1), TRUE),    \* stdout over stdin
    JudgePacket(2, 2, Range(2, 1), FALSE),
    [op |-> "clear-buffer", off |-> 1, len |-> 3],
    [op |-> "clear-buffer", off |-> 4, len |-> 0],
    [op |-> "write-buffer", off |-> 0, cells |-> <<"p">>],
    [op |-> "write-buffer", off |-> 1, cells |-> <<"p">>],
    [op |-> "write-buffer", off |-> 3, cells |-> <<"p", "p">>],
    [op |-> "copy-buffer", dst |-> 1, src |-> 2, len |-> 1],
    [op |-> "copy-buffer", dst |-> 1, src |-> 2, len |-> 2],
    [op |-> "read-buffer", off |-> 2, len |-> 1],
    [op |-> "read-buffer", off |-> 2, len |-> 2],
    [op |-> "compare-buffer", off |-> 1, off2 |-> 2, len |-> 1],
    [op |-> "compare-buffer", off |-> 1, off2 |-> 2, len |-> 3],
    [op |-> "load-cache", cache |-> "data", hex |-> TRUE, digest |-> 1, off |-> 1, len |-> 1],
    [op |-> "load-cache", cache |-> "data", hex |-> FALSE, digest |-> 1, off |-> 1, len |-> 1],
    [op |-> "load-cache", cache |-> "data", hex |-> TRUE, digest |-> 1, off |-> 4, len |-> 1],
    [op |-> "store-cache", cache |-> "data", hex |-> TRUE, digest |-> 1, off |-> 2, len |-> 1],
    [op |-> "store-cache", cache |-> "data", hex |-> TRUE, digest |-> 2, off |-> 4, len |-> 1],
    [op |-> "store-cache", cache |-> "data", hex |-> TRUE, digest |-> 2, off |-> 0, len |-> 6],
    [op |-> "store-cache", cache |-> "data", hex |-> TRUE, digest |-> 2, off |-> 0, len |-> 2],
    [op |-> "store-cache", cache |-> "none", hex |-> TRUE, digest |-> 1, off |-> 2, len |-> 1],
    [op |-> "statistics"],
    [op |-> "reboot"] }

\* A program "p" prints its input or nothing, in time or too late, and ends with
\* a system call, a fault or the timer; nothing else is a program.
MCExecute(m, in) ==
  { [time_ns |-> t, trap |-> trap, stdout |-> out, stderr |-> <<>>, OB |-> <<"q">>] :
      t \in {1, 3}, trap \in {"syscall", "fault", "timer"},
      out \in {o \in {in.stdin, <<>>} : in.ELF = <<"p">>} }
=============================================================================
