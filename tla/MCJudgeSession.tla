----------------------------- MODULE MCJudgeSession -----------------------------
(* Two tasks; a run takes 1 or 2, and its output tells which. *)
EXTENDS JudgeSession

Input(t) == IF t = 2 THEN "b" ELSE "a"

MCScript(t) ==
  << [op |-> "write-buffer", off |-> 0, cells |-> <<"p", Input(t)>>],
     [op |-> "judge", seq_num |-> t, time_limit_ns |-> 2, memory_ok |-> TRUE,
      ELF |-> [off |-> 0, len |-> 1], stdin |-> [off |-> 1, len |-> 1],
      stdout |-> [off |-> 2, len |-> 2], stderr |-> [off |-> 2, len |-> 0],
      IB |-> [off |-> 2, len |-> 0], OB |-> [off |-> 2, len |-> 0]],
     [op |-> "read-buffer", off |-> 2, len |-> 2] >>

MCPacket == UNION {{MCScript(t)[i] : i \in 1 .. 3} : t \in 1 .. NTasks}

MCExecute(m, in) ==
  { [time_ns |-> t, trap |-> "syscall", stderr |-> <<>>, OB |-> <<>>,
     stdout |-> <<in.stdin[1], IF t = 1 THEN "z" ELSE "p">>] :
      t \in {n \in {1, 2} : in.ELF = <<"p">>} }
=============================================================================
