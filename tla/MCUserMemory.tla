----------------------------- MODULE MCUserMemory -----------------------------
(* A small user memory: eight pages of two bytes behind a kernel of one page. *)
EXTENDS UserMemory

MCElf64 ==
  { [class |-> 64, len |-> 1, valid |-> TRUE,
     segs |-> << [vaddr |-> 3, filesz |-> 1, memsz |-> 1, w |-> FALSE] >>],
    [class |-> 64, len |-> 1, valid |-> TRUE,
     segs |-> << [vaddr |-> 2, filesz |-> 0, memsz |-> 2, w |-> TRUE] >>] }

MCElf32 ==
  { [class |-> 32, len |-> n, valid |-> TRUE,
     segs |-> << [vaddr |-> 4, filesz |-> 1, memsz |-> 2, w |-> TRUE] >>] : n \in {1, 2} }

MCElfs == MCElf64 \cup MCElf32

Config(limit, stdin, stdout, ob, clear) ==
  [memory_hard_limit |-> limit, stdin |-> stdin, stdout |-> stdout, stderr |-> 0,
   IB |-> 0, OB |-> ob, OB_need_clear |-> clear]

\* The last two have a stdin whose size wraps the sum of the addresses, or its
\* own rounding.
MCConfigs ==
  { Config(4, 1, 0, 0, TRUE), Config(4, 0, 1, 0, TRUE),
    Config(4, 0, 0, 2, TRUE), Config(4, 0, 0, 1, FALSE), Config(6, 0, 0, 0, TRUE),
    Config(4, 62, 2, 0, TRUE), Config(4, 63, 0, 0, TRUE) }

MCAllocSizes == {1, 4}
=============================================================================
