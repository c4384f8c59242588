------------------------------ MODULE ElfLayout ------------------------------
(***************************************************************************)
(* The address arithmetic of ELF::load (lib/elf.cpp): where the program,   *)
(* its stack and the special regions (stdin, stdout, stderr, IB, OB, the   *)
(* ELF image, the random bytes) go, and the checks a request must pass     *)
(* before a single page is touched.  Addresses are unsigned machine words: *)
(* sums wrap at Word.                                                      *)
(***************************************************************************)
EXTENDS Integers, Sequences

CONSTANTS
  Word,         \* 2^64: addresses and sizes are in 0 .. Word-1
  PageSize,     \* Memory::PAGE_SIZE
  KernelBreak,  \* Memory::get_kernel_break()
  LoadStart64,  \* 0x400000
  LoadStart32,  \* 0x8048000
  Userspace32,  \* 1ul << 32
  KiB,          \* 1024, the unit of a request's memory limit
  VaddrTop      \* vaddr_break after Memory::init, at most 511 GiB

ASSUME LayoutAssumption ==
  /\ PageSize \in Nat \ {0}
  /\ Word \in Nat
  /\ PageSize < Word
  /\ KernelBreak \in 0 .. Word - 1
  /\ LoadStart64 \in KernelBreak .. Word - 1
  /\ LoadStart32 \in KernelBreak .. Word - 1
  /\ Userspace32 \in 0 .. Word - 1
  /\ VaddrTop \in KernelBreak .. Word - 1
  /\ KiB \in Nat \ {0} /\ VaddrTop * KiB < Word
  /\ KernelBreak % PageSize = 0
  /\ VaddrTop % PageSize = 0
  /\ LoadStart64 % PageSize = 0
  /\ LoadStart32 % PageSize = 0

\* What a uint64_t holds.
UInt64 == 0 .. Word - 1

\* x + y on uint64_t: at most one wrap.
Add(x, y) == IF x + y < Word THEN x + y ELSE x + y - Word

\* Utils::round_up(x, PAGE_SIZE): (x + r - 1) / r * r, the sum may wrap.
RoundUp(x) == (Add(x, PageSize - 1) \div PageSize) * PageSize

\* Utils::round_down(x, PAGE_SIZE)
RoundDown(x) == (x \div PageSize) * PageSize

-----------------------------------------------------------------------------
(* The inputs of a load *)

\* A PT_LOAD program header; w: p_flags has PF_W.
Segment == [vaddr : UInt64, filesz : UInt64, memsz : UInt64, w : BOOLEAN]

\* An ELF file: its class, its length, its PT_LOAD headers in file order and
\* whether it passes the checks on the header fields, on the in-file ranges and
\* on the alignment of its headers (valid).
Elf == [class : {32, 64}, len : UInt64, valid : BOOLEAN, segs : Seq(Segment)]

\* ELF::AppConfig
AppConfig == [memory_hard_limit : UInt64, stdin : UInt64, stdout : UInt64,
              stderr : UInt64, IB : UInt64, OB : UInt64, OB_need_clear : BOOLEAN]

LoadStart(class) == IF class = 64 THEN LoadStart64 ELSE LoadStart32

-----------------------------------------------------------------------------
(* The layout.  Regions follow one another, so each is given by its break. *)

\* Mutant: the 64-bit loader closes the region before the image page too.
SpecialBreakEarly(class, ob, random) == ob

\* The end of the special region.  The 64-bit loader takes it after the image
\* page and the random page, the 32-bit loader before the image page.
SpecialBreak(class, ob, random) == IF class = 64 THEN random ELSE ob

Layout(class, c) ==
  LET start  == LoadStart(class)
      brk    == Add(start, RoundUp(c.memory_hard_limit))
      stdin  == Add(brk, RoundUp(c.stdin))
      stdout == Add(stdin, RoundUp(c.stdout))
      stderr == Add(stdout, RoundUp(c.stderr))
      ib     == Add(stderr, RoundUp(c.IB))
      ob     == Add(ib, RoundUp(c.OB))
      image  == Add(ob, PageSize)
      random == IF class = 64 THEN Add(image, PageSize) ELSE image
  IN  [class |-> class, start |-> start, brk |-> brk, stdin |-> stdin,
       stdout |-> stdout, stderr |-> stderr, ib |-> ib, ob |-> ob,
       image |-> image, random |-> random,
       special |-> SpecialBreak(class, ob, random)]

\* Mutant: the check of the sum is forgotten.
AllocatedUnchecked(size, from, to) == RoundUp(size) >= size

\* No wrap when a region of the given size is put at address from.
Allocated(size, from, to) == RoundUp(size) >= size /\ to >= from

\* The checks on the regions, in the order of the code.
RegionsOk(c, L, vbreak) ==
  /\ L.brk >= L.start /\ L.brk <= vbreak
  /\ Allocated(c.stdin, L.brk, L.stdin)
  /\ Allocated(c.stdout, L.stdin, L.stdout)
  /\ Allocated(c.stderr, L.stdout, L.stderr)
  /\ Allocated(c.IB, L.stderr, L.ib)
  /\ Allocated(c.OB, L.ib, L.ob)
  /\ L.image >= L.ob
  /\ L.random >= L.image
  /\ L.special >= L.brk /\ L.special <= vbreak
  /\ L.class = 32 => L.start <= Userspace32 /\ L.special <= Userspace32

\* The first byte after a segment, as a mathematical integer.
Top(s) == s.vaddr + s.memsz

\* The checks on the segments.  The lowest one starts in the page LoadStart and
\* the highest one ends one page (the stack) below the memory limit: stated of
\* each segment, in place of the minimum and the maximum the code computes.
SegmentsOk(e, c, vbreak) ==
  LET start == LoadStart(e.class)
  IN  /\ \A i \in 1 .. Len(e.segs) :
           LET s == e.segs[i] IN
           /\ s.memsz >= s.filesz
           /\ Top(s) < Word
           /\ s.vaddr >= start
           /\ Top(s) <= vbreak
           /\ Top(s) + PageSize <= start + RoundUp(c.memory_hard_limit)
      /\ \E i \in 1 .. Len(e.segs) : RoundDown(e.segs[i].vaddr) = start
      /\ \E i \in 1 .. Len(e.segs) : Top(e.segs[i]) > start

\* ELF::load returns true.
Accepts(e, c, vbreak) ==
  /\ e.valid
  /\ SegmentsOk(e, c, vbreak)
  /\ RegionsOk(c, Layout(e.class, c), vbreak)

\* Judger::judge's test for an overflow of memory_hard_limit_kb * 1024.
HardLimit(kb) == (kb * KiB) % Word

\* Mutant: no test at all.
LimitUnchecked(kb) == kb >= 0

LimitOk(kb) == HardLimit(kb) >= kb

-----------------------------------------------------------------------------
(* What an accepted layout promises *)

\* The regions of an accepted load lie one after the other inside user memory,
\* each is as large as the request asked for, and no segment reaches the stack
\* page: no sum in load_elf64/load_elf32 wrapped unnoticed.
LayoutSound(e, c, vbreak) ==
  LET L == Layout(e.class, c)
  IN  /\ KernelBreak <= L.start /\ L.start + PageSize <= L.brk
      /\ L.brk <= L.stdin /\ L.stdin <= L.stdout /\ L.stdout <= L.stderr
      /\ L.stderr <= L.ib /\ L.ib <= L.ob /\ L.ob <= vbreak
      /\ c.memory_hard_limit <= L.brk - L.start
      /\ c.stdin <= L.stdin - L.brk /\ c.stdout <= L.stdout - L.stdin
      /\ c.stderr <= L.stderr - L.stdout
      /\ c.IB <= L.ib - L.stderr /\ c.OB <= L.ob - L.ib
      /\ \A i \in 1 .. Len(e.segs) : Top(e.segs[i]) + PageSize <= L.brk
      /\ e.class = 64 => L.random = L.ob + 2 * PageSize /\ L.random <= vbreak

\* The product that gives the limit in bytes may wrap and still exceed kb, which
\* Judger::judge lets pass; such a limit is never loaded with, since it lies
\* beyond user memory.
LimitSound(e, c, vbreak, kb) ==
  LimitOk(kb) /\ c.memory_hard_limit = HardLimit(kb) /\ Accepts(e, c, vbreak)
    => c.memory_hard_limit = kb * KiB
=============================================================================
