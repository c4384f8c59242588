------------------------------ MODULE UserMemory ------------------------------
(***************************************************************************)
(* The memory a judged program runs in: the 4 KiB page table entries that  *)
(* lib/memory.cpp maintains, ELF::load and ELF::run (lib/elf.cpp), the     *)
(* entry to and the trap from user mode (kern/trap.cpp, kern/trap_entry.S) *)
(* and the processor's TLB, which caches entries and their dirty bits.     *)
(*                                                                         *)
(* No page is cleared after a run.  Pages that may hold data carry         *)
(* PTE_DUCK_WRITTEN, a software bit of the entry, and the next load clears *)
(* those pages only; after a run the bit is taken from the dirty bit that  *)
(* the processor sets.  The content of a page is abstracted to whose data  *)
(* is on it.                                                               *)
(***************************************************************************)
EXTENDS ElfLayout, FiniteSets

CONSTANTS
  HugePageSize,  \* Memory::HUGE_PAGE_SIZE
  AllocSizes,    \* what Judger::init may ask allocate_virtual_memory for
  Elfs,          \* the ELF files that are judged
  Configs        \* the AppConfigs they are loaded with

ASSUME MemoryAssumption ==
  /\ HugePageSize \in Nat \ {0} /\ HugePageSize % PageSize = 0
  /\ AllocSizes \subseteq Nat
  /\ Elfs \subseteq Elf
  /\ Configs \subseteq AppConfig

VARIABLES
  phase,    \* where the kernel is: "boot", "idle", "loaded", "user", "trapped"
  vbreak,   \* Memory::vaddr_break
  app,      \* the request being run and its layout
  pte,      \* the page table: one entry a page
  tlb,      \* what the processor has cached of it
  content,  \* whose data each page holds
  wrote     \* history: the pages the program wrote in this run

vars == <<phase, vbreak, app, pte, tlb, content, wrote>>

\* The pages mapped by init_page_table_4k.
Page == {a \in KernelBreak .. VaddrTop - 1 : a % PageSize = 0}

\* The pages a loop `while (start != end)` of lib/memory.cpp visits.
Pages(start, end) == {p \in Page : start <= p /\ p < end}

Flags == [user : BOOLEAN, writable : BOOLEAN, accessed : BOOLEAN,
          dirty : BOOLEAN, duck : BOOLEAN]

\* own: the program being loaded or run; old: an earlier program, or whatever
\* the memory held at boot; kern: the judger's buffer and caches.
Owner == {"own", "old", "kern"}

\* What the TLB keeps of an entry.
Cached == [present : BOOLEAN, user : BOOLEAN, writable : BOOLEAN, dirty : BOOLEAN]
NoEntry == [present |-> FALSE, user |-> FALSE, writable |-> FALSE, dirty |-> FALSE]
EmptyTlb == [p \in Page |-> NoEntry]

Phase == {"boot", "idle", "loaded", "user", "trapped"}

-----------------------------------------------------------------------------
(* Operations on one entry.  clear_page_flags keeps bits 9..11 and the     *)
(* address: the duck bit survives, the accessed and dirty bits do not.     *)

set_page_flags_user_writable(f) ==
  [f EXCEPT !.user = TRUE, !.writable = TRUE, !.accessed = FALSE, !.dirty = FALSE]

set_page_flags_user_readonly(f) ==
  [f EXCEPT !.user = TRUE, !.writable = FALSE, !.accessed = FALSE, !.dirty = FALSE]

set_page_flags_kernel(f) ==
  [f EXCEPT !.user = FALSE, !.writable = TRUE, !.accessed = FALSE, !.dirty = FALSE]

\* Mutant: the dirty bit is left as it is.
ClearAccessOnly(f) == [f EXCEPT !.accessed = FALSE]

clear_access_and_dirty_flags(f) == [f EXCEPT !.accessed = FALSE, !.dirty = FALSE]

\* Mutant: a page that lost its bit in the load never gets it back.
DirtyIgnored(f) == f

set_duck_written_by_dirty(f) == [f EXCEPT !.duck = f.duck \/ f.dirty]

-----------------------------------------------------------------------------
(* ELF::load *)

\* The pages the file's part of the segments is copied to.
CopiedSegments(e) ==
  {p \in Page : \E i \in 1 .. Len(e.segs) :
     /\ e.segs[i].filesz # 0
     /\ p \in Pages(RoundDown(e.segs[i].vaddr), RoundUp(e.segs[i].vaddr + e.segs[i].filesz))}

\* The pages load_elf64/load_elf32 memcpys to.
WrittenPages(e, c, L) ==
  CopiedSegments(e)
    \cup Pages(L.brk, L.stdin)
    \cup Pages(L.stderr, L.ib)
    \cup (IF c.OB_need_clear THEN {} ELSE Pages(L.ib, L.ob))
    \cup Pages(L.ob, L.image)
    \cup Pages(L.image, L.random)
    \cup Pages(L.brk - PageSize, L.brk)

\* The pages set_duck_written is called for: each memcpy has its call.
DuckWrittenPages(e, c, L) == WrittenPages(e, c, L)

\* stdin, IB, the image and the random bytes are mapped read-only.
InputPages(L) ==
  Pages(L.brk, L.stdin) \cup Pages(L.stderr, L.ib) \cup Pages(L.ob, L.random)

\* The last segment over a page decides whether it is writable.
SegmentsOver(e, p) ==
  {i \in 1 .. Len(e.segs) :
     p \in Pages(RoundDown(e.segs[i].vaddr), RoundUp(Top(e.segs[i])))}

ReadonlyPages(e, L) ==
  InputPages(L) \cup
    {p \in Page : \E i \in SegmentsOver(e, p) :
       ~ e.segs[i].w /\ \A j \in SegmentsOver(e, p) : j <= i}

\* The entry of page p before anything is copied: user writable in the region,
\* kernel around it, untouched from vaddr_break on (the kernel's own memory).
MappedFlags(p, L) ==
  CASE p \in Pages(L.start, L.special) -> set_page_flags_user_writable(pte[p])
    [] p \in Pages(KernelBreak, L.start) \cup Pages(L.special, vbreak)
         -> set_page_flags_kernel(pte[p])
    [] OTHER -> pte[p]

\* Mutant: one page short.
ClearedButLast(L) == {p \in Pages(L.start, L.special - PageSize) : pte[p].duck}

\* clear_duck_written_pages visits the region and clears the pages that carry
\* the bit.
ClearedPages(L) == {p \in Pages(L.start, L.special) : pte[p].duck}

\* The entry once the load is done: the processor marked the pages that were
\* written, set_page_flags_* and clear_access_and_dirty_flags took the marks away.
LoadedFlags(p, e, c, L) ==
  LET f == [MappedFlags(p, L) EXCEPT
              !.duck = (@ /\ p \notin ClearedPages(L)) \/ p \in DuckWrittenPages(e, c, L),
              !.dirty = @ \/ p \in WrittenPages(e, c, L),
              !.accessed = @ \/ p \in ClearedPages(L) \cup WrittenPages(e, c, L)]
      g == IF p \in ReadonlyPages(e, L) THEN set_page_flags_user_readonly(f) ELSE f
  IN  IF p \in Pages(L.start, L.special) THEN clear_access_and_dirty_flags(g) ELSE g

\* What an earlier owner left is old from now on.
Aged(owners) == {IF o = "own" THEN "old" ELSE o : o \in owners}

\* A copy that fills its page replaces what was there: the image does when the
\* file is a page long or longer.  Every other copy may leave a tail.
LoadedContent(p, e, c, L) ==
  LET filled == p \in Pages(L.ob, L.image) /\ e.len >= PageSize
      before == IF p \in ClearedPages(L) \/ filled THEN {} ELSE Aged(content[p])
  IN  IF p \in WrittenPages(e, c, L) THEN before \cup {"own"} ELSE before

\* cr3 was reloaded after the first changes of flags; since then the kernel has
\* written to the pages it cleared and copied to.
LoadedTlb(p, e, c, L) ==
  IF p \in ClearedPages(L) \cup WrittenPages(e, c, L)
  THEN [present |-> TRUE, user |-> MappedFlags(p, L).user,
        writable |-> MappedFlags(p, L).writable, dirty |-> TRUE]
  ELSE NoEntry

\* ELF::load returns false before it touches a page when a check fails; a load
\* that fails is no step of this module.
Load(e, c) ==
  LET L == Layout(e.class, c)
  IN  /\ phase = "idle"
      /\ Accepts(e, c, vbreak)
      /\ phase' = "loaded"
      /\ app' = [elf |-> e, config |-> c, layout |-> L]
      /\ pte' = [p \in Page |-> LoadedFlags(p, e, c, L)]
      /\ content' = [p \in Page |-> LoadedContent(p, e, c, L)]
      /\ tlb' = [p \in Page |-> LoadedTlb(p, e, c, L)]
      /\ UNCHANGED <<vbreak, wrote>>

-----------------------------------------------------------------------------
(* Start of the system *)

Init ==
  /\ phase = "boot"
  /\ vbreak = VaddrTop
  /\ app = <<>>
  \* init_page_table_4k: every page carries the duck bit, "the content of the
  \* page will be cleared later".
  /\ pte = [p \in Page |-> [user |-> FALSE, writable |-> TRUE, accessed |-> TRUE,
                             dirty |-> TRUE, duck |-> TRUE]]
  /\ tlb = EmptyTlb
  /\ content = [p \in Page |-> {"old"}]
  /\ wrote = {}

\* Mutant: the request is granted whatever is left.
AllocateUnchecked(size) ==
  LET rounded == ((size + HugePageSize - 1) \div HugePageSize) * HugePageSize
  IN  /\ phase = "boot"
      /\ vbreak >= KernelBreak
      /\ vbreak' = vbreak - rounded
      /\ UNCHANGED <<phase, app, pte, tlb, content, wrote>>

\* allocate_virtual_memory, as Judger::init and DuckCache::init call it: they
\* reboot when it returns NULL, and fill what they get.
allocate_virtual_memory(size) ==
  LET rounded == ((size + HugePageSize - 1) \div HugePageSize) * HugePageSize
  IN  /\ phase = "boot"
      /\ vbreak - KernelBreak >= rounded
      /\ vbreak' = vbreak - rounded
      /\ content' = [p \in Page |-> IF p \in Pages(vbreak', vbreak) THEN {"kern"}
                                                                   ELSE content[p]]
      /\ UNCHANGED <<phase, app, pte, tlb, wrote>>

\* The judger has its buffer and its caches.
BootDone ==
  /\ phase = "boot"
  /\ vbreak < VaddrTop
  /\ phase' = "idle"
  /\ UNCHANGED <<vbreak, app, pte, tlb, content, wrote>>

-----------------------------------------------------------------------------
(* ELF::run *)

\* Mutant: user mode is entered without reloading cr3.
EnterNoFlush ==
  /\ phase = "loaded"
  /\ phase' = "user"
  /\ wrote' = {}
  /\ UNCHANGED <<vbreak, app, pte, tlb, content>>

\* syscall_return_record_tsc and its 32-bit twin reload cr3 just before sysret.
EnterUser ==
  /\ phase = "loaded"
  /\ phase' = "user"
  /\ tlb' = EmptyTlb
  /\ wrote' = {}
  /\ UNCHANGED <<vbreak, app, pte, content>>

\* The processor walks the page table for the program: it sets the accessed bit
\* and caches the entry.  What it caches for the kernel between two runs is gone
\* before it matters: load, the entry to and the trap from user mode reload cr3.
TlbFill(p) ==
  /\ phase = "user"
  /\ ~ tlb[p].present /\ pte[p].user
  /\ pte' = [pte EXCEPT ![p].accessed = TRUE]
  /\ tlb' = [tlb EXCEPT ![p] = [present |-> TRUE, user |-> pte[p].user,
                               writable |-> pte[p].writable, dirty |-> pte[p].dirty]]
  /\ UNCHANGED <<phase, vbreak, app, content, wrote>>

\* It may drop what it cached.
TlbEvict(p) ==
  /\ phase = "user"
  /\ tlb[p].present
  /\ tlb' = [tlb EXCEPT ![p] = NoEntry]
  /\ UNCHANGED <<phase, vbreak, app, pte, content, wrote>>

\* The program stores to page p, through the cached entry: the first store
\* since the entry was cached clean sets the dirty bit of the table.
UserWrite(p) ==
  /\ phase = "user"
  /\ tlb[p].present /\ tlb[p].user /\ tlb[p].writable
  /\ pte' = IF tlb[p].dirty THEN pte ELSE [pte EXCEPT ![p].dirty = TRUE]
  /\ tlb' = [tlb EXCEPT ![p].dirty = TRUE]
  /\ content' = [content EXCEPT ![p] = @ \cup {"own"}]
  /\ wrote' = wrote \cup {p}
  /\ UNCHANGED <<phase, vbreak, app>>

\* Any trap from user mode: a system call, a fault, the timer.  trap_handler
\* flushes the TLB "to show A/D bits".
UserTrap ==
  /\ phase = "user"
  /\ phase' = "trapped"
  /\ tlb' = EmptyTlb
  /\ UNCHANGED <<vbreak, app, pte, content, wrote>>

Region == Pages(app.layout.start, app.layout.special)

count_dirty_pages(S) == Cardinality({p \in S : pte[p].dirty})
count_accessed_pages(S) == Cardinality({p \in S : pte[p].accessed})

\* RunResult's memory_kb and memory_kb_accessed ("without stdin"), in pages.
memory_pages == count_dirty_pages(Region)
memory_pages_accessed ==
  count_accessed_pages(Region)
    - count_accessed_pages(Pages(app.layout.brk, app.layout.stdin))

\* The rest of ELF::run, after which the App is forgotten: the dirty bits
\* become duck bits.
RunFinish ==
  /\ phase = "trapped"
  /\ phase' = "idle"
  /\ pte' = [p \in Page |-> IF p \in Region THEN set_duck_written_by_dirty(pte[p])
                                            ELSE pte[p]]
  /\ app' = <<>>
  /\ wrote' = {}
  /\ UNCHANGED <<vbreak, tlb, content>>

Next ==
  \/ \E size \in AllocSizes : allocate_virtual_memory(size)
  \/ BootDone
  \/ \E e \in Elfs, c \in Configs : Load(e, c)
  \/ EnterUser
  \/ \E p \in Page : TlbFill(p)
  \/ \E p \in Page : TlbEvict(p)
  \/ \E p \in Page : UserWrite(p)
  \/ UserTrap
  \/ RunFinish

Spec == Init /\ [][Next]_vars

-----------------------------------------------------------------------------
(* Properties *)

\* The variables have their types: in particular the kernel's virtual break
\* stays within memory, and a program that is loaded is one that ELF::load
\* accepts above that break.
TypeOK ==
  /\ phase \in Phase
  /\ vbreak \in KernelBreak .. VaddrTop
  /\ phase \in {"loaded", "user", "trapped"} =>
       \E e \in Elfs, c \in Configs :
         /\ app = [elf |-> e, config |-> c, layout |-> Layout(e.class, c)]
         /\ Accepts(e, c, vbreak)
  /\ pte \in [Page -> Flags]
  /\ tlb \in [Page -> Cached]
  /\ content \in [Page -> SUBSET Owner]
  /\ wrote \subseteq Page

\* The program can reach page p: through the TLB or by a walk of the table.
Reachable(p) == IF tlb[p].present THEN tlb[p].user ELSE pte[p].user

\* While a program runs, no page of its region that it can reach holds data of
\* an earlier program, although ELF::load clears only the pages marked
\* DUCK_WRITTEN ("No slow memset").  The page of a 32-bit program's ELF image lies
\* behind its region and is not covered: see ImagePageCleared.
Isolation ==
  phase = "user" =>
    \A p \in Region : Reachable(p) => content[p] \subseteq {"own"}

\* When ELF::run counts dirty pages, they are exactly the pages the program
\* wrote: neither the loader's own writes nor a stale TLB entry show.  The
\* accessed pages it reports, those of stdin taken off, are at least as many.
MemoryMeasured ==
  phase = "trapped" =>
    /\ {p \in Region : pte[p].dirty} = wrote
    /\ memory_pages <= memory_pages_accessed

\* A program never stores to its input (stdin, IB), its ELF image, its random
\* bytes or a segment without PF_W, although the loader mapped them writable
\* while it filled them.
InputsIntact ==
  phase \in {"user", "trapped"} =>
    wrote \cap ReadonlyPages(app.elf, app.layout) = {}

\* "The content of the page will be cleared later" (lib/memory.cpp, of every
\* page of user memory): the page of the ELF image shows the running program
\* no data of an earlier one either.
ImagePageCleared ==
  phase = "user" =>
    \A p \in Pages(app.layout.ob, app.layout.image) : content[p] \subseteq {"own"}

\* The page of the ELF image of a 32-bit program follows the break that the
\* loader checks: it may be the first page beyond vaddr_break.
ImageOverhang == IF \E e \in Elfs : e.class = 32 THEN PageSize ELSE 0

\* The judger's buffer and caches stay as they are and out of reach of the
\* programs: whatever is loaded and run, nothing beyond vaddr_break, and the
\* page a 32-bit image may take there, is mapped for users or written.
KernelMemoryIntact ==
  phase # "boot" =>
    \A p \in Pages(vbreak + ImageOverhang, VaddrTop) :
      content[p] = {"kern"} /\ ~ pte[p].user /\ ~ tlb[p].user

\* The regions of the program that is loaded lie in order between the kernel
\* and vaddr_break, each as large as the request asked for, and no segment
\* reaches the stack page: no sum in load_elf64/load_elf32 wrapped unnoticed,
\* and vaddr_break has not moved since the check.
LoadedLayoutSound ==
  phase \in {"loaded", "user", "trapped"} => LayoutSound(app.elf, app.config, vbreak)

\* The program runs with the limit that was asked for: the product with 1024 may
\* wrap and still pass Judger::judge's test, but no such limit is loaded with.
LoadedLimitExact ==
  phase \in {"loaded", "user", "trapped"} =>
    \A kb \in UInt64 : LimitOk(kb) /\ HardLimit(kb) = app.config.memory_hard_limit
                        => app.config.memory_hard_limit = kb * KiB
=============================================================================
