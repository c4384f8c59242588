--------------------------- MODULE UserMemoryProofs ---------------------------
(***************************************************************************)
(* Isolation and exact accounting of the judged programs' memory, for      *)
(* every memory size, every set of programs and every sequence of runs.    *)
(***************************************************************************)
EXTENDS UserMemory, FiniteSetTheorems, TLAPS

-----------------------------------------------------------------------------
(* What an accepted load guarantees of its layout, for every word size,    *)
(* page size and request.                                                  *)

\* The linear part of what is assumed of the constants.
LEMMA Sizes ==
  /\ PageSize \in Nat /\ PageSize > 0 /\ Word \in Nat /\ PageSize < Word
  /\ KernelBreak \in Nat /\ VaddrTop \in Nat /\ VaddrTop < Word
  BY LayoutAssumption

\* What the sums of a layout are used for.
LEMMA RegionFits ==
  ASSUME NEW from \in Nat, NEW size \in Nat, NEW to \in Nat, from + size <= to
  PROVE  from <= to /\ size <= to - from
  OBVIOUS

\* A segment with something in it, and the stack page above it, make the limit
\* positive.
LEMMA StackFits ==
  ASSUME NEW top \in Nat, NEW page \in Nat, NEW start \in Nat, NEW limit \in Nat,
         top + page <= start + limit, top > start, page > 0
  PROVE  start + page <= start + limit /\ limit # 0
  OBVIOUS

\* A sum of two words is a word, and it is the true sum when it is not less than
\* either of them.
LEMMA AddWord ==
  ASSUME NEW x \in UInt64, NEW y \in UInt64
  PROVE  /\ Add(x, y) \in UInt64
         /\ Add(x, y) >= x => Add(x, y) = x + y
  BY Sizes DEF Add, UInt64

\* Rounding down to a multiple loses less than a page.
LEMMA DivMul ==
  ASSUME NEW a \in Nat, NEW n \in Nat \ {0}
  PROVE  /\ (a \div n) * n \in Nat
         /\ (a \div n) * n <= a
         /\ a < (a \div n) * n + n
  OBVIOUS

\* Rounding up a word yields a word, wrapped or not.
LEMMA RoundUpWord ==
  ASSUME NEW x \in UInt64
  PROVE  RoundUp(x) \in UInt64
<1>1. PageSize - 1 \in UInt64
  BY Sizes DEF UInt64
<1>2. Add(x, PageSize - 1) \in UInt64
  BY <1>1, AddWord
<1>3. Add(x, PageSize - 1) \in Nat
  BY <1>2, Sizes DEF UInt64
<1> QED BY <1>2, <1>3, DivMul, Sizes DEF RoundUp, UInt64

\* Rounding up a size either yields at least the size, or wraps to zero.
LEMMA RoundUpWraps ==
  ASSUME NEW x \in UInt64
  PROVE  RoundUp(x) >= x \/ RoundUp(x) = 0
<1> DEFINE a == Add(x, PageSize - 1)
<1>1. PageSize - 1 \in UInt64 /\ x \in Nat
  BY Sizes DEF UInt64
<1>2. a \in Nat
  BY <1>1, AddWord, Sizes DEF UInt64
<1>3. CASE x + (PageSize - 1) < Word
  <2>1. a = x + (PageSize - 1)
    BY <1>3 DEF Add
  <2> QED BY <1>1, <1>2, <2>1, DivMul, Sizes DEF RoundUp
<1>4. CASE ~ (x + (PageSize - 1) < Word)
  <2>1. a < PageSize
    BY <1>1, <1>4, Sizes DEF Add, UInt64
  <2>2. a \div PageSize = 0
    BY <1>2, <2>1, Sizes
  <2> QED BY <2>2, Sizes DEF RoundUp
<1> QED BY <1>3, <1>4

\* One region of the special area: a break that the checks let pass is the sum.
LEMMA AllocatedExact ==
  ASSUME NEW size \in UInt64, NEW from \in UInt64,
         Allocated(size, from, Add(from, RoundUp(size)))
  PROVE  /\ Add(from, RoundUp(size)) = from + RoundUp(size)
         /\ size <= RoundUp(size)
         /\ RoundUp(size) \in UInt64
         /\ Add(from, RoundUp(size)) \in UInt64
<1>1. RoundUp(size) \in UInt64
  BY RoundUpWord
<1> QED BY <1>1, AddWord DEF Allocated

\* The breaks of a layout whose regions passed the checks: sums that did not wrap.
LEMMA RegionsExact ==
  ASSUME NEW class \in {32, 64}, NEW c \in AppConfig, NEW end \in KernelBreak .. VaddrTop,
         RegionsOk(c, Layout(class, c), end)
  PROVE  LET L == Layout(class, c)
         IN  /\ L.start \in UInt64 /\ L.start = LoadStart(class) /\ KernelBreak <= L.start
             /\ L.brk = L.start + RoundUp(c.memory_hard_limit)
             /\ L.brk \in UInt64 /\ L.stdin \in UInt64 /\ L.stdout \in UInt64
             /\ L.stderr \in UInt64 /\ L.ib \in UInt64 /\ L.ob \in UInt64
             /\ L.brk + c.stdin <= L.stdin
             /\ L.stdin + c.stdout <= L.stdout
             /\ L.stdout + c.stderr <= L.stderr
             /\ L.stderr + c.IB <= L.ib
             /\ L.ib + c.OB <= L.ob
             /\ L.image = L.ob + PageSize
             /\ L.special = IF class = 64 THEN L.random ELSE L.ob
             /\ L.random = IF class = 64 THEN L.image + PageSize ELSE L.image
             /\ L.random \in UInt64 /\ L.special <= end
             /\ L.class = class
<1> DEFINE L == Layout(class, c)
<1>t. /\ c.memory_hard_limit \in UInt64 /\ c.stdin \in UInt64 /\ c.stdout \in UInt64
      /\ c.stderr \in UInt64 /\ c.IB \in UInt64 /\ c.OB \in UInt64
  BY DEF AppConfig
<1>L. /\ L.class = class
      /\ L.start = LoadStart(class)
      /\ L.brk = Add(L.start, RoundUp(c.memory_hard_limit))
      /\ L.stdin = Add(L.brk, RoundUp(c.stdin))
      /\ L.stdout = Add(L.stdin, RoundUp(c.stdout))
      /\ L.stderr = Add(L.stdout, RoundUp(c.stderr))
      /\ L.ib = Add(L.stderr, RoundUp(c.IB))
      /\ L.ob = Add(L.ib, RoundUp(c.OB))
      /\ L.image = Add(L.ob, PageSize)
      /\ L.random = IF class = 64 THEN Add(L.image, PageSize) ELSE L.image
      /\ L.special = IF class = 64 THEN L.random ELSE L.ob
  BY DEF Layout, SpecialBreak
<1>R. /\ L.brk >= L.start /\ L.brk <= end
      /\ Allocated(c.stdin, L.brk, L.stdin)
      /\ Allocated(c.stdout, L.stdin, L.stdout)
      /\ Allocated(c.stderr, L.stdout, L.stderr)
      /\ Allocated(c.IB, L.stderr, L.ib)
      /\ Allocated(c.OB, L.ib, L.ob)
      /\ L.image >= L.ob
      /\ L.random >= L.image
      /\ L.special <= end
  BY DEF RegionsOk
<1> HIDE DEF L
<1>1. L.start \in UInt64 /\ KernelBreak <= L.start
  BY <1>L, LayoutAssumption DEF LoadStart, UInt64
<1>2. L.brk = L.start + RoundUp(c.memory_hard_limit) /\ L.brk \in UInt64
  <2>1. RoundUp(c.memory_hard_limit) \in UInt64
    BY <1>t, RoundUpWord
  <2> QED BY <1>L, <1>R, <1>1, <2>1, AddWord
<1>3. L.stdin \in UInt64 /\ L.brk + c.stdin <= L.stdin
  BY <1>L, <1>R, <1>2, <1>t, AllocatedExact DEF UInt64
<1>4. L.stdout \in UInt64 /\ L.stdin + c.stdout <= L.stdout
  BY <1>L, <1>R, <1>3, <1>t, AllocatedExact DEF UInt64
<1>5. L.stderr \in UInt64 /\ L.stdout + c.stderr <= L.stderr
  BY <1>L, <1>R, <1>4, <1>t, AllocatedExact DEF UInt64
<1>6. L.ib \in UInt64 /\ L.stderr + c.IB <= L.ib
  BY <1>L, <1>R, <1>5, <1>t, AllocatedExact DEF UInt64
<1>7. L.ob \in UInt64 /\ L.ib + c.OB <= L.ob
  BY <1>L, <1>R, <1>6, <1>t, AllocatedExact DEF UInt64
<1>8. L.image = L.ob + PageSize /\ L.image \in UInt64
  <2>1. PageSize \in UInt64
    BY Sizes DEF UInt64
  <2> QED BY <1>L, <1>R, <1>7, <2>1, AddWord
<1>9. /\ L.random = IF class = 64 THEN L.image + PageSize ELSE L.image
      /\ L.random \in UInt64
  <2>1. PageSize \in UInt64
    BY Sizes DEF UInt64
  <2> QED BY <1>L, <1>R, <1>8, <2>1, AddWord
<1> QED BY <1>L, <1>R, <1>1, <1>2, <1>3, <1>4, <1>5, <1>6, <1>7, <1>8, <1>9 DEF L

\* Every load that ELF::load accepts has a sound layout: regions in order inside
\* user memory, as large as requested, segments clear of the stack page.
THEOREM AcceptedIsSound ==
  ASSUME NEW e \in Elf, NEW c \in AppConfig, NEW end \in KernelBreak .. VaddrTop,
         Accepts(e, c, end)
  PROVE  LayoutSound(e, c, end)
<1> DEFINE L == Layout(e.class, c)
<1>1. e.class \in {32, 64} /\ RegionsOk(c, L, end) /\ SegmentsOk(e, c, end)
  BY DEF Accepts, Elf
<1>t. /\ c.memory_hard_limit \in UInt64 /\ c.stdin \in UInt64 /\ c.stdout \in UInt64
      /\ c.stderr \in UInt64 /\ c.IB \in UInt64 /\ c.OB \in UInt64
  BY DEF AppConfig
<1>2. /\ L.start \in UInt64 /\ L.start = LoadStart(e.class) /\ KernelBreak <= L.start
      /\ L.brk = L.start + RoundUp(c.memory_hard_limit)
      /\ L.brk \in UInt64 /\ L.stdin \in UInt64 /\ L.stdout \in UInt64
      /\ L.stderr \in UInt64 /\ L.ib \in UInt64 /\ L.ob \in UInt64
      /\ L.brk + c.stdin <= L.stdin
      /\ L.stdin + c.stdout <= L.stdout
      /\ L.stdout + c.stderr <= L.stderr
      /\ L.stderr + c.IB <= L.ib
      /\ L.ib + c.OB <= L.ob
      /\ L.image = L.ob + PageSize
      /\ L.special = IF e.class = 64 THEN L.random ELSE L.ob
      /\ L.random = IF e.class = 64 THEN L.image + PageSize ELSE L.image
      /\ L.random \in UInt64 /\ L.special <= end
  BY <1>1, RegionsExact
<1> HIDE DEF L
<1>3. PICK k \in 1 .. Len(e.segs) : Top(e.segs[k]) > LoadStart(e.class)
  BY <1>1 DEF SegmentsOk
<1>4. \A i \in 1 .. Len(e.segs) :
        Top(e.segs[i]) + PageSize <= LoadStart(e.class) + RoundUp(c.memory_hard_limit)
  BY <1>1 DEF SegmentsOk
<1>5. e.segs[k] \in Segment
  BY <1>3 DEF Elf
<1>6. Top(e.segs[k]) \in Nat
  BY <1>5, Sizes DEF Top, Segment, UInt64
<1>r. RoundUp(c.memory_hard_limit) \in Nat
  <2>1. RoundUp(c.memory_hard_limit) \in UInt64
    BY <1>t, RoundUpWord
  <2> QED BY <2>1, Sizes DEF UInt64
<1>n. /\ L.start \in Nat /\ L.brk \in Nat /\ L.stdin \in Nat /\ L.stdout \in Nat
      /\ L.stderr \in Nat /\ L.ib \in Nat /\ L.ob \in Nat
      /\ c.memory_hard_limit \in Nat /\ c.stdin \in Nat /\ c.stdout \in Nat
      /\ c.stderr \in Nat /\ c.IB \in Nat /\ c.OB \in Nat
  BY <1>2, <1>t, Sizes DEF UInt64
<1>7. L.start + PageSize <= L.brk /\ RoundUp(c.memory_hard_limit) # 0
  <2>1. Top(e.segs[k]) + PageSize <= L.start + RoundUp(c.memory_hard_limit)
    BY <1>2, <1>3, <1>4
  <2>2. Top(e.segs[k]) > L.start
    BY <1>2, <1>3
  <2>3. L.brk = L.start + RoundUp(c.memory_hard_limit)
    BY <1>2
  <2> QED BY <2>1, <2>2, <2>3, <1>6, <1>r, <1>n, Sizes, StackFits
<1>8. c.memory_hard_limit <= RoundUp(c.memory_hard_limit)
  BY <1>7, <1>t, RoundUpWraps
<1>9. c.memory_hard_limit <= L.brk - L.start
  <2>1. L.brk - L.start = RoundUp(c.memory_hard_limit)
    BY <1>2, <1>r, <1>n
  <2> QED BY <1>8, <2>1
<1>10. \A i \in 1 .. Len(e.segs) : Top(e.segs[i]) + PageSize <= L.brk
  BY <1>2, <1>4
<1>11. /\ L.ob <= end
       /\ e.class = 64 => L.random = L.ob + 2 * PageSize /\ L.random <= end
  BY <1>1, <1>2, Sizes DEF UInt64
<1>12. /\ L.brk <= L.stdin /\ L.stdin <= L.stdout /\ L.stdout <= L.stderr
       /\ L.stderr <= L.ib /\ L.ib <= L.ob
       /\ c.stdin <= L.stdin - L.brk /\ c.stdout <= L.stdout - L.stdin
       /\ c.stderr <= L.stderr - L.stdout
       /\ c.IB <= L.ib - L.stderr /\ c.OB <= L.ob - L.ib
  <2>1. /\ L.brk + c.stdin <= L.stdin /\ L.stdin + c.stdout <= L.stdout
        /\ L.stdout + c.stderr <= L.stderr
        /\ L.stderr + c.IB <= L.ib /\ L.ib + c.OB <= L.ob
    BY <1>2
  <2> QED BY <2>1, <1>n, RegionFits
<1> QED BY <1>2, <1>7, <1>9, <1>10, <1>11, <1>12 DEF LayoutSound, L

\* Products grow with their factors.
LEMMA MulMonotone ==
  ASSUME NEW a \in Nat, NEW b \in Nat, NEW k \in Nat, a <= b
  PROVE  a * k <= b * k /\ a * k \in Nat
  OBVIOUS

\* A product below Word does not wrap.
LEMMA ModSmall ==
  ASSUME NEW a \in Nat, NEW n \in Nat, a < n
  PROVE  a % n = a
  OBVIOUS

\* The weak overflow test of Judger::judge is enough: a memory limit whose
\* product with 1024 wrapped is never loaded with.
THEOREM AcceptedLimitIsExact ==
  ASSUME NEW e \in Elf, NEW c \in AppConfig, NEW end \in KernelBreak .. VaddrTop,
         NEW kb \in Nat
  PROVE  LimitSound(e, c, end, kb)
<1> SUFFICES ASSUME LimitOk(kb), c.memory_hard_limit = HardLimit(kb), Accepts(e, c, end)
             PROVE  c.memory_hard_limit = kb * KiB
  BY DEF LimitSound
<1> DEFINE L == Layout(e.class, c)
<1>1. /\ c.memory_hard_limit \in UInt64
      /\ e.class \in {32, 64} /\ RegionsOk(c, L, end)
  BY DEF Accepts, Elf, AppConfig
<1>2. L.start \in UInt64 /\ L.brk \in UInt64
  BY <1>1, RegionsExact
<1>3. L.brk <= end
  BY <1>1 DEF RegionsOk
<1>4. c.memory_hard_limit <= L.brk - L.start
  BY AcceptedIsSound DEF LayoutSound
<1> HIDE DEF L
<1>5. c.memory_hard_limit \in Nat /\ L.start \in Nat /\ L.brk \in Nat /\ end \in Nat
  BY <1>1, <1>2, Sizes DEF UInt64
<1>6. c.memory_hard_limit <= VaddrTop
  <2>1. end <= VaddrTop
    BY Sizes
  <2> QED BY <1>3, <1>4, <1>5, <2>1, Sizes
<1>7. kb <= VaddrTop
  BY <1>5, <1>6, Sizes DEF LimitOk
<1>8. KiB \in Nat /\ VaddrTop * KiB < Word
  BY LayoutAssumption
<1>9. kb * KiB <= VaddrTop * KiB /\ kb * KiB \in Nat /\ VaddrTop * KiB \in Nat
  BY <1>7, <1>8, Sizes, MulMonotone
<1>10. kb * KiB < Word
  BY <1>8, <1>9, Sizes
<1> QED BY <1>9, <1>10, Sizes, ModSmall DEF HardLimit

-----------------------------------------------------------------------------
(* The pages of the programs                                               *)

Active == phase \in {"loaded", "user", "trapped"}
Running == phase \in {"user", "trapped"}

\* A page with data on it is marked, or will be: the program's own writes carry
\* the dirty bit until RunFinish turns it into a mark.
Marked ==
  \A p \in Page :
    content[p] # {} => pte[p].duck \/ (Running /\ p \in Region /\ pte[p].dirty)

\* The region of a program holds nothing but its own data.
OwnRegion == Active => \A p \in Region : content[p] \subseteq {"own"}

\* What is mapped writable for users lies below vaddr_break; while a program is
\* loaded, in its region and off its read-only pages.
WritableMap ==
  /\ \A p \in Page : pte[p].user /\ pte[p].writable => p < vbreak
  /\ Active =>
       \A p \in Page : pte[p].user /\ pte[p].writable =>
         p \in Region /\ p \notin ReadonlyPages(app.elf, app.layout)

\* The dirty bits of the region tell what the program wrote.
DirtyExact ==
  /\ phase = "loaded" => \A p \in Region : ~ pte[p].dirty
  /\ Running =>
       /\ \A p \in Region : pte[p].dirty <=> p \in wrote
       /\ wrote \subseteq Region \ ReadonlyPages(app.elf, app.layout)
       /\ \A p \in wrote : pte[p].accessed

\* While the program runs the TLB agrees with the page table, and caches a dirty
\* bit only when the table has it.
TlbAgrees ==
  phase = "user" =>
    \A p \in Page : tlb[p].present =>
      /\ tlb[p].user = pte[p].user
      /\ tlb[p].writable = pte[p].writable
      /\ tlb[p].dirty => pte[p].dirty
      /\ pte[p].accessed

\* Until the judger has its memory every page is marked and none is mapped for
\* users, in the page table or the TLB.
BootMap ==
  phase = "boot" => \A p \in Page : pte[p].duck /\ ~ pte[p].user /\ ~ tlb[p].user

IInv ==
  TypeOK /\ BootMap /\ Marked /\ OwnRegion /\ WritableMap /\ DirtyExact /\ TlbAgrees

-----------------------------------------------------------------------------
(* What a load does to one page *)

\* Every break of a layout is a machine word.
LEMMA LayoutWords ==
  ASSUME NEW class \in {32, 64}, NEW c \in AppConfig
  PROVE  LET L == Layout(class, c)
         IN  L.start \in UInt64 /\ L.brk \in UInt64 /\ L.special \in UInt64
<1> DEFINE start  == LoadStart(class)
           brk    == Add(start, RoundUp(c.memory_hard_limit))
           stdin  == Add(brk, RoundUp(c.stdin))
           stdout == Add(stdin, RoundUp(c.stdout))
           stderr == Add(stdout, RoundUp(c.stderr))
           ib     == Add(stderr, RoundUp(c.IB))
           ob     == Add(ib, RoundUp(c.OB))
           image  == Add(ob, PageSize)
           random == IF class = 64 THEN Add(image, PageSize) ELSE image
<1>1. /\ c.memory_hard_limit \in UInt64 /\ c.stdin \in UInt64 /\ c.stdout \in UInt64
      /\ c.stderr \in UInt64 /\ c.IB \in UInt64 /\ c.OB \in UInt64
  BY DEF AppConfig
<1>2. start \in UInt64 /\ PageSize \in UInt64
  BY LayoutAssumption DEF LoadStart, UInt64
<1>3. /\ Layout(class, c).start = start /\ Layout(class, c).brk = brk
      /\ Layout(class, c).special = SpecialBreak(class, ob, random)
  BY DEF Layout
<1> HIDE DEF start
<1>4. brk \in UInt64
  BY <1>1, <1>2, AddWord, RoundUpWord
<1> HIDE DEF brk
<1>5. stdin \in UInt64
  BY <1>1, <1>4, AddWord, RoundUpWord
<1> HIDE DEF stdin
<1>6. stdout \in UInt64
  BY <1>1, <1>5, AddWord, RoundUpWord
<1> HIDE DEF stdout
<1>7. stderr \in UInt64
  BY <1>1, <1>6, AddWord, RoundUpWord
<1> HIDE DEF stderr
<1>8. ib \in UInt64
  BY <1>1, <1>7, AddWord, RoundUpWord
<1> HIDE DEF ib
<1>9. ob \in UInt64
  BY <1>1, <1>8, AddWord, RoundUpWord
<1> HIDE DEF ob
<1>10. image \in UInt64
  BY <1>2, <1>9, AddWord
<1> HIDE DEF image
<1>11. random \in UInt64
  BY <1>2, <1>10, AddWord
<1> HIDE DEF random
<1> QED BY <1>2, <1>3, <1>4, <1>9, <1>11 DEF SpecialBreak

\* The entry of a page after a load, in terms of the entry before.
LEMMA FlagsAfterLoad ==
  ASSUME NEW p \in Page, pte \in [Page -> Flags], NEW e, NEW c, NEW L
  PROVE  /\ LoadedFlags(p, e, c, L) \in Flags
         /\ LoadedFlags(p, e, c, L).duck
              = ((pte[p].duck /\ p \notin ClearedPages(L)) \/ p \in DuckWrittenPages(e, c, L))
         /\ p \in Pages(L.start, L.special) =>
              ~ LoadedFlags(p, e, c, L).dirty /\ ~ LoadedFlags(p, e, c, L).accessed
         /\ p \in ReadonlyPages(e, L) => ~ LoadedFlags(p, e, c, L).writable
         /\ p \notin ReadonlyPages(e, L) /\ p \notin Pages(L.start, L.special) =>
              IF p \in Pages(KernelBreak, L.start) \cup Pages(L.special, vbreak)
              THEN ~ LoadedFlags(p, e, c, L).user
              ELSE /\ LoadedFlags(p, e, c, L).user = pte[p].user
                   /\ LoadedFlags(p, e, c, L).writable = pte[p].writable
<1>1. pte[p] \in Flags
  OBVIOUS
<1> DEFINE m == MappedFlags(p, L)
<1>2. m \in Flags /\ m.duck = pte[p].duck
  BY <1>1 DEF MappedFlags, Flags, set_page_flags_user_writable, set_page_flags_kernel
<1>3. p \notin Pages(L.start, L.special) =>
         IF p \in Pages(KernelBreak, L.start) \cup Pages(L.special, vbreak)
         THEN ~ m.user
         ELSE m.user = pte[p].user /\ m.writable = pte[p].writable
  BY <1>1 DEF MappedFlags, Flags, set_page_flags_kernel
<1> HIDE DEF m
<1> DEFINE f == [m EXCEPT
              !.duck = (@ /\ p \notin ClearedPages(L)) \/ p \in DuckWrittenPages(e, c, L),
              !.dirty = @ \/ p \in WrittenPages(e, c, L),
              !.accessed = @ \/ p \in ClearedPages(L) \cup WrittenPages(e, c, L)]
           g == IF p \in ReadonlyPages(e, L) THEN set_page_flags_user_readonly(f) ELSE f
<1>4. /\ f \in Flags /\ f.user = m.user /\ f.writable = m.writable
      /\ f.duck = ((pte[p].duck /\ p \notin ClearedPages(L)) \/ p \in DuckWrittenPages(e, c, L))
  BY <1>1, <1>2 DEF Flags
<1> HIDE DEF f
<1>5. /\ g \in Flags /\ g.duck = f.duck
      /\ p \in ReadonlyPages(e, L) => ~ g.writable
      /\ p \notin ReadonlyPages(e, L) => g = f
  BY <1>4 DEF Flags, set_page_flags_user_readonly
<1>6. LoadedFlags(p, e, c, L)
        = IF p \in Pages(L.start, L.special) THEN clear_access_and_dirty_flags(g) ELSE g
  BY DEF LoadedFlags, f, m
<1> HIDE DEF g
<1>7. CASE p \in Pages(L.start, L.special)
  BY <1>4, <1>5, <1>6, <1>7 DEF clear_access_and_dirty_flags, Flags
<1>8. CASE p \notin Pages(L.start, L.special)
  BY <1>3, <1>4, <1>5, <1>6, <1>8
<1> QED BY <1>7, <1>8

\* Whose data is on a page after a load.
LEMMA ContentAfterLoad ==
  ASSUME NEW p \in Page, content \in [Page -> SUBSET Owner], NEW e, NEW c, NEW L
  PROVE  /\ LoadedContent(p, e, c, L) \in SUBSET Owner
         /\ p \notin WrittenPages(e, c, L) /\ LoadedContent(p, e, c, L) # {}
              => content[p] # {} /\ p \notin ClearedPages(L)
         /\ p \in ClearedPages(L) \/ content[p] = {}
              => LoadedContent(p, e, c, L) \subseteq {"own"}
<1> DEFINE filled == p \in Pages(L.ob, L.image) /\ e.len >= PageSize
           before == IF p \in ClearedPages(L) \/ filled THEN {} ELSE Aged(content[p])
<1>1. content[p] \in SUBSET Owner
  OBVIOUS
<1>2. Aged(content[p]) \in SUBSET Owner /\ (content[p] = {} => Aged(content[p]) = {})
  BY <1>1 DEF Aged, Owner
<1>3. LoadedContent(p, e, c, L)
        = IF p \in WrittenPages(e, c, L) THEN before \cup {"own"} ELSE before
  BY DEF LoadedContent
<1>4. /\ before \in SUBSET Owner
      /\ before # {} => content[p] # {} /\ p \notin ClearedPages(L)
  BY <1>2
<1> HIDE DEF before
<1> QED BY <1>3, <1>4 DEF Owner

-----------------------------------------------------------------------------
(* The invariant holds initially and every action preserves it *)

\* Init establishes the invariant.
LEMMA InitIInv == Init => IInv
<1> SUFFICES ASSUME Init PROVE IInv
  OBVIOUS
<1>1. TypeOK
  BY LayoutAssumption DEF Init, TypeOK, Phase, Flags, Cached, Owner, EmptyTlb, NoEntry
<1>2. BootMap /\ Marked /\ OwnRegion /\ WritableMap /\ DirtyExact /\ TlbAgrees
  BY DEF Init, BootMap, Marked, OwnRegion, WritableMap, DirtyExact, TlbAgrees, Active, Running,
         EmptyTlb, NoEntry
<1> QED BY <1>1, <1>2 DEF IInv

\* The judger's memory is carved off marked pages.
LEMMA AllocateIInv ==
  ASSUME IInv, NEW size \in AllocSizes, allocate_virtual_memory(size)
  PROVE  IInv'
<1> DEFINE rounded == ((size + HugePageSize - 1) \div HugePageSize) * HugePageSize
<1>1. /\ phase = "boot" /\ phase' = "boot" /\ UNCHANGED <<app, pte, tlb, wrote>>
      /\ vbreak - KernelBreak >= rounded /\ vbreak' = vbreak - rounded
      /\ content' = [p \in Page |-> IF p \in Pages(vbreak', vbreak) THEN {"kern"}
                                                                   ELSE content[p]]
  BY DEF allocate_virtual_memory
<1>2. rounded \in Nat
  <2>1. HugePageSize \in Nat \ {0} /\ size \in Nat
    BY MemoryAssumption
  <2>2. size + HugePageSize - 1 \in Nat
    BY <2>1
  <2> QED BY <2>1, <2>2, DivMul
<1> HIDE DEF rounded
<1>3. vbreak' \in KernelBreak .. VaddrTop
  BY <1>1, <1>2, Sizes DEF IInv, TypeOK
<1>4. content' \in [Page -> SUBSET Owner]
  BY <1>1 DEF IInv, TypeOK, Owner
<1>5. TypeOK'
  BY <1>1, <1>3, <1>4 DEF IInv, TypeOK
<1>6. \A p \in Page : pte'[p].duck /\ ~ pte'[p].user /\ ~ tlb'[p].user
  BY <1>1 DEF IInv, BootMap
<1> QED BY <1>1, <1>5, <1>6
        DEF IInv, BootMap, Marked, OwnRegion, WritableMap, DirtyExact, TlbAgrees, Active, Running

\* The end of the boot changes no page.
LEMMA BootDoneIInv ==
  ASSUME IInv, BootDone
  PROVE  IInv'
<1>1. /\ phase = "boot" /\ phase' = "idle"
      /\ UNCHANGED <<vbreak, app, pte, tlb, content, wrote>>
  BY DEF BootDone
<1>2. TypeOK'
  BY <1>1 DEF IInv, TypeOK, Phase
<1> QED BY <1>1, <1>2
        DEF IInv, BootMap, Marked, OwnRegion, WritableMap, DirtyExact, TlbAgrees, Active, Running

\* A load leaves the region with the new program's data alone.
LEMMA LoadIInv ==
  ASSUME IInv, NEW e \in Elfs, NEW c \in Configs, Load(e, c)
  PROVE  IInv'
<1> DEFINE L == Layout(e.class, c)
<1>1. /\ phase = "idle" /\ phase' = "loaded" /\ Accepts(e, c, vbreak)
      /\ app' = [elf |-> e, config |-> c, layout |-> L]
      /\ pte' = [p \in Page |-> LoadedFlags(p, e, c, L)]
      /\ content' = [p \in Page |-> LoadedContent(p, e, c, L)]
      /\ tlb' = [p \in Page |-> LoadedTlb(p, e, c, L)]
      /\ UNCHANGED <<vbreak, wrote>>
  BY DEF Load
<1>2. /\ pte \in [Page -> Flags] /\ content \in [Page -> SUBSET Owner]
      /\ vbreak \in KernelBreak .. VaddrTop /\ wrote \subseteq Page
  BY DEF IInv, TypeOK
<1>3. Region' = Pages(L.start, L.special)
  BY <1>1 DEF Region
<1>4. /\ L.special <= vbreak /\ L.start \in Nat /\ L.special \in Nat
      /\ vbreak \in Nat
  <2>1. e.class \in {32, 64} /\ c \in AppConfig /\ RegionsOk(c, L, vbreak)
    BY <1>1, MemoryAssumption DEF Accepts, Elf
  <2>2. vbreak \in Nat /\ UInt64 \subseteq Nat
    BY <1>2, Sizes DEF UInt64
  <2>3. L.start \in UInt64 /\ L.special \in UInt64
    BY <1>2, <2>1, LayoutWords
  <2> QED BY <2>1, <2>2, <2>3 DEF RegionsOk
<1> HIDE DEF L
<1>5. \A p \in Page : MappedFlags(p, L) \in Flags
  BY <1>2 DEF MappedFlags, Flags, set_page_flags_user_writable, set_page_flags_kernel
<1>6. TypeOK'
  <2>1. pte' \in [Page -> Flags]
    BY <1>1, <1>2, FlagsAfterLoad
  <2>2. content' \in [Page -> SUBSET Owner]
    BY <1>1, <1>2, ContentAfterLoad
  <2>3. tlb' \in [Page -> Cached]
    <3> SUFFICES ASSUME NEW p \in Page PROVE LoadedTlb(p, e, c, L) \in Cached
      BY <1>1
    <3>1. MappedFlags(p, L) \in Flags
      BY <1>5
    <3> QED BY <3>1 DEF LoadedTlb, Cached, NoEntry, Flags
  <2>4. /\ app' = [elf |-> e, config |-> c, layout |-> Layout(e.class, c)]
        /\ Accepts(e, c, vbreak')
    BY <1>1 DEF L
  <2> QED BY <1>1, <1>2, <2>1, <2>2, <2>3, <2>4 DEF TypeOK, Phase
<1>7. Marked'
  <2> SUFFICES ASSUME NEW p \in Page, content'[p] # {} PROVE pte'[p].duck
    BY DEF Marked
  <2>1. LoadedFlags(p, e, c, L).duck
          = ((pte[p].duck /\ p \notin ClearedPages(L)) \/ p \in WrittenPages(e, c, L))
    BY <1>2, FlagsAfterLoad DEF DuckWrittenPages
  <2>2. LoadedContent(p, e, c, L) # {}
    BY <1>1
  <2>3. CASE p \in WrittenPages(e, c, L)
    BY <1>1, <2>1, <2>3
  <2>4. CASE p \notin WrittenPages(e, c, L)
    <3>1. content[p] # {} /\ p \notin ClearedPages(L)
      BY <1>2, <2>2, <2>4, ContentAfterLoad
    <3>2. pte[p].duck
      BY <1>1, <3>1 DEF IInv, Marked, Running
    <3> QED BY <1>1, <2>1, <3>1, <3>2
  <2> QED BY <2>3, <2>4
<1>8. OwnRegion'
  <2> SUFFICES ASSUME NEW p \in Pages(L.start, L.special)
               PROVE  content'[p] \subseteq {"own"}
    BY <1>3 DEF OwnRegion
  <2>1. p \in Page
    BY DEF Pages
  <2>2. p \in ClearedPages(L) \/ content[p] = {}
    BY <1>1, <2>1 DEF IInv, Marked, Running, ClearedPages
  <2>3. LoadedContent(p, e, c, L) \subseteq {"own"}
    BY <1>2, <2>1, <2>2, ContentAfterLoad
  <2> QED BY <1>1, <2>1, <2>3
<1>9. WritableMap'
  <2> SUFFICES ASSUME NEW p \in Page, pte'[p].user, pte'[p].writable
               PROVE  p < vbreak /\ p \in Region' /\ p \notin ReadonlyPages(e, L)
    BY <1>1 DEF WritableMap
  <2>1. LoadedFlags(p, e, c, L).user /\ LoadedFlags(p, e, c, L).writable
    BY <1>1
  <2>2. p \notin ReadonlyPages(e, L)
    BY <1>2, <2>1, FlagsAfterLoad
  <2>3. p \in Pages(L.start, L.special)
    <3> SUFFICES ASSUME p \notin Pages(L.start, L.special) PROVE FALSE
      OBVIOUS
    <3>1. CASE p \in Pages(KernelBreak, L.start) \cup Pages(L.special, vbreak)
      BY <1>2, <2>1, <2>2, <3>1, FlagsAfterLoad
    <3>2. CASE p \notin Pages(KernelBreak, L.start) \cup Pages(L.special, vbreak)
      <4>1. pte[p].user /\ pte[p].writable
        BY <1>2, <2>1, <2>2, <3>2, FlagsAfterLoad
      <4>2. p < vbreak
        BY <4>1 DEF IInv, WritableMap
      <4>3. p \in Nat /\ KernelBreak <= p
        BY Sizes DEF Page
      <4>4. L.start <= p \/ p < L.start
        BY <4>3, <1>4
      <4>5. L.special <= p \/ p < L.special
        BY <4>3, <1>4
      <4> QED BY <3>2, <4>2, <4>3, <4>4, <4>5 DEF Pages
    <3> QED BY <3>1, <3>2
  <2>4. p < vbreak
    <3>1. p \in Nat /\ p < L.special
      BY <2>3, Sizes DEF Pages, Page
    <3> QED BY <1>4, <3>1
  <2> QED BY <2>2, <2>3, <2>4, <1>3
<1>10. DirtyExact'
  <2>1. \A p \in Pages(L.start, L.special) : ~ pte'[p].dirty
    BY <1>1, <1>2, FlagsAfterLoad DEF Pages
  <2> QED BY <1>1, <1>3, <2>1 DEF DirtyExact, Running
<1> QED BY <1>1, <1>6, <1>7, <1>8, <1>9, <1>10 DEF IInv, BootMap, TlbAgrees

\* The entry to user mode starts with an empty TLB and clean pages.
LEMMA EnterUserIInv ==
  ASSUME IInv, EnterUser
  PROVE  IInv'
<1>1. /\ phase = "loaded" /\ phase' = "user" /\ tlb' = EmptyTlb /\ wrote' = {}
      /\ UNCHANGED <<vbreak, app, pte, content>>
  BY DEF EnterUser
<1>2. EmptyTlb \in [Page -> Cached] /\ \A p \in Page : ~ EmptyTlb[p].present
  BY DEF EmptyTlb, Cached, NoEntry
<1>3. TypeOK'
  BY <1>1, <1>2 DEF IInv, TypeOK, Phase
<1>4. Marked' /\ OwnRegion' /\ WritableMap' /\ BootMap'
  BY <1>1 DEF IInv, BootMap, Marked, OwnRegion, WritableMap, Active, Running, Region
<1>5. DirtyExact'
  BY <1>1 DEF IInv, DirtyExact, Running, Region
<1>6. TlbAgrees'
  BY <1>1, <1>2 DEF TlbAgrees
<1> QED BY <1>3, <1>4, <1>5, <1>6 DEF IInv

\* A walk of the page table sets the accessed bit and no other.
LEMMA TlbFillIInv ==
  ASSUME IInv, NEW p \in Page, TlbFill(p)
  PROVE  IInv'
<1>1. /\ phase = "user" /\ ~ tlb[p].present
      /\ pte' = [pte EXCEPT ![p].accessed = TRUE]
      /\ tlb' = [tlb EXCEPT ![p] = [present |-> TRUE, user |-> pte[p].user,
                               writable |-> pte[p].writable, dirty |-> pte[p].dirty]]
      /\ UNCHANGED <<phase, vbreak, app, content, wrote>>
  BY DEF TlbFill
<1>2. pte \in [Page -> Flags] /\ tlb \in [Page -> Cached]
  BY DEF IInv, TypeOK
<1>3. /\ pte' \in [Page -> Flags]
      /\ \A q \in Page : /\ pte'[q].user = pte[q].user /\ pte'[q].writable = pte[q].writable
                         /\ pte'[q].dirty = pte[q].dirty /\ pte'[q].duck = pte[q].duck
                         /\ pte[q].accessed => pte'[q].accessed
      /\ pte'[p].accessed
  BY <1>1, <1>2 DEF Flags
<1>4. /\ tlb' \in [Page -> Cached]
      /\ \A q \in Page : q # p => tlb'[q] = tlb[q]
      /\ tlb'[p].user = pte[p].user /\ tlb'[p].writable = pte[p].writable
      /\ tlb'[p].dirty = pte[p].dirty
  BY <1>1, <1>2 DEF Flags, Cached
<1>5. TypeOK'
  BY <1>1, <1>3, <1>4 DEF IInv, TypeOK
<1>6. Region' = Region /\ Region \subseteq Page
  BY <1>1 DEF Region, Pages
<1>7. Marked' /\ OwnRegion' /\ WritableMap' /\ BootMap'
  BY <1>1, <1>3, <1>6 DEF IInv, BootMap, Marked, OwnRegion, WritableMap, Active, Running
<1>8. DirtyExact'
  BY <1>1, <1>3, <1>6 DEF IInv, TypeOK, DirtyExact, Running
<1>9. TlbAgrees'
  BY <1>1, <1>3, <1>4 DEF IInv, TlbAgrees
<1> QED BY <1>5, <1>7, <1>8, <1>9 DEF IInv

\* An entry that the processor drops is written through already.
LEMMA TlbEvictIInv ==
  ASSUME IInv, NEW p \in Page, TlbEvict(p)
  PROVE  IInv'
<1>1. /\ phase = "user" /\ tlb' = [tlb EXCEPT ![p] = NoEntry]
      /\ UNCHANGED <<phase, vbreak, app, pte, content, wrote>>
  BY DEF TlbEvict
<1>2. tlb \in [Page -> Cached]
  BY DEF IInv, TypeOK
<1>3. /\ tlb' \in [Page -> Cached] /\ ~ tlb'[p].present
      /\ \A q \in Page : q # p => tlb'[q] = tlb[q]
  BY <1>1, <1>2 DEF Cached, NoEntry
<1>4. TypeOK'
  BY <1>1, <1>3 DEF IInv, TypeOK
<1>5. Marked' /\ OwnRegion' /\ WritableMap' /\ BootMap' /\ DirtyExact'
  BY <1>1 DEF IInv, BootMap, Marked, OwnRegion, WritableMap, DirtyExact, Active, Running, Region
<1>6. TlbAgrees'
  BY <1>1, <1>3 DEF IInv, TlbAgrees
<1> QED BY <1>4, <1>5, <1>6 DEF IInv

\* A store goes to a page mapped writable, and leaves the dirty bit behind.
LEMMA UserWriteIInv ==
  ASSUME IInv, NEW p \in Page, UserWrite(p)
  PROVE  IInv'
<1>1. /\ phase = "user" /\ tlb[p].present /\ tlb[p].user /\ tlb[p].writable
      /\ pte' = IF tlb[p].dirty THEN pte ELSE [pte EXCEPT ![p].dirty = TRUE]
      /\ tlb' = [tlb EXCEPT ![p].dirty = TRUE]
      /\ content' = [content EXCEPT ![p] = @ \cup {"own"}]
      /\ wrote' = wrote \cup {p}
      /\ UNCHANGED <<phase, vbreak, app>>
  BY DEF UserWrite
<1>2. /\ pte \in [Page -> Flags] /\ tlb \in [Page -> Cached]
      /\ content \in [Page -> SUBSET Owner] /\ wrote \subseteq Page
  BY DEF IInv, TypeOK
<1>3. /\ pte[p].user /\ pte[p].writable /\ pte[p].accessed
      /\ tlb[p].dirty => pte[p].dirty
  BY <1>1 DEF IInv, TlbAgrees
<1>4. p \in Region /\ p \notin ReadonlyPages(app.elf, app.layout)
  BY <1>1, <1>3 DEF IInv, WritableMap, Active
<1>5. /\ pte' \in [Page -> Flags]
      /\ pte'[p].dirty
      /\ \A q \in Page : /\ pte'[q].user = pte[q].user /\ pte'[q].writable = pte[q].writable
                         /\ pte'[q].duck = pte[q].duck /\ pte'[q].accessed = pte[q].accessed
                         /\ q # p => pte'[q].dirty = pte[q].dirty
  <2>1. CASE tlb[p].dirty
    BY <1>1, <1>2, <1>3, <2>1
  <2>2. CASE ~ tlb[p].dirty
    BY <1>1, <1>2, <2>2 DEF Flags
  <2> QED BY <2>1, <2>2
<1>6. /\ tlb' \in [Page -> Cached]
      /\ \A q \in Page : q # p => tlb'[q] = tlb[q]
      /\ tlb'[p].user = tlb[p].user /\ tlb'[p].writable = tlb[p].writable
      /\ tlb'[p].present = tlb[p].present
  BY <1>1, <1>2 DEF Cached
<1>7. /\ content' \in [Page -> SUBSET Owner]
      /\ content'[p] = content[p] \cup {"own"}
      /\ \A q \in Page : q # p => content'[q] = content[q]
  BY <1>1, <1>2 DEF Owner
<1>8. TypeOK'
  BY <1>1, <1>2, <1>5, <1>6, <1>7 DEF IInv, TypeOK
<1>9. Region' = Region /\ Region \subseteq Page
  BY <1>1 DEF Region, Pages
<1>10. Marked'
  <2> SUFFICES ASSUME NEW q \in Page, content'[q] # {}
               PROVE  pte'[q].duck \/ (q \in Region /\ pte'[q].dirty)
    BY <1>1, <1>9 DEF Marked, Running
  <2>1. CASE q = p
    BY <1>4, <1>5, <2>1
  <2>2. CASE q # p
    BY <1>5, <1>7, <2>2 DEF IInv, Marked
  <2> QED BY <2>1, <2>2
<1>11. OwnRegion'
  <2> SUFFICES ASSUME NEW q \in Region PROVE content'[q] \subseteq {"own"}
    BY <1>9 DEF OwnRegion
  <2>1. content[q] \subseteq {"own"} /\ q \in Page
    BY <1>1, <1>9 DEF IInv, OwnRegion, Active
  <2> QED BY <1>7, <2>1
<1>12. WritableMap' /\ BootMap'
  BY <1>1, <1>5, <1>9 DEF IInv, WritableMap, BootMap, Active
<1>13. DirtyExact'
  <2>1. /\ \A q \in Region : pte[q].dirty <=> q \in wrote
        /\ wrote \subseteq Region \ ReadonlyPages(app.elf, app.layout)
        /\ \A q \in wrote : pte[q].accessed
    BY <1>1 DEF IInv, DirtyExact, Running
  <2>2. \A q \in Region : pte'[q].dirty <=> q \in wrote'
    BY <1>1, <1>5, <1>9, <2>1
  <2>3. wrote' \subseteq Region \ ReadonlyPages(app.elf, app.layout)
    BY <1>1, <1>4, <2>1
  <2>4. \A q \in wrote' : pte'[q].accessed
    BY <1>1, <1>2, <1>3, <1>5, <2>1
  <2> QED BY <1>1, <1>9, <2>2, <2>3, <2>4 DEF DirtyExact, Running
<1>14. TlbAgrees'
  <2> SUFFICES ASSUME NEW q \in Page, tlb'[q].present
               PROVE  /\ tlb'[q].user = pte'[q].user
                      /\ tlb'[q].writable = pte'[q].writable
                      /\ tlb'[q].dirty => pte'[q].dirty
                      /\ pte'[q].accessed
    BY DEF TlbAgrees
  <2>1. CASE q = p
    BY <1>1, <1>3, <1>5, <1>6, <2>1 DEF IInv, TlbAgrees
  <2>2. CASE q # p
    <3>1. /\ tlb[q].user = pte[q].user /\ tlb[q].writable = pte[q].writable
          /\ tlb[q].dirty => pte[q].dirty
          /\ pte[q].accessed
      BY <1>1, <1>6, <2>2 DEF IInv, TlbAgrees
    <3> QED BY <1>5, <1>6, <2>2, <3>1
  <2> QED BY <2>1, <2>2
<1> QED BY <1>8, <1>10, <1>11, <1>12, <1>13, <1>14 DEF IInv

\* A trap changes no page.
LEMMA UserTrapIInv ==
  ASSUME IInv, UserTrap
  PROVE  IInv'
<1>1. /\ phase = "user" /\ phase' = "trapped" /\ tlb' = EmptyTlb
      /\ UNCHANGED <<vbreak, app, pte, content, wrote>>
  BY DEF UserTrap
<1>2. EmptyTlb \in [Page -> Cached]
  BY DEF EmptyTlb, Cached, NoEntry
<1>3. TypeOK'
  BY <1>1, <1>2 DEF IInv, TypeOK, Phase
<1> QED BY <1>1, <1>3
        DEF IInv, BootMap, Marked, OwnRegion, WritableMap, DirtyExact, TlbAgrees,
            Active, Running, Region

\* After a run every page with data on it is marked for the next load.
LEMMA RunFinishIInv ==
  ASSUME IInv, RunFinish
  PROVE  IInv'
<1>1. /\ phase = "trapped" /\ phase' = "idle" /\ wrote' = {}
      /\ pte' = [p \in Page |-> IF p \in Region THEN set_duck_written_by_dirty(pte[p])
                                                ELSE pte[p]]
      /\ UNCHANGED <<vbreak, tlb, content>>
  BY DEF RunFinish
<1>2. pte \in [Page -> Flags]
  BY DEF IInv, TypeOK
<1>3. /\ pte' \in [Page -> Flags]
      /\ \A p \in Page :
           /\ pte'[p].user = pte[p].user /\ pte'[p].writable = pte[p].writable
           /\ pte[p].duck \/ (p \in Region /\ pte[p].dirty) => pte'[p].duck
  BY <1>1, <1>2 DEF Flags, set_duck_written_by_dirty
<1>4. TypeOK'
  BY <1>1, <1>3 DEF IInv, TypeOK, Phase
<1>5. Marked'
  BY <1>1, <1>3 DEF IInv, Marked
<1>6. WritableMap'
  BY <1>1, <1>3 DEF IInv, WritableMap, Active
<1> QED BY <1>1, <1>4, <1>5, <1>6
        DEF IInv, BootMap, OwnRegion, DirtyExact, TlbAgrees, Active, Running

\* The invariant is inductive.
LEMMA NextIInv == IInv /\ [Next]_vars => IInv'
<1> SUFFICES ASSUME IInv, [Next]_vars PROVE IInv'
  OBVIOUS
<1>1. CASE UNCHANGED vars
  BY <1>1 DEF vars, IInv, TypeOK, BootMap, Marked, OwnRegion, WritableMap, DirtyExact,
              TlbAgrees, Active, Running, Region
<1>2. CASE Next
  BY <1>2, AllocateIInv, BootDoneIInv, LoadIInv, EnterUserIInv, TlbFillIInv, TlbEvictIInv,
     UserWriteIInv, UserTrapIInv, RunFinishIInv DEF Next
<1> QED BY <1>1, <1>2

\* Every reachable state satisfies the invariant.
LEMMA AlwaysIInv == Spec => []IInv
  BY InitIInv, NextIInv, PTL DEF Spec

-----------------------------------------------------------------------------
(* The theorems *)

\* Type correctness: in particular a program that is loaded passed the checks
\* of ELF::load against the vaddr_break that is still in force.
THEOREM TypeCorrect == Spec => []TypeOK
<1>1. IInv => TypeOK
  BY DEF IInv
<1> QED BY <1>1, AlwaysIInv, PTL

\* No running program reaches data of an earlier one in the pages of its own
\* region.  Nothing is said of the page behind it that holds the ELF image of a
\* 32-bit program, which is not cleared (ImagePageCleared).
THEOREM Isolated == Spec => []Isolation
<1>1. IInv => Isolation
  BY DEF IInv, OwnRegion, Isolation, Active
<1> QED BY <1>1, AlwaysIInv, PTL

\* No program changes its input, its image or its read-only segments.
THEOREM InputsStayIntact == Spec => []InputsIntact
<1>1. IInv => InputsIntact
  BY DEF IInv, DirtyExact, InputsIntact, Running
<1> QED BY <1>1, AlwaysIInv, PTL

\* Removing part of a finite set takes its size off.
LEMMA RemovedSize ==
  ASSUME NEW S, IsFiniteSet(S), NEW T \in SUBSET S, NEW W \in SUBSET (S \ T)
  PROVE  Cardinality(W) <= Cardinality(S) - Cardinality(T)
<1>1. IsFiniteSet(S \ T) /\ IsFiniteSet(T)
  BY FS_Subset
<1>2. Cardinality(S \ T) = Cardinality(S) - Cardinality(S \cap T)
  BY FS_Difference
<1>3. S \cap T = T
  OBVIOUS
<1>4. Cardinality(W) <= Cardinality(S \ T)
  BY <1>1, FS_Subset
<1> QED BY <1>2, <1>3, <1>4

\* A loaded program's stdin lies in its region.
LEMMA StdinInRegion ==
  ASSUME IInv, Active
  PROVE  Pages(app.layout.brk, app.layout.stdin) \subseteq Region
<1>1. PICK e \in Elfs, c \in Configs :
        /\ app = [elf |-> e, config |-> c, layout |-> Layout(e.class, c)]
        /\ Accepts(e, c, vbreak)
  BY DEF IInv, TypeOK, Active
<1> DEFINE L == Layout(e.class, c)
<1>2. app.layout = L
  BY <1>1
<1>3. /\ e \in Elf /\ c \in AppConfig /\ vbreak \in KernelBreak .. VaddrTop
      /\ e.class \in {32, 64} /\ RegionsOk(c, L, vbreak)
  BY <1>1, MemoryAssumption DEF IInv, TypeOK, Accepts, Elf
<1>4. LayoutSound(e, c, vbreak)
  BY <1>1, <1>3, AcceptedIsSound
<1>5. /\ L.start + PageSize <= L.brk /\ L.stdin <= L.stdout /\ L.stdout <= L.stderr
      /\ L.stderr <= L.ib /\ L.ib <= L.ob
  BY <1>4 DEF LayoutSound
<1>6. /\ L.start \in UInt64 /\ L.brk \in UInt64 /\ L.stdin \in UInt64 /\ L.stdout \in UInt64
      /\ L.stderr \in UInt64 /\ L.ib \in UInt64 /\ L.ob \in UInt64
      /\ L.image = L.ob + PageSize
      /\ L.random = IF e.class = 64 THEN L.image + PageSize ELSE L.image
      /\ L.special = IF e.class = 64 THEN L.random ELSE L.ob
  BY <1>3, RegionsExact
<1> HIDE DEF L
<1>7. L.start <= L.brk /\ L.stdin <= L.special /\ L.special \in Nat
  BY <1>5, <1>6, Sizes DEF UInt64
<1>8. /\ L.start \in Nat /\ L.brk \in Nat /\ L.stdin \in Nat
  BY <1>6, Sizes DEF UInt64
<1>9. ASSUME NEW p \in Nat, L.brk <= p, p < L.stdin
      PROVE  L.start <= p /\ p < L.special
  BY <1>7, <1>8, <1>9
<1>10. Page \subseteq Nat
  BY Sizes DEF Page
<1> QED BY <1>2, <1>9, <1>10 DEF Region, Pages

\* The pages the judger reports as used are the pages the program wrote, and no
\* more than the pages it reports as accessed.
THEOREM Measured == Spec => []MemoryMeasured
<1>1. ASSUME IInv PROVE MemoryMeasured
  <2> SUFFICES ASSUME phase = "trapped"
               PROVE  /\ {p \in Region : pte[p].dirty} = wrote
                      /\ memory_pages <= memory_pages_accessed
    BY DEF MemoryMeasured
  <2>1. /\ \A p \in Region : pte[p].dirty <=> p \in wrote
        /\ wrote \subseteq Region \ ReadonlyPages(app.elf, app.layout)
        /\ \A p \in wrote : pte[p].accessed
    BY <1>1 DEF IInv, DirtyExact, Running
  <2>2. {p \in Region : pte[p].dirty} = wrote
    BY <2>1
  <2> DEFINE stdin == Pages(app.layout.brk, app.layout.stdin)
             S == {p \in Region : pte[p].accessed}
             T == {p \in stdin : pte[p].accessed}
  <2>3. IsFiniteSet(S)
    <3>1. IsFiniteSet(KernelBreak .. VaddrTop - 1)
      BY Sizes, FS_Interval
    <3>2. S \subseteq KernelBreak .. VaddrTop - 1
      BY DEF Region, Pages, Page
    <3> QED BY <3>1, <3>2, FS_Subset
  <2>4. stdin \subseteq Region /\ stdin \subseteq ReadonlyPages(app.elf, app.layout)
    BY <1>1, StdinInRegion DEF Active, ReadonlyPages, InputPages
  <2>5. T \in SUBSET S /\ wrote \in SUBSET (S \ T)
    BY <2>1, <2>4
  <2>6. Cardinality(wrote) <= Cardinality(S) - Cardinality(T)
    BY <2>3, <2>5, RemovedSize
  <2>7. memory_pages = Cardinality(wrote)
    BY <2>2 DEF memory_pages, count_dirty_pages
  <2>8. memory_pages_accessed = Cardinality(S) - Cardinality(T)
    BY DEF memory_pages_accessed, count_accessed_pages
  <2> QED BY <2>2, <2>6, <2>7, <2>8
<1> QED BY <1>1, AlwaysIInv, PTL

-----------------------------------------------------------------------------
(* The kernel's memory *)

\* What lies beyond vaddr_break is the judger's, also while it is being set up.
KernelInv ==
  /\ phase = "boot" => \A p \in Pages(vbreak, VaddrTop) : content[p] = {"kern"}
  /\ \A p \in Pages(vbreak + ImageOverhang, VaddrTop) :
       content[p] = {"kern"} /\ ~ pte[p].user /\ ~ tlb[p].user

\* The page a 32-bit image may take beyond vaddr_break is the only one.
LEMMA OverhangSize ==
  /\ ImageOverhang \in Nat
  /\ \A e \in Elfs : e.class = 32 => ImageOverhang = PageSize
  BY Sizes DEF ImageOverhang

\* A load maps and writes pages below vaddr_break only, but for a 32-bit image.
LEMMA LoadBelowBreak ==
  ASSUME NEW e \in Elfs, NEW c \in AppConfig, vbreak \in KernelBreak .. VaddrTop,
         Accepts(e, c, vbreak), NEW p \in Page, vbreak + ImageOverhang <= p
  PROVE  LET L == Layout(e.class, c)
         IN  /\ p \notin Pages(L.start, L.special)
             /\ p \notin WrittenPages(e, c, L)
             /\ p \notin ReadonlyPages(e, L)
<1> DEFINE L == Layout(e.class, c)
<1>0. e \in Elf
  BY MemoryAssumption
<1>1. RegionsOk(c, L, vbreak) /\ e.class \in {32, 64} /\ LayoutSound(e, c, vbreak)
  BY <1>0, AcceptedIsSound DEF Accepts, Elf
<1>2. /\ L.start + PageSize <= L.brk /\ L.brk <= L.stdin /\ L.stdin <= L.stdout
      /\ L.stdout <= L.stderr /\ L.stderr <= L.ib /\ L.ib <= L.ob /\ L.ob <= vbreak
      /\ e.class = 64 => L.random <= vbreak
      /\ \A i \in 1 .. Len(e.segs) : Top(e.segs[i]) + PageSize <= L.brk
  BY <1>1 DEF LayoutSound
<1>3. /\ L.brk \in UInt64 /\ L.stdin \in UInt64 /\ L.stdout \in UInt64
      /\ L.stderr \in UInt64 /\ L.ib \in UInt64 /\ L.ob \in UInt64
      /\ L.image = L.ob + PageSize
      /\ L.random = IF e.class = 64 THEN L.image + PageSize ELSE L.image
      /\ L.special = IF e.class = 64 THEN L.random ELSE L.ob
  BY <1>1, RegionsExact
<1>4. \A i \in 1 .. Len(e.segs) : e.segs[i] \in Segment
  BY <1>0 DEF Elf
<1>5. \A i \in 1 .. Len(e.segs) : e.segs[i].memsz >= e.segs[i].filesz
  BY DEF Accepts, SegmentsOk
<1> HIDE DEF L
<1>6. /\ L.brk \in Nat /\ L.stdin \in Nat /\ L.stdout \in Nat /\ L.stderr \in Nat
      /\ L.ib \in Nat /\ L.ob \in Nat /\ PageSize \in Nat /\ p \in Nat /\ vbreak \in Nat
  BY <1>3, Sizes DEF UInt64, Page
<1>7. /\ L.brk <= p /\ L.stdin <= p /\ L.ib <= p /\ L.ob <= p /\ L.image <= p
      /\ L.random <= p /\ L.special <= p
      /\ L.image \in Nat /\ L.random \in Nat
  <2>0. L.ob + PageSize \in Nat /\ vbreak <= p /\ vbreak + ImageOverhang <= p
    BY <1>6, OverhangSize
  <2>1. L.random <= p /\ L.random \in Nat
    <3>1. CASE e.class = 64
      <4>1. L.random = L.ob + PageSize + PageSize /\ L.random <= vbreak
        BY <1>2, <1>3, <3>1
      <4> QED BY <1>6, <2>0, <4>1
    <3>2. CASE e.class = 32
      <4>1. L.random = L.ob + PageSize /\ L.ob <= vbreak /\ ImageOverhang = PageSize
        BY <1>2, <1>3, <3>2, OverhangSize
      <4> QED BY <1>6, <2>0, <4>1
    <3> QED BY <1>1, <3>1, <3>2
  <2>2. ASSUME NEW a \in Nat, NEW b \in Nat, a <= b, b <= p
        PROVE  a <= p
    BY <1>6, <2>2
  <2>3. L.ob <= p /\ L.image \in Nat /\ L.image <= L.random
    BY <1>2, <1>3, <1>6, <2>0, <2>1, <2>2
  <2>4. L.ib <= p
    BY <1>2, <1>6, <2>2, <2>3
  <2>5. L.stderr <= p
    BY <1>2, <1>6, <2>2, <2>4
  <2>6. L.stdout <= p
    BY <1>2, <1>6, <2>2, <2>5
  <2>7. L.stdin <= p
    BY <1>2, <1>6, <2>2, <2>6
  <2>8. L.brk <= p
    BY <1>2, <1>6, <2>2, <2>7
  <2>9. L.image <= p /\ L.special <= p
    BY <1>3, <1>6, <2>1, <2>2, <2>3
  <2> QED BY <2>1, <2>3, <2>4, <2>7, <2>8, <2>9
<1>8. ASSUME NEW x \in Nat, NEW start, x <= p
      PROVE  p \notin Pages(start, x)
  BY <1>6, <1>8 DEF Pages
<1>9. /\ p \notin Pages(L.start, L.special) /\ p \notin Pages(L.brk, L.stdin)
      /\ p \notin Pages(L.stderr, L.ib) /\ p \notin Pages(L.ib, L.ob)
      /\ p \notin Pages(L.ob, L.image) /\ p \notin Pages(L.image, L.random)
      /\ p \notin Pages(L.ob, L.random) /\ p \notin Pages(L.brk - PageSize, L.brk)
  BY <1>3, <1>6, <1>7, <1>8
<1>10. ASSUME NEW x \in Nat, x + PageSize <= L.brk
       PROVE  RoundUp(x) \in Nat /\ RoundUp(x) <= p
  <2>1. L.brk < Word
    BY <1>3, Sizes DEF UInt64
  <2>2. Add(x, PageSize - 1) = x + PageSize - 1
    BY <1>6, <1>10, <2>1, Sizes DEF Add
  <2>3. x + PageSize - 1 \in Nat
    BY Sizes
  <2>4. /\ RoundUp(x) = ((x + PageSize - 1) \div PageSize) * PageSize
        /\ RoundUp(x) \in Nat /\ RoundUp(x) <= x + PageSize - 1
    <3>1. RoundUp(x) = ((x + PageSize - 1) \div PageSize) * PageSize
      BY <2>2 DEF RoundUp
    <3>2. PageSize \in Nat \ {0}
      BY Sizes
    <3> QED BY <2>3, <3>1, <3>2, DivMul
  <2> QED BY <1>6, <1>7, <1>10, <2>4
<1>11. ASSUME NEW i \in 1 .. Len(e.segs)
       PROVE  /\ p \notin Pages(RoundDown(e.segs[i].vaddr), RoundUp(Top(e.segs[i])))
              /\ p \notin Pages(RoundDown(e.segs[i].vaddr),
                                RoundUp(e.segs[i].vaddr + e.segs[i].filesz))
  <2> DEFINE s == e.segs[i]
  <2>1. s.vaddr \in Nat /\ s.memsz \in Nat /\ s.filesz \in Nat
    BY <1>4, Sizes DEF Segment, UInt64
  <2>2. s.vaddr + s.memsz + PageSize <= L.brk /\ s.filesz <= s.memsz
    BY <1>2, <1>5, <2>1 DEF Top
  <2> HIDE DEF s
  <2>3. s.vaddr + s.filesz \in Nat /\ s.vaddr + s.filesz + PageSize <= L.brk
    <3>1. L.brk \in Nat /\ PageSize \in Nat
      BY <1>6
    <3>2. ASSUME NEW v \in Nat, NEW f \in Nat, NEW m \in Nat, NEW page \in Nat,
                 NEW brk \in Nat, v + m + page <= brk, f <= m
          PROVE  v + f \in Nat /\ v + f + page <= brk
      BY <3>2
    <3> QED BY <2>1, <2>2, <3>1, <3>2
  <2>4. s.vaddr + s.memsz \in Nat
    BY <2>1
  <2>5. /\ RoundUp(s.vaddr + s.filesz) \in Nat /\ RoundUp(s.vaddr + s.filesz) <= p
        /\ RoundUp(s.vaddr + s.memsz) \in Nat /\ RoundUp(s.vaddr + s.memsz) <= p
    BY <1>10, <2>2, <2>3, <2>4
  <2> QED BY <1>8, <2>5 DEF s, Top
<1>12. p \notin CopiedSegments(e)
  BY <1>11 DEF CopiedSegments
<1>13. p \notin WrittenPages(e, c, L)
  BY <1>9, <1>12 DEF WrittenPages
<1>14. p \notin ReadonlyPages(e, L)
  BY <1>9, <1>11 DEF ReadonlyPages, InputPages, SegmentsOver
<1> QED BY <1>9, <1>13, <1>14 DEF L

\* Every step leaves the judger's memory alone.
LEMMA NextKernelInv ==
  ASSUME IInv, KernelInv, [Next]_vars
  PROVE  KernelInv'
<1>1. /\ pte \in [Page -> Flags] /\ tlb \in [Page -> Cached]
      /\ content \in [Page -> SUBSET Owner] /\ vbreak \in KernelBreak .. VaddrTop
  BY DEF IInv, TypeOK
<1>2. ASSUME NEW size \in AllocSizes, allocate_virtual_memory(size)
      PROVE  KernelInv'
  <2>1. /\ phase = "boot" /\ UNCHANGED <<pte, tlb>>
        /\ content' = [p \in Page |-> IF p \in Pages(vbreak', vbreak) THEN {"kern"}
                                                                     ELSE content[p]]
    BY <1>2 DEF allocate_virtual_memory
  <2>2. TypeOK'
    BY <1>2, AllocateIInv DEF IInv
  <2>3. vbreak \in Nat /\ vbreak' \in Nat
    BY <1>1, <2>2, Sizes DEF TypeOK
  <2>4. ASSUME NEW p \in Pages(vbreak', VaddrTop)
        PROVE  content'[p] = {"kern"}
    <3>1. p \in Page /\ p \in Nat /\ vbreak' <= p /\ p < VaddrTop
      BY Sizes DEF Pages, Page
    <3>2. CASE p < vbreak
      BY <2>1, <3>1, <3>2 DEF Pages
    <3>3. CASE vbreak <= p
      <4>1. p \in Pages(vbreak, VaddrTop) /\ p \notin Pages(vbreak', vbreak)
        BY <2>3, <3>1, <3>3 DEF Pages
      <4> QED BY <2>1, <3>1, <4>1 DEF KernelInv
    <3> QED BY <2>3, <3>1, <3>2, <3>3
  <2>5. Pages(vbreak' + ImageOverhang, VaddrTop) \subseteq Pages(vbreak', VaddrTop)
    <3>1. ASSUME NEW a \in Nat, NEW b \in Nat, NEW p \in Nat, a + b <= p
          PROVE  a <= p
      BY <3>1
    <3>2. Page \subseteq Nat
      BY Sizes DEF Page
    <3>3. ASSUME NEW p \in Page, vbreak' + ImageOverhang <= p
          PROVE  vbreak' <= p
      BY <2>3, <3>1, <3>2, <3>3, OverhangSize
    <3> QED BY <3>3 DEF Pages
  <2>6. \A p \in Page : ~ pte'[p].user /\ ~ tlb'[p].user
    BY <2>1 DEF IInv, BootMap
  <2> QED BY <2>4, <2>5, <2>6 DEF KernelInv, Pages
<1>3. ASSUME NEW e \in Elfs, NEW c \in Configs, Load(e, c)
      PROVE  KernelInv'
  <2> DEFINE L == Layout(e.class, c)
  <2>1. /\ Accepts(e, c, vbreak) /\ UNCHANGED vbreak /\ phase' = "loaded"
        /\ pte' = [p \in Page |-> LoadedFlags(p, e, c, L)]
        /\ content' = [p \in Page |-> LoadedContent(p, e, c, L)]
        /\ tlb' = [p \in Page |-> LoadedTlb(p, e, c, L)]
    BY <1>3 DEF Load
  <2> SUFFICES ASSUME NEW p \in Pages(vbreak + ImageOverhang, VaddrTop)
               PROVE  content'[p] = {"kern"} /\ ~ pte'[p].user /\ ~ tlb'[p].user
    BY <2>1 DEF KernelInv
  <2>2. p \in Page /\ vbreak + ImageOverhang <= p
    BY DEF Pages
  <2>3. c \in AppConfig
    BY MemoryAssumption
  <2>4. /\ p \notin Pages(L.start, L.special)
        /\ p \notin WrittenPages(e, c, L)
        /\ p \notin ReadonlyPages(e, L)
    BY <1>1, <2>1, <2>2, <2>3, LoadBelowBreak
  <2> HIDE DEF L
  <2>5. p \notin ClearedPages(L)
    BY <2>4 DEF ClearedPages
  <2>6. content[p] = {"kern"} /\ ~ pte[p].user
    BY DEF KernelInv
  <2>7. content'[p] = {"kern"}
    <3>1. Aged({"kern"}) = {"kern"}
      BY DEF Aged
    <3>2. p \notin Pages(L.ob, L.image)
      BY <2>4 DEF WrittenPages
    <3>3. LoadedContent(p, e, c, L) = Aged(content[p])
      BY <2>4, <2>5, <3>2 DEF LoadedContent
    <3> QED BY <2>1, <2>2, <2>6, <3>1, <3>3
  <2>8. ~ pte'[p].user
    BY <1>1, <2>1, <2>2, <2>4, <2>6, FlagsAfterLoad
  <2>9. ~ tlb'[p].user
    BY <2>1, <2>2, <2>4, <2>5 DEF LoadedTlb, NoEntry
  <2> QED BY <2>7, <2>8, <2>9
<1>4. CASE EnterUser \/ UserTrap \/ BootDone \/ UNCHANGED vars
  BY <1>4 DEF EnterUser, UserTrap, BootDone, vars, KernelInv, EmptyTlb, NoEntry, Pages
<1>5. ASSUME NEW p \in Page, TlbFill(p)
      PROVE  KernelInv'
  <2>1. /\ pte[p].user /\ UNCHANGED <<phase, vbreak, content>>
        /\ pte' = [pte EXCEPT ![p].accessed = TRUE]
        /\ \A q \in Page : q # p => tlb'[q] = tlb[q]
    BY <1>1, <1>5 DEF TlbFill
  <2>2. p \notin Pages(vbreak + ImageOverhang, VaddrTop)
    BY <2>1 DEF KernelInv
  <2> QED BY <1>1, <2>1, <2>2 DEF KernelInv, Pages
<1>6. ASSUME NEW p \in Page, TlbEvict(p)
      PROVE  KernelInv'
  <2>1. UNCHANGED <<phase, vbreak, content, pte>> /\ tlb' = [tlb EXCEPT ![p] = NoEntry]
    BY <1>6 DEF TlbEvict
  <2> QED BY <1>1, <2>1 DEF KernelInv, Pages, NoEntry
<1>7. ASSUME NEW p \in Page, UserWrite(p)
      PROVE  KernelInv'
  <2>1. /\ tlb[p].user /\ phase' = "user" /\ UNCHANGED vbreak
        /\ \A q \in Page : q # p => /\ tlb'[q] = tlb[q] /\ pte'[q] = pte[q]
                                    /\ content'[q] = content[q]
    BY <1>1, <1>7 DEF UserWrite
  <2>2. p \notin Pages(vbreak + ImageOverhang, VaddrTop)
    BY <2>1 DEF KernelInv
  <2> QED BY <2>1, <2>2 DEF KernelInv, Pages
<1>8. ASSUME RunFinish
      PROVE  KernelInv'
  <2>1. /\ phase' = "idle" /\ UNCHANGED <<vbreak, content, tlb>>
        /\ \A q \in Page : pte'[q].user = pte[q].user
    BY <1>1, <1>8 DEF RunFinish, set_duck_written_by_dirty, Flags
  <2> QED BY <2>1 DEF KernelInv, Pages
<1> QED BY <1>2, <1>3, <1>4, <1>5, <1>6, <1>7, <1>8 DEF Next

\* The judger's buffer and caches are neither written by a load nor mapped for a
\* program, but for the page that a 32-bit image may take at vaddr_break.
THEOREM KernelMemoryStaysIntact == Spec => []KernelMemoryIntact
<1>1. Init => KernelInv
  BY Sizes, OverhangSize DEF Init, KernelInv, Pages, Page
<1>2. IInv /\ KernelInv /\ [Next]_vars => KernelInv'
  BY NextKernelInv
<1>3. KernelInv => KernelMemoryIntact
  BY DEF KernelInv, KernelMemoryIntact
<1> QED BY <1>1, <1>2, <1>3, AlwaysIInv, PTL DEF Spec

-----------------------------------------------------------------------------
(* The layout of what is loaded *)

\* A loaded program is one that ELF::load accepts.
LEMMA LoadedAccepted ==
  ASSUME IInv, Active
  PROVE  /\ app.elf \in Elf /\ app.config \in AppConfig
         /\ vbreak \in KernelBreak .. VaddrTop
         /\ Accepts(app.elf, app.config, vbreak)
<1>1. PICK e \in Elfs, c \in Configs :
        /\ app = [elf |-> e, config |-> c, layout |-> Layout(e.class, c)]
        /\ Accepts(e, c, vbreak)
  BY DEF IInv, TypeOK, Active
<1> QED BY <1>1, MemoryAssumption DEF IInv, TypeOK

\* Whatever is asked for, the regions of a loaded program lie in order between
\* the kernel and vaddr_break and are as large as the request says.
THEOREM LayoutStaysSound == Spec => []LoadedLayoutSound
<1>1. ASSUME IInv PROVE LoadedLayoutSound
  <2> SUFFICES ASSUME Active PROVE LayoutSound(app.elf, app.config, vbreak)
    BY DEF LoadedLayoutSound, Active
  <2> QED BY <1>1, LoadedAccepted, AcceptedIsSound
<1> QED BY <1>1, AlwaysIInv, PTL

\* No program is loaded with a memory limit whose product with 1024 wrapped.
THEOREM LimitStaysExact == Spec => []LoadedLimitExact
<1>1. ASSUME IInv PROVE LoadedLimitExact
  <2> SUFFICES ASSUME Active, NEW kb \in UInt64, LimitOk(kb),
                      HardLimit(kb) = app.config.memory_hard_limit
               PROVE  app.config.memory_hard_limit = kb * KiB
    BY DEF LoadedLimitExact, Active
  <2>1. kb \in Nat
    BY Sizes DEF UInt64
  <2>2. LimitSound(app.elf, app.config, vbreak, kb)
    BY <1>1, <2>1, LoadedAccepted, AcceptedLimitIsExact
  <2> QED BY <1>1, <2>2, LoadedAccepted DEF LimitSound
<1> QED BY <1>1, AlwaysIInv, PTL
=============================================================================
