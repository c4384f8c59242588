------------------------------ MODULE UserLib ------------------------------
(***************************************************************************)
(* The C library's system calls inside a judged program:                   *)
(* user_lib/duck64_syscall_handler.cpp and its 32-bit twin, and what       *)
(* ELF::run reads of the program's output when the program has stopped.    *)
(*                                                                         *)
(* A program can be stopped between any two steps (time limit, exception), *)
(* so duck_write is two steps: the copy, then the new size, which is all   *)
(* that the kernel looks at.                                               *)
(*                                                                         *)
(* The bytes of stdin are numbered by their position, and the bytes that   *)
(* the program writes by the order in which it writes them.                *)
(***************************************************************************)
EXTENDS Integers, Sequences, FiniteSets, FiniteSetsExt

CONSTANTS
    StdinSize,    \* duckinfo->stdin_size
    Limit,        \* duckinfo->stdout_limit and stderr_limit, by descriptor
    Lens,         \* lengths of the parts of a read or a write, below 2^31
    MaxParts,     \* bound: parts of one readv or writev
    MaxBytes,     \* bound: bytes that the program writes
    PageSize, PoolPages, ImageEnd, HeapTop,  \* mmap pool and heap, in bytes
    Word,         \* 2^64
    MapSizes,     \* lengths of mappings
    MaxMaps       \* bound: mmap calls

ASSUME UserLibAssumption ==
    /\ {StdinSize, MaxParts, MaxBytes, PoolPages, HeapTop, MaxMaps, Word} \subseteq Nat
    /\ PageSize \in Nat \ {0}
    /\ Limit \in [{1, 2} -> Nat]
    /\ Lens \subseteq Nat /\ MapSizes \subseteq 0 .. Word - 1
    /\ ImageEnd \in Nat /\ ImageEnd >= PoolPages * PageSize
    /\ PoolPages * PageSize + PageSize <= Word

VARIABLES
    class,      \* 32 or 64
    inited,
    running,    \* the program was not stopped
    call,       \* the system call under way
    pos,        \* stdin_curr_pos
    size,       \* duckinfo->stdout_size and stderr_size
    region,     \* the two output regions
    written,    \* history: the bytes the handler has counted and reports as written
    next,       \* the next byte the program writes
    got,        \* history: the bytes the program read
    heap_brk,
    mmap_p,     \* __mmap_p, from the start of the pool
    maps,       \* history: the areas that mmap returned
    result      \* the output that ELF::run reports

ioVars  == <<pos, size, region, written, next, got>>
memVars == <<heap_brk, mmap_p, maps>>
vars    == <<class, inited, running, call, ioVars, memVars, result>>

Out     == {1, 2}
NoCall  == [op |-> "none", fd |-> 0, parts |-> <<>>, copied |-> FALSE]
NoBytes == [fd \in Out |-> <<>>]

\* Round up to the page size.
PageUp(n) == ((n + PageSize - 1) \div PageSize) * PageSize

\* As the kernel leaves it: sizes zero, regions cleared.
Init ==
    /\ class \in {32, 64}
    /\ inited = FALSE /\ running = TRUE /\ call = NoCall
    /\ pos = 0
    /\ size = [fd \in Out |-> 0]
    /\ region = [fd \in Out |-> [i \in 1 .. Limit[fd] |-> 0]]
    /\ written = NoBytes /\ next = 1 /\ got = <<>>
    /\ heap_brk = 0 /\ mmap_p = 0 /\ maps = {}
    /\ result = NoBytes

-----------------------------------------------------------------------------
(* Entry of the handler.                                                   *)

\* The first system call sets up the library's state.
SetUp ==
    /\ running /\ call = NoCall
    /\ inited' = TRUE
    /\ IF inited THEN UNCHANGED <<pos, size, heap_brk>>
                 ELSE /\ pos' = 0
                      /\ size' = [fd \in Out |-> 0]
                      /\ heap_brk' = PageUp(ImageEnd)

\* read, readv, write and writev; one part is read or write.  The lengths are
\* below 2^31, so that (int) a3 of SYS_read does not change them.
StartIO(op, fd, parts) ==
    /\ SetUp
    /\ call' = [op |-> op, fd |-> fd, parts |-> parts, copied |-> FALSE]
    /\ UNCHANGED <<class, running, region, written, next, got, mmap_p, maps, result>>

\* The loop of readv and writev: on to the next part unless this one is short.
Loop(done) ==
    call' = IF done = Head(call.parts) /\ Len(call.parts) > 1
            THEN [call EXCEPT !.parts = Tail(@), !.copied = FALSE]
            ELSE NoCall

-----------------------------------------------------------------------------
(* Input and output.                                                       *)

\* A read that forgets to advance.
ReadAgain ==
    /\ call.op = "read"
    /\ LET n == IF call.fd = 0 THEN Min({Head(call.parts), StdinSize - pos}) ELSE 0
       IN  /\ got' = got \o [i \in 1 .. n |-> pos + i]
           /\ Loop(n)
    /\ UNCHANGED <<class, inited, running, pos, size, region, written, next,
                   memVars, result>>

\* Other descriptors than stdin read nothing.
duck_read ==
    /\ call.op = "read"
    /\ LET n == IF call.fd = 0 THEN Min({Head(call.parts), StdinSize - pos}) ELSE 0
       IN  /\ got' = got \o [i \in 1 .. n |-> pos + i]
           /\ pos' = pos + n
           /\ Loop(n)
    /\ UNCHANGED <<class, inited, running, size, region, written, next,
                   memVars, result>>

\* actual_len
Fitting(fd, n) == Min({n, Limit[fd] - size[fd]})

\* The size is counted before the bytes are there.
CountFirst ==
    /\ call.op = "write" /\ call.fd \in Out /\ ~ call.copied
    /\ size' = [size EXCEPT ![call.fd] = @ + Fitting(call.fd, Head(call.parts))]
    /\ call' = [call EXCEPT !.copied = TRUE]
    /\ UNCHANGED <<class, inited, running, pos, region, written, next, got,
                   memVars, result>>

\* duck_write, the copy.
WriteCopy ==
    /\ call.op = "write" /\ call.fd \in Out /\ ~ call.copied
    /\ LET fd == call.fd
           n  == Fitting(fd, Head(call.parts))
       IN  region' = [region EXCEPT ![fd] =
                        [i \in 1 .. Limit[fd] |->
                            IF i \in size[fd] + 1 .. size[fd] + n
                            THEN next + (i - size[fd] - 1) ELSE @[i]]]
    /\ call' = [call EXCEPT !.copied = TRUE]
    /\ UNCHANGED <<class, inited, running, pos, size, written, next, got,
                   memVars, result>>

\* The 32-bit handler hides what did not fit, too.
CountSilent ==
    /\ call.op = "write" /\ call.copied
    /\ LET fd   == call.fd
           n    == Fitting(fd, Head(call.parts))
           done == Head(call.parts)
       IN  /\ size' = [size EXCEPT ![fd] = @ + n]
           /\ written' = [written EXCEPT ![fd] = @ \o [i \in 1 .. done |-> next + i - 1]]
           /\ next' = next + done
           /\ Loop(done)
    /\ UNCHANGED <<class, inited, running, pos, region, got, memVars, result>>

\* duck_write, the size.  The 64-bit handler silently truncates the output and
\* reports everything as written, the 32-bit handler what it copied.  From here on
\* the bytes are counted, although the call has still to return.
WriteCount ==
    /\ call.op = "write" /\ call.copied
    /\ LET fd   == call.fd
           n    == Fitting(fd, Head(call.parts))
           done == IF class = 64 THEN Head(call.parts) ELSE n
       IN  /\ size' = [size EXCEPT ![fd] = @ + n]
           /\ written' = [written EXCEPT ![fd] = @ \o [i \in 1 .. done |-> next + i - 1]]
           /\ next' = next + done
           /\ Loop(done)
    /\ UNCHANGED <<class, inited, running, pos, region, got, memVars, result>>

\* Other descriptors are not written.
WriteNone ==
    /\ call.op = "write" /\ call.fd \notin Out
    /\ Loop(0)
    /\ UNCHANGED <<class, inited, running, ioVars, memVars, result>>

-----------------------------------------------------------------------------
(* Memory.                                                                 *)

\* brk(0) asks; the heap never shrinks and has no limit.
duck_brk(addr) ==
    /\ running /\ call = NoCall
    /\ inited' = TRUE
    /\ IF inited THEN UNCHANGED <<pos, size>>
                 ELSE pos' = 0 /\ size' = [fd \in Out |-> 0]
    /\ LET brk == IF inited THEN heap_brk ELSE PageUp(ImageEnd)
       IN  heap_brk' = Max({brk, addr})
    /\ UNCHANGED <<class, running, call, region, written, next, got,
                   mmap_p, maps, result>>

\* Round up to the page size in 64 bits.
Rounded(n) == (((n + PageSize - 1) % Word) \div PageSize) * PageSize

\* A size that is not rounded.
MmapUnrounded(n) ==
    /\ class = 64
    /\ SetUp
    /\ maps' = maps \cup {[start |-> mmap_p, len |-> n]}
    /\ mmap_p' = (mmap_p + n) % Word
    /\ UNCHANGED <<class, running, call, region, written, next, got, result>>

\* mmap of the 64-bit handler: the next pages of the pool, whether or not there
\* are so many.  munmap gives nothing back.
duck_mmap_temp(n) ==
    /\ class = 64
    /\ SetUp
    /\ maps' = maps \cup {[start |-> mmap_p, len |-> n]}
    /\ mmap_p' = (mmap_p + Rounded(n)) % Word
    /\ UNCHANGED <<class, running, call, region, written, next, got, result>>

\* The program stops, at any point: ELF::run reports the sizes it finds.
Stop ==
    /\ running
    /\ running' = FALSE
    /\ result' = [fd \in Out |-> SubSeq(region[fd], 1, Min({Limit[fd], size[fd]}))]
    /\ UNCHANGED <<class, inited, call, ioVars, memVars>>

-----------------------------------------------------------------------------
Parts == UNION {[1 .. n -> Lens] : n \in 1 .. MaxParts}

Total(parts) == MapThenSumSet(LAMBDA i : parts[i], DOMAIN parts)

Next ==
    \/ \E op \in {"read", "write"}, fd \in 0 .. 3, parts \in Parts :
          /\ op = "write" => next + Total(parts) <= MaxBytes + 1
          /\ StartIO(op, fd, parts)
    \/ running /\ (duck_read \/ WriteCopy \/ WriteCount \/ WriteNone)
    \/ \E addr \in 0 .. HeapTop : duck_brk(addr)
    \/ \E n \in MapSizes : Cardinality(maps) < MaxMaps /\ duck_mmap_temp(n)
    \/ Stop

Spec == Init /\ [][Next]_vars

-----------------------------------------------------------------------------
(* Properties.                                                             *)

\* Whenever the program is stopped, the reported output is exactly what the
\* handler had counted as written, in order, up to the limit: no byte that was
\* not copied yet, and none that the program was told of is missing.
OutputReported ==
    ~ running =>
        \A fd \in Out :
            result[fd] = SubSeq(written[fd], 1, Min({Len(written[fd]), Limit[fd]}))

\* A 32-bit program is told of every byte that did not fit.
NothingDropped ==
    class = 32 => \A fd \in Out : Len(written[fd]) <= Limit[fd]

\* The reads of a program give the bytes of stdin one after the other, each
\* once, however read and readv are mixed and cut.
InputInOrder == got = [i \in 1 .. Len(got) |-> i] /\ Len(got) <= StdinSize

Area(m) == m.start .. m.start + m.len - 1

InPool(m) == m.start + m.len <= PoolPages * PageSize

\* As long as everything that mmap returned lies in the pool, the mappings are
\* aligned to pages, disjoint, and below the heap.
MapsDisjoint ==
    (\A m \in maps : InPool(m)) =>
        \A m \in maps :
            /\ m.start % PageSize = 0
            /\ \A z \in maps \ {m} : Area(m) \cap Area(z) = {}
            /\ inited => m.start + m.len <= heap_brk

=============================================================================
