--------------------------- MODULE UserLibProofs ---------------------------
(***************************************************************************)
(* Proofs about the system calls of a judged program, for every length of  *)
(* the input, every limit of the outputs and every size of the pool.       *)
(***************************************************************************)
EXTENDS UserLib, SequenceTheorems, TLAPS

\* min of two lengths.
LEMMA MinPair ==
    ASSUME NEW a \in Int, NEW b \in Int
    PROVE  Min({a, b}) = IF a <= b THEN a ELSE b
<1> DEFINE m == IF a <= b THEN a ELSE b
<1>1. m \in {a, b} /\ \A y \in {a, b} : m <= y
  OBVIOUS
<1>2. \A x \in {a, b} : (\A y \in {a, b} : x <= y) => x = m
  OBVIOUS
<1> QED
  BY <1>1, <1>2 DEF Min

\* max of two addresses.
LEMMA MaxPair ==
    ASSUME NEW a \in Int, NEW b \in Int
    PROVE  Max({a, b}) = IF a >= b THEN a ELSE b
<1> DEFINE m == IF a >= b THEN a ELSE b
<1>1. m \in {a, b} /\ \A y \in {a, b} : m >= y
  OBVIOUS
<1>2. \A x \in {a, b} : (\A y \in {a, b} : x >= y) => x = m
  OBVIOUS
<1> QED
  BY <1>1, <1>2 DEF Max

\* A region of n bytes is a sequence of n bytes.
LEMMA RegionIsSeq ==
    ASSUME NEW n \in Nat, NEW f \in [1 .. n -> Nat]
    PROVE  f \in Seq(Nat) /\ Len(f) = n
  OBVIOUS

\* Bytes that are added at the end of a stream leave what is before.
LEMMA Extend ==
    ASSUME NEW s \in Seq(Nat), NEW n \in Nat, NEW f \in [1 .. n -> Nat]
    PROVE  /\ s \o f \in Seq(Nat)
           /\ Len(s \o f) = Len(s) + n
           /\ \A i \in 1 .. Len(s) : (s \o f)[i] = s[i]
           /\ \A i \in 1 .. n : (s \o f)[Len(s) + i] = f[i]
<1>1. f \in Seq(Nat) /\ Len(f) = n
  BY RegionIsSeq
<1>2. /\ s \o f \in Seq(Nat)
      /\ Len(s \o f) = Len(s) + Len(f)
      /\ \A i \in 1 .. Len(s) + Len(f) : (s \o f)[i] =
            IF i <= Len(s) THEN s[i] ELSE f[i - Len(s)]
  BY <1>1, ConcatProperties, Zenon
<1> QED
  BY <1>1, <1>2

-----------------------------------------------------------------------------
(* The inductive invariant.                                                *)

\* A call under way has a part that is not done.
CallOK ==
    \/ call = NoCall
    \/ /\ call \in [op : {"read", "write"}, fd : 0 .. 3, parts : Seq(Nat),
                    copied : BOOLEAN]
       /\ call.parts # <<>>

Types ==
    /\ class \in {32, 64}
    /\ inited \in BOOLEAN /\ running \in BOOLEAN
    /\ CallOK
    /\ pos \in Nat /\ got \in Seq(Nat)
    /\ size \in [Out -> Nat] /\ next \in Nat
    /\ written \in [Out -> Seq(Nat)]
    /\ region \in [Out -> Seq(Nat)] /\ \A fd \in Out : Len(region[fd]) = Limit[fd]

\* Before the first call there is nothing that the set-up could lose.
FreshInv ==
    ~inited => /\ call = NoCall /\ pos = 0 /\ maps = {}
               /\ size = [fd \in Out |-> 0]

\* The position in stdin is the number of bytes read.
InputInv ==
    /\ Len(got) = pos /\ pos <= StdinSize
    /\ \A i \in 1 .. pos : got[i] = i

\* The size counts what was reported and fits, and those bytes are there.
CountedInv ==
    \A fd \in Out :
        /\ size[fd] = IF Len(written[fd]) <= Limit[fd] THEN Len(written[fd]) ELSE Limit[fd]
        /\ \A i \in 1 .. size[fd] : region[fd][i] = written[fd][i]
        /\ class = 32 => Len(written[fd]) <= Limit[fd]

\* What a write has copied is behind what is counted.
CopiedInv ==
    call.copied =>
        /\ call.op = "write" /\ call.fd \in Out
        /\ \A i \in 1 .. Limit[call.fd] :
              i > size[call.fd] /\ i <= size[call.fd] + Head(call.parts)
                  => region[call.fd][i] = next + (i - size[call.fd] - 1)

\* Mappings that lie in the pool are whole pages one after the other, and the heap
\* is above the pool from the first call on.
MapInv ==
    /\ mmap_p \in Nat
    /\ heap_brk \in Nat
    /\ maps \subseteq [start : Nat, len : Nat]
    /\ (\A m \in maps : InPool(m)) =>
          /\ mmap_p % PageSize = 0
          /\ \A m \in maps : m.start % PageSize = 0 /\ m.start + m.len <= mmap_p
          /\ \A m, z \in maps :
                m # z => m.start + m.len <= z.start \/ z.start + z.len <= m.start
    /\ inited => heap_brk >= PoolPages * PageSize

IInv == Types /\ FreshInv /\ InputInv /\ CountedInv /\ CopiedInv /\ MapInv
           /\ OutputReported

\* Rounding down gives whole pages, less than one page short.
LEMMA WholePages ==
    ASSUME NEW a \in Nat, NEW p \in Nat \ {0}
    PROVE  /\ (a \div p) * p \in Nat /\ a < (a \div p) * p + p
           /\ (a \div p) * p <= a /\ ((a \div p) * p) % p = 0
  OBVIOUS

\* Rounding up gives whole pages, and enough of them.
LEMMA PageUpWhole ==
    ASSUME NEW n \in Nat
    PROVE  PageUp(n) \in Nat /\ PageUp(n) >= n /\ PageUp(n) % PageSize = 0
<1>1. PageSize \in Nat \ {0} /\ n + PageSize - 1 \in Nat
  BY UserLibAssumption
<1> QED
  BY <1>1, WholePages DEF PageUp

\* Whole pages behind whole pages are whole pages.
LEMMA PagesAdd ==
    ASSUME NEW a \in Nat, NEW b \in Nat, NEW p \in Nat \ {0}, a % p = 0, b % p = 0
    PROVE  (a + b) % p = 0
<1>1. a = (a \div p) * p /\ b = (b \div p) * p
  OBVIOUS
<1>2. ((a \div p) + (b \div p)) * p = a + b
  BY <1>1
<1>3. ASSUME NEW k \in Nat PROVE (k * p) % p = 0
  OBVIOUS
<1> QED
  BY <1>2, <1>3

\* The set-up of the first call changes nothing but the heap.
LEMMA SetUpKeeps ==
    ASSUME IInv, SetUp
    PROVE  /\ inited' = TRUE /\ pos' = pos /\ size' = size
           /\ heap_brk' \in Nat /\ heap_brk' >= PoolPages * PageSize
<1>1. PageUp(ImageEnd) \in Nat /\ PageUp(ImageEnd) >= ImageEnd
  BY PageUpWhole, UserLibAssumption
<1>2. /\ ImageEnd \in Nat /\ PoolPages * PageSize \in Nat
      /\ ImageEnd >= PoolPages * PageSize
  BY UserLibAssumption
<1>3. CASE inited
  BY <1>3 DEF IInv, MapInv, SetUp
<1>4. CASE ~inited
  BY <1>1, <1>2, <1>4 DEF IInv, FreshInv, SetUp
<1> QED
  BY <1>3, <1>4

\* What is left of a list of parts when its first part is done.
LEMMA TailLong ==
    ASSUME NEW s \in Seq(Nat), Len(s) > 1
    PROVE  Tail(s) \in Seq(Nat) /\ Tail(s) # <<>>
<1>1. s # <<>> /\ Len(s) \in Nat
  OBVIOUS
<1>2. Tail(s) \in Seq(Nat) /\ Len(Tail(s)) = Len(s) - 1
  BY <1>1, HeadTailProperties
<1>3. Len(Tail(s)) # 0
  BY <1>1, <1>2
<1>4. Len(<<>>) = 0
  BY EmptySeq
<1> QED
  BY <1>2, <1>3, <1>4, Zenon

\* After a part the call is at an end or at its next part, with nothing copied.
LEMMA LoopCall ==
    ASSUME Types, call # NoCall, NEW done, Loop(done)
    PROVE  CallOK' /\ ~ call'.copied
<1>1. /\ call \in [op : {"read", "write"}, fd : 0 .. 3, parts : Seq(Nat), copied : BOOLEAN]
      /\ call.parts # <<>>
  BY DEF Types, CallOK
<1>2. CASE done = Head(call.parts) /\ Len(call.parts) > 1
  <2>1. call' = [call EXCEPT !.parts = Tail(@), !.copied = FALSE]
    BY <1>2 DEF Loop
  <2>2. Tail(call.parts) \in Seq(Nat) /\ Tail(call.parts) # <<>>
    BY <1>1, <1>2, TailLong
  <2> QED
    BY <1>1, <2>1, <2>2 DEF CallOK
<1>3. CASE ~(done = Head(call.parts) /\ Len(call.parts) > 1)
  BY <1>3 DEF Loop, CallOK, NoCall
<1> QED
  BY <1>2, <1>3

-----------------------------------------------------------------------------
(* Every operation keeps the invariant.                                    *)

\* The first part of a call under way is a length.
LEMMA CallPart ==
    ASSUME Types, call.op # "none"
    PROVE  /\ call # NoCall /\ call.fd \in 0 .. 3 /\ call.parts \in Seq(Nat)
           /\ Head(call.parts) \in Nat
<1>1. /\ call # NoCall
      /\ call \in [op : {"read", "write"}, fd : 0 .. 3, parts : Seq(Nat), copied : BOOLEAN]
      /\ call.parts # <<>>
  BY DEF Types, CallOK, NoCall
<1>2. call.parts \in Seq(Nat)
  BY <1>1
<1> QED
  BY <1>1, <1>2, HeadTailProperties

\* StartIO: nothing is copied yet.
LEMMA StartKeeps ==
    ASSUME IInv, NEW op \in {"read", "write"}, NEW fd \in 0 .. 3, NEW parts \in Parts,
           StartIO(op, fd, parts)
    PROVE  IInv'
<1>1. /\ inited' = TRUE /\ pos' = pos /\ size' = size
      /\ heap_brk' \in Nat /\ heap_brk' >= PoolPages * PageSize
  BY SetUpKeeps DEF StartIO
<1>2. parts \in Seq(Nat) /\ parts # <<>>
  <2>1. PICK n \in 1 .. MaxParts : parts \in [1 .. n -> Lens]
    BY DEF Parts
  <2>0. n \in Nat /\ n # 0
    BY UserLibAssumption
  <2>2. parts \in [1 .. n -> Nat]
    BY <2>1, UserLibAssumption
  <2>3. parts \in Seq(Nat) /\ Len(parts) = n
    BY <2>0, <2>2
  <2>4. Len(<<>>) = 0
    BY EmptySeq
  <2>5. Len(parts) # 0
    BY <2>0, <2>3, Zenon
  <2> QED
    BY <2>3, <2>4, <2>5, Zenon
<1>3. call' = [op |-> op, fd |-> fd, parts |-> parts, copied |-> FALSE]
  BY DEF StartIO
<1>4. running' = running /\ running = TRUE
  BY DEF StartIO, SetUp, IInv, Types
<1>5. Types'
  BY <1>1, <1>2, <1>3 DEF StartIO, IInv, Types, CallOK
<1>6. FreshInv' /\ InputInv' /\ CountedInv'
  BY <1>1 DEF StartIO, IInv, FreshInv, InputInv, CountedInv
<1>7. CopiedInv' /\ OutputReported'
  BY <1>3, <1>4 DEF CopiedInv, OutputReported
<1>8. MapInv'
  BY <1>1 DEF StartIO, IInv, MapInv
<1> QED
  BY <1>5, <1>6, <1>7, <1>8 DEF IInv

\* duck_read: the next bytes, as many as are left.
LEMMA ReadKeeps ==
    ASSUME IInv, running, duck_read
    PROVE  IInv'
<1> DEFINE n == IF call.fd = 0 THEN Min({Head(call.parts), StdinSize - pos}) ELSE 0
           f == [i \in 1 .. n |-> pos + i]
<1>1. /\ call.op = "read" /\ got' = got \o f /\ pos' = pos + n /\ Loop(n)
      /\ UNCHANGED <<class, inited, running, size, region, written, next, memVars, result>>
  BY DEF duck_read
<1>2. Types /\ pos \in Nat /\ StdinSize \in Nat /\ pos <= StdinSize
  BY UserLibAssumption DEF IInv, Types, InputInv
<1>3. call # NoCall /\ Head(call.parts) \in Nat
  BY <1>1, <1>2, CallPart
<1>4. n \in Nat /\ pos + n <= StdinSize
  BY <1>2, <1>3, MinPair
<1> HIDE DEF n
<1>5. got \in Seq(Nat) /\ f \in [1 .. n -> Nat]
  BY <1>2, <1>4 DEF Types
<1> HIDE DEF f
<1>6. /\ got' \in Seq(Nat)
      /\ Len(got') = Len(got) + n
      /\ \A i \in 1 .. Len(got) : got'[i] = got[i]
      /\ \A i \in 1 .. n : got'[Len(got) + i] = f[i]
  BY <1>1, <1>4, <1>5, Extend
<1>7. CallOK' /\ ~ call'.copied
  BY <1>1, <1>2, <1>3, LoopCall
<1>8. Types'
  BY <1>1, <1>2, <1>4, <1>6, <1>7 DEF Types
<1>9. InputInv'
  <2>1. Len(got') = pos' /\ pos' <= StdinSize
    BY <1>1, <1>2, <1>4, <1>6 DEF IInv, InputInv
  <2>2. ASSUME NEW i \in 1 .. pos' PROVE got'[i] = i
    <3>1. CASE i <= pos
      BY <3>1, <1>1, <1>2, <1>4, <1>6 DEF IInv, InputInv
    <3>2. CASE i > pos
      <4>1. i - pos \in 1 .. n /\ pos + (i - pos) = i /\ Len(got) = pos
        BY <3>2, <1>1, <1>2, <1>4 DEF IInv, InputInv
      <4>2. f[i - pos] = i
        BY <4>1 DEF f
      <4> QED
        BY <4>1, <4>2, <1>6
    <3>3. i <= pos \/ i > pos
      BY <1>1, <1>2, <1>4
    <3> QED
      BY <3>1, <3>2, <3>3
  <2> QED
    BY <2>1, <2>2 DEF InputInv
<1>10. CountedInv' /\ MapInv'
  BY <1>1 DEF IInv, CountedInv, MapInv, memVars
<1>11. inited
  BY <1>3 DEF IInv, FreshInv
<1>12. FreshInv' /\ CopiedInv' /\ OutputReported'
  BY <1>1, <1>7, <1>11 DEF FreshInv, CopiedInv, OutputReported
<1> QED
  BY <1>8, <1>9, <1>10, <1>12 DEF IInv

\* Only what fits is copied and counted.
LEMMA FittingLength ==
    ASSUME IInv, NEW fd \in Out, NEW k \in Nat
    PROVE  /\ size[fd] \in Nat /\ Limit[fd] \in Nat /\ size[fd] <= Limit[fd]
           /\ Fitting(fd, k) \in Nat
           /\ Fitting(fd, k) = IF k <= Limit[fd] - size[fd] THEN k ELSE Limit[fd] - size[fd]
<1>1. size[fd] \in Nat /\ Limit[fd] \in Nat
  BY UserLibAssumption DEF IInv, Types, Out
<1>2. written[fd] \in Seq(Nat)
  BY DEF IInv, Types
<1>3. size[fd] <= Limit[fd]
  BY <1>1, <1>2 DEF IInv, CountedInv
<1>4. Fitting(fd, k) = IF k <= Limit[fd] - size[fd] THEN k ELSE Limit[fd] - size[fd]
  BY <1>1, MinPair DEF Fitting
<1> QED
  BY <1>1, <1>3, <1>4

\* The copy of duck_write: it changes nothing that is counted.
LEMMA CopyKeeps ==
    ASSUME IInv, running, WriteCopy
    PROVE  IInv'
<1> DEFINE fd == call.fd
           k  == Head(call.parts)
           n  == Fitting(fd, k)
<1>1. /\ call.op = "write" /\ fd \in Out /\ ~ call.copied
      /\ region' = [region EXCEPT ![fd] =
                        [i \in 1 .. Limit[fd] |->
                            IF i \in size[fd] + 1 .. size[fd] + n
                            THEN next + (i - size[fd] - 1) ELSE @[i]]]
      /\ call' = [call EXCEPT !.copied = TRUE]
      /\ UNCHANGED <<class, inited, running, pos, size, written, next, got, memVars, result>>
  BY DEF WriteCopy
<1>2. Types
  BY DEF IInv
<1>3. call # NoCall /\ k \in Nat /\ call.parts \in Seq(Nat)
  BY <1>1, <1>2, CallPart
<1>4. /\ size[fd] \in Nat /\ Limit[fd] \in Nat /\ size[fd] <= Limit[fd] /\ n \in Nat
      /\ n = IF k <= Limit[fd] - size[fd] THEN k ELSE Limit[fd] - size[fd]
  BY <1>1, <1>3, FittingLength
<1>5. next \in Nat /\ region \in [Out -> Seq(Nat)] /\ Len(region[fd]) = Limit[fd]
  BY <1>1, <1>2 DEF Types
<1> HIDE DEF n
<1>6. /\ region' \in [Out -> Seq(Nat)] /\ Len(region'[fd]) = Limit[fd]
      /\ \A o \in Out : o # fd => region'[o] = region[o]
      /\ \A i \in 1 .. Limit[fd] :
            region'[fd][i] = IF i \in size[fd] + 1 .. size[fd] + n
                             THEN next + (i - size[fd] - 1) ELSE region[fd][i]
  <2> DEFINE g == [i \in 1 .. Limit[fd] |->
                     IF i \in size[fd] + 1 .. size[fd] + n
                     THEN next + (i - size[fd] - 1) ELSE region[fd][i]]
  <2>1. region' = [region EXCEPT ![fd] = g]
    BY <1>1
  <2>2. ASSUME NEW i \in 1 .. Limit[fd] PROVE region[fd][i] \in Nat
    <3>1. region[fd] \in Seq(Nat) /\ i \in 1 .. Len(region[fd])
      BY <1>1, <1>5
    <3> QED
      BY <3>1, ElementOfSeq
  <2>3. g \in [1 .. Limit[fd] -> Nat]
    <3> SUFFICES ASSUME NEW i \in 1 .. Limit[fd],
                        i \in size[fd] + 1 .. size[fd] + n
                 PROVE  next + (i - size[fd] - 1) \in Nat
      BY <2>2, Zenon
    <3>1. size[fd] \in Nat /\ next \in Nat /\ n \in Nat
      BY <1>4, <1>5
    <3> QED
      BY <3>1
  <2>4. \A i \in 1 .. Limit[fd] : g[i] = IF i \in size[fd] + 1 .. size[fd] + n
                             THEN next + (i - size[fd] - 1) ELSE region[fd][i]
    OBVIOUS
  <2> HIDE DEF g
  <2>5. g \in Seq(Nat) /\ Len(g) = Limit[fd]
    BY <1>4, <2>3, RegionIsSeq, Zenon
  <2> QED
    BY <1>1, <1>5, <2>1, <2>4, <2>5
<1>7. /\ call' \in [op : {"read", "write"}, fd : 0 .. 3, parts : Seq(Nat), copied : BOOLEAN]
      /\ call'.parts = call.parts /\ call'.fd = fd /\ call'.op = "write"
      /\ call.parts # <<>>
  BY <1>1, <1>2, <1>3 DEF Types, CallOK
<1>8. Types'
  <2>1. \A o \in Out : Len(region'[o]) = Limit[o]
    BY <1>2, <1>6 DEF Types
  <2> QED
    BY <1>1, <1>2, <1>6, <1>7, <2>1 DEF Types, CallOK
<1>9. CountedInv'
  <2>0. size' = size /\ written' = written /\ class' = class /\ CountedInv
    BY <1>1 DEF IInv
  <2> SUFFICES ASSUME NEW o \in Out, NEW i \in 1 .. size[o]
               PROVE  region'[o][i] = written[o][i]
    BY <2>0 DEF CountedInv
  <2>1. CASE o # fd
    BY <2>1, <1>6 DEF IInv, CountedInv
  <2>2. CASE o = fd
    BY <2>2, <1>1, <1>4, <1>6 DEF IInv, CountedInv
  <2> QED
    BY <2>1, <2>2
<1>10. CopiedInv'
  <2>0. size' = size /\ next' = next
    BY <1>1
  <2>1. ASSUME NEW i \in 1 .. Limit[fd], i > size[fd], i <= size[fd] + k
        PROVE  region'[fd][i] = next + (i - size[fd] - 1)
    <3>1. i \in size[fd] + 1 .. size[fd] + n
      BY <1>3, <1>4, <2>1
    <3> QED
      BY <1>6, <3>1
  <2> QED
    BY <1>1, <1>7, <2>0, <2>1 DEF CopiedInv
<1>11. inited
  BY <1>3 DEF IInv, FreshInv
<1>12. FreshInv' /\ InputInv' /\ MapInv' /\ OutputReported'
  BY <1>1, <1>11 DEF IInv, FreshInv, InputInv, MapInv, OutputReported, memVars
<1> QED
  BY <1>8, <1>9, <1>10, <1>12 DEF IInv

\* A write to another descriptor changes nothing.
LEMMA NoneKeeps ==
    ASSUME IInv, running, WriteNone
    PROVE  IInv'
<1>1. /\ call.op = "write" /\ Loop(0)
      /\ UNCHANGED <<class, inited, running, ioVars, memVars, result>>
  BY DEF WriteNone
<1>2. Types
  BY DEF IInv
<1>3. call # NoCall
  BY <1>1, <1>2, CallPart
<1>4. CallOK' /\ ~ call'.copied
  BY <1>1, <1>2, <1>3, LoopCall
<1>5. inited
  BY <1>3 DEF IInv, FreshInv
<1>6. Types'
  BY <1>1, <1>2, <1>4 DEF Types, ioVars
<1>7. FreshInv' /\ InputInv' /\ CountedInv' /\ CopiedInv' /\ MapInv' /\ OutputReported'
  BY <1>1, <1>4, <1>5 DEF IInv, FreshInv, InputInv, CountedInv, CopiedInv, MapInv,
                          OutputReported, ioVars, memVars
<1> QED
  BY <1>6, <1>7 DEF IInv

\* The size of duck_write: what is counted now was copied, and the bytes that
\* were reported and do not fit are behind the limit.
LEMMA CountKeeps ==
    ASSUME IInv, running, WriteCount
    PROVE  IInv'
<1> DEFINE fd   == call.fd
           k    == Head(call.parts)
           n    == Fitting(fd, k)
           done == IF class = 64 THEN k ELSE n
           f    == [i \in 1 .. done |-> next + i - 1]
<1>1. /\ call.op = "write" /\ call.copied
      /\ size' = [size EXCEPT ![fd] = @ + n]
      /\ written' = [written EXCEPT ![fd] = @ \o f]
      /\ next' = next + done
      /\ Loop(done)
      /\ UNCHANGED <<class, inited, running, pos, region, got, memVars, result>>
  BY DEF WriteCount
<1>2. /\ Types /\ class \in {32, 64} /\ next \in Nat
      /\ size \in [Out -> Nat] /\ written \in [Out -> Seq(Nat)]
  BY DEF IInv, Types
<1>3. call # NoCall /\ k \in Nat
  BY <1>1, <1>2, CallPart
<1>4. /\ fd \in Out
      /\ \A i \in 1 .. Limit[fd] : i > size[fd] /\ i <= size[fd] + k
            => region[fd][i] = next + (i - size[fd] - 1)
  BY <1>1 DEF IInv, CopiedInv
<1>5. /\ size[fd] \in Nat /\ Limit[fd] \in Nat /\ size[fd] <= Limit[fd] /\ n \in Nat
      /\ n = IF k <= Limit[fd] - size[fd] THEN k ELSE Limit[fd] - size[fd]
  BY <1>3, <1>4, FittingLength
<1> HIDE DEF n
<1>6. /\ done \in Nat /\ n <= done /\ done <= k
      /\ class = 32 => done = n
      /\ n = IF done <= Limit[fd] - size[fd] THEN done ELSE Limit[fd] - size[fd]
  BY <1>2, <1>3, <1>5
<1> HIDE DEF done
<1> DEFINE w == written[fd]
<1>7. w \in Seq(Nat) /\ Len(w) \in Nat /\ f \in [1 .. done -> Nat]
  BY <1>2, <1>4, <1>6
<1>8. \A i \in 1 .. done : f[i] = next + i - 1
  OBVIOUS
<1> HIDE DEF f
<1>9. /\ w \o f \in Seq(Nat)
      /\ Len(w \o f) = Len(w) + done
      /\ \A i \in 1 .. Len(w) : (w \o f)[i] = w[i]
      /\ \A i \in 1 .. done : (w \o f)[Len(w) + i] = f[i]
  BY <1>6, <1>7, Extend
<1>10. /\ written' \in [Out -> Seq(Nat)] /\ written'[fd] = w \o f
       /\ size' \in [Out -> Nat] /\ size'[fd] = size[fd] + n
       /\ \A o \in Out : o # fd => written'[o] = written[o] /\ size'[o] = size[o]
  <2>1. written' = [written EXCEPT ![fd] = w \o f]
    BY <1>1
  <2>2. size' = [size EXCEPT ![fd] = size[fd] + n] /\ size[fd] + n \in Nat
    BY <1>1, <1>5
  <2> HIDE DEF w
  <2>3. /\ written' \in [Out -> Seq(Nat)] /\ written'[fd] = w \o f
        /\ \A o \in Out : o # fd => written'[o] = written[o]
    BY <1>2, <1>4, <1>9, <2>1
  <2>4. /\ size' \in [Out -> Nat] /\ size'[fd] = size[fd] + n
        /\ \A o \in Out : o # fd => size'[o] = size[o]
    BY <1>2, <1>4, <2>2
  <2> QED
    BY <2>3, <2>4
<1>11. CallOK' /\ ~ call'.copied
  BY <1>1, <1>2, <1>3, LoopCall
<1>12. Types'
  BY <1>1, <1>2, <1>6, <1>10, <1>11 DEF Types
<1>13. CountedInv'
  <2>0. class' = class /\ region' = region /\ CountedInv
    BY <1>1 DEF IInv
  <2>1. /\ size[fd] = IF Len(w) <= Limit[fd] THEN Len(w) ELSE Limit[fd]
        /\ class = 32 => Len(w) <= Limit[fd]
        /\ \A i \in 1 .. size[fd] : region[fd][i] = w[i]
    BY <1>4, <2>0 DEF CountedInv
  <2>2. /\ size[fd] + n = IF Len(w) + done <= Limit[fd] THEN Len(w) + done ELSE Limit[fd]
        /\ class = 32 => Len(w) + done <= Limit[fd]
    <3> HIDE DEF w
    <3>1. /\ Len(w) \in Nat /\ size[fd] \in Nat /\ Limit[fd] \in Nat /\ n \in Nat /\ done \in Nat
          /\ class = 32 => done = n
          /\ n = IF done <= Limit[fd] - size[fd] THEN done ELSE Limit[fd] - size[fd]
          /\ size[fd] = IF Len(w) <= Limit[fd] THEN Len(w) ELSE Limit[fd]
          /\ class = 32 => Len(w) <= Limit[fd]
      BY <1>5, <1>6, <1>7, <2>1
    <3> QED
      BY <3>1
  <2> HIDE DEF w
  <2>3. ASSUME NEW i \in 1 .. size[fd] + n PROVE region[fd][i] = (w \o f)[i]
    <3>0. i \in Nat /\ i <= size[fd] + n /\ (i <= size[fd] \/ i > size[fd])
      BY <1>5
    <3>1. CASE i <= size[fd]
      <4>1. i \in 1 .. size[fd] /\ i \in 1 .. Len(w)
        BY <1>5, <1>7, <2>1, <3>0, <3>1
      <4> QED
        BY <1>9, <2>1, <4>1
    <3>2. CASE i > size[fd]
      <4>1. size[fd] = Len(w) /\ i - Len(w) \in 1 .. done /\ Len(w) + (i - Len(w)) = i
        <5>1. /\ Len(w) \in Nat /\ size[fd] \in Nat /\ Limit[fd] \in Nat /\ n \in Nat
              /\ done \in Nat /\ n <= done
              /\ n = IF done <= Limit[fd] - size[fd] THEN done ELSE Limit[fd] - size[fd]
              /\ size[fd] = IF Len(w) <= Limit[fd] THEN Len(w) ELSE Limit[fd]
          BY <1>5, <1>6, <1>7, <2>1
        <5>2. size[fd] = Len(w)
          BY <5>1, <3>0, <3>2
        <5>3. i - size[fd] >= 1 /\ i - size[fd] <= n
          <6>1. size[fd] \in Nat /\ n \in Nat
            BY <5>1
          <6> QED
            BY <6>1, <3>0, <3>2
        <5>4. i - Len(w) \in 1 .. done
          BY <5>1, <5>2, <5>3, <3>0
        <5> QED
          BY <5>1, <5>2, <5>4, <3>0
      <4>2. (w \o f)[i] = next + (i - Len(w)) - 1
        BY <1>8, <1>9, <4>1
      <4>3. i \in 1 .. Limit[fd] /\ i <= size[fd] + k
        BY <1>3, <1>5, <1>6, <3>0
      <4>4. region[fd][i] = next + (i - size[fd] - 1)
        BY <1>4, <3>2, <4>3
      <4> QED
        BY <1>2, <1>7, <3>0, <4>1, <4>2, <4>4
    <3> QED
      BY <3>0, <3>1, <3>2
  <2>4. ASSUME NEW o \in Out
        PROVE  /\ size'[o] = IF Len(written'[o]) <= Limit[o] THEN Len(written'[o]) ELSE Limit[o]
               /\ \A i \in 1 .. size'[o] : region[o][i] = written'[o][i]
               /\ class = 32 => Len(written'[o]) <= Limit[o]
    <3>1. CASE o = fd
      <4>1. /\ size'[o] = size[fd] + n /\ written'[o] = w \o f
            /\ Len(written'[o]) = Len(w) + done /\ Limit[o] = Limit[fd]
            /\ region[o] = region[fd]
        BY <1>9, <1>10, <3>1
      <4> QED
        BY <2>2, <2>3, <4>1
    <3>2. CASE o # fd
      BY <1>10, <2>0, <3>2 DEF CountedInv
    <3> QED
      BY <3>1, <3>2
  <2> QED
    BY <2>0, <2>4 DEF CountedInv
<1>14. inited
  BY <1>3 DEF IInv, FreshInv
<1>15. FreshInv' /\ InputInv' /\ CopiedInv' /\ MapInv' /\ OutputReported'
  BY <1>1, <1>11, <1>14 DEF IInv, FreshInv, InputInv, CopiedInv, MapInv, OutputReported,
                            memVars
<1> QED
  BY <1>12, <1>13, <1>15 DEF IInv

\* duck_brk: the heap only grows.
LEMMA BrkKeeps ==
    ASSUME IInv, NEW addr \in 0 .. HeapTop, duck_brk(addr)
    PROVE  IInv'
<1> DEFINE brk == IF inited THEN heap_brk ELSE PageUp(ImageEnd)
<1>1. /\ inited' = TRUE /\ pos' = pos /\ size' = size /\ running
      /\ heap_brk' = Max({brk, addr})
      /\ UNCHANGED <<class, running, call, region, written, next, got, mmap_p, maps, result>>
  BY DEF duck_brk, IInv, FreshInv
<1>2. brk \in Nat /\ brk >= PoolPages * PageSize
  <2>1. PageUp(ImageEnd) \in Nat /\ PageUp(ImageEnd) >= ImageEnd
    BY PageUpWhole, UserLibAssumption
  <2>2. /\ ImageEnd \in Nat /\ PoolPages * PageSize \in Nat
        /\ ImageEnd >= PoolPages * PageSize
    BY UserLibAssumption
  <2> QED
    BY <2>1, <2>2 DEF IInv, MapInv
<1> HIDE DEF brk
<1>3. addr \in Nat /\ PoolPages * PageSize \in Nat
  BY UserLibAssumption
<1>4. heap_brk' \in Nat /\ heap_brk' >= PoolPages * PageSize
  BY <1>1, <1>2, <1>3, MaxPair
<1>5. Types' /\ FreshInv' /\ InputInv' /\ CountedInv' /\ CopiedInv'
  BY <1>1 DEF IInv, Types, CallOK, FreshInv, InputInv, CountedInv, CopiedInv
<1>6. MapInv' /\ OutputReported'
  BY <1>1, <1>4 DEF IInv, MapInv, OutputReported
<1> QED
  BY <1>5, <1>6 DEF IInv

\* duck_mmap_temp: the new mapping is behind all others.
LEMMA MmapKeeps ==
    ASSUME IInv, NEW n \in MapSizes, duck_mmap_temp(n)
    PROVE  IInv'
<1> DEFINE a == [start |-> mmap_p, len |-> n]
<1>1. /\ inited' = TRUE /\ pos' = pos /\ size' = size
      /\ heap_brk' \in Nat /\ heap_brk' >= PoolPages * PageSize
  BY SetUpKeeps DEF duck_mmap_temp
<1>2. /\ running /\ maps' = maps \cup {a} /\ mmap_p' = (mmap_p + Rounded(n)) % Word
      /\ UNCHANGED <<class, running, call, region, written, next, got, result>>
  BY DEF duck_mmap_temp, SetUp
<1>3. /\ n \in Nat /\ PageSize \in Nat \ {0} /\ Word \in Nat \ {0} /\ MapInv
      /\ PoolPages * PageSize \in Nat /\ PoolPages * PageSize + PageSize <= Word
  BY UserLibAssumption DEF IInv
<1>4. mmap_p \in Nat /\ PageUp(n) \in Nat /\ PageUp(n) >= n /\ PageUp(n) % PageSize = 0
  BY <1>3, PageUpWhole DEF MapInv
<1>5. Types' /\ FreshInv' /\ InputInv' /\ CountedInv' /\ CopiedInv' /\ OutputReported'
  BY <1>1, <1>2 DEF IInv, Types, CallOK, FreshInv, InputInv, CountedInv, CopiedInv,
                    OutputReported
<1>6. mmap_p' \in Nat
  <2>1. Rounded(n) \in Nat
    <3>1. (n + PageSize - 1) % Word \in Nat
      BY <1>3
    <3> QED BY <1>3, <3>1, WholePages DEF Rounded
  <2> QED BY <1>2, <1>3, <1>4, <2>1
<1>7. a \in [start : Nat, len : Nat] /\ a.start = mmap_p /\ a.len = n
  BY <1>3, <1>4
<1> HIDE DEF a
<1>8. maps' \subseteq [start : Nat, len : Nat]
  BY <1>2, <1>3, <1>7 DEF MapInv
<1>9. ASSUME \A m \in maps' : InPool(m)
      PROVE  /\ mmap_p' % PageSize = 0
             /\ \A m \in maps' : m.start % PageSize = 0 /\ m.start + m.len <= mmap_p'
             /\ \A m, z \in maps' :
                   m # z => m.start + m.len <= z.start \/ z.start + z.len <= m.start
  <2>1. InPool(a) /\ \A m \in maps : InPool(m)
    BY <1>2, <1>9
  <2>2. mmap_p + n <= PoolPages * PageSize
    BY <1>7, <2>1 DEF InPool
  <2>3. Rounded(n) = PageUp(n)
    <3>1. n + PageSize - 1 \in 0 .. Word - 1
      BY <1>3, <1>4, <2>2
    <3>2. (n + PageSize - 1) % Word = n + PageSize - 1
      BY <1>3, <3>1
    <3> QED BY <3>2 DEF Rounded, PageUp
  <2>4. PageUp(n) <= n + PageSize - 1
    <3>1. n + PageSize - 1 \in Nat
      BY <1>3
    <3> QED BY <1>3, <3>1, WholePages DEF PageUp
  <2>5. mmap_p' = mmap_p + PageUp(n)
    <3>1. mmap_p + PageUp(n) \in 0 .. Word - 1
      BY <1>3, <1>4, <2>2, <2>4
    <3> QED BY <1>2, <1>3, <2>3, <3>1
  <2>6. mmap_p % PageSize = 0 /\ mmap_p' % PageSize = 0
    BY <1>3, <1>4, <2>1, <2>5, PagesAdd DEF MapInv
  <2>7. mmap_p <= mmap_p' /\ a.start + a.len <= mmap_p'
    BY <1>3, <1>4, <1>7, <2>5
  <2>8. \A m \in maps : /\ m.start \in Nat /\ m.len \in Nat
                         /\ m.start % PageSize = 0 /\ m.start + m.len <= mmap_p
    BY <1>3, <2>1 DEF MapInv
  <2>9. \A m \in maps' : m.start % PageSize = 0 /\ m.start + m.len <= mmap_p'
    BY <1>2, <1>4, <1>6, <1>7, <2>6, <2>7, <2>8
  <2>10. \A m, z \in maps' :
           m # z => m.start + m.len <= z.start \/ z.start + z.len <= m.start
    BY <1>2, <1>3, <1>7, <2>1, <2>8 DEF MapInv
  <2> QED BY <2>6, <2>9, <2>10
<1>10. MapInv'
  BY <1>1, <1>6, <1>8, <1>9 DEF MapInv, InPool
<1> QED
  BY <1>5, <1>10 DEF IInv

\* Two streams with the same first bytes.
LEMMA SamePrefix ==
    ASSUME NEW s \in Seq(Nat), NEW t \in Seq(Nat), NEW n \in Nat,
           n <= Len(s), n <= Len(t), \A i \in 1 .. n : s[i] = t[i]
    PROVE  SubSeq(s, 1, n) = SubSeq(t, 1, n)
<1>1. \A i \in 1 .. n : s[i] \in Nat /\ t[i] \in Nat
  OBVIOUS
<1>2. /\ SubSeq(s, 1, n) \in Seq(Nat) /\ Len(SubSeq(s, 1, n)) = n
      /\ \A i \in 1 .. n : SubSeq(s, 1, n)[i] = s[i]
  BY <1>1, SubSeqProperties
<1>3. /\ SubSeq(t, 1, n) \in Seq(Nat) /\ Len(SubSeq(t, 1, n)) = n
      /\ \A i \in 1 .. n : SubSeq(t, 1, n)[i] = t[i]
  BY <1>1, SubSeqProperties
<1>4. \A i \in 1 .. n : SubSeq(s, 1, n)[i] = SubSeq(t, 1, n)[i]
  BY <1>2, <1>3
<1> QED
  BY <1>2, <1>3, <1>4, SeqEqual

\* ELF::run reports what is counted.
LEMMA StopKeeps ==
    ASSUME IInv, Stop
    PROVE  IInv'
<1>1. /\ running' = FALSE
      /\ result' = [fd \in Out |-> SubSeq(region[fd], 1, Min({Limit[fd], size[fd]}))]
      /\ UNCHANGED <<class, inited, call, ioVars, memVars>>
  BY DEF Stop
<1>2. OutputReported'
  <2> SUFFICES ASSUME NEW fd \in Out
               PROVE  result'[fd] = SubSeq(written[fd], 1, Min({Len(written[fd]), Limit[fd]}))
    BY <1>1 DEF OutputReported, ioVars
  <2>1. /\ size[fd] \in Nat /\ Limit[fd] \in Nat /\ region[fd] \in Seq(Nat)
        /\ written[fd] \in Seq(Nat) /\ Len(region[fd]) = Limit[fd]
    BY UserLibAssumption DEF IInv, Types, Out
  <2>2. Len(written[fd]) \in Nat
    BY <2>1
  <2>3. /\ size[fd] = IF Len(written[fd]) <= Limit[fd] THEN Len(written[fd]) ELSE Limit[fd]
        /\ \A i \in 1 .. size[fd] : region[fd][i] = written[fd][i]
    BY DEF IInv, CountedInv
  <2>4. size[fd] <= Limit[fd] /\ size[fd] <= Len(written[fd])
    BY <2>1, <2>2, <2>3
  <2>5. Min({Len(written[fd]), Limit[fd]}) = size[fd]
    <3>1. Min({Len(written[fd]), Limit[fd]}) =
             IF Len(written[fd]) <= Limit[fd] THEN Len(written[fd]) ELSE Limit[fd]
      <4>1. Len(written[fd]) \in Int /\ Limit[fd] \in Int
        BY <2>1, <2>2
      <4> QED
        BY <4>1, MinPair, Zenon
    <3> QED
      BY <2>3, <3>1
  <2>6. Min({Limit[fd], size[fd]}) = size[fd]
    BY <2>1, <2>4, MinPair
  <2>7. SubSeq(region[fd], 1, size[fd]) = SubSeq(written[fd], 1, size[fd])
    BY <2>1, <2>3, <2>4, SamePrefix
  <2> QED
    BY <1>1, <2>5, <2>6, <2>7
<1>3. Types'
  BY <1>1 DEF IInv, Types, CallOK, ioVars
<1>4. FreshInv' /\ InputInv' /\ CountedInv' /\ CopiedInv' /\ MapInv'
  BY <1>1 DEF IInv, FreshInv, InputInv, CountedInv, CopiedInv, MapInv, ioVars, memVars
<1> QED
  BY <1>2, <1>3, <1>4 DEF IInv

-----------------------------------------------------------------------------
(* The theorems.                                                           *)

\* The state of the library between any two steps of a judged program.
THEOREM Invariance == Spec => []IInv
<1>1. Init => IInv
  <2> SUFFICES ASSUME Init PROVE IInv
    OBVIOUS
  <2>1. /\ <<>> \in Seq(Nat) /\ Len(<<>>) = 0
    BY EmptySeq
  <2>2. PageSize \in Nat \ {0} /\ 0 % PageSize = 0
    <3>1. ASSUME NEW p \in Nat \ {0} PROVE 0 % p = 0
      OBVIOUS
    <3> QED
      BY <3>1, UserLibAssumption
  <2>3. \A fd \in Out : Limit[fd] \in Nat
    BY UserLibAssumption DEF Out
  <2>4. region \in [Out -> Seq(Nat)] /\ \A fd \in Out : Len(region[fd]) = Limit[fd]
    <3>1. ASSUME NEW n \in Nat
          PROVE  [i \in 1 .. n |-> 0] \in Seq(Nat) /\ Len([i \in 1 .. n |-> 0]) = n
      OBVIOUS
    <3> QED
      BY <2>3, <3>1 DEF Init
  <2>5. written \in [Out -> Seq(Nat)] /\ \A fd \in Out : Len(written[fd]) = 0
    BY <2>1 DEF Init, NoBytes
  <2>6. Types
    BY <2>1, <2>4, <2>5 DEF Init, Types, CallOK
  <2>7. FreshInv /\ OutputReported /\ CopiedInv
    BY DEF Init, FreshInv, OutputReported, CopiedInv, NoCall
  <2>8. InputInv
    BY <2>1, UserLibAssumption DEF Init, InputInv
  <2>9. CountedInv
    BY <2>3, <2>5 DEF Init, CountedInv
  <2>10. MapInv
    BY <2>2 DEF Init, MapInv
  <2> QED
    BY <2>6, <2>7, <2>8, <2>9, <2>10 DEF IInv
<1>2. IInv /\ [Next]_vars => IInv'
  <2> SUFFICES ASSUME IInv, [Next]_vars PROVE IInv'
    OBVIOUS
  <2>1. ASSUME NEW op \in {"read", "write"}, NEW fd \in 0 .. 3, NEW parts \in Parts,
               StartIO(op, fd, parts)
        PROVE  IInv'
    BY <2>1, StartKeeps
  <2>2. CASE running /\ duck_read
    BY <2>2, ReadKeeps
  <2>3. CASE running /\ WriteCopy
    BY <2>3, CopyKeeps
  <2>4. CASE running /\ WriteCount
    BY <2>4, CountKeeps
  <2>5. CASE running /\ WriteNone
    BY <2>5, NoneKeeps
  <2>6. ASSUME NEW addr \in 0 .. HeapTop, duck_brk(addr) PROVE IInv'
    BY <2>6, BrkKeeps
  <2>7. ASSUME NEW n \in MapSizes, duck_mmap_temp(n) PROVE IInv'
    BY <2>7, MmapKeeps
  <2>8. CASE Stop
    BY <2>8, StopKeeps
  <2>9. CASE UNCHANGED vars
    BY <2>9 DEF vars, ioVars, memVars, IInv, Types, CallOK, FreshInv, InputInv, CountedInv,
                CopiedInv, MapInv, OutputReported
  <2> QED
    BY <2>1, <2>2, <2>3, <2>4, <2>5, <2>6, <2>7, <2>8, <2>9 DEF Next
<1> QED
  BY <1>1, <1>2, PTL DEF Spec

\* Wherever the time limit or an exception stops the program, the kernel
\* reports exactly the bytes that the handler has counted, and reports to the
\* program, as written, up to the limit: it counts a byte only after it is copied.
THEOREM OutputIsReported == Spec => []OutputReported
<1>1. IInv => OutputReported
  BY DEF IInv
<1> QED
  BY <1>1, Invariance, PTL

\* The 32-bit handler reports no byte that it did not keep.
THEOREM NothingIsDropped == Spec => []NothingDropped
<1>1. IInv => NothingDropped
  BY DEF IInv, CountedInv, NothingDropped
<1> QED
  BY <1>1, Invariance, PTL

\* However read and readv are mixed and cut, they give the bytes of stdin one
\* after the other.
THEOREM InputIsInOrder == Spec => []InputInOrder
<1>1. IInv => InputInOrder
  <2> SUFFICES ASSUME IInv PROVE InputInOrder
    OBVIOUS
  <2>1. got \in Seq(Nat) /\ Len(got) = pos /\ pos <= StdinSize /\ \A i \in 1 .. pos : got[i] = i
    BY DEF IInv, Types, InputInv
  <2>2. DOMAIN got = 1 .. Len(got)
    BY <2>1
  <2>3. got = [i \in 1 .. Len(got) |-> got[i]]
    BY <2>1, <2>2
  <2> QED
    BY <2>1, <2>3 DEF InputInOrder
<1> QED
  BY <1>1, Invariance, PTL

\* The mappings of a program are disjoint whole pages below its heap, as long as
\* all that duck_mmap_temp returned lies in the pool, whose end it does not check.
THEOREM MapsAreDisjoint == Spec => []MapsDisjoint
<1>1. IInv => MapsDisjoint
  <2> SUFFICES ASSUME IInv, \A k \in maps : InPool(k), NEW m \in maps
               PROVE  /\ m.start % PageSize = 0
                      /\ \A z \in maps \ {m} : Area(m) \cap Area(z) = {}
                      /\ inited => m.start + m.len <= heap_brk
    BY DEF MapsDisjoint
  <2>1. /\ heap_brk \in Nat /\ PoolPages * PageSize \in Nat
        /\ m.start \in Nat /\ m.len \in Nat
        /\ m.start % PageSize = 0 /\ m.start + m.len <= PoolPages * PageSize
        /\ inited => heap_brk >= PoolPages * PageSize
    BY UserLibAssumption DEF IInv, MapInv, InPool
  <2>2. ASSUME NEW z \in maps \ {m} PROVE Area(m) \cap Area(z) = {}
    <3>1. z.start \in Nat /\ z.len \in Nat
      BY DEF IInv, MapInv
    <3>2. m.start + m.len <= z.start \/ z.start + z.len <= m.start
      BY DEF IInv, MapInv
    <3> QED
      BY <2>1, <3>1, <3>2 DEF Area
  <2> QED
    BY <2>1, <2>2
<1> QED
  BY <1>1, Invariance, PTL

=============================================================================
