------------------------------- MODULE DuckCache -------------------------------
(***************************************************************************)
(* kern/duck_cache.cpp: objects named by a digest, kept in chains of pages *)
(* whose first word points to the next page.  The pages of no object form  *)
(* the free list.  The index (obj_hash, obj_digest, obj_metadata, moved in *)
(* lockstep) is an array sorted by digest; an object's last_used_tsc       *)
(* decides who goes first when a store needs room, and 0 marks the ones    *)
(* that go.  The cache belongs to one thread: an operation is one step.    *)
(***************************************************************************)
EXTENDS Integers, Sequences, SequencesExt, FiniteSetsExt

CONSTANTS
  Digest,       \* pairs <<a[0], the rest>>, ordered as cmp_digest orders them
  Payload, Lens, ContentSize, TotalPages, MaxObjects,
  Word,         \* 2^64
  MaxTsc        \* bound: the last value of the clock

ASSUME CacheAssumption ==
  /\ Digest \subseteq Nat \X Nat
  /\ Lens \subseteq Nat
  /\ ContentSize \in Nat \ {0}
  /\ TotalPages \in Nat \ {0}
  /\ MaxObjects \in Nat \ {0}
  /\ MaxTsc \in Nat \ {0}

\* The lengths that can be rounded up in 64 bits.  No caller checks this: for a
\* longer one store takes a single page and the copy overruns the cache, which is
\* Overrun in store_cache of Judger.
ASSUME NoWrap == Word \in Nat /\ \A len \in Lens : len + ContentSize - 1 < Word

VARIABLES
  obj,             \* the index, n_cur_objects entries
  next,            \* the first word of each page
  data,            \* the rest of each page: which part of which payload
  free_list_addr,
  n_free_pages,
  clock,           \* Timer::tsc_since_epoch
  reply            \* what the last operation returned

vars == <<obj, next, data, free_list_addr, n_free_pages, clock, reply>>

\* Pages by number, 0 is the null pointer.
Addr == 1 .. TotalPages
Null == 0

Less(a, b) == a[1] < b[1] \/ (a[1] = b[1] /\ a[2] < b[2])

Answer(op, ok, out) == [op |-> op, ok |-> ok, data |-> out]

\* max((len + ONE_PAGE_CONTENT_SIZE - 1) / ONE_PAGE_CONTENT_SIZE, 1)
n_need_pages(len) == Max({(len + ContentSize - 1) \div ContentSize, 1})

\* The rounds of a loop over an object's bytes, a page at a time.
Rounds(len) == (len + ContentSize - 1) \div ContentSize

\* The page reached from page a by following n pointers.
Walk(nxt, a, n) ==
  LET at[k \in 0 .. n] == IF k = 0 THEN a
                          ELSE IF at[k - 1] = Null THEN Null ELSE nxt[at[k - 1]]
  IN  at[n]

\* DuckCache::init
Init ==
  /\ obj = <<>>
  /\ next = [a \in Addr |-> IF a = TotalPages THEN Null ELSE a + 1]
  /\ data = [a \in Addr |-> <<>>]
  /\ free_list_addr = 1
  /\ n_free_pages = TotalPages
  /\ clock = 1
  /\ reply = Answer("none", TRUE, <<>>)

\* DuckCache::find: the range of equal hashes, then the first digest in it that
\* is not less; idx is where the digest is or belongs.
find(index, d) ==
  LET idx1 == 1 + Cardinality({i \in DOMAIN index : index[i].digest[1] < d[1]})
      idx2 == 1 + Cardinality({i \in DOMAIN index : index[i].digest[1] <= d[1]})
      idx  == Min({i \in idx1 .. idx2 - 1 : ~ Less(index[i].digest, d)} \cup {idx2})
  IN  [found |-> idx < idx2 /\ index[idx].digest = d, idx |-> idx]

\* Mutant: the object's place in the order of use is not refreshed.
LoadNoTouch(d, len) ==
  LET f == find(obj, d)
  IN  /\ f.found /\ obj[f.idx].len = len
      /\ clock < MaxTsc /\ clock' = clock + 1
      /\ reply' = Answer("load", TRUE,
                    [k \in 1 .. Rounds(len) |-> data[Walk(next, obj[f.idx].start_addr, k - 1)]])
      /\ UNCHANGED <<obj, next, data, free_list_addr, n_free_pages>>

\* DuckCache::load, the object is there with the length asked for.
LoadHit(d, len) ==
  LET f == find(obj, d)
  IN  /\ f.found /\ obj[f.idx].len = len
      /\ clock < MaxTsc /\ clock' = clock + 1
      /\ obj' = [obj EXCEPT ![f.idx].last_used_tsc = clock]
      /\ reply' = Answer("load", TRUE,
                    [k \in 1 .. Rounds(len) |-> data[Walk(next, obj[f.idx].start_addr, k - 1)]])
      /\ UNCHANGED <<next, data, free_list_addr, n_free_pages>>

\* DuckCache::load returns false.
LoadMiss(d, len) ==
  LET f == find(obj, d)
  IN  /\ ~ (f.found /\ obj[f.idx].len = len)
      /\ reply' = Answer("load", FALSE, <<>>)
      /\ UNCHANGED <<obj, next, data, free_list_addr, n_free_pages, clock>>

-----------------------------------------------------------------------------
(* Making room *)

\* sort_ids: the index positions, least recently used first.
sort_ids ==
  CHOOSE ids \in [DOMAIN obj -> DOMAIN obj] :
    /\ IsInjective(ids)
    /\ \A i, j \in DOMAIN obj :
         i < j => obj[ids[i]].last_used_tsc <= obj[ids[j]].last_used_tsc

\* Mutant: the first page of the object is linked to the free list, not its last.
SpliceFirst(list, o) ==
  [next |-> [list.next EXCEPT ![o.start_addr] = list.free], free |-> o.start_addr,
   pages |-> list.pages + n_need_pages(o.len)]

\* One round: the last page of the object's chain points to the free list.
Splice(list, o) ==
  LET last == Walk(list.next, o.start_addr, n_need_pages(o.len) - 1)
  IN  [next |-> [list.next EXCEPT ![last] = list.free], free |-> o.start_addr,
       pages |-> list.pages + n_need_pages(o.len)]

\* The free list after the first n of sort_ids were removed.
Freed(n) ==
  LET list[k \in 0 .. n] ==
        IF k = 0 THEN [next |-> next, free |-> free_list_addr, pages |-> n_free_pages]
        ELSE Splice(list[k - 1], obj[sort_ids[k]])
  IN  list[n]

need_remove(len) ==
  n_need_pages(len) > n_free_pages \/ Len(obj) + 1 > MaxObjects

still_need_remove(len, k) ==
  n_need_pages(len) > Freed(k).pages \/ Len(obj) + 1 > MaxObjects + k

\* How many objects the loop removes: at least one, at most all.
Removed(len) ==
  IF need_remove(len)
  THEN Min({k \in 1 .. Len(obj) : ~ still_need_remove(len, k)} \cup {Len(obj)})
  ELSE 0

\* The removed ones carry last_used_tsc = 0, the defragmentation drops them.
Defragged(n) ==
  LET gone   == {sort_ids[k] : k \in 1 .. n}
      tsc(i) == IF i \in gone THEN 0 ELSE obj[i].last_used_tsc
      kept[i \in 0 .. Len(obj)] ==
        IF i = 0 THEN <<>>
        ELSE IF tsc(i) = 0 THEN kept[i - 1] ELSE Append(kept[i - 1], obj[i])
  IN  kept[Len(obj)]

\* Mutant: the place found before the defragmentation is used after it.
StaleIndex(d, index) == Min({find(obj, d).idx, Len(index) + 1})

\* Where the object goes: find is called again after a defragmentation.
InsertIndex(d, index) == find(index, d).idx

-----------------------------------------------------------------------------
(* DuckCache::store *)

\* The object is there: nothing is compared, nothing is refreshed.
StoreFound(d, v, len) ==
  /\ find(obj, d).found
  /\ reply' = Answer("store", TRUE, <<>>)
  /\ UNCHANGED <<obj, next, data, free_list_addr, n_free_pages, clock>>

StoreTooLarge(d, v, len) ==
  /\ ~ find(obj, d).found
  /\ n_need_pages(len) > TotalPages
  /\ reply' = Answer("store", FALSE, <<>>)
  /\ UNCHANGED <<obj, next, data, free_list_addr, n_free_pages, clock>>

\* How far the copy walks the free list: "if (len == 0)" takes one page too.
PagesTaken(len) == IF len = 0 THEN 1 ELSE Rounds(len)

\* The object takes the first pages of the free list.
StoreNew(d, v, len) ==
  LET n     == Removed(len)
      list  == Freed(n)
      index == IF n > 0 THEN Defragged(n) ELSE obj
      new   == [digest |-> d, last_used_tsc |-> clock, start_addr |-> list.free, len |-> len]
  IN  /\ ~ find(obj, d).found
      /\ n_need_pages(len) <= TotalPages
      /\ clock < MaxTsc /\ clock' = clock + 1
      /\ obj' = InsertAt(index, InsertIndex(d, index), new)
      /\ next' = list.next
      /\ data' = [a \in Addr |->
                    LET ks == {k \in 1 .. Rounds(len) : Walk(list.next, list.free, k - 1) = a}
                    IN  IF ks = {} THEN data[a] ELSE <<v, Max(ks)>>]
      /\ free_list_addr' = Walk(list.next, list.free, PagesTaken(len))
      /\ n_free_pages' = list.pages - n_need_pages(len)
      /\ reply' = Answer("store", TRUE, <<>>)

Next ==
  \/ \E d \in Digest, len \in Lens : LoadHit(d, len) \/ LoadMiss(d, len)
  \/ \E d \in Digest, v \in Payload, len \in Lens :
       StoreFound(d, v, len) \/ StoreTooLarge(d, v, len) \/ StoreNew(d, v, len)

Spec == Init /\ [][Next]_vars

-----------------------------------------------------------------------------
(* Properties *)

\* The index never outgrows its arrays, and counters stay in range.
TypeOK ==
  /\ \A i \in DOMAIN obj : obj[i] \in [digest : Digest, last_used_tsc : 1 .. MaxTsc,
                                       start_addr : Addr, len : Lens]
  /\ Len(obj) <= MaxObjects
  /\ next \in [Addr -> Addr \cup {Null}]
  /\ free_list_addr \in Addr \cup {Null}
  /\ n_free_pages \in 0 .. TotalPages
  /\ clock \in 1 .. MaxTsc

\* The index is sorted by digest without duplicates, which find relies on and
\* the insertion after a defragmentation must keep.
IndexSorted ==
  \A i \in 1 .. Len(obj) - 1 : Less(obj[i].digest, obj[i + 1].digest)

\* The chain an object or the free list (number 0) is made of.
Chain(i) ==
  LET start == IF i = 0 THEN free_list_addr ELSE obj[i].start_addr
      n     == IF i = 0 THEN n_free_pages ELSE n_need_pages(obj[i].len)
  IN  [k \in 1 .. n |-> Walk(next, start, k - 1)]

\* Every page is in exactly one chain, once: no page leaks or is shared, no chain
\* is cut short, n_free_pages counts the free list, whose end is null.
PagesPartitioned ==
  /\ \A i \in 0 .. Len(obj) : \A k \in DOMAIN Chain(i) : Chain(i)[k] # Null
  /\ \A a \in Addr :
       Cardinality({p \in (0 .. Len(obj)) \X (1 .. TotalPages) :
                      p[2] \in DOMAIN Chain(p[1]) /\ Chain(p[1])[p[2]] = a}) = 1
  /\ Walk(next, free_list_addr, n_free_pages) = Null

\* The objects with what their pages hold, least recently used first.
Objects ==
  [k \in DOMAIN obj |->
     LET i == sort_ids[k]
     IN  [digest |-> obj[i].digest, len |-> obj[i].len,
          data |-> [j \in 1 .. Rounds(obj[i].len) |->
                      LET a == Walk(next, obj[i].start_addr, j - 1)
                      IN  IF a = Null THEN <<>> ELSE data[a]]]]

Abstract == INSTANCE ObjectStore WITH lru <- Objects

\* The cache is a least-recently-used object store: a load returns what was
\* stored under the digest, a store evicts no more than it must, and only the
\* objects that were not used for longest.
ImplementsObjectStore == Abstract!Spec
=============================================================================
