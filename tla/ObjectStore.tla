------------------------------ MODULE ObjectStore ------------------------------
(***************************************************************************)
(* What a DuckCache promises: a store of objects named by their digests,   *)
(* bounded in objects and in pages, that forgets the least recently used   *)
(* objects first and no more of them than it must.                         *)
(***************************************************************************)
EXTENDS Integers, Sequences, SequencesExt

CONSTANTS
  Digest,       \* the names of objects
  Payload,      \* what the judger's buffer may hold
  Lens,         \* the lengths of objects, in bytes
  ContentSize,  \* ONE_PAGE_CONTENT_SIZE: the bytes of an object a page takes
  TotalPages,   \* n_total_pages
  MaxObjects    \* n_max_objects

VARIABLES
  lru,    \* the objects, least recently used first
  reply   \* the answer to the last operation

\* The pages a payload of len bytes fills, and the pages it is charged for.
PartsFor(len) == CHOOSE n \in 0 .. len : n * ContentSize >= len
                                      /\ \A m \in 0 .. n - 1 : m * ContentSize < len
PagesFor(len) == IF len = 0 THEN 1 ELSE PartsFor(len)

\* The first len bytes of a payload, a page at a time.
Parts(v, len) == [k \in 1 .. PartsFor(len) |-> <<v, k>>]

Answer(op, ok, data) == [op |-> op, ok |-> ok, data |-> data]

Has(d) == \E i \in DOMAIN lru : lru[i].digest = d

PagesOf(objects) == FoldSeq(LAMBDA o, sum : PagesFor(o.len) + sum, 0, objects)

Fits(objects, len) ==
  /\ PagesOf(objects) + PagesFor(len) <= TotalPages
  /\ Len(objects) + 1 <= MaxObjects

\* The objects that remain when as few of the oldest as possible are dropped.
Remaining(len) ==
  LET Newest(k) == SubSeq(lru, k + 1, Len(lru))
  IN  Newest(CHOOSE k \in 0 .. Len(lru) :
              Fits(Newest(k), len) /\ \A j \in 0 .. k - 1 : ~ Fits(Newest(j), len))

Init == lru = <<>> /\ reply = Answer("none", TRUE, <<>>)

\* Storing what is there already changes nothing, whatever the payload.
Store(d, v, len) ==
  \/ /\ Has(d)
     /\ reply' = Answer("store", TRUE, <<>>)
     /\ UNCHANGED lru
  \/ /\ ~ Has(d) /\ PagesFor(len) > TotalPages
     /\ reply' = Answer("store", FALSE, <<>>)
     /\ UNCHANGED lru
  \/ /\ ~ Has(d) /\ PagesFor(len) <= TotalPages
     /\ reply' = Answer("store", TRUE, <<>>)
     /\ lru' = Append(Remaining(len), [digest |-> d, data |-> Parts(v, len), len |-> len])

\* A load wants the exact length, and makes the object the most recent one.
Load(d, len) ==
  \/ /\ ~ \E i \in DOMAIN lru : lru[i].digest = d /\ lru[i].len = len
     /\ reply' = Answer("load", FALSE, <<>>)
     /\ UNCHANGED lru
  \/ \E i \in DOMAIN lru :
       /\ lru[i].digest = d /\ lru[i].len = len
       /\ reply' = Answer("load", TRUE, lru[i].data)
       /\ lru' = Append(RemoveAt(lru, i), lru[i])

Next ==
  \/ \E d \in Digest, v \in Payload, len \in Lens : Store(d, v, len)
  \/ \E d \in Digest, len \in Lens : Load(d, len)

Spec == Init /\ [][Next]_<<lru, reply>>
=============================================================================
