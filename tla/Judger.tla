-------------------------------- MODULE Judger --------------------------------
(***************************************************************************)
(* kern/judger.cpp behind the packets of kern/duck_server.cpp: a buffer    *)
(* that clients fill, two caches, and judge, which runs the program in the *)
(* buffer and keeps the result, so that a judge packet that is sent again  *)
(* is answered without a second run.  Every operation on the buffer throws *)
(* that result away.  ELF::load and ELF::run are the subject of UserMemory *)
(* and given here by what they return.  One packet is handled at a time.   *)
(* load-cache and store-cache check no range: such a packet can make the   *)
(* code write outside the buffer, after which nothing is known of the      *)
(* state until the machine starts anew (variable intact).                  *)
(***************************************************************************)
EXTENDS Integers, Sequences, FiniteSets

CONSTANTS
  BufferSize,     \* buffer_size
  Byte, Zero,     \* what a cell of the buffer holds; Zero after a memset
  SeqNum, NoSeq,  \* seq_num of a request; -1ul
  Packet,         \* the packets that arrive
  Cache, Digest,  \* the caches' names and those of the objects in them
  CacheCells,     \* the largest object a cache can keep
  MaxRounded,     \* the largest length that can be rounded up to pages in 64 bits
  MaxTimeLimit,   \* MAX_TIME_LIMIT_NS
  MaxQueryLen,    \* MAX_QUERY_LEN
  Execute(_, _),  \* the RunResults of a request on its inputs; {}: load fails
  MaxJudges       \* bound: runs of the model

ASSUME JudgerAssumption ==
  /\ BufferSize \in Nat \ {0}
  /\ Zero \in Byte
  /\ NoSeq \in SeqNum
  /\ CacheCells \in Nat /\ MaxRounded \in Nat /\ CacheCells <= MaxRounded
  /\ MaxTimeLimit \in Nat
  /\ MaxJudges \in Nat

\* The fields of the packets, by kind.  Offsets and lengths are whatever the
\* client sends.
ASSUME PacketAssumption ==
  \A m \in Packet :
    /\ m.op \in {"clear-buffer", "read-buffer"} => m.off \in Nat /\ m.len \in Nat
    /\ m.op = "write-buffer" => m.off \in Nat /\ m.cells \in Seq(Byte)
    /\ m.op = "copy-buffer" => m.dst \in Nat /\ m.src \in Nat /\ m.len \in Nat
    /\ m.op = "compare-buffer" => m.off \in Nat /\ m.off2 \in Nat /\ m.len \in Nat
    /\ m.op \in {"load-cache", "store-cache"} =>
         m.off \in Nat /\ m.len \in Nat /\ m.digest \in Digest
    /\ m.op = "judge" =>
         /\ m.seq_num \in SeqNum /\ m.time_limit_ns \in Nat
         /\ {m.ELF, m.stdin, m.stdout, m.stderr, m.IB, m.OB} \subseteq [off : Nat, len : Nat]

VARIABLES
  buffer,         \* the cells
  cache,          \* the objects in each cache
  judge_seq_num,
  judge_result,
  judge_result_cleared,
  n_judges, total_time_ns,
  reply,          \* the packet sent in answer, or NoReply
  judged,         \* history: the last judge that was not answered from memory
  intact          \* history: nothing was written outside the buffer or a cache's
                  \* pages since the start of the machine

vars == <<buffer, cache, judge_seq_num, judge_result, judge_result_cleared,
          n_judges, total_time_ns, reply, judged, intact>>

Cell == 0 .. BufferSize - 1
ZeroBuffer == [a \in Cell |-> Zero]
NoReply == [op |-> "none"]
NotJudged == [error |-> "Not Judged", time_ns |-> 0, is_RE |-> FALSE, is_TLE |-> FALSE]


\* is_valid_buffer, and the same test in every operation on a range.
InRange(off, len) == off < BufferSize /\ len <= BufferSize - off

\* The cells of a range, and the buffer with cells copied to an offset.
Slice(b, off, len) == [i \in 1 .. len |-> b[off + i - 1]]
Put(b, off, cells) ==
  [a \in DOMAIN b |-> IF off <= a /\ a < off + Len(cells) THEN cells[a - off + 1] ELSE b[a]]

-----------------------------------------------------------------------------

Init ==
  /\ buffer = ZeroBuffer
  /\ cache = [c \in Cache |-> {}]
  /\ judge_seq_num = NoSeq
  /\ judge_result = NotJudged
  /\ judge_result_cleared = TRUE
  /\ n_judges = 0 /\ total_time_ns = 0
  /\ reply = NoReply
  /\ judged = <<>>
  /\ intact = TRUE

\* Utils::GG_reboot, and the end of trap for a fault in the kernel: the machine
\* starts anew.
Reboot ==
  /\ buffer' = ZeroBuffer
  /\ cache' = [c \in Cache |-> {}]
  /\ judge_seq_num' = NoSeq /\ judge_result' = NotJudged /\ judge_result_cleared' = TRUE
  /\ n_judges' = 0 /\ total_time_ns' = 0
  /\ reply' = NoReply
  /\ judged' = <<>>
  /\ intact' = TRUE

clear_judge_result ==
  IF judge_result_cleared
  THEN UNCHANGED <<judge_seq_num, judge_result, judge_result_cleared>>
  ELSE /\ judge_result_cleared' = TRUE
       /\ judge_seq_num' = NoSeq
       /\ judge_result' = NotJudged

\* The buffer is changed, the result thrown away and the packet echoed.
Changed(b, m) ==
  /\ buffer' = b
  /\ clear_judge_result
  /\ reply' = [op |-> m.op, ok |-> TRUE]
  /\ UNCHANGED <<cache, n_judges, total_time_ns, judged, intact>>

\* Nothing but an answer.
Answered(r) ==
  /\ reply' = r
  /\ UNCHANGED <<buffer, cache, judge_seq_num, judge_result, judge_result_cleared,
                 n_judges, total_time_ns, judged, intact>>

clear_buffer(m) ==
  \/ /\ InRange(m.off, m.len)
     /\ Changed(Put(buffer, m.off, [i \in 1 .. m.len |-> Zero]), m)
  \/ ~ InRange(m.off, m.len) /\ Answered(NoReply)

read_buffer(m) ==
  \/ /\ m.len <= MaxQueryLen /\ InRange(m.off, m.len)
     /\ Answered([op |-> m.op, off |-> m.off, cells |-> Slice(buffer, m.off, m.len)])
  \/ ~ (m.len <= MaxQueryLen /\ InRange(m.off, m.len)) /\ Answered(NoReply)

write_buffer(m) ==
  \/ InRange(m.off, Len(m.cells)) /\ Changed(Put(buffer, m.off, m.cells), m)
  \/ ~ InRange(m.off, Len(m.cells)) /\ Answered(NoReply)

CanCopy(m) ==
  /\ InRange(m.dst, m.len) /\ InRange(m.src, m.len)
  /\ m.dst + m.len <= m.src \/ m.src + m.len <= m.dst

copy_buffer(m) ==
  \/ CanCopy(m) /\ Changed(Put(buffer, m.dst, Slice(buffer, m.src, m.len)), m)
  \/ ~ CanCopy(m) /\ Answered(NoReply)

compare_buffer(m) ==
  \/ /\ InRange(m.off, m.len) /\ InRange(m.off2, m.len)
     /\ Answered([op |-> m.op, equal |-> Slice(buffer, m.off, m.len) = Slice(buffer, m.off2, m.len)])
  \/ ~ (InRange(m.off, m.len) /\ InRange(m.off2, m.len)) /\ Answered(NoReply)

statistics(m) == Answered([op |-> m.op, n_judges |-> n_judges, total_time_ns |-> total_time_ns])

-----------------------------------------------------------------------------
(* The caches, by what ObjectStore says of them: a load returns what was   *)
(* stored under the digest, a store may evict others and may fail.         *)

\* The digest is hexadecimal and the cache is known.
Named(m) == m.hex /\ m.cache \in Cache

\* Mutant: a load leaves the result alone.
LoadKeepsResult(m) ==
  \/ \E o \in IF m.hex /\ m.cache \in Cache THEN cache[m.cache] ELSE {} :
       /\ o[1] = m.digest /\ Len(o[2]) = m.len
       /\ buffer' = Put(buffer, m.off, o[2])
       /\ reply' = [op |-> m.op, ok |-> TRUE]
       /\ UNCHANGED <<cache, judge_seq_num, judge_result, judge_result_cleared,
                      n_judges, total_time_ns, judged, intact>>
  \/ Answered([op |-> m.op, ok |-> FALSE])

\* What is kept under the digest with the length asked for.
Hits(m) == {o \in cache[m.cache] : o[1] = m.digest /\ Len(o[2]) = m.len}

\* The range of a cache packet lies in the buffer: a test the code does not make.
Inside(m) == m.len = 0 \/ m.off + m.len <= BufferSize

\* Memory that is not the packet's was written, the judger's own variables perhaps:
\* from here on nothing is known of the state, and nothing is claimed.
Overrun ==
  /\ intact' = FALSE
  /\ UNCHANGED <<buffer, cache, judge_seq_num, judge_result, judge_result_cleared,
                 n_judges, total_time_ns, reply, judged>>

\* A copy to outside the buffer overwrites what is there or ends in a fault.
load_cache(m) ==
  \/ \E o \in IF Named(m) THEN Hits(m) ELSE {} :
       \/ Inside(m) /\ Changed(Put(buffer, m.off, o[2]), m)
       \/ ~ Inside(m) /\ (Overrun \/ Reboot)
  \/ /\ Named(m) => Hits(m) = {}
     /\ Answered([op |-> m.op, ok |-> FALSE])

Stored(m) == \E o \in cache[m.cache] : o[1] = m.digest

\* What a copy of the range can read: anything where it is not the buffer.
Readable(m) ==
  {cells \in [1 .. m.len -> Byte] :
     \A i \in 1 .. m.len : m.off + i - 1 \in Cell => cells[i] = buffer[m.off + i - 1]}

\* The object is put into the cache, others are evicted.
StoreObject(m) ==
  /\ \E kept \in SUBSET cache[m.cache] : \E cells \in Readable(m) :
       cache' = [cache EXCEPT ![m.cache] = kept \cup {<<m.digest, cells>>}]
  /\ reply' = [op |-> m.op, ok |-> TRUE]
  /\ UNCHANGED <<buffer, judge_seq_num, judge_result, judge_result_cleared,
                 n_judges, total_time_ns, judged, intact>>

\* A length that cannot be rounded up to pages passes for a single page, and the
\* copy runs through all of the cache and beyond.
store_cache(m) ==
  \/ Named(m) /\ Stored(m) /\ Answered([op |-> m.op, ok |-> TRUE])
  \/ Named(m) /\ ~ Stored(m) /\ m.len <= CacheCells /\ StoreObject(m)
  \/ Named(m) /\ ~ Stored(m) /\ m.len <= CacheCells /\ ~ Inside(m) /\ Reboot
  \/ Named(m) /\ ~ Stored(m) /\ m.len > MaxRounded /\ (Overrun \/ Reboot)
  \/ /\ Named(m) => ~ Stored(m) /\ m.len > CacheCells /\ m.len <= MaxRounded
     /\ Answered([op |-> m.op, ok |-> FALSE])

-----------------------------------------------------------------------------
(* judge *)

Descs(m) == <<m.ELF, m.stdin, m.stdout, m.stderr, m.IB, m.OB>>

check_overlap(b1, b2) == ~ (b1.off + b1.len <= b2.off \/ b2.off + b2.len <= b1.off)

check_buffers(m) ==
  LET b == Descs(m)
  IN  \A i \in 1 .. 6 :
        /\ InRange(b[i].off, b[i].len)
        /\ \A j \in 1 .. i - 1 : ~ check_overlap(b[i], b[j])

Inputs(b, m) ==
  [ELF |-> Slice(b, m.ELF.off, m.ELF.len), stdin |-> Slice(b, m.stdin.off, m.stdin.len),
   IB |-> Slice(b, m.IB.off, m.IB.len), OB |-> Slice(b, m.OB.off, m.OB.len)]

\* The results of ELF::load and ELF::run.  The program's output fits its buffers:
\* stdout and stderr are cut at their limits by the system calls.
RunResults(b, m) ==
  {res \in Execute(m, Inputs(b, m)) :
     /\ res.time_ns \in Nat
     /\ res.stdout \in Seq(Byte) /\ Len(res.stdout) <= m.stdout.len
     /\ res.stderr \in Seq(Byte) /\ Len(res.stderr) <= m.stderr.len
     /\ res.OB \in Seq(Byte) /\ Len(res.OB) = m.OB.len}

\* stdout and stderr are copied as far as they were written, OB as a whole.
CopiedBack(b, m, res) ==
  Put(Put(Put(b, m.stdout.off, res.stdout), m.stderr.off, res.stderr), m.OB.off, res.OB)

\* Mutant: the time of a program that was too slow is reported as measured.
VerdictUncapped(m, res) ==
  [error |-> "", time_ns |-> res.time_ns, is_RE |-> res.trap # "syscall",
   is_TLE |-> res.time_ns > m.time_limit_ns]

\* The result of a run: too slow wins over crashed, and shows the limit.
Verdict(m, res) ==
  IF res.time_ns > m.time_limit_ns \/ res.trap = "timer"
  THEN [error |-> "", time_ns |-> m.time_limit_ns, is_RE |-> FALSE, is_TLE |-> TRUE]
  ELSE [error |-> "", time_ns |-> res.time_ns, is_RE |-> res.trap # "syscall", is_TLE |-> FALSE]

\* What judge stores when it does not run the program.  Only error is assigned:
\* the other fields stay those of an earlier result.
Failed(error) == [judge_result EXCEPT !.error = error]

\* The part of judge that looks at the request: the error it returns, if any.
\* memory_ok: memory_hard_limit_kb * 1024 did not come out smaller (ElfLayout).
Refused(m) ==
  IF ~ m.memory_ok \/ ~ check_buffers(m) THEN "Can't load ELF"
  ELSE IF m.time_limit_ns = 0 \/ m.time_limit_ns > MaxTimeLimit THEN "Invalid time limit"
  ELSE ""

\* Mutant: the seq_num is not remembered.
StartForgetful(m, result, b) ==
  /\ m.seq_num # judge_seq_num
  /\ n_judges < MaxJudges /\ n_judges' = n_judges + 1
  /\ judge_result_cleared' = FALSE
  /\ judge_result' = result
  /\ buffer' = b
  /\ reply' = [op |-> m.op, result |-> result]
  /\ judged' = [seq_num |-> m.seq_num, result |-> result, buffer |-> b]
  /\ UNCHANGED <<cache, judge_seq_num, intact>>

\* The request is new: its seq_num replaces the old one before anything is checked.
StartJudge(m, result, b) ==
  /\ m.seq_num # judge_seq_num
  /\ n_judges < MaxJudges /\ n_judges' = n_judges + 1
  /\ judge_result_cleared' = FALSE
  /\ judge_seq_num' = m.seq_num
  /\ judge_result' = result
  /\ buffer' = b
  /\ reply' = [op |-> m.op, result |-> result]
  /\ judged' = [seq_num |-> m.seq_num, result |-> result, buffer |-> b]
  /\ UNCHANGED <<cache, intact>>

JudgeAgain(m) ==
  /\ m.seq_num = judge_seq_num
  /\ Answered([op |-> m.op, result |-> judge_result])

JudgeRefused(m) ==
  /\ Refused(m) # ""
  /\ StartJudge(m, Failed(Refused(m)), buffer)
  /\ UNCHANGED total_time_ns

JudgeNotLoaded(m) ==
  /\ Refused(m) = "" /\ RunResults(buffer, m) = {}
  /\ StartJudge(m, Failed("Can't load ELF"), buffer)
  /\ UNCHANGED total_time_ns

JudgeRun(m) ==
  /\ Refused(m) = ""
  /\ \E res \in RunResults(buffer, m) :
       /\ StartJudge(m, Verdict(m, res), CopiedBack(buffer, m, res))
       /\ total_time_ns' = total_time_ns + Verdict(m, res).time_ns

judge(m) == JudgeAgain(m) \/ JudgeRefused(m) \/ JudgeNotLoaded(m) \/ JudgeRun(m)

-----------------------------------------------------------------------------

\* duck_packet_handle: a packet is of one kind.
duck_packet_handle(m) ==
  \/ m.op = "reboot" /\ Reboot
  \/ m.op = "statistics" /\ statistics(m)
  \/ m.op = "clear-buffer" /\ clear_buffer(m)
  \/ m.op = "read-buffer" /\ read_buffer(m)
  \/ m.op = "write-buffer" /\ write_buffer(m)
  \/ m.op = "copy-buffer" /\ copy_buffer(m)
  \/ m.op = "compare-buffer" /\ compare_buffer(m)
  \/ m.op = "judge" /\ judge(m)
  \/ m.op = "load-cache" /\ load_cache(m)
  \/ m.op = "store-cache" /\ store_cache(m)

Next ==
  \/ intact /\ \E m \in Packet : duck_packet_handle(m)
  \/ ~ intact /\ Reboot

Spec == Init /\ [][Next]_vars

-----------------------------------------------------------------------------
(* Properties *)

Result == [error : {"", "Not Judged", "Can't load ELF", "Invalid time limit"},
           time_ns : Nat, is_RE : BOOLEAN, is_TLE : BOOLEAN]

\* Until a cache packet has written outside the buffer, the variables have their
\* types: in particular the reported result is one that judge, or
\* clear_judge_result, can leave behind.
TypeOK ==
  /\ intact \in BOOLEAN
  /\ intact =>
       /\ buffer \in [Cell -> Byte]
       /\ cache \in [Cache -> SUBSET (Digest \X Seq(Byte))]
       /\ judge_seq_num \in SeqNum
       /\ judge_result \in Result
       /\ judge_result_cleared \in BOOLEAN
       /\ n_judges \in 0 .. MaxJudges
       /\ total_time_ns \in Nat

\* Until a cache packet has written outside the buffer: a result that judge would
\* return again is the one of the last run, for the same request, and the buffer
\* still holds exactly what that run left there, stdout, stderr and OB included.
\* After an operation on the buffer, the only request that is answered without a
\* run is one with the seq_num -1, and its answer is "Not Judged".
ResultFresh ==
  intact =>
    IF judge_result_cleared
    THEN judge_seq_num = NoSeq /\ judge_result = NotJudged
    ELSE judged = [seq_num |-> judge_seq_num, result |-> judge_result, buffer |-> buffer]

\* Until a cache packet has written outside the buffer, the statistics charge no
\* judge with more than the longest time limit, however often a packet is repeated
\* and whatever the programs' clocks show.
TimeAccounted == intact => total_time_ns <= n_judges * MaxTimeLimit
=============================================================================
