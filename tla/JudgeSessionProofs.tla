--------------------------- MODULE JudgeSessionProofs ---------------------------
(***************************************************************************)
(* The session of a client with the server, for every number of tasks, all *)
(* their packets, every bound on the packets under way and every behaviour *)
(* of the programs: packets may be lost and repeated without end, and      *)
(* answers that wait for the client's Ethernet address may be overtaken.   *)
(***************************************************************************)
EXTENDS JudgeSession, SequenceTheorems, TLAPS

-----------------------------------------------------------------------------
(* The judger by itself                                                    *)

-----------------------------------------------------------------------------
(* Types *)

\* Copying cells to an offset yields a buffer.
LEMMA PutType ==
  ASSUME NEW b \in [Cell -> Byte], NEW off \in Nat, NEW cells \in Seq(Byte)
  PROVE  Put(b, off, cells) \in [Cell -> Byte]
<1> SUFFICES ASSUME NEW a \in Cell, off <= a, a < off + Len(cells)
             PROVE  cells[a - off + 1] \in Byte
  BY DEF Put
<1>1. a \in Nat
  BY JudgerAssumption DEF Cell
<1>2. a - off + 1 \in 1 .. Len(cells)
  BY <1>1
<1> QED BY <1>2

\* A range of the buffer is a sequence of cells.
LEMMA SliceType ==
  ASSUME NEW b \in [Cell -> Byte], NEW off \in Nat, NEW len \in Nat,
         off + len <= BufferSize
  PROVE  Slice(b, off, len) \in Seq(Byte)
<1>1. \A i \in 1 .. len : off + i - 1 \in Cell
  BY JudgerAssumption DEF Cell
<1> QED BY <1>1 DEF Slice

\* A range that passes the test of the code lies in the buffer.
LEMMA RangeFits ==
  ASSUME NEW off \in Nat, NEW len \in Nat, InRange(off, len)
  PROVE  off + len <= BufferSize
  BY JudgerAssumption DEF InRange

\* A verdict is a result, and its time is within the request's limit.
LEMMA VerdictType ==
  ASSUME NEW m, NEW res, m.time_limit_ns \in Nat, res.time_ns \in Nat
  PROVE  /\ Verdict(m, res) \in Result
         /\ Verdict(m, res).time_ns <= m.time_limit_ns
  BY DEF Verdict, Result

\* Throwing the result away keeps its type (intact: nothing was written outside
\* the buffer so far).
LEMMA ClearType ==
  ASSUME TypeOK, intact, clear_judge_result
  PROVE  /\ judge_seq_num' \in SeqNum /\ judge_result' \in Result
         /\ judge_result_cleared' \in BOOLEAN
<1>1. NotJudged \in Result /\ NoSeq \in SeqNum
  BY JudgerAssumption DEF NotJudged, Result
<1>2. CASE judge_result_cleared
  BY <1>2 DEF TypeOK, clear_judge_result
<1>3. CASE ~ judge_result_cleared
  BY <1>1, <1>3 DEF clear_judge_result
<1> QED BY <1>2, <1>3

\* An operation that changes the buffer to a buffer keeps the types.
LEMMA ChangedType ==
  ASSUME TypeOK, intact, NEW b \in [Cell -> Byte], NEW m, Changed(b, m)
  PROVE  TypeOK'
<1>1. /\ buffer' = b /\ clear_judge_result
      /\ UNCHANGED <<cache, n_judges, total_time_ns, intact>>
  BY DEF Changed
<1> QED BY <1>1, ClearType DEF TypeOK

\* An answer changes nothing else.
LEMMA AnsweredType ==
  ASSUME TypeOK, intact, NEW r, Answered(r)
  PROVE  TypeOK'
  BY DEF TypeOK, Answered

\* A judge that starts keeps the types when its result and its buffer have them.
LEMMA StartType ==
  ASSUME TypeOK, intact, NEW m \in Packet, m.op = "judge", NEW result \in Result,
         NEW b \in [Cell -> Byte], StartJudge(m, result, b), total_time_ns' \in Nat
  PROVE  TypeOK'
<1>1. /\ n_judges < MaxJudges /\ n_judges' = n_judges + 1
      /\ judge_result_cleared' = FALSE /\ judge_seq_num' = m.seq_num
      /\ judge_result' = result /\ buffer' = b /\ UNCHANGED <<cache, intact>>
  BY DEF StartJudge
<1>2. m.seq_num \in SeqNum
  BY PacketAssumption
<1>3. n_judges' \in 0 .. MaxJudges
  BY <1>1, JudgerAssumption DEF TypeOK
<1> QED BY <1>1, <1>2, <1>3 DEF TypeOK

\* Operations on the buffer keep the types.
LEMMA BufferOpsType ==
  ASSUME TypeOK, intact, NEW m \in Packet,
         \/ m.op = "clear-buffer" /\ clear_buffer(m)
         \/ m.op = "read-buffer" /\ read_buffer(m)
         \/ m.op = "write-buffer" /\ write_buffer(m)
         \/ m.op = "copy-buffer" /\ copy_buffer(m)
         \/ m.op = "compare-buffer" /\ compare_buffer(m)
         \/ m.op = "statistics" /\ statistics(m)
  PROVE  TypeOK'
<1>1. buffer \in [Cell -> Byte]
  BY DEF TypeOK
<1>2. CASE m.op = "clear-buffer" /\ clear_buffer(m)
  <2>1. m.off \in Nat /\ m.len \in Nat
    BY <1>2, PacketAssumption
  <2>2. [i \in 1 .. m.len |-> Zero] \in Seq(Byte)
    BY <2>1, JudgerAssumption
  <2>3. Put(buffer, m.off, [i \in 1 .. m.len |-> Zero]) \in [Cell -> Byte]
    BY <1>1, <2>1, <2>2, PutType
  <2> QED BY <1>2, <2>3, ChangedType, AnsweredType DEF clear_buffer
<1>3. CASE m.op = "read-buffer" /\ read_buffer(m)
  BY <1>3, AnsweredType DEF read_buffer
<1>4. CASE m.op = "write-buffer" /\ write_buffer(m)
  <2>1. m.off \in Nat /\ m.cells \in Seq(Byte)
    BY <1>4, PacketAssumption
  <2>2. Put(buffer, m.off, m.cells) \in [Cell -> Byte]
    BY <1>1, <2>1, PutType
  <2> QED BY <1>4, <2>2, ChangedType, AnsweredType DEF write_buffer
<1>5. CASE m.op = "copy-buffer" /\ copy_buffer(m)
  <2>1. m.dst \in Nat /\ m.src \in Nat /\ m.len \in Nat
    BY <1>5, PacketAssumption
  <2>2. CASE CanCopy(m)
    <3>1. m.src + m.len <= BufferSize
      BY <2>1, <2>2, RangeFits DEF CanCopy
    <3>2. Slice(buffer, m.src, m.len) \in Seq(Byte)
      BY <1>1, <2>1, <3>1, SliceType
    <3>3. Put(buffer, m.dst, Slice(buffer, m.src, m.len)) \in [Cell -> Byte]
      BY <1>1, <2>1, <3>2, PutType
    <3> QED BY <1>5, <3>3, ChangedType, AnsweredType DEF copy_buffer
  <2>3. CASE ~ CanCopy(m)
    BY <1>5, <2>3, AnsweredType DEF copy_buffer
  <2> QED BY <2>2, <2>3
<1>6. CASE m.op = "compare-buffer" /\ compare_buffer(m)
  BY <1>6, AnsweredType DEF compare_buffer
<1>7. CASE m.op = "statistics" /\ statistics(m)
  BY <1>7, AnsweredType DEF statistics
<1> QED BY <1>2, <1>3, <1>4, <1>5, <1>6, <1>7

\* The values after a start of the machine.
LEMMA StartValues ==
  /\ ZeroBuffer \in [Cell -> Byte]
  /\ [c \in Cache |-> {}] \in [Cache -> SUBSET (Digest \X Seq(Byte))]
  /\ NoSeq \in SeqNum /\ NotJudged \in Result /\ 0 \in 0 .. MaxJudges
<1>1. ZeroBuffer \in [Cell -> Byte]
  BY JudgerAssumption DEF ZeroBuffer
<1>2. NotJudged \in Result
  BY DEF NotJudged, Result
<1>3. [c \in Cache |-> {}] \in [Cache -> SUBSET (Digest \X Seq(Byte))]
  OBVIOUS
<1> QED BY <1>1, <1>2, <1>3, JudgerAssumption

\* A start of the machine.
LEMMA RebootType ==
  ASSUME Reboot
  PROVE  TypeOK'
  BY StartValues DEF Reboot, TypeOK

\* What a copy reads are cells.
LEMMA ReadableType ==
  ASSUME NEW m, m.len \in Nat, NEW cells \in Readable(m)
  PROVE  cells \in Seq(Byte)
  BY DEF Readable

\* Operations on the caches keep the types, or end in a state that is not intact.
LEMMA CacheOpsType ==
  ASSUME TypeOK, intact, NEW m \in Packet,
         \/ m.op = "load-cache" /\ load_cache(m)
         \/ m.op = "store-cache" /\ store_cache(m)
  PROVE  TypeOK'
<1>1. buffer \in [Cell -> Byte]
  BY DEF TypeOK
<1>2. m.off \in Nat /\ m.len \in Nat /\ m.digest \in Digest
  BY PacketAssumption
<1>3. ASSUME NEW o \in IF Named(m) THEN Hits(m) ELSE {},
             Changed(Put(buffer, m.off, o[2]), m)
      PROVE  TypeOK'
  <2>1. o[2] \in Seq(Byte)
    BY <1>3 DEF TypeOK, Named, Hits
  <2>2. Put(buffer, m.off, o[2]) \in [Cell -> Byte]
    BY <1>1, <1>2, <2>1, PutType
  <2> QED BY <1>3, <2>2, ChangedType
<1>4. ASSUME Named(m), StoreObject(m)
      PROVE  TypeOK'
  <2>1. PICK kept \in SUBSET cache[m.cache], cells \in Readable(m) :
          cache' = [cache EXCEPT ![m.cache] = kept \cup {<<m.digest, cells>>}]
    BY <1>4 DEF StoreObject
  <2>2. <<m.digest, cells>> \in Digest \X Seq(Byte)
    BY <1>2, ReadableType
  <2>3. m.cache \in Cache /\ cache \in [Cache -> SUBSET (Digest \X Seq(Byte))]
    BY <1>4 DEF Named, TypeOK
  <2>4. cache' \in [Cache -> SUBSET (Digest \X Seq(Byte))]
    BY <2>1, <2>2, <2>3
  <2> QED BY <1>4, <2>4 DEF StoreObject, TypeOK
<1>5. CASE Overrun
  BY <1>5 DEF Overrun, TypeOK
<1>6. CASE load_cache(m)
  BY <1>3, <1>5, <1>6, AnsweredType, RebootType DEF load_cache
<1>7. CASE store_cache(m)
  BY <1>4, <1>5, <1>7, AnsweredType, RebootType DEF store_cache
<1> QED BY <1>6, <1>7

\* judge keeps the types.
LEMMA JudgeType ==
  ASSUME TypeOK, intact, NEW m \in Packet, m.op = "judge", judge(m)
  PROVE  TypeOK'
<1>1. CASE JudgeAgain(m)
  BY <1>1, AnsweredType DEF JudgeAgain
<1>2. /\ buffer \in [Cell -> Byte] /\ total_time_ns \in Nat
      /\ judge_result \in Result
  BY DEF TypeOK
<1>3. ASSUME NEW error \in {"Can't load ELF", "Invalid time limit"},
             StartJudge(m, Failed(error), buffer), UNCHANGED total_time_ns
      PROVE  TypeOK'
  <2>1. Failed(error) \in Result
    BY <1>2 DEF Failed, Result
  <2> QED BY <1>2, <1>3, <2>1, StartType
<1>4. CASE JudgeRefused(m)
  <2>1. Refused(m) \in {"Can't load ELF", "Invalid time limit"}
    BY <1>4 DEF JudgeRefused, Refused
  <2> QED BY <1>3, <1>4, <2>1 DEF JudgeRefused
<1>5. CASE JudgeNotLoaded(m)
  BY <1>3, <1>5 DEF JudgeNotLoaded
<1>6. CASE JudgeRun(m)
  <2>1. PICK res \in RunResults(buffer, m) :
          /\ StartJudge(m, Verdict(m, res), CopiedBack(buffer, m, res))
          /\ total_time_ns' = total_time_ns + Verdict(m, res).time_ns
    BY <1>6 DEF JudgeRun
  <2>2. /\ res.time_ns \in Nat /\ res.stdout \in Seq(Byte)
        /\ res.stderr \in Seq(Byte) /\ res.OB \in Seq(Byte)
    BY DEF RunResults
  <2>3. /\ m.time_limit_ns \in Nat /\ m.stdout.off \in Nat /\ m.stderr.off \in Nat
        /\ m.OB.off \in Nat
    BY PacketAssumption
  <2>4. Verdict(m, res) \in Result /\ Verdict(m, res).time_ns \in Nat
    BY <2>2, <2>3, VerdictType DEF Result
  <2>5. CopiedBack(buffer, m, res) \in [Cell -> Byte]
    BY <1>2, <2>2, <2>3, PutType DEF CopiedBack
  <2>6. total_time_ns' \in Nat
    BY <1>2, <2>1, <2>4
  <2> QED BY <2>1, <2>4, <2>5, <2>6, StartType
<1> QED BY <1>1, <1>4, <1>5, <1>6 DEF judge

\* A packet leaves the types as they are.
LEMMA HandleTypes ==
  ASSUME TypeOK, intact, NEW m \in Packet, duck_packet_handle(m)
  PROVE  TypeOK'
<1>1. CASE m.op = "reboot" /\ Reboot
  BY <1>1, RebootType
<1>2. CASE m.op = "judge" /\ judge(m)
  BY <1>2, JudgeType
<1>3. CASE (m.op = "load-cache" /\ load_cache(m)) \/ (m.op = "store-cache" /\ store_cache(m))
  BY <1>3, CacheOpsType
<1> QED BY <1>1, <1>2, <1>3, BufferOpsType DEF duck_packet_handle

\* Type correctness of the judger, whatever packets arrive: until a cache packet
\* that names a range outside the buffer has overwritten something else, and again
\* from the next start of the machine on.
THEOREM JudgerTypes == Spec => []TypeOK
<1>1. Init => TypeOK
  BY StartValues DEF Init, TypeOK
<1>2. ASSUME TypeOK, [Next]_vars PROVE TypeOK'
  <2>1. CASE UNCHANGED vars
    BY <1>2, <2>1 DEF vars, TypeOK
  <2>2. CASE Next
    BY <1>2, <2>2, HandleTypes, RebootType DEF Next
  <2> QED BY <1>2, <2>1, <2>2
<1> QED BY <1>1, <1>2, PTL DEF Spec

-----------------------------------------------------------------------------
(* The result that is kept *)

\* Throwing the result away leaves one that answers nothing.
LEMMA ClearedFresh ==
  ASSUME ResultFresh, intact, clear_judge_result
  PROVE  judge_result_cleared' /\ judge_seq_num' = NoSeq /\ judge_result' = NotJudged
  BY DEF ResultFresh, clear_judge_result

\* A packet that does not write outside the buffer leaves no result behind that does
\* not describe the buffer.
LEMMA HandleFresh ==
  ASSUME ResultFresh, intact, NEW m \in Packet, duck_packet_handle(m)
  PROVE  ResultFresh'
<1>1. ASSUME NEW b, NEW n, Changed(b, n) PROVE ResultFresh'
  BY <1>1, ClearedFresh DEF Changed, ResultFresh
<1>2. ASSUME NEW r, Answered(r) PROVE ResultFresh'
  BY <1>2 DEF Answered, ResultFresh
<1>3. ASSUME NEW n, NEW result, NEW b, StartJudge(n, result, b) PROVE ResultFresh'
  BY <1>3 DEF StartJudge, ResultFresh
<1>4. CASE Reboot
  BY <1>4 DEF Reboot, ResultFresh
<1>5. CASE Overrun
  BY <1>5 DEF Overrun, ResultFresh
<1>6. CASE judge(m)
  BY <1>2, <1>3, <1>6 DEF judge, JudgeAgain, JudgeRefused, JudgeNotLoaded, JudgeRun
<1>7. CASE load_cache(m)
  BY <1>1, <1>2, <1>4, <1>7, <1>5 DEF load_cache
<1>8. CASE store_cache(m)
  <2>1. CASE StoreObject(m)
    BY <2>1 DEF StoreObject, ResultFresh
  <2> QED BY <1>2, <1>4, <1>8, <1>5, <2>1 DEF store_cache
<1>9. CASE clear_buffer(m) \/ write_buffer(m) \/ copy_buffer(m)
  BY <1>1, <1>2, <1>9 DEF clear_buffer, write_buffer, copy_buffer
<1>10. CASE read_buffer(m) \/ compare_buffer(m) \/ statistics(m)
  BY <1>2, <1>10 DEF read_buffer, compare_buffer, statistics
<1> QED BY <1>4, <1>6, <1>7, <1>8, <1>9, <1>10 DEF duck_packet_handle

\* A result that judge returns again describes the buffer as it is, until a cache
\* packet that names a range outside the buffer has overwritten something else.
THEOREM ResultStaysFresh == Spec => []ResultFresh
<1>1. Init => ResultFresh
  BY DEF Init, ResultFresh
<1>2. ASSUME ResultFresh, [Next]_vars PROVE ResultFresh'
  <2>1. CASE UNCHANGED vars
    BY <1>2, <2>1 DEF vars, ResultFresh
  <2>2. CASE Reboot
    BY <2>2 DEF Reboot, ResultFresh
  <2>3. CASE Next
    BY <1>2, <2>2, <2>3, HandleFresh DEF Next
  <2> QED BY <1>2, <2>1, <2>3
<1> QED BY <1>1, <1>2, PTL DEF Spec

-----------------------------------------------------------------------------
(* The statistics *)

\* One more judge pays for a time up to the limit.
LEMMA OneMore ==
  ASSUME NEW n \in Nat, NEW limit \in Nat, NEW total \in Nat, NEW t \in Nat,
         total <= n * limit, t <= limit
  PROVE  total <= (n + 1) * limit /\ total + t <= (n + 1) * limit
<1>1. (n + 1) * limit = n * limit + limit /\ n * limit \in Nat
  OBVIOUS
<1> QED BY <1>1

\* The time charged is bounded by the number of judges, until a cache packet that
\* names a range outside the buffer has overwritten something else.
THEOREM TimeStaysAccounted == Spec => []TimeAccounted
<1>1. Init => TimeAccounted
  BY JudgerAssumption DEF Init, TimeAccounted
<1>2. ASSUME TypeOK, TimeAccounted, [Next]_vars PROVE TimeAccounted'
  <2>1. CASE Reboot
    BY <2>1, JudgerAssumption DEF Reboot, TimeAccounted
  <2>2. CASE UNCHANGED vars
    BY <1>2, <2>2 DEF vars, TimeAccounted
  <2> SUFFICES ASSUME intact, NEW m \in Packet, duck_packet_handle(m)
               PROVE  TimeAccounted'
    BY <1>2, <2>1, <2>2 DEF Next
  <2>3. /\ n_judges \in Nat /\ total_time_ns \in Nat /\ MaxTimeLimit \in Nat
        /\ total_time_ns <= n_judges * MaxTimeLimit
    BY <1>2, JudgerAssumption DEF TypeOK, TimeAccounted
  <2>4. CASE UNCHANGED <<n_judges, total_time_ns>>
    BY <2>3, <2>4 DEF TimeAccounted
  <2>5. ASSUME NEW t \in Nat, t <= MaxTimeLimit, n_judges' = n_judges + 1,
               total_time_ns' = total_time_ns + t \/ total_time_ns' = total_time_ns
        PROVE  TimeAccounted'
    <3>1. /\ total_time_ns <= (n_judges + 1) * MaxTimeLimit
          /\ total_time_ns + t <= (n_judges + 1) * MaxTimeLimit
      BY <2>3, <2>5, OneMore
    <3> QED BY <2>5, <3>1 DEF TimeAccounted
  <2>6. CASE JudgeRefused(m) \/ JudgeNotLoaded(m)
    <3>1. n_judges' = n_judges + 1 /\ total_time_ns' = total_time_ns
      BY <2>6 DEF JudgeRefused, JudgeNotLoaded, StartJudge
    <3>2. 0 \in Nat /\ 0 <= MaxTimeLimit
      BY <2>3
    <3> QED BY <2>5, <3>1, <3>2
  <2>7. CASE m.op = "judge" /\ JudgeRun(m)
    <3>1. PICK res \in RunResults(buffer, m) :
            /\ n_judges' = n_judges + 1
            /\ total_time_ns' = total_time_ns + Verdict(m, res).time_ns
      BY <2>7 DEF JudgeRun, StartJudge
    <3>2. res.time_ns \in Nat /\ m.time_limit_ns \in Nat
      BY <2>7, PacketAssumption DEF RunResults
    <3>3. m.time_limit_ns <= MaxTimeLimit
      BY <2>3, <2>7, <3>2 DEF JudgeRun, Refused
    <3>4. Verdict(m, res).time_ns \in Nat /\ Verdict(m, res).time_ns <= MaxTimeLimit
      <4>1. /\ Verdict(m, res).time_ns \in Nat
            /\ Verdict(m, res).time_ns <= m.time_limit_ns
        BY <3>2, VerdictType DEF Result
      <4> QED BY <2>3, <3>2, <3>3, <4>1
    <3> QED BY <2>5, <3>1, <3>4
  <2>8. CASE load_cache(m) \/ store_cache(m)
    <3>1. CASE Overrun
      BY <3>1 DEF Overrun, TimeAccounted
    <3>2. CASE StoreObject(m)
      BY <2>4, <3>2 DEF StoreObject
    <3>3. ASSUME NEW r, Answered(r) PROVE TimeAccounted'
      BY <2>4, <3>3 DEF Answered
    <3>4. ASSUME NEW b, Changed(b, m) PROVE TimeAccounted'
      BY <2>4, <3>4 DEF Changed
    <3> QED BY <2>8, <2>1, <3>1, <3>2, <3>3, <3>4 DEF load_cache, store_cache
  <2>9. CASE JudgeAgain(m) \/ clear_buffer(m) \/ write_buffer(m) \/ copy_buffer(m)
             \/ read_buffer(m) \/ compare_buffer(m) \/ statistics(m)
    <3>1. UNCHANGED <<n_judges, total_time_ns>>
      BY <2>9 DEF JudgeAgain, clear_buffer, write_buffer, copy_buffer, read_buffer,
                  compare_buffer, statistics, Answered, Changed
    <3> QED BY <2>4, <3>1
  <2> QED BY <2>6, <2>7, <2>8, <2>1, <2>9 DEF duck_packet_handle, judge
<1> QED BY <1>1, <1>2, JudgerTypes, PTL DEF Spec

-----------------------------------------------------------------------------
(* The session with a client                                               *)

-----------------------------------------------------------------------------
(* Sequences *)

\* The answers on the wire and, behind them, those that wait.
LEMMA TwoParts ==
  ASSUME NEW S, NEW s \in Seq(S), NEW t \in Seq(S)
  PROVE  /\ s \o t \in Seq(S) /\ s \o <<>> = s
         /\ \A e \in S : s \o Append(t, e) = Append(s \o t, e)
<1>1. s \o t \in Seq(S) /\ s \o <<>> = s
  BY ConcatProperties, ConcatEmptySeq
<1>2. ASSUME NEW e \in S PROVE s \o Append(t, e) = Append(s \o t, e)
  <2>1. Append(t, e) = t \o <<e>> /\ Append(s \o t, e) = (s \o t) \o <<e>>
    BY <1>1, AppendIsConcat
  <2>2. <<e>> \in Seq(S)
    OBVIOUS
  <2>3. (s \o t) \o <<e>> = s \o (t \o <<e>>)
    BY <2>2, ConcatAssociative
  <2>4. s \o Append(t, e) = s \o (t \o <<e>>)
    BY <2>1, Zenon
  <2> QED BY <2>1, <2>3, <2>4, Zenon
<1> QED BY <1>1, <1>2

\* Taking the first answer of the wire.
LEMMA FirstPart ==
  ASSUME NEW S, NEW s \in Seq(S), NEW t \in Seq(S), s # <<>>
  PROVE  /\ s \o t # <<>> /\ Head(s \o t) = Head(s)
         /\ Tail(s \o t) = Tail(s) \o t
<1> DEFINE u == s \o t
<1>1. /\ u \in Seq(S) /\ Len(u) = Len(s) + Len(t)
      /\ \A i \in 1 .. Len(s) + Len(t) : u[i] = IF i <= Len(s) THEN s[i] ELSE t[i - Len(s)]
  BY ConcatProperties
<1>2. /\ Len(s) \in Nat \ {0} /\ Len(t) \in Nat
      /\ Tail(s) \in Seq(S) /\ Len(Tail(s)) = Len(s) - 1
      /\ \A i \in 1 .. Len(Tail(s)) : Tail(s)[i] = s[i + 1]
  BY HeadTailProperties, EmptySeq
<1> HIDE DEF u
<1>3. u # <<>> /\ Head(u) = Head(s)
  BY <1>1, <1>2
<1> DEFINE v == Tail(s) \o t  w == Tail(u)
<1>4. /\ v \in Seq(S) /\ Len(v) = Len(s) - 1 + Len(t)
      /\ \A i \in 1 .. Len(s) - 1 + Len(t) :
           v[i] = IF i <= Len(s) - 1 THEN Tail(s)[i] ELSE t[i - (Len(s) - 1)]
  BY <1>2, ConcatProperties
<1>5. /\ w \in Seq(S) /\ Len(w) = Len(u) - 1
      /\ \A i \in 1 .. Len(w) : w[i] = u[i + 1]
  BY <1>1, <1>3, HeadTailProperties
<1> HIDE DEF v, w
<1>6. ASSUME NEW i \in 1 .. Len(w) PROVE w[i] = v[i]
  <2>1. w[i] = u[i + 1] /\ i + 1 \in 1 .. Len(s) + Len(t) /\ i \in 1 .. Len(s) - 1 + Len(t)
    BY <1>1, <1>2, <1>5
  <2>2. CASE i <= Len(s) - 1
    BY <1>1, <1>2, <1>4, <2>1, <2>2
  <2>3. CASE ~ (i <= Len(s) - 1)
    <3>1. (i + 1) - Len(s) = i - (Len(s) - 1) /\ ~ (i + 1 <= Len(s))
      BY <1>2, <2>3
    <3> QED BY <1>1, <1>4, <2>1, <2>3, <3>1
  <2> QED BY <2>2, <2>3
<1>7. w = v
  <2>1. Len(w) = Len(v)
    BY <1>1, <1>2, <1>4, <1>5
  <2> QED BY <1>4, <1>5, <1>6, <2>1, SeqEqual
<1> QED BY <1>3, <1>7 DEF u, v, w

\* An answer put into the table.
LEMMA PutIn ==
  ASSUME NEW S, NEW s \in Seq(S), NEW e \in S
  PROVE  /\ \A i \in 1 .. Len(s) + 1 : InsertAt(s, i, e) \in Seq(S)
         /\ InsertAt(s, Len(s) + 1, e) = Append(s, e)
<1>1. Len(s) \in Nat /\ <<e>> \in Seq(S)
  OBVIOUS
<1>2. ASSUME NEW i \in 1 .. Len(s) + 1 PROVE InsertAt(s, i, e) \in Seq(S)
  <2>1. /\ \A j \in 1 .. i - 1 : s[j] \in S
        /\ \A j \in i .. Len(s) : s[j] \in S
    BY <1>1
  <2>2. SubSeq(s, 1, i - 1) \in Seq(S) /\ SubSeq(s, i, Len(s)) \in Seq(S)
    BY <1>1, <2>1, SubSeqProperties
  <2>3. SubSeq(s, 1, i - 1) \o <<e>> \o SubSeq(s, i, Len(s)) \in Seq(S)
    BY <1>1, <2>2, ConcatProperties
  <2> QED BY <2>3, Zenon DEF InsertAt
<1>3. InsertAt(s, Len(s) + 1, e) = Append(s, e)
  <2>1. PICK k \in Nat : k = Len(s) + 1
    BY <1>1
  <2>2. SubSeq(s, 1, k - 1) = s /\ SubSeq(s, k, Len(s)) = <<>>
    <3>1. k - 1 = Len(s) /\ k \in Int /\ Len(s) \in Int /\ Len(s) < k
      BY <1>1, <2>1
    <3> QED BY <3>1, SubSeqFull, SubSeqEmpty
  <2>3. InsertAt(s, k, e) = s \o <<e>> \o <<>>
    <3>1. InsertAt(s, k, e) = SubSeq(s, 1, k - 1) \o <<e>> \o SubSeq(s, k, Len(s))
      BY Zenon DEF InsertAt
    <3> QED BY <2>2, <3>1, Zenon
  <2>4. s \o <<e>> \in Seq(S)
    BY <1>1, ConcatProperties
  <2>5. s \o <<e>> \o <<>> = s \o <<e>>
    BY <2>4, ConcatEmptySeq
  <2> QED BY <2>1, <2>3, <2>5, AppendIsConcat, Zenon
<1> QED BY <1>2, <1>3

-----------------------------------------------------------------------------
(* The types *)

\* The kind of packet of a step, and of the step before it.
OpAt(s) == IF s = 1 THEN "write-buffer" ELSE IF s = 2 THEN "judge" ELSE "read-buffer"
OpBefore(s) == IF s = 1 THEN "read-buffer" ELSE IF s = 2 THEN "write-buffer" ELSE "judge"

Reply == [op : {"write-buffer"}, ok : {TRUE}] \cup [op : {"judge"}, result : Result]
           \cup [op : {"read-buffer"}, off : Nat, cells : Seq(Byte)]

\* The places of the session's requests.
Place == (1 .. NTasks) \X (1 .. 3)

\* The entries of accepted.
Entry == [result : Result \cup {<<>>}, output : Seq(Byte), ordered : BOOLEAN]

\* The types of the session's variables.  None of its requests writes outside the
\* buffer.
SessionTypes ==
  /\ TypeOK /\ ResultFresh /\ intact
  /\ task \in 1 .. NTasks + 1 /\ step \in 1 .. 3
  /\ Done => step = 1
  /\ to_server \in Seq(Place)
  /\ to_client \in Seq(Reply) /\ waiting \in Seq(Reply)
  /\ overtaken \in BOOLEAN
  /\ verdict \in Result \cup {<<>>}
  /\ accepted \in Seq(Entry)
  /\ Len(accepted) = task - 1

\* The kinds of a task's packets.
LEMMA ScriptKinds ==
  ASSUME NEW t \in 1 .. NTasks, NEW s \in 1 .. 3
  PROVE  Script(t)[s] \in Packet /\ Script(t)[s].op = OpAt(s)
<1>1. s = 1 \/ s = 2 \/ s = 3
  OBVIOUS
<1> QED BY <1>1, SessionAssumption DEF OpAt

\* A place names the packet.
LEMMA PlaceRequest ==
  ASSUME NEW p \in Place
  PROVE  /\ p[1] \in 1 .. NTasks /\ p[2] \in 1 .. 3 /\ p = <<p[1], p[2]>>
         /\ Request(p) = Script(p[1])[p[2]]
         /\ Request(p) \in Packet /\ Request(p).op = OpAt(p[2])
         /\ Request(p).op \in {"write-buffer", "judge", "read-buffer"}
<1>1. p[1] \in 1 .. NTasks /\ p[2] \in 1 .. 3 /\ p = <<p[1], p[2]>>
  BY DEF Place
<1>2. Request(p) = Script(p[1])[p[2]]
  BY DEF Request
<1>3. Request(p) \in Packet /\ Request(p).op = OpAt(p[2])
  BY <1>1, <1>2, ScriptKinds
<1> QED BY <1>1, <1>2, <1>3 DEF OpAt

\* A write-buffer packet is dropped, or the result is thrown away and the cells
\* are in the buffer.
LEMMA ServeWrite ==
  ASSUME TypeOK, ResultFresh, intact, NEW m \in Packet, m.op = "write-buffer",
         duck_packet_handle(m)
  PROVE  /\ intact' /\ n_judges' = n_judges
         /\ \/ /\ reply' = NoReply
               /\ UNCHANGED <<buffer, judge_seq_num, judge_result, judge_result_cleared>>
            \/ /\ reply' = [op |-> "write-buffer", ok |-> TRUE]
               /\ judge_result_cleared' /\ judge_seq_num' = NoSeq
               /\ buffer' = Put(buffer, m.off, m.cells)
  BY ClearedFresh DEF duck_packet_handle, write_buffer, Answered, Changed

\* A read-buffer packet changes nothing, and is answered with the cells.
LEMMA ServeRead ==
  ASSUME intact, NEW m \in Packet, m.op = "read-buffer", duck_packet_handle(m)
  PROVE  /\ intact'
         /\ UNCHANGED <<buffer, judge_seq_num, judge_result, judge_result_cleared, n_judges>>
         /\ \/ reply' = NoReply
            \/ /\ InRange(m.off, m.len)
               /\ reply' = [op |-> "read-buffer", off |-> m.off,
                            cells |-> Slice(buffer, m.off, m.len)]
  BY DEF duck_packet_handle, read_buffer, Answered

\* A judge packet that was judged is answered from memory.
LEMMA ServeAgain ==
  ASSUME intact, NEW m \in Packet, m.op = "judge", m.seq_num = judge_seq_num,
         duck_packet_handle(m)
  PROVE  /\ intact'
         /\ UNCHANGED <<buffer, judge_seq_num, judge_result, judge_result_cleared, n_judges>>
         /\ reply' = [op |-> "judge", result |-> judge_result]
  BY DEF duck_packet_handle, judge, JudgeAgain, JudgeRefused, JudgeNotLoaded, JudgeRun,
         StartJudge, Answered

\* One that was not is remembered and counted.
LEMMA ServeNew ==
  ASSUME intact, NEW m \in Packet, m.op = "judge", m.seq_num # judge_seq_num,
         duck_packet_handle(m)
  PROVE  /\ intact'
         /\ judge_seq_num' = m.seq_num /\ n_judges' = n_judges + 1
         /\ reply' = [op |-> "judge", result |-> judge_result']
<1>1. judge(m) /\ ~ JudgeAgain(m)
  BY DEF duck_packet_handle, JudgeAgain
<1> QED BY <1>1 DEF judge, JudgeRefused, JudgeNotLoaded, JudgeRun, StartJudge

\* The answer to a packet of the client, if there is one, is of the packet's kind.
LEMMA ServeReply ==
  ASSUME TypeOK, ResultFresh, intact, NEW m \in Packet,
         m.op \in {"write-buffer", "judge", "read-buffer"}, duck_packet_handle(m)
  PROVE  /\ TypeOK' /\ ResultFresh' /\ intact'
         /\ reply' = NoReply \/ (reply' \in Reply /\ reply'.op = m.op)
<1>1. TypeOK' /\ ResultFresh'
  BY HandleTypes, HandleFresh
<1>2. CASE m.op = "write-buffer"
  <2>1. /\ intact'
        /\ reply' = NoReply \/ reply' = [op |-> "write-buffer", ok |-> TRUE]
    BY <1>2, ServeWrite
  <2>2. [op |-> "write-buffer", ok |-> TRUE] \in Reply
    BY DEF Reply
  <2>3. [op |-> "write-buffer", ok |-> TRUE].op = "write-buffer"
    OBVIOUS
  <2> QED BY <1>1, <1>2, <2>1, <2>2, <2>3, Zenon
<1>3. CASE m.op = "judge"
  <2>1. intact' /\ reply' = [op |-> "judge", result |-> judge_result']
    BY <1>3, ServeAgain, ServeNew
  <2>2. judge_result' \in Result
    BY <1>1, <2>1 DEF TypeOK
  <2> QED BY <1>1, <1>3, <2>1, <2>2 DEF Reply
<1>4. CASE m.op = "read-buffer"
  <2>1. m.off \in Nat /\ m.len \in Nat
    BY <1>4, PacketAssumption
  <2>2. InRange(m.off, m.len) => Slice(buffer, m.off, m.len) \in Seq(Byte)
    BY <2>1, RangeFits, SliceType DEF TypeOK
  <2>3. InRange(m.off, m.len) =>
          [op |-> "read-buffer", off |-> m.off, cells |-> Slice(buffer, m.off, m.len)] \in Reply
    BY <2>1, <2>2 DEF Reply
  <2>4. /\ intact'
        /\ \/ reply' = NoReply
           \/ /\ InRange(m.off, m.len)
              /\ reply' = [op |-> "read-buffer", off |-> m.off,
                           cells |-> Slice(buffer, m.off, m.len)]
    BY <1>4, ServeRead
  <2> QED BY <1>1, <1>4, <2>3, <2>4
<1> QED BY <1>2, <1>3, <1>4

\* The first packet on its way to the server.
LEMMA FirstRequest ==
  ASSUME SessionTypes, to_server # <<>>
  PROVE  /\ Head(to_server) = to_server[1] /\ 1 \in 1 .. Len(to_server)
         /\ to_server[1] \in Place /\ Len(to_server) \in Nat
         /\ Tail(to_server) \in Seq(Place) /\ Len(Tail(to_server)) = Len(to_server) - 1
         /\ \A i \in 1 .. Len(to_server) - 1 :
              i + 1 \in 1 .. Len(to_server) /\ Tail(to_server)[i] = to_server[i + 1]
  BY DEF SessionTypes

\* An answer that is sent is the last one, unless it overtakes another.
LEMMA SendAnswer ==
  ASSUME NEW r \in Reply, SessionTypes, ducknet_ipv4_send(r)
  PROVE  /\ to_client' \in Seq(Reply) /\ waiting' \in Seq(Reply)
         /\ overtaken' \in BOOLEAN /\ (overtaken => overtaken')
         /\ ~ overtaken' => to_client' \o waiting' = Append(to_client \o waiting, r)
<1>1. to_client \in Seq(Reply) /\ waiting \in Seq(Reply) /\ overtaken \in BOOLEAN
  BY DEF SessionTypes
<1>2. CASE /\ to_client' = Append(to_client, r) /\ waiting' = waiting
           /\ overtaken' = (overtaken \/ waiting # <<>>)
  <2>1. Append(to_client, r) \in Seq(Reply)
    BY <1>1, AppendProperties
  <2>2. to_client \o <<>> = to_client /\ Append(to_client, r) \o <<>> = Append(to_client, r)
    BY <1>1, <2>1, ConcatEmptySeq
  <2> QED BY <1>1, <1>2, <2>1, <2>2
<1>3. ASSUME NEW i \in 1 .. Len(waiting) + 1, to_client' = to_client,
             waiting' = InsertAt(waiting, i, r),
             overtaken' = (overtaken \/ i <= Len(waiting))
      PROVE  /\ to_client' \in Seq(Reply) /\ waiting' \in Seq(Reply)
             /\ overtaken' \in BOOLEAN /\ (overtaken => overtaken')
             /\ ~ overtaken' => to_client' \o waiting' = Append(to_client \o waiting, r)
  <2>1. waiting' \in Seq(Reply)
    BY <1>1, <1>3, PutIn
  <2>2. ASSUME ~ overtaken' PROVE to_client' \o waiting' = Append(to_client \o waiting, r)
    <3>1. i = Len(waiting) + 1
      <4>1. ~ (i <= Len(waiting))
        BY <1>3, <2>2, Zenon
      <4> QED BY <1>1, <1>3, <4>1
    <3>2. waiting' = Append(waiting, r)
      BY <1>1, <1>3, <3>1, PutIn
    <3> QED BY <1>1, <1>3, <3>2, TwoParts
  <2> QED BY <1>1, <1>3, <2>1, <2>2
<1> QED BY <1>2, <1>3 DEF ducknet_ipv4_send

\* An answer that the client expects is of the step's kind.
LEMMA ExpectedAnswer ==
  ASSUME SessionTypes, ~ Done, to_client # <<>>, Expected(Head(to_client))
  PROVE  /\ task \in 1 .. NTasks /\ step \in 1 .. 3
         /\ Head(to_client) \in Reply /\ Tail(to_client) \in Seq(Reply)
         /\ Head(to_client).op = OpAt(step)
         /\ step = 2 => Head(to_client).result \in Result
         /\ step = 3 => Head(to_client).cells \in Seq(Byte)
<1>1. task \in 1 .. NTasks /\ step \in 1 .. 3
  BY SessionAssumption DEF SessionTypes, Done
<1>2. Head(to_client) \in Reply /\ Tail(to_client) \in Seq(Reply)
  BY HeadTailProperties DEF SessionTypes
<1>3. Head(to_client).op = OpAt(step)
  BY <1>1, ScriptKinds DEF Expected
<1>4. ASSUME NEW r \in Reply
      PROVE  /\ r.op = "judge" => r.result \in Result
             /\ r.op = "read-buffer" => r.cells \in Seq(Byte)
  BY <1>4 DEF Reply
<1>5. (step = 2 => OpAt(step) = "judge") /\ (step = 3 => OpAt(step) = "read-buffer")
  BY DEF OpAt
<1> QED BY <1>1, <1>2, <1>3, <1>4, <1>5

\* The types are kept.
LEMMA SessionTypesStep ==
  ASSUME SessionTypes, [SessionNext]_allVars
  PROVE  SessionTypes'
<1>1. CASE UNCHANGED allVars
  BY <1>1 DEF allVars, vars, answerVars, clientVars, SessionTypes, TypeOK, ResultFresh, Done
<1>2. CASE SendOk \/ SendWaiting \/ Learn \/ Hide \/ ClientDrop \/ ClientAccept
  <2>0. TypeOK' /\ ResultFresh' /\ intact'
    <3>1. UNCHANGED vars
      BY <1>2 DEF SendOk, SendWaiting, Learn, Hide, ClientDrop, ClientAccept
    <3> QED BY <3>1 DEF vars, SessionTypes, TypeOK, ResultFresh
  <2>1. CASE SendOk
    <3>1. ~ Done /\ task \in 1 .. NTasks /\ step \in 1 .. 3
      BY <2>1, SessionAssumption DEF SendOk, SessionTypes, Done
    <3>2. to_server' \in Seq(Place)
      <4>1. <<task, step>> \in Place
        BY <3>1 DEF Place
      <4> QED BY <2>1, <4>1, AppendProperties DEF SendOk, SessionTypes
    <3> QED BY <2>0, <2>1, <3>2 DEF SendOk, answerVars, clientVars, SessionTypes, Done
  <2>2. CASE SendWaiting
    <3>1. to_client' \in Seq(Reply) /\ waiting' \in Seq(Reply)
      BY <2>2, TwoParts, EmptySeq DEF SendWaiting, SessionTypes
    <3> QED BY <2>0, <2>2, <3>1 DEF SendWaiting, clientVars, SessionTypes, Done
  <2>3. CASE Learn \/ Hide
    BY <2>0, <2>3 DEF Learn, Hide, clientVars, SessionTypes, Done
  <2>4. CASE ClientDrop
    <3>1. to_client' \in Seq(Reply)
      BY <2>4, HeadTailProperties DEF ClientDrop, SessionTypes
    <3> QED BY <2>0, <2>4, <3>1 DEF ClientDrop, clientVars, SessionTypes, Done
  <2>5. CASE ClientAccept
    <3>1. /\ ~ Done /\ to_client # <<>> /\ Expected(Head(to_client))
          /\ to_client' = Tail(to_client)
          /\ UNCHANGED <<to_server, waiting, overtaken>>
          /\ verdict' = IF step = 2 THEN Head(to_client).result ELSE verdict
      BY <2>5 DEF ClientAccept
    <3>2. /\ task \in 1 .. NTasks /\ step \in 1 .. 3 /\ to_client' \in Seq(Reply)
          /\ step = 2 => Head(to_client).result \in Result
          /\ step = 3 => Head(to_client).cells \in Seq(Byte)
      BY <3>1, ExpectedAnswer
    <3>3. verdict' \in Result \cup {<<>>}
      BY <3>1, <3>2 DEF SessionTypes
    <3>4. CASE step < 3
      <4>1. step' = step + 1 /\ UNCHANGED <<task, accepted>>
        BY <2>5, <3>4 DEF ClientAccept
      <4> QED BY <2>0, <3>1, <3>2, <3>3, <3>4, <4>1, SessionAssumption DEF SessionTypes, Done
    <3>5. CASE ~ (step < 3)
      <4> DEFINE e == [result |-> verdict, output |-> Head(to_client).cells,
                       ordered |-> ~ overtaken]
      <4>1. step' = 1 /\ task' = task + 1 /\ accepted' = Append(accepted, e)
        BY <2>5, <3>5 DEF ClientAccept
      <4>2. e \in Entry
        BY <3>2, <3>5 DEF SessionTypes, Entry
      <4> HIDE DEF e
      <4>3. accepted' \in Seq(Entry) /\ Len(accepted') = task' - 1
        BY <3>2, <4>1, <4>2, AppendProperties DEF SessionTypes
      <4>4. task' \in 1 .. NTasks + 1 /\ step' \in 1 .. 3
        BY <3>2, <4>1, SessionAssumption
      <4> QED BY <2>0, <3>1, <3>2, <3>3, <4>1, <4>3, <4>4 DEF SessionTypes, Done
    <3> QED BY <3>4, <3>5
  <2> QED BY <1>2, <2>1, <2>2, <2>3, <2>4, <2>5
<1>3. ASSUME NEW answered \in BOOLEAN, Serve(answered) PROVE SessionTypes'
  <2>1. /\ to_server # <<>> /\ duck_packet_handle(Request(Head(to_server)))
        /\ to_server' = Tail(to_server)
        /\ UNCHANGED <<task, step, verdict, accepted>>
        /\ \/ reply' # NoReply /\ ducknet_ipv4_send(reply')
           \/ UNCHANGED <<to_client, waiting, overtaken>>
    BY <1>3 DEF Serve, clientVars
  <2>2. /\ Head(to_server) \in Place /\ to_server' \in Seq(Place)
    BY <2>1, FirstRequest
  <2>3. /\ TypeOK' /\ ResultFresh' /\ intact'
        /\ reply' = NoReply \/ reply' \in Reply
    BY <2>1, <2>2, PlaceRequest, ServeReply DEF SessionTypes
  <2>4. to_client' \in Seq(Reply) /\ waiting' \in Seq(Reply) /\ overtaken' \in BOOLEAN
    BY <2>1, <2>3, SendAnswer DEF SessionTypes
  <2> QED BY <2>1, <2>2, <2>3, <2>4 DEF SessionTypes, Done
<1> QED BY <1>1, <1>2, <1>3 DEF SessionNext

-----------------------------------------------------------------------------
(* One run per task *)

\* The order of places, and the client's own.
Upto(p, q) == p[1] < q[1] \/ (p[1] = q[1] /\ p[2] <= q[2])
Here == <<task, step>>

\* seq is the seq_num of a task before t, or of none.
SeqBefore(seq, t) == seq = NoSeq \/ \E u \in 1 .. t - 1 : seq = Script(u)[2].seq_num

\* What the server has run, n judges and last the one with seq_num seq, when the
\* packet at place p is the next one it takes.
Ready(n, seq, p) ==
  \/ n < p[1] /\ SeqBefore(seq, p[1])
  \/ p[2] = 2 /\ n <= p[1] /\ seq = Script(p[1])[2].seq_num
  \/ p[2] = 3 /\ n <= p[1] /\ SeqBefore(seq, p[1] + 1)

\* The requests under way are in order, none is ahead of the client, and the server
\* is ready for each.
CountInv ==
  /\ Ready(n_judges, judge_seq_num, Here)
  /\ \A i \in 1 .. Len(to_server) :
       /\ Ready(n_judges, judge_seq_num, to_server[i]) /\ Upto(to_server[i], Here)
       /\ \A j \in i .. Len(to_server) : Upto(to_server[i], to_server[j])

\* A server that is ready for a packet is ready for all later ones.
LEMMA ReadyLater ==
  ASSUME NEW p, NEW q, p[1] \in Nat \ {0}, q[1] \in Nat \ {0}, p[2] \in 1 .. 3, q[2] \in 1 .. 3,
         NEW n \in Nat, NEW seq, Ready(n, seq, p), Upto(p, q)
  PROVE  Ready(n, seq, q)
<1>1. \A t \in Nat, u \in Nat : t <= u /\ SeqBefore(seq, t) => SeqBefore(seq, u)
  BY DEF SeqBefore
<1>2. seq = Script(p[1])[2].seq_num => SeqBefore(seq, p[1] + 1)
  BY DEF SeqBefore
<1>3. n <= p[1] /\ SeqBefore(seq, p[1] + 1)
  BY <1>1, <1>2 DEF Ready
<1>4. CASE p[1] < q[1]
  <2>1. n < q[1] /\ SeqBefore(seq, q[1])
    BY <1>1, <1>3, <1>4
  <2> QED BY <2>1 DEF Ready
<1>5. CASE p[1] = q[1] /\ p[2] <= q[2]
  BY <1>1, <1>2, <1>3, <1>5 DEF Ready
<1> QED BY <1>4, <1>5 DEF Upto

\* Taking a packet leaves the server ready for the same packet again.
LEMMA ReadyAgain ==
  ASSUME SessionTypes, NEW p \in Place, Ready(n_judges, judge_seq_num, p),
         duck_packet_handle(Request(p))
  PROVE  Ready(n_judges', judge_seq_num', p) /\ n_judges' \in Nat
<1> DEFINE m == Request(p)
<1>1. /\ m \in Packet /\ p[1] \in 1 .. NTasks /\ p[2] \in 1 .. 3
      /\ m = Script(p[1])[p[2]] /\ m.op = OpAt(p[2]) /\ NTasks \in Nat
  BY PlaceRequest, SessionAssumption
<1>2. TypeOK /\ ResultFresh /\ intact /\ n_judges \in Nat
  BY DEF SessionTypes, TypeOK
<1> HIDE DEF m
<1>3. CASE UNCHANGED <<judge_seq_num, n_judges>>
  BY <1>2, <1>3
<1>4. CASE p[2] = 1
  <2>1. n_judges < p[1] /\ SeqBefore(NoSeq, p[1])
    BY <1>4 DEF Ready, SeqBefore
  <2>2. /\ n_judges' = n_judges
        /\ judge_seq_num' = judge_seq_num \/ judge_seq_num' = NoSeq
    BY <1>1, <1>2, <1>4, ServeWrite DEF OpAt, m
  <2> QED BY <1>2, <1>3, <2>1, <2>2 DEF Ready
<1>5. CASE p[2] = 2
  <2>1. m.op = "judge" /\ m.seq_num = Script(p[1])[2].seq_num
    BY <1>1, <1>5 DEF OpAt
  <2>2. CASE m.seq_num = judge_seq_num
    BY <1>1, <1>2, <1>3, <2>1, <2>2, ServeAgain DEF m
  <2>3. CASE m.seq_num # judge_seq_num
    <3>1. n_judges < p[1]
      BY <1>5, <2>1, <2>3 DEF Ready
    <3>2. judge_seq_num' = m.seq_num /\ n_judges' = n_judges + 1
      BY <1>1, <1>2, <2>1, <2>3, ServeNew DEF m
    <3>3. n_judges' <= p[1] /\ n_judges' \in Nat
      BY <1>1, <1>2, <3>1, <3>2
    <3> QED BY <1>5, <2>1, <3>2, <3>3 DEF Ready
  <2> QED BY <2>2, <2>3
<1>6. CASE p[2] = 3
  <2>1. UNCHANGED <<judge_seq_num, n_judges>>
    BY <1>1, <1>2, <1>6, ServeRead DEF OpAt, m
  <2> QED BY <1>3, <2>1
<1> QED BY <1>1, <1>4, <1>5, <1>6

\* The client's place is one of the session's, or the first after it.
LEMMA ClientPlace ==
  ASSUME SessionTypes
  PROVE  /\ Here[1] = task /\ Here[2] = step /\ task \in Nat \ {0} /\ step \in 1 .. 3
         /\ n_judges \in Nat /\ to_server \in Seq(Place) /\ Len(to_server) \in Nat
         /\ \A i \in 1 .. Len(to_server) :
              to_server[i][1] \in Nat \ {0} /\ to_server[i][2] \in 1 .. 3
<1>1. /\ Here[1] = task /\ Here[2] = step /\ task \in Nat \ {0} /\ step \in 1 .. 3
      /\ n_judges \in Nat /\ to_server \in Seq(Place) /\ Len(to_server) \in Nat
  BY SessionAssumption DEF SessionTypes, TypeOK, Here
<1>2. ASSUME NEW i \in 1 .. Len(to_server)
      PROVE  to_server[i][1] \in Nat \ {0} /\ to_server[i][2] \in 1 .. 3
  <2>1. to_server[i] \in Place
    BY <1>1
  <2> QED BY <2>1, PlaceRequest, SessionAssumption
<1> QED BY <1>1, <1>2

\* The server stays ready for what is to come, in whatever order answers arrive.
LEMMA CountStep ==
  ASSUME SessionTypes, CountInv, [SessionNext]_allVars
  PROVE  CountInv'
<1> DEFINE Known(p) == Ready(n_judges, judge_seq_num, p)
<1>1. /\ task \in Nat \ {0} /\ step \in 1 .. 3 /\ n_judges \in Nat
      /\ Here[1] = task /\ Here[2] = step /\ Len(to_server) \in Nat
      /\ to_server \in Seq(Place)
      /\ \A i \in 1 .. Len(to_server) :
           to_server[i][1] \in Nat \ {0} /\ to_server[i][2] \in 1 .. 3
  BY ClientPlace
<1>2. /\ Known(Here)
      /\ \A i \in 1 .. Len(to_server) :
           /\ Known(to_server[i]) /\ Upto(to_server[i], Here)
           /\ \A j \in i .. Len(to_server) : Upto(to_server[i], to_server[j])
  BY DEF CountInv
<1>3. CASE UNCHANGED <<vars, to_server, task, step>>
  BY <1>2, <1>3 DEF CountInv, Here, vars
<1>4. CASE SendOk
  <2>1. /\ to_server' = Append(to_server, Here) /\ Here' = Here
        /\ UNCHANGED <<n_judges, judge_seq_num>>
    BY <1>4 DEF SendOk, clientVars, vars, Here
  <2>2. Here \in Place
    BY <1>4, SessionAssumption DEF SendOk, SessionTypes, Done, Here, Place
  <2>3. /\ Len(to_server') = Len(to_server) + 1
        /\ \A i \in 1 .. Len(to_server) : to_server'[i] = to_server[i]
        /\ to_server'[Len(to_server) + 1] = Here
    BY <1>1, <2>1, <2>2, AppendProperties
  <2>4. Upto(Here, Here)
    BY <1>1 DEF Upto
  <2>5. ASSUME NEW i \in 1 .. Len(to_server) + 1
        PROVE  /\ Known(to_server'[i]) /\ Upto(to_server'[i], Here)
               /\ \A j \in i .. Len(to_server) + 1 : Upto(to_server'[i], to_server'[j])
    <3>1. CASE i = Len(to_server) + 1
      BY <1>1, <1>2, <2>3, <2>4, <3>1
    <3>2. CASE i \in 1 .. Len(to_server)
      <4>1. \A j \in i .. Len(to_server) + 1 :
              \/ j \in i .. Len(to_server) /\ to_server'[j] = to_server[j]
              \/ to_server'[j] = Here
        BY <1>1, <2>3, <3>2
      <4> QED BY <1>2, <2>3, <3>2, <4>1
    <3> QED BY <1>1, <3>1, <3>2
  <2> QED BY <1>2, <2>1, <2>3, <2>5 DEF CountInv
<1>5. ASSUME NEW answered \in BOOLEAN, Serve(answered) PROVE CountInv'
  <2>1. /\ to_server # <<>> /\ duck_packet_handle(Request(to_server[1]))
        /\ to_server[1] \in Place /\ 1 \in 1 .. Len(to_server) /\ Here' = Here
        /\ to_server' = Tail(to_server) /\ Len(to_server') = Len(to_server) - 1
        /\ \A i \in 1 .. Len(to_server) - 1 :
             i + 1 \in 1 .. Len(to_server) /\ to_server'[i] = to_server[i + 1]
    BY <1>5, FirstRequest DEF Serve, clientVars, Here
  <2>2. PICK h \in Place : h = to_server[1]
    BY <2>1
  <2>3. /\ Known(h) /\ Upto(h, Here)
        /\ \A i \in 1 .. Len(to_server) : Upto(h, to_server[i])
    BY <1>2, <2>1, <2>2
  <2>4. Ready(n_judges', judge_seq_num', h) /\ n_judges' \in Nat
    BY <2>1, <2>2, <2>3, ReadyAgain
  <2>5. h[1] \in Nat \ {0} /\ h[2] \in 1 .. 3
    BY <1>1, <2>1, <2>2
  <2>6. Ready(n_judges', judge_seq_num', Here)
    BY <1>1, <2>3, <2>4, <2>5, ReadyLater
  <2>7. \A i \in 1 .. Len(to_server) : Ready(n_judges', judge_seq_num', to_server[i])
    BY <1>1, <2>3, <2>4, <2>5, ReadyLater
  <2>8. ASSUME NEW i \in 1 .. Len(to_server) - 1
        PROVE  /\ Ready(n_judges', judge_seq_num', to_server'[i]) /\ Upto(to_server'[i], Here)
               /\ \A j \in i .. Len(to_server) - 1 : Upto(to_server'[i], to_server'[j])
    <3>1. \A j \in i .. Len(to_server) - 1 :
            j + 1 \in i + 1 .. Len(to_server) /\ to_server'[j] = to_server[j + 1]
      BY <1>1, <2>1
    <3> QED BY <1>2, <2>1, <2>7, <3>1
  <2> QED BY <2>1, <2>6, <2>8 DEF CountInv
<1>6. CASE ClientAccept
  <2>1. /\ UNCHANGED <<n_judges, judge_seq_num, to_server>>
        /\ \/ task' = task /\ step' = step + 1 /\ step < 3
           \/ task' = task + 1 /\ step' = 1
    BY <1>6 DEF ClientAccept, vars
  <2>2. Here'[1] = task' /\ Here'[2] = step' /\ task' \in Nat \ {0} /\ step' \in 1 .. 3
    BY <1>1, <2>1 DEF Here
  <2>3. Upto(Here, Here')
    BY <1>1, <2>1, <2>2 DEF Upto
  <2>4. Known(Here')
    BY <1>1, <1>2, <2>2, <2>3, ReadyLater
  <2>5. \A i \in 1 .. Len(to_server) : Upto(to_server[i], Here')
    <3>1. ASSUME NEW p, p[1] \in Nat, p[2] \in 1 .. 3, Upto(p, Here) PROVE Upto(p, Here')
      BY <1>1, <2>2, <2>3, <3>1 DEF Upto
    <3> QED BY <1>1, <1>2, <3>1
  <2> QED BY <1>2, <2>1, <2>4, <2>5 DEF CountInv
<1>7. CASE UNCHANGED allVars \/ SendWaiting \/ Learn \/ Hide \/ ClientDrop
  BY <1>3, <1>7 DEF allVars, clientVars, SendWaiting, Learn, Hide, ClientDrop
<1> QED BY <1>4, <1>5, <1>6, <1>7 DEF SessionNext

-----------------------------------------------------------------------------
(* The order of requests and answers *)

\* The answers in the order in which they will arrive, unless one overtakes another.
Answers == to_client \o waiting

\* The place before the client's.
Before == IF step = 1 THEN <<task - 1, 3>> ELSE <<task, step - 1>>

\* An answer that belongs to the client's step.
New(r) == r.op = OpAt(step)

\* The packets on their way to the server are those of the last step and, behind
\* them, those of this one.
ToServerInv ==
  \A i \in 1 .. Len(to_server) :
    /\ to_server[i] = Here \/ to_server[i] = Before
    /\ \A j \in i .. Len(to_server) : to_server[i] = Here => to_server[j] = Here

\* So are the answers, which are older than the packets.
ToClientInv ==
  \A i \in 1 .. Len(Answers) :
    /\ New(Answers[i]) \/ Answers[i].op = OpBefore(step)
    /\ \A j \in i .. Len(Answers) : New(Answers[i]) => New(Answers[j])
    /\ \A j \in 1 .. Len(to_server) : New(Answers[i]) => to_server[j] = Here

\* The task's data is in the buffer and nothing was judged since.
Written ==
  /\ judge_result_cleared
  /\ buffer = Put(buffer, Script(task)[1].off, Script(task)[1].cells)

\* The task was judged, and the buffer is as the run left it.
HasRun ==
  /\ judge_seq_num = Script(task)[2].seq_num
  /\ \E b \in [Cell -> Byte] :
       [result |-> judge_result, buffer |-> buffer] \in TaskRuns(task, b)

\* What the server knows while the client waits for its data to be written,
Step1Inv ==
  step = 1 => \A i \in 1 .. Len(Answers) : New(Answers[i]) => Written

\* for the verdict,
Step2Inv ==
  step = 2 =>
    /\ Written \/ HasRun
    /\ \A i \in 1 .. Len(to_server) : to_server[i] # Here => Written
    /\ \A i \in 1 .. Len(Answers) :
         New(Answers[i]) => HasRun /\ Answers[i].result = judge_result

\* and for the output.
Step3Inv ==
  step = 3 =>
    /\ HasRun
    /\ verdict = judge_result
    /\ \A i \in 1 .. Len(Answers) : New(Answers[i]) =>
         Answers[i].cells = Slice(buffer, Script(task)[3].off, Script(task)[3].len)

Ordered == ToServerInv /\ ToClientInv /\ Step1Inv /\ Step2Inv /\ Step3Inv

SessionInv == SessionTypes /\ CountInv /\ (~ overtaken => Ordered) /\ EndToEnd

\* The places and the kinds of two steps that follow each other differ.
LEMMA Neighbours ==
  ASSUME SessionTypes
  PROVE  /\ Here # Before /\ OpAt(step) # OpBefore(step)
         /\ Here \in Place => Request(Here) = Script(task)[step]
         /\ Before \in Place => /\ Request(Before).op = OpBefore(step)
                                /\ step > 1 => Request(Before) = Script(task)[step - 1]
<1>1. /\ task \in Nat \ {0} /\ (step = 1 \/ step = 2 \/ step = 3)
      /\ Here = <<task, step>> /\ Here[1] = task /\ Here[2] = step
  BY SessionAssumption DEF SessionTypes, Here
<1>2. OpAt(step) # OpBefore(step)
  BY <1>1 DEF OpAt, OpBefore
<1>3. Here \in Place => Request(Here) = Script(task)[step]
  BY <1>1 DEF Request
<1>4. CASE step = 1
  <2>1. Before = <<task - 1, 3>> /\ Before[1] = task - 1 /\ Before[2] = 3
    BY <1>4 DEF Before
  <2>2. Before \in Place => Request(Before).op = OpAt(3)
    BY <2>1, PlaceRequest
  <2>3. OpAt(3) = OpBefore(step)
    BY <1>4 DEF OpAt, OpBefore
  <2> QED BY <1>1, <1>2, <1>3, <1>4, <2>1, <2>2, <2>3
<1>5. CASE step = 2 \/ step = 3
  <2>1. Before = <<task, step - 1>> /\ Before[1] = task /\ Before[2] = step - 1
    BY <1>5 DEF Before
  <2>2. Before \in Place => /\ Request(Before).op = OpAt(step - 1)
                            /\ Request(Before) = Script(task)[step - 1]
    BY <2>1, PlaceRequest
  <2>3. OpAt(step - 1) = OpBefore(step)
    BY <1>5 DEF OpAt, OpBefore
  <2> QED BY <1>1, <1>2, <1>3, <1>5, <2>1, <2>2, <2>3
<1> QED BY <1>1, <1>4, <1>5

\* Writing the same cells twice is writing them once.
LEMMA PutTwice ==
  ASSUME NEW b \in [Cell -> Byte], NEW off \in Nat, NEW cells \in Seq(Byte)
  PROVE  Put(Put(b, off, cells), off, cells) = Put(b, off, cells)
  BY PutType DEF Put

\* A judge packet, when the result is thrown away, runs the program.
LEMMA ServeJudge ==
  ASSUME TypeOK, ResultFresh, intact, NEW m \in Packet, m.op = "judge", m.seq_num # NoSeq,
         judge_result_cleared, duck_packet_handle(m)
  PROVE  /\ judge_seq_num' = m.seq_num
         /\ [result |-> judge_result', buffer |-> buffer'] \in Judgements(buffer, m)
         /\ reply' = [op |-> "judge", result |-> judge_result']
<1>1. judge_seq_num = NoSeq /\ judge_result = NotJudged
  BY DEF ResultFresh
<1>2. judge(m) /\ ~ JudgeAgain(m)
  BY <1>1 DEF duck_packet_handle, JudgeAgain
<1>3. ASSUME NEW error, StartJudge(m, Failed(error), buffer),
             error = IF Refused(m) # "" THEN Refused(m) ELSE "Can't load ELF",
             Refused(m) # "" \/ RunResults(buffer, m) = {}
      PROVE  [result |-> judge_result', buffer |-> buffer'] \in Judgements(buffer, m)
  BY <1>1, <1>3 DEF StartJudge, Failed, Judgements
<1>4. CASE JudgeRefused(m)
  BY <1>3, <1>4 DEF JudgeRefused, StartJudge
<1>5. CASE JudgeNotLoaded(m)
  BY <1>3, <1>5 DEF JudgeNotLoaded, StartJudge
<1>6. CASE JudgeRun(m)
  BY <1>6 DEF JudgeRun, StartJudge, Judgements
<1> QED BY <1>2, <1>4, <1>5, <1>6 DEF judge

\* The answers form one sequence.
LEMMA AnswersType ==
  ASSUME SessionTypes
  PROVE  Answers \in Seq(Reply) /\ Len(Answers) \in Nat
<1>1. Answers \in Seq(Reply)
  BY TwoParts DEF SessionTypes, Answers
<1> QED BY <1>1

\* Steps that change none of this: what waits is sent, an address is learnt or lost.
LEMMA QuietStep ==
  ASSUME Ordered, Answers' = Answers, UNCHANGED <<vars, to_server, task, step, verdict>>
  PROVE  Ordered'
<1>1. /\ UNCHANGED <<Here, Before, Written, HasRun, judge_result, buffer>>
      /\ \A r : New(r)' = New(r)
  BY DEF Here, Before, Written, HasRun, New, vars
<1>2. ToServerInv'
  BY <1>1 DEF Ordered, ToServerInv
<1>3. ToClientInv'
  BY <1>1 DEF Ordered, ToClientInv, New
<1>4. Step1Inv'
  BY <1>1 DEF Ordered, Step1Inv, New
<1>5. Step2Inv'
  BY <1>1 DEF Ordered, Step2Inv, New
<1>6. Step3Inv'
  BY <1>1 DEF Ordered, Step3Inv, New
<1> QED BY <1>2, <1>3, <1>4, <1>5, <1>6 DEF Ordered

\* Sending the packet of the step again.
LEMMA SendStep ==
  ASSUME SessionTypes, Ordered, SendOk
  PROVE  Ordered'
<1>1. /\ to_server' = Append(to_server, Here)
      /\ UNCHANGED <<vars, to_client, waiting, task, step, verdict>>
  BY DEF SendOk, answerVars, clientVars, Here
<1>2. Here \in Place
  BY SessionAssumption DEF SendOk, SessionTypes, Done, Here, Place
<1>3. /\ Len(to_server) \in Nat /\ Len(to_server') = Len(to_server) + 1
      /\ \A i \in 1 .. Len(to_server) : to_server'[i] = to_server[i]
      /\ to_server'[Len(to_server) + 1] = Here
  BY <1>1, <1>2, AppendProperties DEF SessionTypes
<1>4. /\ UNCHANGED <<Answers, Here, Before, Written, HasRun, judge_result, buffer>>
      /\ \A r : New(r)' = New(r)
  BY <1>1 DEF Answers, Here, Before, Written, HasRun, New, vars
<1>5. \A i \in 1 .. Len(to_server) + 1 :
        \/ i \in 1 .. Len(to_server) /\ to_server'[i] = to_server[i]
        \/ i = Len(to_server) + 1 /\ to_server'[i] = Here
  BY <1>3
<1>6. ToServerInv'
  <2> SUFFICES ASSUME NEW i \in 1 .. Len(to_server) + 1
               PROVE  /\ to_server'[i] = Here \/ to_server'[i] = Before
                      /\ \A j \in i .. Len(to_server) + 1 :
                           to_server'[i] = Here => to_server'[j] = Here
    BY <1>3, <1>4 DEF ToServerInv
  <2>1. CASE i = Len(to_server) + 1
    BY <1>3, <2>1
  <2>2. CASE i \in 1 .. Len(to_server)
    <3>1. \A j \in i .. Len(to_server) + 1 :
            \/ j \in i .. Len(to_server) /\ to_server'[j] = to_server[j]
            \/ to_server'[j] = Here
      BY <1>3, <2>2
    <3> QED BY <1>3, <2>2, <3>1 DEF Ordered, ToServerInv
  <2> QED BY <1>5, <2>1, <2>2
<1>7. ToClientInv'
  BY <1>1, <1>3, <1>4, <1>5 DEF Ordered, ToClientInv, New
<1>8. Step1Inv'
  BY <1>1, <1>4 DEF Ordered, Step1Inv, New
<1>9. Step2Inv'
  BY <1>1, <1>3, <1>4, <1>5 DEF Ordered, Step2Inv, New
<1>10. Step3Inv'
  BY <1>1, <1>4 DEF Ordered, Step3Inv, New
<1> QED BY <1>6, <1>7, <1>8, <1>9, <1>10 DEF Ordered

\* The first answer is taken away.
LEMMA TakeAnswer ==
  ASSUME SessionTypes, to_client # <<>>, to_client' = Tail(to_client), waiting' = waiting
  PROVE  /\ Answers[1] = Head(to_client) /\ 1 \in 1 .. Len(Answers)
         /\ Len(Answers) \in Nat /\ Len(Answers') = Len(Answers) - 1
         /\ \A i \in 1 .. Len(Answers) - 1 :
              i + 1 \in 1 .. Len(Answers) /\ Answers'[i] = Answers[i + 1]
<1>1. to_client \in Seq(Reply) /\ waiting \in Seq(Reply)
  BY DEF SessionTypes
<1>2. /\ Answers # <<>> /\ Head(Answers) = Head(to_client) /\ Tail(Answers) = Answers'
  BY <1>1, FirstPart DEF Answers
<1>3. Answers \in Seq(Reply)
  BY AnswersType
<1>4. /\ Len(Answers) \in Nat \ {0} /\ Answers[1] = Head(Answers)
      /\ Len(Tail(Answers)) = Len(Answers) - 1
      /\ \A i \in 1 .. Len(Answers) - 1 : Tail(Answers)[i] = Answers[i + 1]
  BY <1>2, <1>3, HeadTailProperties, EmptySeq
<1>5. /\ 1 \in 1 .. Len(Answers) /\ Len(Answers) \in Nat
      /\ \A i \in 1 .. Len(Answers) - 1 : i + 1 \in 1 .. Len(Answers)
  BY <1>4
<1>6. Answers[1] = Head(to_client)
  BY <1>2, <1>4, Zenon
<1>7. Len(Answers') = Len(Answers) - 1
  BY <1>2, <1>4, Zenon
<1>8. \A i \in 1 .. Len(Answers) - 1 : Answers'[i] = Answers[i + 1]
  BY <1>2, <1>4, Zenon
<1> QED BY <1>5, <1>6, <1>7, <1>8

\* The client takes an answer away that it does not expect.
LEMMA DropStep ==
  ASSUME SessionTypes, Ordered, ClientDrop
  PROVE  Ordered'
<1>1. /\ to_client # <<>> /\ to_client' = Tail(to_client) /\ waiting' = waiting
      /\ UNCHANGED <<vars, to_server, task, step, verdict>>
  BY DEF ClientDrop, clientVars
<1>2. /\ Len(Answers) \in Nat /\ Len(Answers') = Len(Answers) - 1
      /\ \A i \in 1 .. Len(Answers) - 1 :
           i + 1 \in 1 .. Len(Answers) /\ Answers'[i] = Answers[i + 1]
  BY <1>1, TakeAnswer
<1>3. /\ UNCHANGED <<Here, Before, Written, HasRun, judge_result, buffer>>
      /\ \A r : New(r)' = New(r)
  BY <1>1 DEF Here, Before, Written, HasRun, New, vars
<1>4. ToServerInv'
  BY <1>1, <1>3 DEF Ordered, ToServerInv
<1>5. ToClientInv'
  <2> SUFFICES ASSUME NEW i \in 1 .. Len(Answers) - 1
               PROVE  /\ New(Answers'[i]) \/ Answers'[i].op = OpBefore(step)
                      /\ \A j \in i .. Len(Answers) - 1 : New(Answers'[i]) => New(Answers'[j])
                      /\ \A j \in 1 .. Len(to_server) : New(Answers'[i]) => to_server[j] = Here
    BY <1>1, <1>2, <1>3 DEF ToClientInv, New
  <2>1. \A j \in i .. Len(Answers) - 1 :
          j + 1 \in i + 1 .. Len(Answers) /\ Answers'[j] = Answers[j + 1]
    BY <1>2
  <2> QED BY <1>2, <2>1 DEF Ordered, ToClientInv
<1>6. Step1Inv'
  BY <1>1, <1>2, <1>3 DEF Ordered, Step1Inv, New
<1>7. Step2Inv'
  BY <1>1, <1>2, <1>3 DEF Ordered, Step2Inv, New
<1>8. Step3Inv'
  BY <1>1, <1>2, <1>3 DEF Ordered, Step3Inv, New
<1> QED BY <1>4, <1>5, <1>6, <1>7, <1>8 DEF Ordered

\* When the server takes a packet and its answer comes last or is lost, requests and
\* answers keep their order.
LEMMA ServeChannels ==
  ASSUME SessionTypes, ToServerInv, ToClientInv, to_server # <<>>,
         to_server' = Tail(to_server),
         \/ Answers' = Answers
         \/ \E r \in Reply : r.op = Request(to_server[1]).op /\ Answers' = Append(Answers, r),
         UNCHANGED <<task, step>>
  PROVE  ToServerInv' /\ ToClientInv'
<1>1. /\ 1 \in 1 .. Len(to_server) /\ Len(to_server) \in Nat /\ to_server[1] \in Place
      /\ Len(to_server') = Len(to_server) - 1
      /\ \A i \in 1 .. Len(to_server) - 1 :
           i + 1 \in 1 .. Len(to_server) /\ to_server'[i] = to_server[i + 1]
  BY FirstRequest
<1>2. UNCHANGED <<Here, Before>> /\ (\A x : New(x)' = New(x))
  BY DEF Here, Before, New
<1>3. ToServerInv'
  <2> SUFFICES ASSUME NEW i \in 1 .. Len(to_server) - 1
               PROVE  /\ to_server'[i] = Here \/ to_server'[i] = Before
                      /\ \A j \in i .. Len(to_server) - 1 :
                           to_server'[i] = Here => to_server'[j] = Here
    BY <1>1, <1>2 DEF ToServerInv
  <2>1. \A j \in i .. Len(to_server) - 1 :
          j + 1 \in i + 1 .. Len(to_server) /\ to_server'[j] = to_server[j + 1]
    BY <1>1
  <2> QED BY <1>1, <2>1 DEF ToServerInv
<1>4. to_server[1] = Here => \A j \in 1 .. Len(to_server) : to_server[j] = Here
  BY <1>1 DEF ToServerInv
<1>5. /\ to_server[1] = Here => Request(to_server[1]).op = OpAt(step)
      /\ to_server[1] # Here => /\ Request(to_server[1]).op = OpBefore(step)
                                /\ \A i \in 1 .. Len(Answers) : ~ New(Answers[i])
  <2>1. CASE to_server[1] = Here
    <3>1. task \in 1 .. NTasks /\ step \in 1 .. 3
      BY <1>1, <2>1, PlaceRequest DEF Here
    <3> QED BY <1>1, <2>1, <3>1, Neighbours, ScriptKinds
  <2>2. CASE to_server[1] # Here
    BY <1>1, <2>2, Neighbours DEF ToServerInv, ToClientInv
  <2> QED BY <2>1, <2>2
<1>6. CASE Answers' = Answers
  <2>1. ToClientInv'
    BY <1>1, <1>2, <1>6 DEF ToClientInv, New
  <2> QED BY <1>3, <2>1
<1>7. ASSUME NEW r \in Reply, r.op = Request(to_server[1]).op, Answers' = Append(Answers, r)
      PROVE  ToClientInv'
  <2>1. /\ Len(Answers) \in Nat /\ Len(Answers') = Len(Answers) + 1
        /\ \A i \in 1 .. Len(Answers) : Answers'[i] = Answers[i]
        /\ Answers'[Len(Answers) + 1] = r
    BY <1>7, AnswersType, AppendProperties
  <2>2. /\ New(r) <=> to_server[1] = Here
        /\ New(r) \/ r.op = OpBefore(step)
    BY <1>5, <1>7, Neighbours DEF New
  <2> SUFFICES ASSUME NEW i \in 1 .. Len(Answers) + 1
               PROVE  /\ New(Answers'[i]) \/ Answers'[i].op = OpBefore(step)
                      /\ \A j \in i .. Len(Answers) + 1 : New(Answers'[i]) => New(Answers'[j])
                      /\ \A j \in 1 .. Len(to_server) - 1 :
                           New(Answers'[i]) => to_server'[j] = Here
    BY <1>1, <1>2, <2>1 DEF ToClientInv, New
  <2>3. CASE i = Len(Answers) + 1
    BY <1>1, <1>4, <2>1, <2>2, <2>3
  <2>4. CASE i \in 1 .. Len(Answers)
    <3>1. /\ New(Answers[i]) \/ Answers[i].op = OpBefore(step)
          /\ \A j \in i .. Len(Answers) : New(Answers[i]) => New(Answers[j])
          /\ \A j \in 1 .. Len(to_server) : New(Answers[i]) => to_server[j] = Here
      BY <2>4 DEF ToClientInv
    <3>2. \A j \in i .. Len(Answers) + 1 :
            \/ j \in i .. Len(Answers) /\ Answers'[j] = Answers[j]
            \/ Answers'[j] = r
      BY <2>1, <2>4
    <3> QED BY <1>1, <2>1, <2>2, <2>4, <3>1, <3>2
  <2> QED BY <2>1, <2>3, <2>4
<1> QED BY <1>3, <1>6, <1>7

\* The server takes a packet.
LEMMA ServeStep ==
  ASSUME SessionTypes, Ordered, NEW answered \in BOOLEAN, Serve(answered), ~ overtaken'
  PROVE  Ordered'
<1>1. ToServerInv /\ ToClientInv /\ Step1Inv /\ Step2Inv /\ Step3Inv
  BY DEF Ordered
<1>2. /\ to_server # <<>> /\ to_server' = Tail(to_server)
      /\ duck_packet_handle(Request(Head(to_server)))
      /\ UNCHANGED <<task, step, verdict>>
      /\ \/ UNCHANGED <<to_client, waiting>>
         \/ reply' # NoReply /\ ducknet_ipv4_send(reply')
  BY DEF Serve, clientVars
<1>3. PICK m \in Packet : m = Request(to_server[1])
  BY <1>2, FirstRequest, PlaceRequest
<1>4. /\ duck_packet_handle(m) /\ 1 \in 1 .. Len(to_server) /\ to_server[1] \in Place
      /\ m.op \in {"write-buffer", "judge", "read-buffer"}
  BY <1>2, <1>3, FirstRequest, PlaceRequest
<1>5. /\ task \in 1 .. NTasks + 1 /\ (step = 1 \/ step = 2 \/ step = 3) /\ NTasks \in Nat
      /\ Done => step = 1
      /\ TypeOK /\ ResultFresh /\ intact /\ buffer \in [Cell -> Byte]
  BY SessionAssumption DEF SessionTypes, TypeOK
\* The packet is that of the client's step or of the step before.
<1>6. \/ to_server[1] = Here /\ task \in 1 .. NTasks /\ m = Script(task)[step] /\ m.op = OpAt(step)
      \/ /\ to_server[1] # Here /\ m.op = OpBefore(step)
         /\ step > 1 => task \in 1 .. NTasks /\ m = Script(task)[step - 1]
  <2>1. CASE to_server[1] = Here
    <3>1. task \in 1 .. NTasks /\ step \in 1 .. 3
      BY <1>4, <2>1, PlaceRequest DEF Here
    <3> QED BY <1>3, <1>4, <2>1, <3>1, Neighbours, ScriptKinds
  <2>2. CASE to_server[1] # Here
    <3>1. to_server[1] = Before
      BY <1>1, <1>4, <2>2 DEF ToServerInv
    <3>2. step > 1 => task \in 1 .. NTasks
      BY <1>5 DEF Done
    <3> QED BY <1>3, <1>4, <2>2, <3>1, <3>2, Neighbours
  <2> QED BY <2>1, <2>2
<1>7. \/ Answers' = Answers
      \/ /\ reply' \in Reply /\ reply'.op = m.op /\ reply' # NoReply
         /\ Answers' = Append(Answers, reply')
  <2>1. CASE UNCHANGED <<to_client, waiting>>
    BY <2>1 DEF Answers
  <2>2. CASE reply' # NoReply /\ ducknet_ipv4_send(reply')
    <3>1. reply' \in Reply /\ reply'.op = m.op
      BY <1>4, <1>5, <2>2, ServeReply
    <3> QED BY <2>2, <3>1, SendAnswer DEF Answers
  <2> QED BY <1>2, <2>1, <2>2
<1>8. ToServerInv' /\ ToClientInv'
  BY <1>1, <1>2, <1>3, <1>7, ServeChannels
<1>9. /\ Here' = Here /\ (\A x : New(x)' = New(x))
      /\ \A i \in 1 .. Len(to_server') :
           \E j \in 1 .. Len(to_server) : to_server'[i] = to_server[j]
      /\ \A i \in 1 .. Len(Answers') :
           \/ i \in 1 .. Len(Answers) /\ Answers'[i] = Answers[i]
           \/ Answers'[i] = reply' /\ reply'.op = m.op /\ reply' # NoReply
  <2>1. Here' = Here /\ (\A x : New(x)' = New(x))
    BY <1>2 DEF Here, New
  <2>2. \A i \in 1 .. Len(to_server') :
          \E j \in 1 .. Len(to_server) : to_server'[i] = to_server[j]
    BY <1>2, FirstRequest
  <2>3. CASE Answers' = Answers
    BY <2>1, <2>2, <2>3
  <2>4. CASE /\ reply' \in Reply /\ reply'.op = m.op /\ reply' # NoReply
             /\ Answers' = Append(Answers, reply')
    <3>1. /\ Len(Answers) \in Nat /\ Len(Answers') = Len(Answers) + 1
          /\ \A i \in 1 .. Len(Answers) : Answers'[i] = Answers[i]
          /\ Answers'[Len(Answers) + 1] = reply'
      BY <2>4, AnswersType, AppendProperties
    <3> QED BY <2>1, <2>2, <2>4, <3>1
  <2> QED BY <1>7, <2>3, <2>4
<1>10. /\ to_server[1] = Here => \A j \in 1 .. Len(to_server) : to_server[j] = Here
       /\ to_server[1] # Here => \A j \in 1 .. Len(Answers) : ~ New(Answers[j])
  BY <1>1, <1>4 DEF ToServerInv, ToClientInv
<1>11. to_server[1] # Here => \A i \in 1 .. Len(Answers') : ~ New(Answers'[i])
  <2>1. to_server[1] # Here /\ reply'.op = m.op => ~ New(reply')
    BY <1>6, Neighbours DEF New
  <2> QED BY <1>9, <1>10, <2>1
<1>12. Step1Inv'
  <2> SUFFICES ASSUME step = 1 PROVE (\A i \in 1 .. Len(Answers) : New(Answers[i]) => Written)'
    BY <1>2 DEF Step1Inv
  <2>1. \A j \in 1 .. Len(Answers) : New(Answers[j]) => Written
    BY <1>1 DEF Step1Inv
  <2>2. CASE to_server[1] = Here
    <3>1. m.op = "write-buffer" /\ task \in 1 .. NTasks /\ m = Script(task)[1]
      BY <1>6, <2>2 DEF OpAt
    <3>2. CASE /\ reply' = NoReply
               /\ UNCHANGED <<buffer, judge_seq_num, judge_result, judge_result_cleared>>
      <4>1. Written' = Written
        BY <1>2, <3>2 DEF Written
      <4>2. \A i \in 1 .. Len(Answers') : New(Answers'[i]) => Written'
        BY <1>9, <2>1, <3>2, <4>1
      <4> QED BY <1>9, <4>2 DEF New
    <3>3. CASE /\ judge_result_cleared' /\ judge_seq_num' = NoSeq
               /\ buffer' = Put(buffer, m.off, m.cells)
      <4>1. m.off \in Nat /\ m.cells \in Seq(Byte)
        BY <1>3, <3>1, PacketAssumption
      <4>2. buffer' = Put(buffer', m.off, m.cells)
        BY <1>5, <3>3, <4>1, PutTwice
      <4>3. Written'
        BY <1>2, <3>1, <3>3, <4>2 DEF Written
      <4> QED BY <4>3
    <3> QED BY <1>4, <1>5, <3>1, <3>2, <3>3, ServeWrite
  <2>3. CASE to_server[1] # Here
    BY <1>9, <1>11, <2>3 DEF New
  <2> QED BY <2>2, <2>3
<1>13. Step2Inv'
  <2> SUFFICES ASSUME step = 2 PROVE Step2Inv'
    BY <1>2 DEF Step2Inv
  <2>1. /\ Written \/ HasRun
        /\ \A i \in 1 .. Len(to_server) : to_server[i] # Here => Written
        /\ \A i \in 1 .. Len(Answers) :
             New(Answers[i]) => HasRun /\ Answers[i].result = judge_result
    BY <1>1 DEF Step2Inv
  <2>2. CASE to_server[1] = Here
    <3>1. m.op = "judge" /\ task \in 1 .. NTasks /\ m = Script(task)[2]
      BY <1>6, <2>2 DEF OpAt
    <3>2. \A i \in 1 .. Len(to_server') : to_server'[i] = Here'
      BY <1>9, <1>10, <2>2
    <3>3. SUFFICES HasRun' /\ (\A i \in 1 .. Len(Answers') :
                                 New(Answers'[i]) => Answers'[i].result = judge_result')
      BY <1>2, <1>9, <3>2 DEF Step2Inv, New
    <3>4. CASE HasRun
      <4>1. m.seq_num = judge_seq_num
        BY <3>1, <3>4 DEF HasRun
      <4>2. /\ UNCHANGED <<buffer, judge_seq_num, judge_result>>
            /\ reply' = [op |-> "judge", result |-> judge_result]
        BY <1>4, <1>5, <3>1, <4>1, ServeAgain
      <4>3. HasRun'
        BY <1>2, <3>4, <4>2 DEF HasRun
      <4>4. reply'.result = judge_result'
        BY <4>2
      <4> QED BY <1>9, <2>1, <4>2, <4>3, <4>4
    <3>5. CASE ~ HasRun
      <4>1. Written /\ \A i \in 1 .. Len(Answers) : ~ New(Answers[i])
        BY <2>1, <3>5
      <4>2. /\ judge_seq_num' = m.seq_num
            /\ [result |-> judge_result', buffer |-> buffer'] \in Judgements(buffer, m)
            /\ reply' = [op |-> "judge", result |-> judge_result']
        BY <1>4, <1>5, <3>1, <4>1, ServeJudge, SessionAssumption DEF Written
      <4>3. [result |-> judge_result', buffer |-> buffer'] \in TaskRuns(task, buffer)
        BY <3>1, <4>1, <4>2 DEF Written, TaskRuns
      <4>4. HasRun'
        BY <1>2, <1>5, <3>1, <4>2, <4>3 DEF HasRun
      <4>5. reply'.result = judge_result'
        BY <4>2
      <4> QED BY <1>9, <4>1, <4>4, <4>5
    <3> QED BY <3>4, <3>5
  <2>3. CASE to_server[1] # Here
    <3>1. m.op = "write-buffer" /\ m = Script(task)[1] /\ Written
      BY <1>4, <1>6, <2>1, <2>3 DEF OpBefore
    <3>2. Written'
      <4>1. CASE UNCHANGED <<buffer, judge_result_cleared>>
        BY <1>2, <3>1, <4>1 DEF Written
      <4>2. CASE judge_result_cleared' /\ buffer' = Put(buffer, m.off, m.cells)
        BY <1>2, <3>1, <4>2 DEF Written
      <4> QED BY <1>4, <1>5, <3>1, <4>1, <4>2, ServeWrite
    <3>3. \A i \in 1 .. Len(Answers') : ~ New(Answers'[i])
      BY <1>11, <2>3
    <3> QED BY <1>9, <3>2, <3>3 DEF Step2Inv, New
  <2> QED BY <2>2, <2>3
<1>14. Step3Inv'
  <2> SUFFICES ASSUME step = 3 PROVE Step3Inv'
    BY <1>2 DEF Step3Inv
  <2>1. /\ HasRun /\ verdict = judge_result
        /\ \A i \in 1 .. Len(Answers) : New(Answers[i]) =>
             Answers[i].cells = Slice(buffer, Script(task)[3].off, Script(task)[3].len)
    BY <1>1 DEF Step3Inv
  <2>2. CASE to_server[1] = Here
    <3>1. m.op = "read-buffer" /\ m = Script(task)[3]
      BY <1>6, <2>2 DEF OpAt
    <3>2. /\ UNCHANGED <<buffer, judge_seq_num, judge_result>>
          /\ \/ reply' = NoReply
             \/ reply' = [op |-> "read-buffer", off |-> m.off,
                          cells |-> Slice(buffer, m.off, m.len)]
      BY <1>4, <1>5, <3>1, ServeRead
    <3>3. HasRun' /\ verdict' = judge_result'
      BY <1>2, <2>1, <3>2 DEF HasRun
    <3>4. reply' # NoReply =>
            reply'.cells = Slice(buffer, Script(task)[3].off, Script(task)[3].len)
      BY <3>1, <3>2
    <3>5. \A i \in 1 .. Len(Answers') : New(Answers'[i]) =>
            Answers'[i].cells = Slice(buffer, Script(task)[3].off, Script(task)[3].len)
      BY <1>9, <2>1, <3>4
    <3> QED BY <1>2, <1>9, <3>2, <3>3, <3>5 DEF Step3Inv, New
  <2>3. CASE to_server[1] # Here
    <3>1. m.op = "judge" /\ m = Script(task)[2] /\ m.seq_num = judge_seq_num
      BY <1>6, <2>1, <2>3 DEF OpBefore, HasRun
    <3>2. UNCHANGED <<buffer, judge_seq_num, judge_result>>
      BY <1>4, <1>5, <3>1, ServeAgain
    <3>3. HasRun' /\ verdict' = judge_result'
      BY <1>2, <2>1, <3>2 DEF HasRun
    <3>4. \A i \in 1 .. Len(Answers') : ~ New(Answers'[i])
      BY <1>11, <2>3
    <3> QED BY <1>9, <3>3, <3>4 DEF Step3Inv, New
  <2> QED BY <2>2, <2>3
<1> QED BY <1>8, <1>12, <1>13, <1>14 DEF Ordered

\* The client accepts the answer of its step: whatever is still under way is then
\* of the step before.
LEMMA AcceptStep ==
  ASSUME SessionTypes, Ordered, ClientAccept
  PROVE  Ordered'
<1>1. ToServerInv /\ ToClientInv /\ Step1Inv /\ Step2Inv /\ Step3Inv
  BY DEF Ordered
<1>2. /\ ~ Done /\ to_client # <<>> /\ Expected(Head(to_client))
      /\ to_client' = Tail(to_client) /\ UNCHANGED <<vars, to_server, waiting>>
      /\ verdict' = IF step = 2 THEN Head(to_client).result ELSE verdict
  BY DEF ClientAccept
<1>3. /\ Answers[1] = Head(to_client) /\ 1 \in 1 .. Len(Answers)
      /\ Len(Answers) \in Nat /\ Len(Answers') = Len(Answers) - 1
      /\ \A i \in 1 .. Len(Answers) - 1 :
           i + 1 \in 1 .. Len(Answers) /\ Answers'[i] = Answers[i + 1]
  BY <1>2, TakeAnswer
<1>4. /\ task \in 1 .. NTasks /\ (step = 1 \/ step = 2 \/ step = 3) /\ NTasks \in Nat
      /\ New(Answers[1])
  BY <1>2, <1>3, ExpectedAnswer, SessionAssumption DEF New
<1>5. /\ \A i \in 1 .. Len(Answers) : Answers[i].op = OpAt(step)
      /\ \A i \in 1 .. Len(to_server) : to_server[i] = Here
  BY <1>1, <1>3, <1>4 DEF ToClientInv, New
<1>6. UNCHANGED <<buffer, judge_seq_num, judge_result, judge_result_cleared>>
  BY <1>2 DEF vars
\* Nothing under way belongs to the next step.
<1>7. ASSUME OpBefore(step') = OpAt(step), OpAt(step') # OpAt(step),
             Before' = Here, Here' # Here
      PROVE  /\ ToServerInv' /\ ToClientInv'
             /\ (\A i \in 1 .. Len(Answers) : ~ New(Answers[i]))'
  <2>1. \A i \in 1 .. Len(Answers') :
          Answers'[i].op = OpBefore(step') /\ Answers'[i].op # OpAt(step')
    BY <1>3, <1>5, <1>7
  <2>2. /\ to_server' = to_server
        /\ \A i \in 1 .. Len(to_server') : to_server'[i] # Here' /\ to_server'[i] = Before'
    BY <1>2, <1>5, <1>7
  <2>3. ToServerInv'
    BY <2>2 DEF ToServerInv
  <2>4. ToClientInv'
    BY <2>1 DEF ToClientInv, New
  <2> QED BY <2>1, <2>3, <2>4 DEF New
<1>8. CASE step = 1
  <2>1. step' = 2 /\ UNCHANGED <<task, verdict>>
    BY <1>2, <1>8 DEF ClientAccept
  <2>2. /\ ToServerInv' /\ ToClientInv'
        /\ (\A i \in 1 .. Len(Answers) : ~ New(Answers[i]))'
    BY <1>7, <1>8, <2>1 DEF OpAt, OpBefore, Before, Here
  <2>3. Written
    BY <1>1, <1>3, <1>4, <1>8 DEF Step1Inv
  <2>4. Written'
    BY <1>6, <2>1, <2>3 DEF Written
  <2> QED BY <2>1, <2>2, <2>4 DEF Ordered, Step1Inv, Step2Inv, Step3Inv
<1>9. CASE step = 2
  <2>1. step' = 3 /\ UNCHANGED task /\ verdict' = Answers[1].result
    BY <1>2, <1>3, <1>9 DEF ClientAccept
  <2>2. /\ ToServerInv' /\ ToClientInv'
        /\ (\A i \in 1 .. Len(Answers) : ~ New(Answers[i]))'
    BY <1>7, <1>9, <2>1 DEF OpAt, OpBefore, Before, Here
  <2>3. HasRun /\ Answers[1].result = judge_result
    BY <1>1, <1>3, <1>4, <1>9 DEF Step2Inv
  <2>4. HasRun' /\ verdict' = judge_result'
    BY <1>6, <2>1, <2>3 DEF HasRun
  <2> QED BY <2>1, <2>2, <2>4 DEF Ordered, Step1Inv, Step2Inv, Step3Inv
<1>10. CASE step = 3
  <2>1. step' = 1 /\ task' = task + 1
    BY <1>2, <1>10 DEF ClientAccept
  <2>2. task' - 1 = task /\ task' # task
    BY <1>4, <2>1
  <2>3. /\ ToServerInv' /\ ToClientInv'
        /\ (\A i \in 1 .. Len(Answers) : ~ New(Answers[i]))'
    BY <1>7, <1>10, <2>1, <2>2 DEF OpAt, OpBefore, Before, Here
  <2> QED BY <2>1, <2>3 DEF Ordered, Step1Inv, Step2Inv, Step3Inv
<1> QED BY <1>4, <1>8, <1>9, <1>10

\* What is accepted for a task while the answers keep their order.
LEMMA AcceptedOutcome ==
  ASSUME SessionTypes, Ordered, ClientAccept, step = 3
  PROVE  Outcome(task, verdict, Head(to_client).cells)
<1>1. /\ ~ Done /\ to_client # <<>> /\ Expected(Head(to_client))
      /\ to_client' = Tail(to_client) /\ waiting' = waiting
  BY DEF ClientAccept
<1>2. /\ Answers[1] = Head(to_client) /\ 1 \in 1 .. Len(Answers) /\ New(Answers[1])
  BY <1>1, TakeAnswer, ExpectedAnswer DEF New
<1>3. /\ HasRun /\ verdict = judge_result
      /\ Answers[1].cells = Slice(buffer, Script(task)[3].off, Script(task)[3].len)
  BY <1>2 DEF Ordered, Step3Inv
<1>4. PICK b \in [Cell -> Byte] :
        [result |-> judge_result, buffer |-> buffer] \in TaskRuns(task, b)
  BY <1>3 DEF HasRun
<1>5. /\ [result |-> judge_result, buffer |-> buffer].result = verdict
      /\ [result |-> judge_result, buffer |-> buffer].buffer = buffer
  BY <1>3
<1> QED BY <1>2, <1>3, <1>4, <1>5 DEF Outcome

\* What the client has accepted stays as it is, and what is added is one run's.
LEMMA EndToEndStep ==
  ASSUME SessionTypes, ~ overtaken => Ordered, EndToEnd, [SessionNext]_allVars
  PROVE  EndToEnd'
<1>1. CASE UNCHANGED accepted
  BY <1>1 DEF EndToEnd
<1>2. CASE ClientAccept /\ step = 3
  <2> DEFINE e == [result |-> verdict, output |-> Head(to_client).cells,
                   ordered |-> ~ overtaken]
  <2>1. accepted' = Append(accepted, e)
    BY <1>2 DEF ClientAccept
  <2>2. e.ordered => Outcome(task, e.result, e.output)
    BY <1>2, AcceptedOutcome
  <2>3. ~ Done /\ to_client # <<>> /\ Expected(Head(to_client))
    BY <1>2 DEF ClientAccept
  <2>4. e \in Entry /\ task \in 1 .. NTasks
    BY <1>2, <2>3, ExpectedAnswer DEF Entry, SessionTypes
  <2> HIDE DEF e
  <2>5. /\ Len(accepted') = task /\ accepted'[task] = e /\ DOMAIN accepted' = 1 .. task
        /\ DOMAIN accepted = 1 .. task - 1
        /\ \A t \in 1 .. task - 1 : accepted'[t] = accepted[t]
    <3>1. accepted \in Seq(Entry) /\ Len(accepted) = task - 1
      BY DEF SessionTypes
    <3> QED BY <2>1, <2>4, <3>1
  <2>6. ASSUME NEW t \in DOMAIN accepted', accepted'[t].ordered
        PROVE  Outcome(t, accepted'[t].result, accepted'[t].output)
    <3>1. CASE t = task
      BY <2>2, <2>5, <2>6, <3>1
    <3>2. CASE t # task
      <4>1. t \in DOMAIN accepted /\ accepted'[t] = accepted[t]
        BY <2>4, <2>5, <3>2
      <4> QED BY <2>6, <4>1 DEF EndToEnd
    <3> QED BY <3>1, <3>2
  <2> QED BY <2>6 DEF EndToEnd
<1>3. CASE ClientAccept /\ step # 3
  <2>1. step < 3
    BY <1>3 DEF SessionTypes
  <2> QED BY <1>1, <1>3, <2>1 DEF ClientAccept
<1>4. CASE UNCHANGED allVars \/ SendOk \/ SendWaiting \/ Learn \/ Hide \/ ClientDrop
  BY <1>1, <1>4 DEF allVars, clientVars, SendOk, SendWaiting, Learn, Hide, ClientDrop
<1>5. ASSUME NEW answered \in BOOLEAN, Serve(answered) PROVE EndToEnd'
  BY <1>1, <1>5 DEF Serve, clientVars
<1> QED BY <1>2, <1>3, <1>4, <1>5 DEF SessionNext

\* The order is kept until an answer overtakes another one.
LEMMA OrderedStep ==
  ASSUME SessionTypes, ~ overtaken => Ordered, [SessionNext]_allVars, ~ overtaken'
  PROVE  Ordered'
<1>1. ASSUME NEW answered \in BOOLEAN, Serve(answered) PROVE Ordered'
  <2>1. ~ overtaken
    <3>1. CASE overtaken' = overtaken
      BY <3>1
    <3>2. CASE reply' # NoReply /\ ducknet_ipv4_send(reply')
      BY <3>2, Zenon DEF ducknet_ipv4_send
    <3> QED BY <1>1, <3>1, <3>2 DEF Serve
  <2> QED BY <1>1, <2>1, ServeStep
<1>2. CASE SendOk
  BY <1>2, SendStep DEF SendOk, answerVars
<1>3. CASE ClientDrop
  BY <1>3, DropStep DEF ClientDrop
<1>4. CASE ClientAccept
  BY <1>4, AcceptStep DEF ClientAccept
<1>5. CASE SendWaiting
  <2>1. to_client \o waiting \in Seq(Reply)
    BY TwoParts DEF SessionTypes
  <2>2. (to_client \o waiting) \o <<>> = to_client \o waiting
    BY <2>1, ConcatEmptySeq
  <2>3. Answers' = Answers
    BY <1>5, <2>2 DEF SendWaiting, Answers
  <2> QED BY <1>5, <2>3, QuietStep DEF SendWaiting, clientVars
<1>6. CASE Learn \/ Hide
  <2>1. Answers' = Answers
    BY <1>6 DEF Learn, Hide, Answers
  <2> QED BY <1>6, <2>1, QuietStep DEF Learn, Hide, clientVars
<1>7. CASE UNCHANGED allVars
  <2>1. Answers' = Answers
    BY <1>7 DEF allVars, answerVars, Answers
  <2> QED BY <1>7, <2>1, QuietStep DEF allVars, answerVars, clientVars
<1> QED BY <1>1, <1>2, <1>3, <1>4, <1>5, <1>6, <1>7 DEF SessionNext

\* The session starts with empty channels and nothing judged.
LEMMA SessionStart ==
  ASSUME SessionInit
  PROVE  SessionInv
<1>1. TypeOK /\ ResultFresh /\ intact
  BY StartValues DEF SessionInit, Init, TypeOK, ResultFresh
<1>2. Len(<<>>) = 0 /\ NTasks \in Nat
  BY SessionAssumption, EmptySeq
<1>3. SessionTypes
  <2>1. task = 1 /\ step = 1 /\ task \in 1 .. NTasks + 1 /\ step \in 1 .. 3
    BY <1>2 DEF SessionInit
  <2>2. to_server \in Seq(Place) /\ accepted \in Seq(Entry) /\ Len(accepted) = task - 1
    BY <1>2, <2>1, EmptySeq DEF SessionInit
  <2>3. to_client \in Seq(Reply) /\ waiting \in Seq(Reply)
    BY EmptySeq DEF SessionInit
  <2>4. overtaken \in BOOLEAN /\ verdict \in Result \cup {<<>>}
    BY Zenon DEF SessionInit
  <2> QED BY <1>1, <2>1, <2>2, <2>3, <2>4 DEF SessionTypes
<1>4. Answers = <<>>
  BY ConcatEmptySeq DEF SessionInit, Answers
<1>5. Ordered
  BY <1>2, <1>4 DEF SessionInit, Ordered, ToServerInv, ToClientInv, Step1Inv, Step2Inv, Step3Inv
<1>6. CountInv
  <2>1. Here[1] = 1 /\ n_judges = 0 /\ judge_seq_num = NoSeq
    BY DEF SessionInit, Init, Here
  <2>2. Ready(n_judges, judge_seq_num, Here)
    BY <2>1 DEF Ready, SeqBefore
  <2> QED BY <1>2, <2>2 DEF SessionInit, CountInv
<1>7. EndToEnd
  BY <1>2 DEF SessionInit, EndToEnd
<1> QED BY <1>3, <1>5, <1>6, <1>7 DEF SessionInv

-----------------------------------------------------------------------------
(* Theorems *)

\* The server is ready for every request under way, and as long as no answer
\* overtakes another one it knows what the client relies on, however many packets
\* are lost and sent again.
THEOREM SessionInvariance == SessionSpec => []SessionInv
<1>1. SessionInit => SessionInv
  BY SessionStart
<1>2. ASSUME SessionInv, [SessionNext]_allVars PROVE SessionInv'
  <2>1. SessionTypes /\ CountInv /\ (~ overtaken => Ordered) /\ EndToEnd
    BY <1>2 DEF SessionInv
  <2>2. SessionTypes'
    BY <1>2, <2>1, SessionTypesStep
  <2>3. CountInv'
    BY <1>2, <2>1, CountStep
  <2>4. ~ overtaken' => Ordered'
    BY <1>2, <2>1, OrderedStep
  <2>5. EndToEnd'
    BY <1>2, <2>1, EndToEndStep
  <2> QED BY <2>2, <2>3, <2>4, <2>5 DEF SessionInv
<1> QED BY <1>1, <1>2, PTL DEF SessionSpec

\* What a client has accepted for a task before an answer overtook one that waited
\* for its Ethernet address is the verdict and the output of one run of that task.
THEOREM AcceptedIsOneRun == SessionSpec => []EndToEnd
<1>1. SessionInv => EndToEnd
  BY DEF SessionInv
<1> QED BY <1>1, SessionInvariance, PTL

\* No task is run a second time, whatever is repeated and in whatever order the
\* answers arrive.
THEOREM TasksRunOnce == SessionSpec => []OneRunPerTask
<1>1. SessionInv => OneRunPerTask
  <2> SUFFICES ASSUME SessionInv PROVE OneRunPerTask
    OBVIOUS
  <2>1. n_judges \in Nat /\ task \in Nat /\ Here[1] = task
    BY ClientPlace DEF SessionInv
  <2>2. Ready(n_judges, judge_seq_num, Here)
    BY DEF SessionInv, CountInv
  <2> QED BY <2>1, <2>2 DEF Ready, OneRunPerTask
<1> QED BY <1>1, SessionInvariance, PTL

=============================================================================
