--------------------------- MODULE NicRingProofs ---------------------------
(***************************************************************************)
(* Proofs about NicRing for every frame set, ring size and batch size.     *)
(***************************************************************************)
EXTENDS NicRing, SequenceTheorems, TLAPS

\* An index of a ring stays one when it is advanced, as every index is in
\* e1000.cpp, i211.cpp and realtek.cpp.
LEMMA IndexAdvances ==
    ASSUME NEW n \in Nat, n > 0, NEW i \in 0 .. n - 1
    PROVE  (i + 1) % n \in 0 .. n - 1
  OBVIOUS

\* The rings of the card in use have descriptors.
LEMMA RingSizes ==
    /\ TxSize \in Nat \ {0} /\ TxSize > 0
    /\ RxSize \in Nat \ {0} /\ RxSize > 0
    /\ card # "realtek" => TxSize = TQSIZE /\ RxSize = RQSIZE
    /\ card = "realtek" => TxSize = N_TX_DESC /\ RxSize = N_RX_DESC
<1>1. RQ_FLUSH_COUNT \in Nat \ {0}
  BY NicAssumption
<1> QED
  BY <1>1, NicAssumption DEF TxSize, RxSize

\* The variables have their types: every index stays inside its ring.
THEOREM NicTypes == Spec => []TypeOK
<1> USE DEF TypeOK
<1>1. Init => TypeOK
  <2>1. 0 \in 0 .. TxSize - 1 /\ {0, RxSize - 1} \subseteq 0 .. RxSize - 1
    BY RingSizes
  <2> QED
    BY <2>1, RingSizes DEF Init, TxInit, RxInit, IntelInit, RtlInit
<1>2. TypeOK /\ [Next]_vars => TypeOK'
  <2> SUFFICES ASSUME TypeOK, [Next]_vars PROVE TypeOK'
    OBVIOUS
  <2> USE DEF loopVars, txVars, rxVars
  <2>a. /\ (tdt + 1) % TxSize \in 0 .. TxSize - 1
        /\ (TDH + 1) % TxSize \in 0 .. TxSize - 1
        /\ (rdt + 1) % RxSize \in 0 .. RxSize - 1
        /\ (RDH + 1) % RxSize \in 0 .. RxSize - 1
    <3>1. {tdt, TDH} \subseteq 0 .. TxSize - 1 /\ {rdt, RDH} \subseteq 0 .. RxSize - 1
      OBVIOUS
    <3> HIDE DEF TypeOK
    <3> QED
      BY ONLY RingSizes, <3>1, IndexAdvances
  <2>b. HeadSeen \in 0 .. TxSize - 1
    BY DEF HeadSeen
  <2>c. card' = card => TxSize' = TxSize /\ RxSize' = RxSize
    BY DEF TxSize, RxSize
  <2>1. CASE PhyIdleFlush
    BY <2>1, <2>c DEF PhyIdleFlush, ducknet_phy_flush, flush, IntelFlush
  <2>2. CASE PhyIdleSkip
    BY <2>2, <2>c DEF PhyIdleSkip
  <2>3. ASSUME NEW f \in Frame, Send(f) PROVE TypeOK'
    <3>1. CASE card = "realtek"
      BY <2>3, <3>1, RingSizes, <2>a, <2>c DEF Send, ducknet_phy_send, send, RtlSend,
         prepare_tx_descriptor
    <3>2. CASE card # "realtek"
      BY <2>3, <3>2, RingSizes, <2>a, <2>b, <2>c DEF Send, ducknet_phy_send, send,
         IntelSend, prepare_tx_descriptor
    <3> QED
      BY <3>1, <3>2
  <2>d. ASSUME Advance PROVE /\ rq' \in [0 .. RxSize - 1 -> Frame \cup {None}]
                             /\ {rdt', RDT', RDH'} \subseteq 0 .. RxSize - 1
    BY <2>d, <2>a DEF Advance, Returned, prepare_rx_descriptor
  <2>4. CASE Receive
    BY <2>4, <2>a, <2>c, <2>d DEF Receive, receive, NextFrame
  <2>5. CASE ReceiveNone
    BY <2>5, <2>c DEF ReceiveNone
  <2>12. CASE ReceiveDrop
    BY <2>12, <2>c, <2>d DEF ReceiveDrop, ReceiveRefused
  <2>6. CASE Stay
    BY <2>6, <2>c DEF Stay
  <2>7. CASE Sleep
    BY <2>7, <2>c DEF Sleep, ducknet_phy_flush, flush, IntelFlush
  <2>8. CASE WakeUp
    BY <2>8, <2>c DEF WakeUp
  <2>9. CASE CardSend
    BY <2>9, <2>a, <2>c DEF CardSend
  <2>10. ASSUME NEW f \in Frame, CardReceive(f) PROVE TypeOK'
    BY <2>10, <2>a, <2>c DEF CardReceive
  <2>11. CASE UNCHANGED vars
    BY <2>11, <2>c DEF vars
  <2> QED
    BY <2>1, <2>2, <2>3, <2>4, <2>5, <2>6, <2>7, <2>8, <2>9, <2>10, <2>11, <2>12
       DEF Next
<1> QED
  BY <1>1, <1>2, PTL DEF Spec

\* What phy.cpp believes about the card is true: when it skips a flush, the
\* register TDT has every frame the driver has accepted.  The Realtek driver
\* has nothing to flush.
FlushInv == /\ flushed = TRUE => TDT = tdt
            /\ card = "realtek" => TDT = tdt
            /\ AsleepFlushed

\* The processor never sleeps on a frame that the card was not told of.
THEOREM SleepsFlushed == Spec => []AsleepFlushed
<1> USE DEF FlushInv, AsleepFlushed
<1>1. Init => FlushInv
  BY DEF Init, TxInit, RxInit
<1>2. FlushInv /\ TypeOK /\ [Next]_vars => FlushInv'
  <2> SUFFICES ASSUME FlushInv, TypeOK, [Next]_vars PROVE FlushInv'
    OBVIOUS
  <2> USE DEF loopVars, txVars, rxVars
  <2>1. ASSUME ducknet_phy_flush PROVE TDT' = tdt'
    BY <2>1 DEF ducknet_phy_flush, flush, IntelFlush, TypeOK
  <2>2. CASE PhyIdleFlush
    BY <2>2, <2>1 DEF PhyIdleFlush
  <2>3. CASE PhyIdleSkip
    BY <2>3 DEF PhyIdleSkip
  <2>4. ASSUME NEW f \in Frame, Send(f) PROVE FlushInv'
    BY <2>4 DEF Send, ducknet_phy_send, send, RtlSend
  <2>5. CASE Receive
    BY <2>5 DEF Receive
  <2>6. CASE ReceiveNone
    BY <2>6 DEF ReceiveNone
  <2>13. CASE ReceiveDrop
    BY <2>13 DEF ReceiveDrop
  <2>7. CASE Stay
    BY <2>7 DEF Stay
  <2>8. CASE Sleep
    BY <2>8, <2>1 DEF Sleep
  <2>9. CASE WakeUp
    BY <2>9 DEF WakeUp
  <2>10. CASE CardSend
    BY <2>10 DEF CardSend
  <2>11. ASSUME NEW f \in Frame, CardReceive(f) PROVE FlushInv'
    BY <2>11 DEF CardReceive
  <2>12. CASE UNCHANGED vars
    BY <2>12 DEF vars
  <2> QED
    BY <2>2, <2>3, <2>4, <2>5, <2>6, <2>7, <2>8, <2>9, <2>10, <2>11, <2>12,
       <2>13
       DEF Next
<1>3. FlushInv => AsleepFlushed
  OBVIOUS
<1> QED
  BY <1>1, <1>2, <1>3, NicTypes, PTL DEF Spec

-----------------------------------------------------------------------------
(* A ring as a queue: n descriptors, read at a and written at b.           *)

\* The steps from one index to another, and the index some steps on.
Dist(n, a, b) == IF b >= a THEN b - a ELSE b - a + n
Nth(n, a, k)  == IF a + k < n THEN a + k ELSE a + k - n

\* The descriptors with a frame, as Between counts them.
Count(ring, n, a, b) == IF a = b /\ ring[a] # None THEN n ELSE Dist(n, a, b)

\* The frames are in the descriptors from a on, and nowhere else.
RingOK(ring, n, a, b) ==
    \A i \in 0 .. n - 1 : ring[i] # None <=> Dist(n, a, i) < Count(ring, n, a, b)

\* The remainders that the drivers and the cards compute.
LEMMA RingMod ==
    ASSUME NEW n \in Nat \ {0}, NEW a \in 0 .. n - 1, NEW b \in 0 .. n - 1
    PROVE  /\ (b - a + n) % n = Dist(n, a, b)
           /\ (a + b) % n = Nth(n, a, b)
<1>1. ASSUME NEW x \in 0 .. n - 1 PROVE x % n = x
  OBVIOUS
<1>2. ASSUME NEW x \in n .. 2 * n - 1 PROVE x % n = x - n
  OBVIOUS
<1>3. (b - a + n) % n = Dist(n, a, b)
  <2>1. CASE b >= a
    <3>1. b - a + n \in n .. 2 * n - 1 /\ (b - a + n) - n = b - a
      BY <2>1
    <3> QED
      BY <2>1, <3>1, <1>2 DEF Dist
  <2>2. CASE ~(b >= a)
    <3>1. b - a + n \in 0 .. n - 1
      BY <2>2
    <3> QED
      BY <2>2, <3>1, <1>1 DEF Dist
  <2> QED
    BY <2>1, <2>2
<1>4. (a + b) % n = Nth(n, a, b)
  <2>1. CASE a + b < n
    <3>1. a + b \in 0 .. n - 1
      BY <2>1
    <3> QED
      BY <2>1, <3>1, <1>1 DEF Nth
  <2>2. CASE ~(a + b < n)
    <3>1. a + b \in n .. 2 * n - 1
      BY <2>2
    <3> QED
      BY <2>2, <3>1, <1>2 DEF Nth
  <2> QED
    BY <2>1, <2>2
<1> QED
  BY <1>3, <1>4

\* The next index, also in a ring of one descriptor.
LEMMA NextIndex ==
    ASSUME NEW n \in Nat \ {0}, NEW a \in 0 .. n - 1
    PROVE  (a + 1) % n = IF a = n - 1 THEN 0 ELSE a + 1
<1>1. CASE a = n - 1
  <2>1. a + 1 = n /\ n % n = 0
    BY <1>1
  <2> QED
    BY <1>1, <2>1
<1>2. CASE a # n - 1
  <2>1. a + 1 \in 0 .. n - 1
    BY <1>2
  <2>2. ASSUME NEW x \in 0 .. n - 1 PROVE x % n = x
    OBVIOUS
  <2> QED
    BY <1>2, <2>1, <2>2
<1> QED
  BY <1>1, <1>2

\* Steps there and back.
LEMMA NthDist ==
    ASSUME NEW n \in Nat \ {0}, NEW a \in 0 .. n - 1, NEW k \in 0 .. n - 1
    PROVE  /\ Nth(n, a, k) \in 0 .. n - 1 /\ Dist(n, a, Nth(n, a, k)) = k
           /\ Dist(n, a, k) \in 0 .. n - 1 /\ Nth(n, a, Dist(n, a, k)) = k
  BY DEF Nth, Dist

\* What Between is, without remainders.
LEMMA BetweenIs ==
    ASSUME NEW n \in Nat \ {0}, NEW a \in 0 .. n - 1, NEW b \in 0 .. n - 1,
           NEW ring \in [0 .. n - 1 -> Frame \cup {None}], RingOK(ring, n, a, b)
    PROVE  /\ Count(ring, n, a, b) \in 0 .. n
           /\ Between(ring, n, a, b) =
                 [i \in 1 .. Count(ring, n, a, b) |-> ring[Nth(n, a, i - 1)]]
           /\ Between(ring, n, a, b) \in [1 .. Count(ring, n, a, b) -> Frame]
           /\ Between(ring, n, a, b) \in Seq(Frame)
           /\ Len(Between(ring, n, a, b)) = Count(ring, n, a, b)
<1> DEFINE c == Count(ring, n, a, b)
<1>1. Dist(n, a, b) \in 0 .. n - 1 /\ (b - a + n) % n = Dist(n, a, b)
  BY RingMod, NthDist
<1>2. c \in 0 .. n
  BY <1>1 DEF Count
<1>3. (IF a = b /\ ring[a] # None THEN n ELSE (b - a + n) % n) = c
  BY <1>1 DEF Count
<1>4. \A i \in 1 .. c : i - 1 \in 0 .. n - 1 /\ a + i - 1 = a + (i - 1)
  BY <1>2
<1>5. \A i \in 1 .. c : (a + i - 1) % n = Nth(n, a, i - 1)
  BY <1>4, RingMod
<1> HIDE DEF c
<1>6. Between(ring, n, a, b) = [i \in 1 .. c |-> ring[Nth(n, a, i - 1)]]
  BY <1>3, <1>5 DEF Between
<1>7. \A i \in 1 .. c : ring[Nth(n, a, i - 1)] \in Frame
  <2> SUFFICES ASSUME NEW i \in 1 .. c PROVE ring[Nth(n, a, i - 1)] \in Frame
    OBVIOUS
  <2>1. Nth(n, a, i - 1) \in 0 .. n - 1 /\ Dist(n, a, Nth(n, a, i - 1)) = i - 1
    BY <1>4, NthDist
  <2>2. i - 1 < c
    BY <1>2
  <2>3. ring[Nth(n, a, i - 1)] # None
    BY <2>1, <2>2 DEF RingOK, c
  <2> QED
    BY <2>1, <2>3
<1>8. Between(ring, n, a, b) \in [1 .. c -> Frame]
  BY <1>6, <1>7
<1>9. ASSUME NEW m \in Nat, NEW f \in [1 .. m -> Frame]
      PROVE  f \in Seq(Frame) /\ Len(f) = m
  OBVIOUS
<1>10. c \in Nat
  BY <1>2
<1>11. Between(ring, n, a, b) \in Seq(Frame) /\ Len(Between(ring, n, a, b)) = c
  BY <1>8, <1>9, <1>10, Zenon
<1> QED
  BY <1>2, <1>6, <1>8, <1>11 DEF c

\* A frame that is stored at b, in a ring that is not full, is added at the end.
LEMMA RingPut ==
    ASSUME NEW n \in Nat \ {0}, NEW a \in 0 .. n - 1, NEW b \in 0 .. n - 1,
           NEW ring \in [0 .. n - 1 -> Frame \cup {None}], RingOK(ring, n, a, b),
           NEW f \in Frame, Count(ring, n, a, b) < n,
           NEW new \in [0 .. n - 1 -> Frame \cup {None}],
           \A i \in 0 .. n - 1 : new[i] = IF i = b THEN f ELSE ring[i],
           NEW b2, b2 = (b + 1) % n
    PROVE  /\ b2 \in 0 .. n - 1
           /\ RingOK(new, n, a, b2)
           /\ Count(new, n, a, b2) = Count(ring, n, a, b) + 1
           /\ Between(new, n, a, b2) = Append(Between(ring, n, a, b), f)
<1> DEFINE c == Count(ring, n, a, b)
<1>0. f # None
  BY NicAssumption
<1>1. b2 = (IF b = n - 1 THEN 0 ELSE b + 1) /\ b2 \in 0 .. n - 1
  BY NextIndex
<1>2. /\ new \in [0 .. n - 1 -> Frame \cup {None}]
      /\ \A i \in 0 .. n - 1 : new[i] = IF i = b THEN f ELSE ring[i]
  OBVIOUS
<1>3. c \in 0 .. n - 1 /\ c = Dist(n, a, b) /\ (a = b => ring[a] = None)
  <2>1. Dist(n, a, b) \in 0 .. n - 1
    BY NthDist
  <2> QED
    BY <2>1 DEF Count
<1>4. Dist(n, a, b2) = IF c = n - 1 THEN 0 ELSE c + 1
  BY <1>1, <1>3 DEF Dist
<1>5. a = b2 <=> c = n - 1
  BY <1>1, <1>3 DEF Dist
<1>6. \A i \in 0 .. n - 1 : Dist(n, a, i) \in 0 .. n - 1 /\ (Dist(n, a, i) = c <=> i = b)
  BY <1>3 DEF Dist
<1>7. \A i \in 0 .. n - 1 : new[i] # None <=> Dist(n, a, i) < c + 1
  <2> SUFFICES ASSUME NEW i \in 0 .. n - 1
               PROVE  new[i] # None <=> Dist(n, a, i) < c + 1
    OBVIOUS
  <2>1. CASE i = b
    BY <1>0, <1>2, <1>3, <1>6, <2>1
  <2>2. CASE i # b
    <3>1. ring[i] # None <=> Dist(n, a, i) < c
      BY DEF RingOK
    <3>2. Dist(n, a, i) \in 0 .. n - 1 /\ Dist(n, a, i) # c
      BY <1>6, <2>2
    <3>3. Dist(n, a, i) < c <=> Dist(n, a, i) < c + 1
      BY <1>3, <3>2
    <3> QED
      BY <1>2, <2>2, <3>1, <3>3
  <2> QED
    BY <2>1, <2>2
<1>8. Count(new, n, a, b2) = c + 1
  <2>1. CASE c = n - 1
    <3>1. Dist(n, a, a) = 0
      BY DEF Dist
    <3>2. new[a] # None
      BY <1>3, <1>7, <3>1
    <3> QED
      BY <1>3, <1>5, <2>1, <3>2 DEF Count
  <2>2. CASE c # n - 1
    BY <1>3, <1>4, <1>5, <2>2 DEF Count
  <2> QED
    BY <2>1, <2>2
<1>9. RingOK(new, n, a, b2)
  BY <1>7, <1>8 DEF RingOK
<1> DEFINE q  == Between(ring, n, a, b)
           q2 == Between(new, n, a, b2)
<1>10. /\ q \in Seq(Frame) /\ Len(q) = c
       /\ q = [i \in 1 .. c |-> ring[Nth(n, a, i - 1)]]
  BY BetweenIs
<1>11. /\ q2 \in Seq(Frame) /\ Len(q2) = c + 1
       /\ q2 = [i \in 1 .. c + 1 |-> new[Nth(n, a, i - 1)]]
  <2>0. n \in Nat \ {0} /\ a \in 0 .. n - 1 /\ b2 \in 0 .. n - 1 /\ new \in [0 .. n - 1 -> Frame \cup {None}]
    BY <1>1, <1>2
  <2>1. /\ q2 \in Seq(Frame) /\ Len(q2) = Count(new, n, a, b2)
        /\ q2 = [i \in 1 .. Count(new, n, a, b2) |-> new[Nth(n, a, i - 1)]]
    BY ONLY <2>0, <1>9, BetweenIs
  <2> HIDE DEF q2, c
  <2> QED
    BY <1>8, <2>1
<1> HIDE DEF q, q2, c
<1>12. /\ Append(q, f) \in Seq(Frame) /\ Len(Append(q, f)) = c + 1
       /\ \A i \in 1 .. c : Append(q, f)[i] = q[i]
       /\ Append(q, f)[c + 1] = f
  <2>1. q \in Seq(Frame) /\ Len(q) = c
    BY <1>10
  <2>2. /\ Append(q, f) \in Seq(Frame)
        /\ Len(Append(q, f)) = Len(q) + 1
        /\ \A i \in 1 .. Len(q) : Append(q, f)[i] = q[i]
        /\ Append(q, f)[Len(q) + 1] = f
    BY <2>1, AppendProperties
  <2> QED
    BY <2>1, <2>2
<1>13. ASSUME NEW i \in 1 .. c + 1 PROVE q2[i] = Append(q, f)[i]
  <2>0. /\ i - 1 \in 0 .. n - 1 /\ Nth(n, a, i - 1) \in 0 .. n - 1
        /\ Dist(n, a, Nth(n, a, i - 1)) = i - 1
    <3>1. i - 1 \in 0 .. n - 1
      BY <1>3
    <3> QED
      BY <3>1, NthDist
  <2>1. CASE i = c + 1
    <3>1. i - 1 = c
      BY <1>3, <2>1
    <3>2. Nth(n, a, i - 1) = b
      BY <1>6, <2>0, <3>1
    <3> QED
      BY <1>2, <1>11, <1>12, <2>1, <3>2
  <2>2. CASE i # c + 1
    <3>1. i \in 1 .. c /\ i - 1 # c
      BY <1>3, <2>2
    <3>2. Nth(n, a, i - 1) # b
      BY <1>6, <2>0, <3>1
    <3> QED
      BY <1>2, <1>10, <1>11, <1>12, <2>0, <3>1, <3>2
  <2> QED
    BY <2>1, <2>2
<1>14. q2 = Append(q, f)
  BY <1>11, <1>12, <1>13, SeqEqual
<1> QED
  BY <1>1, <1>2, <1>8, <1>9, <1>14 DEF q, q2, c

\* A descriptor that is cleared at a takes the first frame out.
LEMMA RingGet ==
    ASSUME NEW n \in Nat \ {0}, NEW a \in 0 .. n - 1, NEW b \in 0 .. n - 1,
           NEW ring \in [0 .. n - 1 -> Frame \cup {None}], RingOK(ring, n, a, b),
           Count(ring, n, a, b) > 0,
           NEW new \in [0 .. n - 1 -> Frame \cup {None}],
           \A i \in 0 .. n - 1 : new[i] = IF i = a THEN None ELSE ring[i],
           NEW a2, a2 = (a + 1) % n
    PROVE  /\ a2 \in 0 .. n - 1
           /\ RingOK(new, n, a2, b)
           /\ Count(new, n, a2, b) = Count(ring, n, a, b) - 1
           /\ Between(ring, n, a, b) # <<>>
           /\ Head(Between(ring, n, a, b)) = ring[a]
           /\ Between(new, n, a2, b) = Tail(Between(ring, n, a, b))
<1> DEFINE c == Count(ring, n, a, b)
<1>1. a2 = (IF a = n - 1 THEN 0 ELSE a + 1) /\ a2 \in 0 .. n - 1
  BY NextIndex
<1>2. /\ new \in [0 .. n - 1 -> Frame \cup {None}]
      /\ \A i \in 0 .. n - 1 : new[i] = IF i = a THEN None ELSE ring[i]
  OBVIOUS
<1>3. /\ c \in 1 .. n
      /\ a = b => c = n
      /\ a # b => c = Dist(n, a, b)
  <2>1. Dist(n, a, b) \in 0 .. n - 1
    BY NthDist
  <2>2. Dist(n, a, a) = 0
    BY DEF Dist
  <2> QED
    BY <2>1, <2>2 DEF Count
<1>4. ring[a] # None
  <2>1. Dist(n, a, a) = 0
    BY DEF Dist
  <2> QED
    BY <2>1 DEF RingOK
<1>5. \A i \in 0 .. n - 1 : /\ Dist(n, a, i) \in 0 .. n - 1
                            /\ Dist(n, a2, i) = IF i = a THEN n - 1 ELSE Dist(n, a, i) - 1
                            /\ i # a => Dist(n, a, i) # 0
  BY <1>1 DEF Dist
<1>6. \A i \in 0 .. n - 1 : new[i] # None <=> Dist(n, a2, i) < c - 1
  <2> SUFFICES ASSUME NEW i \in 0 .. n - 1
               PROVE  new[i] # None <=> Dist(n, a2, i) < c - 1
    OBVIOUS
  <2>1. CASE i = a
    BY <1>2, <1>3, <1>5, <2>1
  <2>2. CASE i # a
    <3>1. ring[i] # None <=> Dist(n, a, i) < c
      BY DEF RingOK
    <3>2. Dist(n, a, i) \in 0 .. n - 1 /\ Dist(n, a2, i) = Dist(n, a, i) - 1
      BY <1>5, <2>2
    <3>3. Dist(n, a, i) < c <=> Dist(n, a2, i) < c - 1
      BY <1>3, <3>2
    <3> QED
      BY <1>2, <2>2, <3>1, <3>3
  <2> QED
    BY <2>1, <2>2
<1>7. Count(new, n, a2, b) = c - 1
  <2>1. Dist(n, a2, b) = c - 1
    BY <1>3, <1>5
  <2>2. a2 = b => new[a2] = None
    <3> SUFFICES ASSUME a2 = b PROVE new[a2] = None
      OBVIOUS
    <3>1. Dist(n, a2, a2) = 0
      BY <1>1 DEF Dist
    <3>2. c - 1 = 0
      BY <2>1, <3>1
    <3> QED
      BY <1>1, <1>6, <3>1, <3>2
  <2> QED
    BY <2>1, <2>2 DEF Count
<1>8. RingOK(new, n, a2, b)
  BY <1>6, <1>7 DEF RingOK
<1> DEFINE q  == Between(ring, n, a, b)
           q2 == Between(new, n, a2, b)
<1>9. /\ q \in Seq(Frame) /\ Len(q) = c
      /\ q = [i \in 1 .. c |-> ring[Nth(n, a, i - 1)]]
  BY BetweenIs
<1>10. /\ q2 \in Seq(Frame) /\ Len(q2) = c - 1
       /\ q2 = [i \in 1 .. c - 1 |-> new[Nth(n, a2, i - 1)]]
  <2>0. n \in Nat \ {0} /\ a2 \in 0 .. n - 1 /\ b \in 0 .. n - 1 /\ new \in [0 .. n - 1 -> Frame \cup {None}]
    BY <1>1, <1>2
  <2>1. /\ q2 \in Seq(Frame) /\ Len(q2) = Count(new, n, a2, b)
        /\ q2 = [i \in 1 .. Count(new, n, a2, b) |-> new[Nth(n, a2, i - 1)]]
    BY ONLY <2>0, <1>8, BetweenIs
  <2> HIDE DEF q2, c
  <2> QED
    BY <1>7, <2>1
<1> HIDE DEF q, q2, c
<1>11. q # <<>>
  <2>1. Len(q) # 0
    BY <1>3, <1>9
  <2> QED
    BY <2>1, EmptySeq
<1>12. Head(q) = ring[a]
  <2>1. Head(q) = q[1]
    BY <1>9, <1>11
  <2>2. 1 \in 1 .. c /\ Nth(n, a, 1 - 1) = a
    BY <1>3 DEF Nth
  <2> QED
    BY <1>9, <2>1, <2>2
<1>13. /\ Tail(q) \in Seq(Frame) /\ Len(Tail(q)) = c - 1
       /\ \A i \in 1 .. c - 1 : Tail(q)[i] = q[i + 1]
  <2>1. /\ Tail(q) \in Seq(Frame) /\ Len(Tail(q)) = Len(q) - 1
        /\ \A i \in 1 .. Len(Tail(q)) : Tail(q)[i] = q[i + 1]
    BY <1>9, <1>11, HeadTailProperties
  <2> QED
    BY <1>9, <2>1
<1>14. ASSUME NEW i \in 1 .. c - 1 PROVE q2[i] = Tail(q)[i]
  <2>1. i + 1 \in 1 .. c /\ i - 1 \in 0 .. n - 1 /\ (i + 1) - 1 = i /\ i \in 0 .. n - 1 /\ i # 0
    BY <1>3
  <2>2. Nth(n, a2, i - 1) = Nth(n, a, i) /\ Nth(n, a, i) \in 0 .. n - 1
    BY <1>1, <2>1 DEF Nth
  <2>3. Nth(n, a, i) # a
    BY <2>1 DEF Nth
  <2>4. q2[i] = ring[Nth(n, a, i)]
    BY <1>2, <1>10, <2>2, <2>3
  <2>5. q[i + 1] = ring[Nth(n, a, i)]
    BY <1>9, <2>1
  <2> QED
    BY <1>13, <2>4, <2>5
<1>15. q2 = Tail(q)
  BY <1>10, <1>13, <1>14, SeqEqual
<1> QED
  BY <1>1, <1>2, <1>7, <1>8, <1>11, <1>12, <1>15 DEF q, q2, c

-----------------------------------------------------------------------------
(* The receive ring.                                                       *)

\* The descriptor that the driver looks at.
RxHead == (rdt + 1) % RxSize

\* The frames are between the driver and the card, and an Intel card stays
\* before the tail that the driver gave it.
RxInv ==
    /\ RingOK(rq, RxSize, RxHead, RDH)
    /\ card # "realtek" => Count(rq, RxSize, RxHead, RDH) <= Dist(RxSize, RxHead, RDT)

\* The tail of an Intel card is where the last batch began; only before the
\* first frame it is the last descriptor.
BatchInv ==
    card # "realtek" =>
        /\ RDT <= rdt /\ rdt - RDT < RQ_FLUSH_COUNT
        /\ RDT % RQ_FLUSH_COUNT = 0 \/ {rdt, RDT} = {RQSIZE - 1}

\* The parts of the type invariant that the receive ring needs.
LEMMA RxTypes ==
    ASSUME TypeOK
    PROVE  /\ RxHead \in 0 .. RxSize - 1 /\ RDH \in 0 .. RxSize - 1
           /\ RDT \in 0 .. RxSize - 1 /\ rdt \in 0 .. RxSize - 1
           /\ rq \in [0 .. RxSize - 1 -> Frame \cup {None}]
<1>1. /\ RDH \in 0 .. RxSize - 1 /\ RDT \in 0 .. RxSize - 1 /\ rdt \in 0 .. RxSize - 1
      /\ rq \in [0 .. RxSize - 1 -> Frame \cup {None}]
  BY DEF TypeOK
<1>2. RxHead \in 0 .. RxSize - 1
  BY <1>1, RingSizes, IndexAdvances DEF RxHead
<1> QED
  BY <1>1, <1>2

\* The driver takes the first frame and gives the descriptor back.
LEMMA AdvanceStep ==
    ASSUME TypeOK, RxInv, NextFrame # None, Advance, card' = card
    PROVE  /\ RxInv'
           /\ Between(rq, RxSize, RxHead, RDH) # <<>>
           /\ Head(Between(rq, RxSize, RxHead, RDH)) = NextFrame
           /\ Between(rq, RxSize, RxHead, RDH)' = Tail(Between(rq, RxSize, RxHead, RDH))
<1> DEFINE n == RxSize
           h == RxHead
           c == Count(rq, n, h, RDH)
<1>1. n \in Nat \ {0} /\ n' = n
  BY RingSizes DEF RxSize
<1>2. /\ h \in 0 .. n - 1 /\ RDH \in 0 .. n - 1 /\ RDT \in 0 .. n - 1
      /\ rq \in [0 .. n - 1 -> Frame \cup {None}]
  BY RxTypes
<1>3. rdt' = h /\ rq' = [rq EXCEPT ![h] = None] /\ h' = (h + 1) % n /\ RDH' = RDH
  BY <1>1 DEF Advance, prepare_rx_descriptor, RxHead
<1>4. NextFrame = rq[h] /\ RingOK(rq, n, h, RDH)
  BY DEF NextFrame, RxHead, RxInv
<1>5. c > 0
  <2>1. Dist(n, h, h) = 0
    BY <1>2 DEF Dist
  <2> QED
    BY <1>2, <1>4, <2>1 DEF RingOK
<1> HIDE DEF n, h
<1>a. /\ rq' \in [0 .. n - 1 -> Frame \cup {None}]
      /\ \A i \in 0 .. n - 1 : rq'[i] = IF i = h THEN None ELSE rq[i]
  BY <1>2, <1>3
<1>b. h' = (h + 1) % n
  BY <1>3
<1>6. /\ RingOK(rq', n, h', RDH)
      /\ Count(rq', n, h', RDH) = c - 1
      /\ Between(rq, n, h, RDH) # <<>>
      /\ Head(Between(rq, n, h, RDH)) = rq[h]
      /\ Between(rq', n, h', RDH) = Tail(Between(rq, n, h, RDH))
  BY ONLY <1>1, <1>2, <1>a, <1>b, <1>4, <1>5, RingGet
<1>7. card # "realtek" => Count(rq', n, h', RDH) <= Dist(n, h', RDT')
  <2> SUFFICES ASSUME card # "realtek"
               PROVE  c - 1 <= Dist(n, h', RDT')
    BY <1>6
  <2>1. RDT' = h \/ RDT' = RDT
    BY <1>3 DEF Advance, Returned
  <2>2. c \in 0 .. n /\ c <= Dist(n, h, RDT) /\ Dist(n, h, RDT) \in 0 .. n - 1
    BY <1>1, <1>2, <1>4, BetweenIs, NthDist DEF RxInv, n, h
  <2>3. h' = IF h = n - 1 THEN 0 ELSE h + 1
    BY <1>1, <1>2, <1>3, NextIndex
  <2>4. Dist(n, h', h) = n - 1
    BY <1>1, <1>2, <2>3 DEF Dist
  <2>5. RDT # h => Dist(n, h', RDT) = Dist(n, h, RDT) - 1
    BY <1>1, <1>2, <2>3 DEF Dist
  <2>6. Dist(n, h, h) = 0
    BY <1>2 DEF Dist
  <2> QED
    BY <1>1, <1>5, <2>1, <2>2, <2>4, <2>5, <2>6
<1>8. RxInv'
  BY <1>1, <1>3, <1>6, <1>7 DEF RxInv, n, h
<1> QED
  BY <1>1, <1>3, <1>4, <1>6, <1>8 DEF n, h

\* The card stores a frame behind the others.
LEMMA CardReceiveStep ==
    ASSUME TypeOK, RxInv, NEW f \in Frame, CardReceive(f)
    PROVE  /\ RxInv'
           /\ Between(rq, RxSize, RxHead, RDH)' = Append(Between(rq, RxSize, RxHead, RDH), f)
<1> DEFINE n == RxSize
           h == RxHead
           c == Count(rq, n, h, RDH)
<1>0. f \in Frame
  OBVIOUS
<1>1. n \in Nat \ {0} /\ n' = n
  BY RingSizes DEF RxSize, CardReceive
<1>2. /\ h \in 0 .. n - 1 /\ RDH \in 0 .. n - 1 /\ RDT \in 0 .. n - 1
      /\ rq \in [0 .. n - 1 -> Frame \cup {None}]
  BY RxTypes
<1>3. /\ h' = h /\ rq' = [rq EXCEPT ![RDH] = f] /\ RDH' = (RDH + 1) % n
      /\ RDT' = RDT /\ card' = card
  BY <1>1 DEF CardReceive, RxHead
<1>4. RingOK(rq, n, h, RDH)
  BY DEF RxInv
<1> HIDE DEF n, h
<1>5. /\ c < n
      /\ card # "realtek" => c + 1 <= Dist(n, h, RDT)
  <2>0. c \in 0 .. n /\ Dist(n, h, RDT) \in 0 .. n - 1 /\ Dist(n, h, RDH) \in 0 .. n - 1
    BY <1>1, <1>2, <1>4, BetweenIs, NthDist
  <2>1. CASE card = "realtek"
    <3>1. rq[RDH] = None
      BY <2>1 DEF CardReceive, CardHasBuffer
    <3>2. ~(Dist(n, h, RDH) < c)
      BY <1>2, <1>4, <3>1 DEF RingOK
    <3> QED
      BY <1>1, <2>0, <2>1, <3>2
  <2>2. CASE card # "realtek"
    <3>1. c <= Dist(n, h, RDT)
      BY <2>2 DEF RxInv, n, h
    <3>2. RDH # RDT
      BY <2>2 DEF CardReceive, CardHasBuffer
    <3>3. Dist(n, h, RDH) # Dist(n, h, RDT)
      BY <1>1, <1>2, <3>2 DEF Dist
    <3>4. c = Dist(n, h, RDH) \/ c = n
      BY DEF Count
    <3> QED
      BY <1>1, <2>0, <3>1, <3>3, <3>4
  <2> QED
    BY <2>1, <2>2
<1>a. /\ rq' \in [0 .. n - 1 -> Frame \cup {None}]
      /\ \A i \in 0 .. n - 1 : rq'[i] = IF i = RDH THEN f ELSE rq[i]
  BY <1>2, <1>3
<1>b. RDH' = (RDH + 1) % n
  BY <1>3
<1>6. /\ RingOK(rq', n, h, RDH') /\ Count(rq', n, h, RDH') = c + 1
      /\ Between(rq', n, h, RDH') = Append(Between(rq, n, h, RDH), f)
  BY ONLY <1>0, <1>1, <1>2, <1>a, <1>b, <1>4, <1>5, RingPut
<1>7. RxInv'
  BY <1>1, <1>3, <1>5, <1>6 DEF RxInv, n, h
<1> QED
  BY <1>1, <1>3, <1>6, <1>7 DEF n, h

-----------------------------------------------------------------------------
(* The transmit ring.                                                      *)

\* The frames are between the card and the driver; in the ring of an Intel
\* card come, in this order, the head that the driver knows, the head, the tail
\* that the card knows and the tail, and one descriptor stays free.
TxInv ==
    /\ RingOK(tq, TxSize, TDH, tdt)
    /\ card # "realtek" =>
          /\ Count(tq, TxSize, TDH, tdt) < TxSize
          /\ Dist(TxSize, tdh, TDH) <= Dist(TxSize, tdh, TDT)
          /\ Dist(TxSize, tdh, TDT) <= Dist(TxSize, tdh, tdt)

\* The parts of the type invariant that the transmit ring needs.
LEMMA TxTypes ==
    ASSUME TypeOK
    PROVE  /\ tdt \in 0 .. TxSize - 1 /\ tdh \in 0 .. TxSize - 1
           /\ TDT \in 0 .. TxSize - 1 /\ TDH \in 0 .. TxSize - 1
           /\ tq \in [0 .. TxSize - 1 -> Frame \cup {None}]
  BY DEF TypeOK

\* Steps from an index that lies between.
LEMMA DistFrom ==
    ASSUME NEW n \in Nat \ {0}, NEW d \in 0 .. n - 1, NEW h \in 0 .. n - 1,
           NEW x \in 0 .. n - 1, Dist(n, d, h) <= Dist(n, d, x)
    PROVE  Dist(n, h, x) = Dist(n, d, x) - Dist(n, d, h)
  BY DEF Dist

\* The indices of an Intel ring in their order.
Ordered(n, d, h, T, t) == Dist(n, d, h) <= Dist(n, d, T) /\ Dist(n, d, T) <= Dist(n, d, t)

\* The order stays when the driver reads the head.
LEMMA HeadRead ==
    ASSUME NEW n \in Nat \ {0}, NEW d \in 0 .. n - 1, NEW h \in 0 .. n - 1,
           NEW T \in 0 .. n - 1, NEW t \in 0 .. n - 1, Ordered(n, d, h, T, t)
    PROVE  Ordered(n, h, h, T, t)
<1>1. /\ Dist(n, d, h) \in 0 .. n - 1 /\ Dist(n, d, T) \in 0 .. n - 1
      /\ Dist(n, d, t) \in 0 .. n - 1 /\ Dist(n, h, T) \in 0 .. n - 1 /\ Dist(n, h, h) = 0
  BY DEF Dist
<1>2. Dist(n, d, h) <= Dist(n, d, T) /\ Dist(n, d, T) <= Dist(n, d, t)
  BY DEF Ordered
<1>3. Dist(n, d, h) <= Dist(n, d, t)
  BY <1>1, <1>2
<1>4. /\ Dist(n, h, T) = Dist(n, d, T) - Dist(n, d, h)
      /\ Dist(n, h, t) = Dist(n, d, t) - Dist(n, d, h)
  BY <1>2, <1>3, DistFrom
<1> QED
  BY <1>1, <1>2, <1>4 DEF Ordered

\* IntelSend works with a head that may be old; the descriptor it fills is
\* free all the same.
LEMMA IntelSendStep ==
    ASSUME TypeOK, TxInv, NEW f \in Frame, card # "realtek", card' = card,
           IntelSend(f), TDH' = TDH
    PROVE  /\ TxInv'
           /\ \/ Between(tq, TxSize, TDH, tdt)' = Append(Between(tq, TxSize, TDH, tdt), f)
              \/ Between(tq, TxSize, TDH, tdt)' = Between(tq, TxSize, TDH, tdt)
<1> DEFINE n == TxSize
           c == Count(tq, n, TDH, tdt)
<1>1. n \in Nat \ {0} /\ n' = n /\ n = TQSIZE /\ f \in Frame
  BY RingSizes DEF TxSize
<1>2. /\ tdt \in 0 .. n - 1 /\ tdh \in 0 .. n - 1 /\ TDT \in 0 .. n - 1 /\ TDH \in 0 .. n - 1
      /\ tq \in [0 .. n - 1 -> Frame \cup {None}]
  BY TxTypes
<1>3. RingOK(tq, n, TDH, tdt) /\ c < n /\ Ordered(n, tdh, TDH, TDT, tdt)
  BY DEF TxInv, Ordered
<1>4. tdh' \in {tdh, TDH} /\ (f \notin Long => tdh' = HeadSeen)
  BY DEF IntelSend, HeadSeen
<1> HIDE DEF n
<1>5. tdh' \in 0 .. n - 1 /\ Ordered(n, tdh', TDH, TDT, tdt)
  <2>1. Ordered(n, TDH, TDH, TDT, tdt)
    BY <1>1, <1>2, <1>3, HeadRead
  <2> QED
    BY <1>2, <1>3, <1>4, <2>1
<1>6. CASE f \notin Long /\ HasRoom
  <2>1. /\ tq' = [tq EXCEPT ![tdt] = f] /\ tdt' = (tdt + 1) % n
        /\ TDT' \in {tdt', TDT} /\ tdt' # tdh'
    BY <1>1, <1>4, <1>6 DEF IntelSend, prepare_tx_descriptor, HasRoom
  <2>2. /\ tq' \in [0 .. n - 1 -> Frame \cup {None}]
        /\ \A i \in 0 .. n - 1 : tq'[i] = IF i = tdt THEN f ELSE tq[i]
    BY <1>2, <2>1
  <2>3. tdt' = (tdt + 1) % n
    BY <2>1
  <2>4. /\ tdt' \in 0 .. n - 1
        /\ RingOK(tq', n, TDH, tdt') /\ Count(tq', n, TDH, tdt') = c + 1
        /\ Between(tq', n, TDH, tdt') = Append(Between(tq, n, TDH, tdt), f)
    BY ONLY <1>1, <1>2, <1>3, <2>2, <2>3, RingPut
  <2>5. tdt' = IF tdt = n - 1 THEN 0 ELSE tdt + 1
    BY <1>1, <1>2, <2>3, NextIndex
  <2>6. Dist(n, tdh', tdt') = Dist(n, tdh', tdt) + 1
    BY <1>1, <1>2, <1>5, <2>1, <2>5 DEF Dist
  <2>7. /\ Dist(n, tdh', tdt) \in 0 .. n - 1 /\ Dist(n, tdh', TDT) \in 0 .. n - 1
        /\ Dist(n, tdh', TDH) \in 0 .. n - 1
    BY <1>1, <1>2, <1>5, NthDist
  <2>8. Ordered(n, tdh', TDH, TDT', tdt')
    BY <1>5, <2>1, <2>6, <2>7 DEF Ordered
  <2>9. c + 1 < n
    <3>1. c = Dist(n, TDH, tdt)
      BY <1>1, <1>3 DEF Count
    <3>2. Dist(n, tdh', TDH) <= Dist(n, tdh', tdt)
      BY <1>5, <2>7 DEF Ordered
    <3>3. Dist(n, TDH, tdt) = Dist(n, tdh', tdt) - Dist(n, tdh', TDH)
      BY <1>1, <1>2, <1>5, <3>2, DistFrom
    <3>4. Dist(n, tdh', tdt') \in 0 .. n - 1
      BY <1>1, <1>5, <2>4, NthDist
    <3> QED
      BY <1>1, <2>6, <2>7, <3>1, <3>3, <3>4
  <2>10. TxInv'
    BY <1>1, <2>4, <2>8, <2>9 DEF TxInv, Ordered, n
  <2> QED
    BY <1>1, <2>4, <2>10 DEF n
<1>7. CASE ~(f \notin Long /\ HasRoom)
  <2>1. UNCHANGED <<tq, tdt, TDT>>
    BY <1>7 DEF IntelSend
  <2> QED
    BY <1>1, <1>3, <1>5, <2>1 DEF TxInv, Ordered, n
<1> QED
  BY <1>6, <1>7

\* RtlSend fills a descriptor that the card does not own.
LEMMA RtlSendStep ==
    ASSUME TypeOK, TxInv, NEW f \in Frame, card = "realtek", card' = card,
           RtlSend(f), TDH' = TDH
    PROVE  /\ TxInv'
           /\ \/ Between(tq, TxSize, TDH, tdt)' = Append(Between(tq, TxSize, TDH, tdt), f)
              \/ Between(tq, TxSize, TDH, tdt)' = Between(tq, TxSize, TDH, tdt)
<1> DEFINE n == TxSize
           c == Count(tq, n, TDH, tdt)
<1>1. n \in Nat \ {0} /\ n' = n /\ n = N_TX_DESC /\ f \in Frame
  BY RingSizes DEF TxSize
<1>2. /\ tdt \in 0 .. n - 1 /\ TDH \in 0 .. n - 1
      /\ tq \in [0 .. n - 1 -> Frame \cup {None}]
  BY TxTypes
<1>3. RingOK(tq, n, TDH, tdt)
  BY DEF TxInv
<1> HIDE DEF n
<1>4. CASE f \notin Long /\ tq[tdt] = None
  <2>1. tq' = [tq EXCEPT ![tdt] = f] /\ tdt' = (tdt + 1) % n
    BY <1>1, <1>4 DEF RtlSend, prepare_tx_descriptor
  <2>2. /\ tq' \in [0 .. n - 1 -> Frame \cup {None}]
        /\ \A i \in 0 .. n - 1 : tq'[i] = IF i = tdt THEN f ELSE tq[i]
    BY <1>2, <2>1
  <2>3. tdt' = (tdt + 1) % n
    BY <2>1
  <2>4. c < n
    <3>1. c \in 0 .. n /\ Dist(n, TDH, tdt) \in 0 .. n - 1
      BY <1>1, <1>2, <1>3, BetweenIs, NthDist
    <3>2. ~(Dist(n, TDH, tdt) < c)
      BY <1>2, <1>3, <1>4 DEF RingOK
    <3> QED
      BY <1>1, <3>1, <3>2
  <2>5. /\ RingOK(tq', n, TDH, tdt')
        /\ Between(tq', n, TDH, tdt') = Append(Between(tq, n, TDH, tdt), f)
    BY ONLY <1>1, <1>2, <1>3, <2>2, <2>3, <2>4, RingPut
  <2> QED
    BY <1>1, <2>5 DEF TxInv, n
<1>5. CASE ~(f \notin Long /\ tq[tdt] = None)
  <2>1. UNCHANGED <<tq, tdt>>
    BY <1>5 DEF RtlSend
  <2> QED
    BY <1>1, <1>3, <2>1 DEF TxInv, n
<1> QED
  BY <1>4, <1>5

\* The card takes the first frame; it never goes past what it was told of.
LEMMA CardSendStep ==
    ASSUME TypeOK, TxInv, CardSend
    PROVE  /\ TxInv'
           /\ Between(tq, TxSize, TDH, tdt) # <<>>
           /\ Head(Between(tq, TxSize, TDH, tdt)) = tq[TDH]
           /\ Between(tq, TxSize, TDH, tdt)' = Tail(Between(tq, TxSize, TDH, tdt))
<1> DEFINE n == TxSize
           c == Count(tq, n, TDH, tdt)
<1>1. n \in Nat \ {0} /\ n' = n /\ card' = card
  BY RingSizes DEF TxSize, CardSend
<1>2. /\ tdt \in 0 .. n - 1 /\ tdh \in 0 .. n - 1 /\ TDT \in 0 .. n - 1 /\ TDH \in 0 .. n - 1
      /\ tq \in [0 .. n - 1 -> Frame \cup {None}]
  BY TxTypes
<1>3. /\ tq' = [tq EXCEPT ![TDH] = None] /\ TDH' = (TDH + 1) % n
      /\ UNCHANGED <<tdt, tdh, TDT>>
  BY DEF CardSend
<1>4. RingOK(tq, n, TDH, tdt)
  BY DEF TxInv
<1>a. /\ tq' \in [0 .. n - 1 -> Frame \cup {None}]
      /\ \A i \in 0 .. n - 1 : tq'[i] = IF i = TDH THEN None ELSE tq[i]
  BY <1>2, <1>3
<1>b. TDH' = (TDH + 1) % n
  BY <1>3
<1>c. /\ Dist(n, tdh, TDH) \in 0 .. n - 1 /\ Dist(n, tdh, TDT) \in 0 .. n - 1
      /\ Dist(n, tdh, tdt) \in 0 .. n - 1
  BY <1>1, <1>2, NthDist
<1>d. card # "realtek" => /\ c < n /\ Dist(n, tdh, TDH) < Dist(n, tdh, TDT)
                          /\ Dist(n, tdh, TDT) <= Dist(n, tdh, tdt)
  <2> SUFFICES ASSUME card # "realtek"
               PROVE  /\ c < n /\ Dist(n, tdh, TDH) < Dist(n, tdh, TDT)
                      /\ Dist(n, tdh, TDT) <= Dist(n, tdh, tdt)
    OBVIOUS
  <2>1. TDH # TDT
    BY DEF CardSend
  <2>2. Dist(n, tdh, TDH) # Dist(n, tdh, TDT)
    BY <1>1, <1>2, <2>1 DEF Dist
  <2> QED
    BY <1>c, <2>2 DEF TxInv
<1> HIDE DEF n
<1>5. c > 0
  <2>0. c \in 0 .. n /\ Dist(n, TDH, TDH) = 0
    BY <1>1, <1>2, <1>4, BetweenIs DEF Dist
  <2>1. CASE card = "realtek"
    <3>1. tq[TDH] # None
      BY <2>1 DEF CardSend
    <3> QED
      BY <1>2, <1>4, <2>0, <3>1 DEF RingOK
  <2>2. CASE card # "realtek"
    <3>1. tdt # TDH
      BY <1>c, <1>d, <2>2
    <3>2. Dist(n, TDH, tdt) > 0
      BY <1>1, <1>2, <3>1 DEF Dist
    <3> QED
      BY <3>1, <3>2 DEF Count
  <2> QED
    BY <2>1, <2>2
<1>6. /\ RingOK(tq', n, TDH', tdt)
      /\ Count(tq', n, TDH', tdt) = c - 1
      /\ Between(tq, n, TDH, tdt) # <<>>
      /\ Head(Between(tq, n, TDH, tdt)) = tq[TDH]
      /\ Between(tq', n, TDH', tdt) = Tail(Between(tq, n, TDH, tdt))
  BY ONLY <1>1, <1>2, <1>a, <1>b, <1>4, <1>5, RingGet
<1>7. card # "realtek" => /\ Count(tq', n, TDH', tdt) < n
                          /\ Dist(n, tdh, TDH') <= Dist(n, tdh, TDT)
  <2> SUFFICES ASSUME card # "realtek"
               PROVE  c - 1 < n /\ Dist(n, tdh, TDH') <= Dist(n, tdh, TDT)
    BY <1>6
  <2>1. TDH' = IF TDH = n - 1 THEN 0 ELSE TDH + 1
    BY <1>1, <1>2, <1>b, NextIndex
  <2>2. Dist(n, tdh, TDH') = Dist(n, tdh, TDH) + 1
    BY <1>1, <1>2, <1>c, <1>d, <2>1 DEF Dist
  <2>3. c \in 0 .. n
    BY <1>1, <1>2, <1>4, BetweenIs
  <2> QED
    BY <1>1, <1>c, <1>d, <2>2, <2>3
<1>8. TxInv'
  BY <1>1, <1>3, <1>6, <1>7, <1>d DEF TxInv, n
<1> QED
  BY <1>1, <1>3, <1>6, <1>8 DEF n

-----------------------------------------------------------------------------
(* The refinements.                                                        *)

\* Actions that do not touch the receive ring.
LEMMA RxSame ==
    ASSUME RxInv, card' = card, UNCHANGED rxVars
    PROVE  /\ RxInv' /\ UNCHANGED <<Between(rq, RxSize, RxHead, RDH), received, Refused>>
<1>1. RxSize' = RxSize
  BY DEF RxSize
<1> QED
  BY <1>1 DEF RxInv, RxHead, rxVars, Refused

\* Every step is a step of the receive queue, or leaves it alone.
LEMMA RxStep ==
    ASSUME TypeOK, RxInv, [Next]_vars
    PROVE  RxInv' /\ [RxQueue!Next]_<<Between(rq, RxSize, RxHead, RDH), received, Refused>>
<1> DEFINE q == Between(rq, RxSize, RxHead, RDH)
<1>1. CASE Receive
  <2>1. /\ card' = card /\ NextFrame # None /\ NextFrame \notin Refused /\ Advance
        /\ received' = NextFrame
    BY <1>1 DEF Receive, receive, Waiting
  <2>2. RxInv' /\ q # <<>> /\ Head(q) = NextFrame /\ q' = Tail(q)
    BY <2>1, AdvanceStep
  <2>3. Refused' = Refused
    BY <2>1 DEF Refused
  <2>4. RxQueue!Get
    BY <2>1, <2>2 DEF RxQueue!Get, RxHead
  <2> QED
    BY <2>2, <2>3, <2>4 DEF RxQueue!Next
<1>2. CASE ReceiveDrop
  <2>1. /\ card' = card /\ NextFrame # None /\ NextFrame \in Refused /\ Advance
        /\ received' = received
    BY <1>2 DEF ReceiveDrop, ReceiveRefused, Waiting
  <2>2. RxInv' /\ q # <<>> /\ Head(q) = NextFrame /\ q' = Tail(q)
    BY <2>1, AdvanceStep
  <2>3. Refused' = Refused
    BY <2>1 DEF Refused
  <2>4. RxQueue!Drop
    BY <2>1, <2>2 DEF RxQueue!Drop, RxHead
  <2> QED
    BY <2>2, <2>3, <2>4 DEF RxQueue!Next
<1>3. ASSUME NEW f \in Frame, CardReceive(f)
      PROVE  RxInv' /\ [RxQueue!Next]_<<q, received, Refused>>
  <2>1. RxInv' /\ q' = Append(q, f)
    BY <1>3, CardReceiveStep
  <2>2. Refused' = Refused /\ received' = received
    BY <1>3 DEF Refused, CardReceive
  <2>3. RxQueue!Put(f)
    BY <2>1, <2>2 DEF RxQueue!Put, RxHead
  <2> QED
    BY <2>1, <2>2, <2>3 DEF RxQueue!Next
<1>4. CASE card' = card /\ UNCHANGED rxVars
  BY <1>4, RxSame
<1>5. ASSUME NEW f \in Frame, Send(f) PROVE card' = card /\ UNCHANGED rxVars
  BY <1>5 DEF Send, rxVars
<1>6. ASSUME \/ PhyIdleFlush \/ PhyIdleSkip \/ ReceiveNone \/ Stay \/ Sleep \/ WakeUp
             \/ CardSend \/ UNCHANGED vars
      PROVE  card' = card /\ UNCHANGED rxVars
  BY <1>6 DEF PhyIdleFlush, PhyIdleSkip, ReceiveNone, Stay, Sleep, WakeUp, CardSend, vars,
              rxVars
<1> QED
  BY <1>1, <1>2, <1>3, <1>4, <1>5, <1>6 DEF Next

\* The receive ring starts empty.
LEMMA RxStart == Init => RxInv /\ RxQueue!Init
<1> SUFFICES ASSUME Init PROVE RxInv /\ RxQueue!Init
  OBVIOUS
<1> DEFINE n == RxSize
<1>1. n \in Nat \ {0}
  BY RingSizes
<1>2. rq = [i \in 0 .. n - 1 |-> None] /\ rdt = n - 1 /\ RDT = n - 1 /\ RDH = 0
      /\ received = None
  BY RingSizes DEF Init, RxInit, IntelInit, RtlInit
<1>3. RxHead = 0
  <2>1. rdt \in 0 .. n - 1
    BY <1>1, <1>2
  <2> QED
    BY <1>1, <1>2, <2>1, NextIndex DEF RxHead
<1> HIDE DEF n
<1>4. 0 \in 0 .. n - 1 /\ Dist(n, 0, 0) = 0 /\ \A i \in 0 .. n - 1 : Dist(n, 0, i) = i
  BY <1>1 DEF Dist
<1>5. Count(rq, n, 0, 0) = 0
  BY <1>2, <1>4 DEF Count
<1>6. RingOK(rq, n, 0, 0)
  BY <1>1, <1>2, <1>4, <1>5 DEF RingOK
<1>7. RxInv
  BY <1>1, <1>2, <1>3, <1>4, <1>5, <1>6 DEF RxInv, n
<1>8. Between(rq, n, 0, 0) = <<>>
  <2>1. rq \in [0 .. n - 1 -> Frame \cup {None}]
    BY <1>2
  <2>2. Between(rq, n, 0, 0) \in Seq(Frame) /\ Len(Between(rq, n, 0, 0)) = 0
    BY ONLY <1>1, <1>4, <1>5, <1>6, <2>1, BetweenIs
  <2> QED
    BY <2>2, EmptySeq
<1>9. received \notin Frame /\ Refused \subseteq Frame
  BY <1>2, NicAssumption DEF Refused, RtlRefuses
<1> QED
  BY <1>2, <1>3, <1>7, <1>8, <1>9 DEF RxQueue!Init, RxHead, n

\* The driver receives exactly the frames that the card stored, in their
\* order, but for those that the Realtek driver throws away.
THEOREM RxRefinement == Spec => RxIsFifo
<1>1. Init => RxInv /\ RxQueue!Init
  BY RxStart
<1>2. TypeOK /\ RxInv /\ [Next]_vars =>
         RxInv' /\ [RxQueue!Next]_<<Between(rq, RxSize, (rdt + 1) % RxSize, RDH), received, Refused>>
  BY RxStep DEF RxHead
<1> QED
  BY <1>1, <1>2, NicTypes, PTL DEF Spec, RxIsFifo, RxQueue!Spec

\* A flush tells the card of the frames; the ring stays as it is.
LEMMA FlushStep ==
    ASSUME TypeOK, TxInv, ducknet_phy_flush, card' = card
    PROVE  TxInv' /\ UNCHANGED <<Between(tq, TxSize, TDH, tdt), sent>>
<1> DEFINE n == TxSize
<1>1. n' = n /\ UNCHANGED <<tq, tdt, tdh, TDH, sent>> /\ TDT' \in {TDT, tdt}
  BY DEF ducknet_phy_flush, flush, IntelFlush, txVars, TxSize
<1>2. card # "realtek" => /\ Dist(n, tdh, TDH) <= Dist(n, tdh, TDT')
                          /\ Dist(n, tdh, TDT') <= Dist(n, tdh, tdt)
  <2>1. n \in Nat \ {0} /\ tdh \in 0 .. n - 1 /\ TDH \in 0 .. n - 1
        /\ TDT \in 0 .. n - 1 /\ tdt \in 0 .. n - 1
    BY RingSizes, TxTypes
  <2>2. /\ Dist(n, tdh, TDH) \in 0 .. n - 1 /\ Dist(n, tdh, TDT) \in 0 .. n - 1
        /\ Dist(n, tdh, tdt) \in 0 .. n - 1
    BY <2>1, NthDist
  <2> HIDE DEF n
  <2> QED
    BY <1>1, <2>2 DEF TxInv, n
<1> HIDE DEF n
<1> QED
  BY <1>1, <1>2 DEF TxInv, n

\* Every step is a step of the transmit queue, or leaves it alone.
LEMMA TxStep ==
    ASSUME TypeOK, TxInv, [Next]_vars
    PROVE  TxInv' /\ [TxQueue!Next]_<<Between(tq, TxSize, TDH, tdt), sent, {}>>
<1> DEFINE q == Between(tq, TxSize, TDH, tdt)
<1>1. CASE CardSend
  <2>1. TxInv' /\ q # <<>> /\ Head(q) = tq[TDH] /\ q' = Tail(q)
    BY <1>1, CardSendStep
  <2>2. sent' = tq[TDH]
    BY <1>1 DEF CardSend
  <2>3. TxQueue!Get
    BY <2>1, <2>2 DEF TxQueue!Get
  <2> QED
    BY <2>1, <2>3 DEF TxQueue!Next
<1>2. ASSUME NEW f \in Frame, Send(f)
      PROVE  TxInv' /\ [TxQueue!Next]_<<q, sent, {}>>
  <2>1. card' = card /\ send(f) /\ TDH' = TDH /\ sent' = sent
    BY <1>2 DEF Send, ducknet_phy_send, send
  <2>2. TxInv' /\ (q' = Append(q, f) \/ q' = q)
    <3>1. CASE card = "realtek"
      BY <2>1, <3>1, RtlSendStep DEF send
    <3>2. CASE card # "realtek"
      BY <2>1, <3>2, IntelSendStep DEF send
    <3> QED
      BY <3>1, <3>2
  <2>3. CASE q' = Append(q, f)
    <3>1. TxQueue!Put(f)
      BY <2>1, <2>3 DEF TxQueue!Put
    <3> QED
      BY <2>2, <3>1 DEF TxQueue!Next
  <2>4. CASE q' = q
    BY <2>1, <2>2, <2>4
  <2> QED
    BY <2>2, <2>3, <2>4
<1>3. CASE PhyIdleFlush \/ Sleep
  <2>1. ducknet_phy_flush /\ card' = card
    BY <1>3 DEF PhyIdleFlush, Sleep
  <2> QED
    BY <2>1, FlushStep
<1>4. CASE card' = card /\ UNCHANGED txVars
  <2>1. TxSize' = TxSize
    BY <1>4 DEF TxSize
  <2> QED
    BY <1>4, <2>1 DEF TxInv, txVars
<1>5. ASSUME NEW f \in Frame, CardReceive(f) PROVE card' = card /\ UNCHANGED txVars
  BY <1>5 DEF CardReceive, txVars
<1>6. ASSUME \/ PhyIdleSkip \/ Receive \/ ReceiveNone \/ ReceiveDrop \/ Stay \/ WakeUp
             \/ UNCHANGED vars
      PROVE  card' = card /\ UNCHANGED txVars
  BY <1>6 DEF PhyIdleSkip, Receive, ReceiveNone, ReceiveDrop, Stay, WakeUp, vars, txVars
<1> QED
  BY <1>1, <1>2, <1>3, <1>4, <1>5, <1>6 DEF Next

\* The transmit ring starts empty.
LEMMA TxStart == Init => TxInv /\ TxQueue!Init
<1> SUFFICES ASSUME Init PROVE TxInv /\ TxQueue!Init
  OBVIOUS
<1> DEFINE n == TxSize
<1>1. n \in Nat \ {0}
  BY RingSizes
<1>2. /\ tq = [i \in 0 .. n - 1 |-> None] /\ sent = None
      /\ tdt = 0 /\ tdh = 0 /\ TDT = 0 /\ TDH = 0
  BY DEF Init, TxInit
<1> HIDE DEF n
<1>4. 0 \in 0 .. n - 1 /\ Dist(n, 0, 0) = 0 /\ \A i \in 0 .. n - 1 : Dist(n, 0, i) = i
  BY <1>1 DEF Dist
<1>5. Count(tq, n, 0, 0) = 0
  BY <1>2, <1>4 DEF Count
<1>6. RingOK(tq, n, 0, 0)
  BY <1>1, <1>2, <1>4, <1>5 DEF RingOK
<1>7. TxInv
  BY <1>1, <1>2, <1>4, <1>5, <1>6 DEF TxInv, n
<1>8. Between(tq, n, 0, 0) = <<>>
  <2>1. tq \in [0 .. n - 1 -> Frame \cup {None}]
    BY <1>2
  <2>2. Between(tq, n, 0, 0) \in Seq(Frame) /\ Len(Between(tq, n, 0, 0)) = 0
    BY ONLY <1>1, <1>4, <1>5, <1>6, <2>1, BetweenIs
  <2> QED
    BY <2>2, EmptySeq
<1> QED
  BY <1>2, <1>7, <1>8, NicAssumption DEF TxQueue!Init, n

\* The card sends exactly the frames that send accepted, in their order,
\* although the Intel drivers work with an old copy of the head and tell the
\* card of whole batches only.
THEOREM TxRefinement == Spec => TxIsFifo
<1>1. Init => TxInv /\ TxQueue!Init
  BY TxStart
<1>2. TypeOK /\ TxInv /\ [Next]_vars =>
         TxInv' /\ [TxQueue!Next]_<<Between(tq, TxSize, TDH, tdt), sent, {}>>
  BY TxStep
<1> QED
  BY <1>1, <1>2, NicTypes, PTL DEF Spec, TxIsFifo, TxQueue!Spec

-----------------------------------------------------------------------------
(* Buffers that go back in batches.                                        *)

\* The next index after a whole number of batches is at the end of one more.
LEMMA BatchEnd ==
    ASSUME NEW p \in Nat \ {0}, NEW a \in Nat, a % p = 0
    PROVE  (a + p) % p = 0
<1>1. a = (a \div p) * p
  OBVIOUS
<1>2. ((a \div p) + 1) * p = a + p
  BY <1>1
<1>3. ASSUME NEW k \in Nat PROVE (k * p) % p = 0
  OBVIOUS
<1> QED
  BY <1>2, <1>3

\* The driver gives back a batch as soon as it is complete.
LEMMA BatchStep ==
    ASSUME TypeOK, BatchInv, [Next]_vars
    PROVE  BatchInv'
<1>1. ASSUME Advance, card' = card PROVE BatchInv'
  <2> SUFFICES ASSUME card # "realtek"
               PROVE  /\ RDT' <= rdt' /\ rdt' - RDT' < RQ_FLUSH_COUNT
                      /\ RDT' % RQ_FLUSH_COUNT = 0 \/ {rdt', RDT'} = {RQSIZE - 1}
    BY <1>1 DEF BatchInv
  <2> DEFINE p == RQ_FLUSH_COUNT
  <2>1. /\ p \in Nat \ {0} /\ RQSIZE \in Nat \ {0} /\ RxSize = RQSIZE
        /\ rdt \in 0 .. RQSIZE - 1 /\ RDT \in 0 .. RQSIZE - 1
    BY RingSizes, RxTypes, NicAssumption
  <2>2. rdt' = (rdt + 1) % RQSIZE /\ RDT' = IF rdt' % p = 0 THEN rdt' ELSE RDT
    BY <1>1, <2>1 DEF Advance, Returned
  <2>3. rdt' = IF rdt = RQSIZE - 1 THEN 0 ELSE rdt + 1
    BY <2>1, <2>2, NextIndex
  <2> HIDE DEF p
  <2>4. CASE rdt' % p = 0
    BY <2>1, <2>2, <2>3, <2>4 DEF p
  <2>5. CASE rdt' % p # 0
    <3>1. 0 % p = 0
      BY <2>1
    <3>2. rdt # RQSIZE - 1 /\ rdt' = rdt + 1
      BY <2>3, <2>5, <3>1
    <3>3. RDT <= rdt /\ rdt - RDT < p /\ RDT % p = 0
      BY <3>2 DEF BatchInv, p
    <3>4. rdt + 1 # RDT + p
      <4>0. RDT \in Nat
        BY <2>1
      <4>1. (RDT + p) % p = 0
        BY <2>1, <3>3, <4>0, BatchEnd, Zenon
      <4> QED
        BY <2>5, <3>2, <4>1
    <3> QED
      BY <2>1, <2>2, <2>5, <3>2, <3>3, <3>4 DEF p
  <2> QED
    BY <2>4, <2>5
<1>2. CASE Receive
  BY <1>1, <1>2 DEF Receive, receive
<1>3. CASE ReceiveDrop
  BY <1>1, <1>3 DEF ReceiveDrop, ReceiveRefused
<1>4. ASSUME NEW f \in Frame, CardReceive(f) PROVE BatchInv'
  BY <1>4 DEF CardReceive, BatchInv
<1>5. ASSUME NEW f \in Frame, Send(f) PROVE BatchInv'
  BY <1>5 DEF Send, BatchInv, rxVars
<1>6. CASE \/ PhyIdleFlush \/ PhyIdleSkip \/ ReceiveNone \/ Stay \/ Sleep \/ WakeUp
           \/ CardSend \/ UNCHANGED vars
  <2>1. card' = card /\ UNCHANGED rxVars
    BY <1>6 DEF PhyIdleFlush, PhyIdleSkip, ReceiveNone, Stay, Sleep, WakeUp, CardSend, vars,
                rxVars
  <2> QED
    BY <2>1 DEF BatchInv, rxVars
<1> QED
  BY <1>2, <1>3, <1>4, <1>5, <1>6 DEF Next

\* When every frame that arrived was read, the card has a buffer for the next:
\* a batch is smaller than the ring, and the ring is a number of whole batches.
THEOREM CardCanReceive == Spec => []CanReceive
<1>1. Init => BatchInv
  <2> SUFFICES ASSUME Init, card # "realtek"
               PROVE  /\ RDT <= rdt /\ rdt - RDT < RQ_FLUSH_COUNT
                      /\ RDT % RQ_FLUSH_COUNT = 0 \/ {rdt, RDT} = {RQSIZE - 1}
    BY DEF BatchInv
  <2>1. rdt = RQSIZE - 1 /\ RDT = RQSIZE - 1
    BY DEF Init, RxInit, IntelInit
  <2>2. RQSIZE \in Nat /\ RQ_FLUSH_COUNT \in Nat \ {0}
    BY NicAssumption
  <2> QED
    BY <2>1, <2>2
<1>2. TypeOK /\ BatchInv /\ [Next]_vars => BatchInv'
  BY BatchStep
<1>3. TypeOK /\ BatchInv => CanReceive
  <2> SUFFICES ASSUME TypeOK, BatchInv, RDH = (rdt + 1) % RxSize, rq[RDH] = None,
                      card # "realtek"
               PROVE  RDH # RDT
    BY DEF CanReceive, CardHasBuffer
  <2>1. /\ RQ_FLUSH_COUNT \in Nat \ {0} /\ RQSIZE \in Nat \ {0} /\ RxSize = RQSIZE
        /\ RQSIZE > RQ_FLUSH_COUNT
        /\ rdt \in 0 .. RQSIZE - 1 /\ RDT \in 0 .. RQSIZE - 1
    BY RingSizes, RxTypes, NicAssumption
  <2>2. RDH = IF rdt = RQSIZE - 1 THEN 0 ELSE rdt + 1
    BY <2>1, NextIndex
  <2>3. RDT <= rdt /\ rdt - RDT < RQ_FLUSH_COUNT
    BY DEF BatchInv
  <2> QED
    BY <2>1, <2>2, <2>3
<1> QED
  BY <1>1, <1>2, <1>3, NicTypes, PTL DEF Spec

=============================================================================
