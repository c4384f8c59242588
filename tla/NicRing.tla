------------------------------ MODULE NicRing ------------------------------
(***************************************************************************)
(* The descriptor rings of the network cards (lib/e1000.cpp, lib/i211.cpp, *)
(* lib/realtek.cpp, chosen by lib/network_driver.cpp), the card that works *)
(* on them concurrently, and the loop above them that decides when to      *)
(* flush: ducknet/lib/phy.cpp, idle() of kern/duck_server.cpp and          *)
(* lib/scheduler.cpp.                                                      *)
(*                                                                         *)
(* One iteration of the loop is "idle" (phy_idle), "work" (packets that    *)
(* waited are sent, then one frame is received), "answer" (its answers are *)
(* sent) and then idle(), which may put the processor to sleep.            *)
(*                                                                         *)
(* The drivers of the Intel cards batch their register writes: the card    *)
(* sees a frame only when TDT is written, and gets a receive buffer back   *)
(* only when RDT is.  A descriptor of the Realtek card has an OWN bit      *)
(* instead: tq[i] # None and rq[i] = None are the descriptors the card     *)
(* owns, and the ring can be full.                                         *)
(***************************************************************************)
EXTENDS Integers, Sequences

CONSTANTS
    Frame, Long,         \* frames; those longer than 1500 bytes
    Flagged,             \* frames that the Realtek card marks as errors
    TQSIZE, RQSIZE, TQ_FLUSH_COUNT, RQ_FLUSH_COUNT,
    N_TX_DESC, N_RX_DESC,  \* the rings of the Realtek card
    Cards,               \* the cards the machine may have
    None                 \* no frame

ASSUME NicAssumption ==
    /\ Long \subseteq Frame /\ Flagged \subseteq Frame
    /\ None \notin Frame
    /\ {TQ_FLUSH_COUNT, RQ_FLUSH_COUNT} \subseteq Nat \ {0}
    /\ TQSIZE \in Nat /\ TQSIZE >= 2
    \* 128 of 256 descriptors (e1000), 32 of 256 (i211)
    /\ RQSIZE \in Nat /\ RQSIZE > RQ_FLUSH_COUNT
    /\ RQSIZE % RQ_FLUSH_COUNT = 0
    \* 128 descriptors each
    /\ N_TX_DESC \in 1 .. TQSIZE
    /\ N_RX_DESC \in 1 .. RQSIZE
    /\ Cards \subseteq {"e1000", "i211", "realtek"}

VARIABLES
    card,      \* the driver that send, receive and flush point to
    phase,     \* where the loop is
    active,    \* Scheduler::current_state = ACTIVE
    flushed,   \* phy.cpp: nothing was sent since the last flush
    tq,        \* frames of the transmit descriptors the card has not sent
    tdt,       \* e1000_tdt; i211: next_tx_idx; realtek: tx_idx
    tdh,       \* e1000_tdh, the driver's copy of TDH
    TDT, TDH,  \* registers (TDT is also e1000_tdt_real); for the Realtek
               \* card, TDH and RDH are its own positions in the rings
    rq,        \* receive descriptors: the frame, or None (status bit clear)
    rdt,       \* e1000_rdt; realtek: the descriptor before rx_idx
    RDT, RDH,  \* registers
    sent,      \* the frame the card sent last
    received   \* the frame the driver received last

loopVars == <<phase, active, flushed>>
txVars   == <<tq, tdt, tdh, TDT, TDH, sent>>
rxVars   == <<rq, rdt, RDT, RDH, received>>
vars     == <<card, loopVars, txVars, rxVars>>

\* Descriptors of the two rings.
TxSize == IF card = "realtek" THEN N_TX_DESC ELSE TQSIZE
RxSize == IF card = "realtek" THEN N_RX_DESC ELSE RQSIZE

\* Transmit: an empty ring.
TxInit == /\ tq = [i \in 0 .. TxSize - 1 |-> None]
          /\ tdt = 0 /\ tdh = 0 /\ TDT = 0 /\ TDH = 0
          /\ sent = None

\* An Intel card has every receive descriptor but the last.
IntelInit == rdt = RQSIZE - 1 /\ RDT = RQSIZE - 1 /\ RDH = 0

\* rx_idx = 0, and the Realtek card has all descriptors.
RtlInit == rdt = N_RX_DESC - 1 /\ RDT = N_RX_DESC - 1 /\ RDH = 0

\* No receive descriptor has a frame.
RxInit == /\ rq = [i \in 0 .. RxSize - 1 |-> None]
          /\ IF card = "realtek" THEN RtlInit ELSE IntelInit
          /\ received = None

\* The first of the drivers that finds its device.
Init == /\ card \in Cards
        /\ phase = "idle" /\ active = TRUE /\ flushed = FALSE
        /\ TxInit
        /\ RxInit

-----------------------------------------------------------------------------
(* Descriptors: a frame for the card, and a buffer for it.  The OWN bit of *)
(* a Realtek descriptor is set last.                                       *)

prepare_tx_descriptor(f) == tq' = [tq EXCEPT ![tdt] = f]

prepare_rx_descriptor(i) == rq' = [rq EXCEPT ![i] = None]

-----------------------------------------------------------------------------
(* The drivers of the Intel cards.                                         *)

\* The head as the driver sees it: TDH is read only when the old value says
\* that the ring is full.
HeadSeen == IF (tdt + 1) % TQSIZE = tdh THEN TDH ELSE tdh

\* A driver that fills the last free descriptor, too.
HasRoomForAll == (tdt + 1) % TQSIZE # HeadSeen \/ tq[tdt] = None

HasRoom == (tdt + 1) % TQSIZE # HeadSeen

\* An index that does not start again at the end of the ring.
IntelSendUnwrapped(f) ==
    /\ tdh' = IF f \in Long THEN tdh ELSE HeadSeen
    /\ IF f \notin Long /\ HasRoom
       THEN /\ prepare_tx_descriptor(f)
            /\ tdt' = tdt + 1
            /\ TDT' = IF tdt' % TQ_FLUSH_COUNT = 0 THEN tdt' ELSE TDT
       ELSE UNCHANGED <<tq, tdt, TDT>>

\* Too long a frame, or a full ring: -1, and the frame is dropped.
IntelSend(f) ==
    /\ tdh' = IF f \in Long THEN tdh ELSE HeadSeen
    /\ IF f \notin Long /\ HasRoom
       THEN /\ prepare_tx_descriptor(f)
            /\ tdt' = (tdt + 1) % TQSIZE
            /\ TDT' = IF tdt' % TQ_FLUSH_COUNT = 0 THEN tdt' ELSE TDT
       ELSE UNCHANGED <<tq, tdt, TDT>>

\* A flush that leaves a batch that is not complete to the next send.
IntelFlushBatches == TDT' = IF tdt % TQ_FLUSH_COUNT = 0 THEN tdt ELSE TDT

IntelFlush == TDT' = tdt

\* The buffers go back to the card only when the ring starts again.
ReturnAtWrap == IF rdt' = 0 THEN rdt' ELSE RDT

Returned == IF rdt' % RQ_FLUSH_COUNT = 0 THEN rdt' ELSE RDT

\* The i211 driver returns -1 for a long frame and leaves it where it is.
IntelLeaves(f) == card = "i211" /\ f \in Long

-----------------------------------------------------------------------------
(* The driver of the Realtek card.                                         *)

\* -1 for too long a frame, and while the card owns the next descriptor.  The
\* descriptor is the card's as soon as it is filled.
RtlSend(f) ==
    /\ IF f \notin Long /\ tq[tdt] = None
       THEN /\ prepare_tx_descriptor(f)
            /\ tdt' = (tdt + 1) % N_TX_DESC
            /\ TDT' = tdt'
       ELSE UNCHANGED <<tq, tdt, TDT>>
    /\ UNCHANGED tdh

\* Frames that are thrown away: the descriptor is prepared for the card
\* again, and receive returns -1.
RtlRefuses == Flagged \cup Long

-----------------------------------------------------------------------------
(* lib/network_driver.cpp: the operations of the driver in use.            *)

send(f) == /\ IF card = "realtek" THEN RtlSend(f) ELSE IntelSend(f)
           /\ UNCHANGED <<TDH, sent>>

flush == /\ IF card = "realtek" THEN UNCHANGED TDT ELSE IntelFlush
         /\ UNCHANGED <<tq, tdt, tdh, TDH, sent>>

NextFrame == rq[(rdt + 1) % RxSize]

Refused == IF card = "realtek" THEN RtlRefuses ELSE {}

Waiting == NextFrame # None /\ ~IntelLeaves(NextFrame)

\* A driver that leaves a refused frame to the card as it is.
AdvanceStays == /\ rdt' = IF NextFrame \in Refused THEN rdt ELSE (rdt + 1) % RxSize
                /\ prepare_rx_descriptor(rdt')
                /\ RDT' = IF card = "realtek" THEN rdt' ELSE Returned
                /\ UNCHANGED RDH

\* The descriptor is given back and the driver goes on to the next one.
Advance == /\ rdt' = (rdt + 1) % RxSize
           /\ prepare_rx_descriptor(rdt')
           /\ RDT' = IF card = "realtek" THEN rdt' ELSE Returned
           /\ UNCHANGED RDH

\* Giving the descriptor back before the frame is copied.
ReceiveCleared == /\ Waiting /\ NextFrame \notin Refused
                  /\ Advance
                  /\ received' = rq'[rdt']

receive == /\ Waiting /\ NextFrame \notin Refused
           /\ Advance
           /\ received' = NextFrame

ReceiveRefused == /\ Waiting /\ NextFrame \in Refused
                  /\ Advance
                  /\ UNCHANGED received

-----------------------------------------------------------------------------
(* The loop above the driver.                                              *)

\* A send that does not note that there is something to flush.
PhySendStaysFlushed(f) ==
    /\ active' = TRUE
    /\ UNCHANGED flushed
    /\ send(f)

\* The send handler makes the scheduler active.
ducknet_phy_send(f) ==
    /\ active' = TRUE
    /\ flushed' = FALSE
    /\ send(f)

\* The driver's flush returns 0.
ducknet_phy_flush ==
    /\ flushed' = TRUE
    /\ IF flushed THEN UNCHANGED txVars ELSE flush

\* phy_idle, on a call that is the 128th or comes 0.1 ms after the last flush.
PhyIdleFlush ==
    /\ phase = "idle"
    /\ phase' = "work"
    /\ ducknet_phy_flush
    /\ UNCHANGED <<card, active, rxVars>>

\* phy_idle on the other calls.
PhyIdleSkip ==
    /\ phase = "idle"
    /\ phase' = "work"
    /\ UNCHANGED <<card, active, flushed, txVars, rxVars>>

\* ARP requests, packets whose address became known, and answers.
Send(f) ==
    /\ phase \in {"work", "answer"}
    /\ ducknet_phy_send(f)
    /\ UNCHANGED <<card, phase, rxVars>>

\* The receive handler makes the scheduler active.
Receive ==
    /\ phase = "work"
    /\ phase' = "answer"
    /\ receive
    /\ active' = TRUE
    /\ UNCHANGED <<card, flushed, txVars>>

ReceiveNone ==
    /\ phase = "work"
    /\ ~Waiting
    /\ phase' = "answer"
    /\ UNCHANGED <<card, active, flushed, txVars, rxVars>>

\* The network stack sees -1, as if there had been no frame.
ReceiveDrop ==
    /\ phase = "work"
    /\ phase' = "answer"
    /\ ReceiveRefused
    /\ UNCHANGED <<card, active, flushed, txVars>>

\* idle(): set_idle; the idle time counts from the iteration in which the
\* scheduler became idle, so that it is 0 there and the loop goes on.
Stay ==
    /\ phase = "answer"
    /\ phase' = "idle"
    /\ active' = FALSE
    /\ UNCHANGED <<card, flushed, txVars, rxVars>>

\* idle() after 1 ms without a frame: flush, then sleep.
Sleep ==
    /\ phase = "answer"
    /\ ~active
    /\ phase' = "asleep"
    /\ ducknet_phy_flush
    /\ UNCHANGED <<card, active, rxVars>>

\* The one-shot timer ends the sleep.
WakeUp ==
    /\ phase = "asleep"
    /\ phase' = "idle"
    /\ UNCHANGED <<card, active, flushed, txVars, rxVars>>

-----------------------------------------------------------------------------
(* The card.                                                               *)

CardSend ==
    /\ IF card = "realtek" THEN tq[TDH] # None ELSE TDH # TDT
    /\ sent' = tq[TDH]
    /\ tq' = [tq EXCEPT ![TDH] = None]
    /\ TDH' = (TDH + 1) % TxSize
    /\ UNCHANGED <<card, loopVars, tdt, tdh, TDT, rxVars>>

CardHasBuffer == IF card = "realtek" THEN rq[RDH] = None ELSE RDH # RDT

\* Without a free descriptor the card drops the frame.
CardReceive(f) ==
    /\ CardHasBuffer
    /\ rq' = [rq EXCEPT ![RDH] = f]
    /\ RDH' = (RDH + 1) % RxSize
    /\ UNCHANGED <<card, loopVars, txVars, rdt, RDT, received>>

Next == \/ PhyIdleFlush
        \/ PhyIdleSkip
        \/ \E f \in Frame : Send(f)
        \/ Receive
        \/ ReceiveNone
        \/ ReceiveDrop
        \/ Stay
        \/ Sleep
        \/ WakeUp
        \/ CardSend
        \/ \E f \in Frame : CardReceive(f)

\* The loop runs on (the sends of one iteration are finitely many), it
\* flushes at the latest on every 128th iteration, and the card works.
Fairness == /\ SF_vars(PhyIdleFlush)
            /\ WF_vars(Receive \/ ReceiveNone \/ ReceiveDrop)
            /\ WF_vars(Stay \/ Sleep)
            /\ WF_vars(WakeUp)
            /\ WF_vars(CardSend)

Spec == Init /\ [][Next]_vars /\ Fairness

-----------------------------------------------------------------------------
(* Properties.                                                             *)

\* The variables have their types.
TypeOK ==
    /\ card \in Cards
    /\ phase \in {"idle", "work", "answer", "asleep"}
    /\ {active, flushed} \subseteq BOOLEAN
    /\ tq \in [0 .. TxSize - 1 -> Frame \cup {None}]
    /\ {tdt, tdh, TDT, TDH} \subseteq 0 .. TxSize - 1
    /\ rq \in [0 .. RxSize - 1 -> Frame \cup {None}]
    /\ {rdt, RDT, RDH} \subseteq 0 .. RxSize - 1
    /\ {sent, received} \subseteq Frame \cup {None}

\* The contents of a ring of n descriptors from index a up to index b: the
\* whole ring when there is a frame where both meet.
Between(ring, n, a, b) ==
    [i \in 1 .. (IF a = b /\ ring[a] # None THEN n ELSE (b - a + n) % n)
        |-> ring[(a + i - 1) % n]]

TxQueue == INSTANCE FrameQueue
           WITH out <- sent, refused <- {},
                q <- Between(tq, TxSize, TDH, tdt)

RxQueue == INSTANCE FrameQueue
           WITH out <- received, refused <- Refused,
                q <- Between(rq, RxSize, (rdt + 1) % RxSize, RDH)

\* The card sends exactly the frames that send accepted, in their order: no
\* descriptor is reused before the card is done with it, although the Intel
\* drivers work with an old copy of the head.
TxIsFifo == TxQueue!Spec

\* The driver receives exactly the frames that the card stored, in their
\* order, but for those that the Realtek driver throws away: the card never
\* writes into a buffer that was not read.
RxIsFifo == RxQueue!Spec

\* When every frame that arrived was read, the card has a free descriptor
\* for the next one, although the driver gives buffers back in batches.
CanReceive == RDH = (rdt + 1) % RxSize /\ rq[RDH] = None => CardHasBuffer

\* The processor never sleeps on a frame that the card was not told of,
\* although phy.cpp skips a flush when it believes there is nothing to flush.
AsleepFlushed == phase = "asleep" => TDT = tdt

\* A frame that was accepted for sending is sent, although the driver only
\* tells the card of batches.
AcceptedIsSent ==
    \A i \in 0 .. TQSIZE - 1 : TDH = i /\ tq[i] # None ~> TDH # i

\* A frame that arrived is received or thrown away: none blocks the ring.
ArrivedIsReceived ==
    \A i \in 0 .. RQSIZE - 1 : rdt = i /\ rq[(i + 1) % RxSize] # None ~> rdt # i

=============================================================================
