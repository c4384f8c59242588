------------------------------ MODULE Ducknet ------------------------------
(***************************************************************************)
(* The network stack under the judge server (ducknet/lib): the main loop   *)
(* of ducknet_step, the ARP table and the table of outstanding ARP         *)
(* queries, and the IPv4 packets that wait for an address.                 *)
(*                                                                         *)
(* One iteration of the loop is the sequence of phases                     *)
(*    "idle" -> ("tosend" -> ... ->) "recv" .                              *)
(* The loop is single threaded; it is cut into actions only so that each   *)
(* emits at most one frame, which the variable wire shows.                 *)
(*                                                                         *)
(* Time.  ducknet_gettime reads the time stamp counter with the constraint *)
(* "=A", which on x86-64 names one register and not a pair: the value      *)
(* returned is %rax, the low 32 bits of the counter.  clock is therefore a *)
(* number below Wrap (2^32 cycles), while expiry times are computed in 64  *)
(* bits and are not reduced.                                               *)
(***************************************************************************)
EXTENDS Integers, Sequences, FiniteSets, SequencesExt

CONSTANTS
    Client,         \* the hosts that send datagrams to the server
    IP,             \* IPv4 addresses, as numbers: the tables are ordered by them
    MAC,            \* Ethernet addresses
    Announced,      \* the pairs <<ip, mac>> that arrive in ARP replies
    ArpTableSize,   \* entries of arp_table and of arp_query_table
    TosendSize,     \* packets that can wait for an address
    Wrap,           \* number of values of the clock
    ArpTimeout, QueryTimeout, TosendTimeout, \* in clock units
    NoMac, Free, NoFrame                     \* model values

ASSUME DucknetAssumption ==
    /\ IP \subseteq Nat
    /\ Client \subseteq IP
    /\ Announced \subseteq IP \X MAC
    /\ NoMac \notin MAC
    /\ {ArpTableSize, TosendSize, Wrap, QueryTimeout, TosendTimeout}
          \subseteq Nat \ {0}
    \* 30 s are more than 2^32 cycles of any counter faster than 0.15 GHz
    /\ ArpTimeout \in Nat /\ ArpTimeout >= Wrap

VARIABLES
    phase,     \* where ducknet_step is
    cursor,    \* the slot the loop of ducknet_ipv4_idle looks at
    clock,     \* ducknet_currenttime
    arp,       \* arp_table[0 .. n_arp_entries - 1]
    queries,   \* arp_query_table[0 .. n_arp_queries - 1]
    tosend,    \* tosend_table and tosend_free
    wire,      \* the frame handed to the driver by the last action
    learned    \* history: the MAC last announced for each address

vars == <<phase, cursor, clock, arp, queries, tosend, wire, learned>>

Time  == 0 .. Wrap - 1
Slots == 1 .. TosendSize

Entry == [ip : IP, mac : MAC, expire : Nat]
Query == [ip : IP, expire : Nat]
Frame == [kind : {"request"}, ip : IP] \cup [kind : {"reply"}, mac : MAC]
            \cup [kind : {"ipv4"}, ip : IP, mac : MAC]

Init == /\ phase = "idle"
        /\ cursor = 1
        /\ clock \in Time
        /\ arp = <<>>
        /\ queries = <<>>
        /\ tosend = [s \in Slots |-> Free]
        /\ wire = NoFrame
        /\ learned = [ip \in IP |-> NoMac]

-----------------------------------------------------------------------------
(* The two ordered tables of arp.cpp.                                      *)

\* A search whose comparison is the wrong one of the two.
SearchUpper(table, ip) ==
    LET half[lr \in (0 .. Len(table)) \X (-1 .. Len(table) - 1)] ==
            LET l == lr[1]  r == lr[2]  mid == (l + r) \div 2
            IN  IF l >= r THEN l
                ELSE IF table[mid + 1].ip <= ip THEN half[<<mid + 1, r>>]
                                               ELSE half[<<l, mid>>]
    IN  half[<<0, Len(table) - 1>>]

\* The binary search of ducknet_arp_update, _lookup and _query, from 0.  Its
\* right end is the last entry, not the end of the table, so it never answers
\* "after the last entry" of a table that is not empty.
Search(table, ip) ==
    LET half[lr \in (0 .. Len(table)) \X (-1 .. Len(table) - 1)] ==
            LET l == lr[1]  r == lr[2]  mid == (l + r) \div 2
            IN  IF l >= r THEN l
                ELSE IF table[mid + 1].ip < ip THEN half[<<mid + 1, r>>]
                                               ELSE half[<<l, mid>>]
    IN  half[<<0, Len(table) - 1>>]

Found(table, ip) ==
    LET l == Search(table, ip)
    IN  l < Len(table) /\ table[l + 1].ip = ip

Full(table) == Len(table) = ArpTableSize

Inserted(table, e) == InsertAt(table, Search(table, e.ip) + 1, e)

ducknet_arp_lookup(ip) ==
    IF Found(arp, ip) THEN arp[Search(arp, ip) + 1].mac ELSE NoMac

\* An update that forgets that the table is full.
UpdateUnchecked(ip, mac) ==
    LET e == [ip |-> ip, mac |-> mac, expire |-> clock + ArpTimeout]
    IN  arp' = IF Found(arp, ip)
               THEN [arp EXCEPT ![Search(arp, ip) + 1] = e]
               ELSE Inserted(arp, e)

\* An update that keeps the address it already had.
UpdateKeepsOld(ip, mac) ==
    LET e == [ip |-> ip, mac |-> mac, expire |-> clock + ArpTimeout]
    IN  arp' = IF Found(arp, ip) \/ Full(arp) THEN arp ELSE Inserted(arp, e)

ducknet_arp_update(ip, mac) ==
    LET e == [ip |-> ip, mac |-> mac, expire |-> clock + ArpTimeout]
    IN  arp' = IF Found(arp, ip)
               THEN [arp EXCEPT ![Search(arp, ip) + 1] = e]
               ELSE IF Full(arp) THEN arp ELSE Inserted(arp, e)

\* The loops of ducknet_arp_idle: the entries that are kept move up.
Unexpired(table, now) ==
    LET kept[i \in 0 .. Len(table)] ==
            IF i = 0 THEN <<>>
            ELSE IF now > table[i].expire THEN kept[i - 1]
                 ELSE Append(kept[i - 1], table[i])
    IN  kept[Len(table)]

-----------------------------------------------------------------------------
(* ARP requests and IPv4 packets out.                                      *)

ducknet_arp_query(ip) ==
    LET asks == ~Found(queries, ip) /\ ~Full(queries)
    IN  /\ queries' = IF asks
                      THEN Inserted(queries, [ip |-> ip,
                                              expire |-> clock + QueryTimeout])
                      ELSE queries
        /\ wire' = IF asks THEN [kind |-> "request", ip |-> ip] ELSE NoFrame

IPv4Frame(ip) == [kind |-> "ipv4", ip |-> ip, mac |-> ducknet_arp_lookup(ip)]

\* Slot 0: no slot is free.
find_tosend_free ==
    LET free == {s \in Slots : tosend[s] = Free}
    IN  IF free = {} THEN 0 ELSE CHOOSE s \in free : \A z \in free : s <= z

\* fits: the packet is not longer than the MTU (ipv4_build_packet).  A packet
\* that waits asks for the address of its destination whether or not it then
\* finds room, and whether or not the request could be made.
ducknet_ipv4_send(ip, fits) ==
    \/ /\ ducknet_arp_lookup(ip) # NoMac
       /\ wire' = IF fits THEN IPv4Frame(ip) ELSE NoFrame
       /\ UNCHANGED <<queries, tosend>>
    \/ /\ ducknet_arp_lookup(ip) = NoMac
       /\ ducknet_arp_query(ip)
       /\ tosend' = IF fits /\ find_tosend_free # 0
                    THEN [tosend EXCEPT ![find_tosend_free] =
                              [ip |-> ip, expire |-> clock + TosendTimeout]]
                    ELSE tosend

-----------------------------------------------------------------------------
(* ducknet_step: ducknet_idle, then one received frame.  (phy_idle and the *)
(* server's own idle(), which flush the card, are in module NicRing.)      *)

\* ducknet_idle with the counter read as t.  Both arp_idle and
\* ipv4_idle do their work when more than 0.1 ms passed (a change of clock
\* is at least that), and otherwise only on every 128th or 1024th call.
Idle(t) ==
    /\ phase = "idle"
    /\ clock' = t
    /\ \/ /\ arp' = Unexpired(arp, t)
          /\ queries' = Unexpired(queries, t)
       \/ t = clock /\ UNCHANGED <<arp, queries>>
    /\ \/ phase' = "tosend"
       \/ t = clock /\ phase' = "recv"
    /\ cursor' = 1
    /\ wire' = NoFrame
    /\ UNCHANGED <<tosend, learned>>

\* One iteration of the loop of ducknet_ipv4_idle.
Tosend ==
    /\ phase = "tosend"
    /\ LET p == tosend[cursor]
       IN  \/ /\ p = Free
              /\ wire' = NoFrame
              /\ UNCHANGED <<queries, tosend>>
           \/ /\ p # Free
              /\ clock > p.expire
              /\ tosend' = [tosend EXCEPT ![cursor] = Free]
              /\ wire' = NoFrame
              /\ UNCHANGED queries
           \/ /\ p # Free
              /\ clock <= p.expire
              /\ ducknet_arp_lookup(p.ip) # NoMac
              /\ tosend' = [tosend EXCEPT ![cursor] = Free]
              /\ wire' = IPv4Frame(p.ip)
              /\ UNCHANGED queries
           \/ /\ p # Free
              /\ clock <= p.expire
              /\ ducknet_arp_lookup(p.ip) = NoMac
              /\ ducknet_arp_query(p.ip)
              /\ UNCHANGED tosend
    /\ IF cursor = TosendSize
       THEN phase' = "recv" /\ cursor' = 1
       ELSE phase' = phase /\ cursor' = cursor + 1
    /\ UNCHANGED <<clock, arp, learned>>

\* Nothing was received, or a frame that no layer accepts: for another host,
\* of another protocol, too short, malformed.
RecvNone ==
    /\ phase = "recv"
    /\ phase' = "idle"
    /\ wire' = NoFrame
    /\ UNCHANGED <<cursor, clock, arp, queries, tosend, learned>>

\* An ARP reply, asked for or not.
RecvArpReply(ip, mac) ==
    /\ phase = "recv"
    /\ phase' = "idle"
    /\ ducknet_arp_update(ip, mac)
    /\ learned' = [learned EXCEPT ![ip] = mac]
    /\ wire' = NoFrame
    /\ UNCHANGED <<cursor, clock, queries, tosend>>

\* An ARP request for the server's address, answered to the Ethernet address
\* it names.  The sender's addresses are not learnt.
RecvArpRequest(mac) ==
    /\ phase = "recv"
    /\ phase' = "idle"
    /\ wire' = [kind |-> "reply", mac |-> mac]
    /\ UNCHANGED <<cursor, clock, arp, queries, tosend, learned>>

\* A datagram of the judge protocol or an echo request: its answer is sent.
RecvDatagram(ip, fits) ==
    /\ phase = "recv"
    /\ phase' = "idle"
    /\ ducknet_ipv4_send(ip, fits)
    /\ UNCHANGED <<cursor, clock, arp, learned>>

Recv == \/ RecvNone
        \/ \E a \in Announced : RecvArpReply(a[1], a[2])
        \/ \E mac \in MAC : RecvArpRequest(mac)
        \/ \E ip \in Client, fits \in BOOLEAN : RecvDatagram(ip, fits)

Next == \/ \E t \in Time : Idle(t)
        \/ Tosend
        \/ Recv

Spec == Init /\ [][Next]_vars

\* ducknet_mainloop never stops, and the counter shows every value again and
\* again while it runs.
FairSpec == Spec /\ WF_vars(Next) /\ \A t \in Time : SF_vars(Idle(t))

-----------------------------------------------------------------------------
(* Properties.                                                             *)

\* The variables have their types: in particular the tables of arp.cpp stay
\* within their arrays.
TypeOK ==
    /\ phase \in {"idle", "tosend", "recv"}
    /\ cursor \in Slots
    /\ clock \in Time
    /\ arp \in Seq(Entry) /\ Len(arp) <= ArpTableSize
    /\ queries \in Seq(Query) /\ Len(queries) <= ArpTableSize
    /\ \A s \in Slots : tosend[s] # Free => tosend[s] \in Query
    /\ wire \in Frame \cup {NoFrame}
    /\ learned \in [IP -> MAC \cup {NoMac}]

\* An IPv4 frame goes to the Ethernet address announced last for its
\* destination, although the search can leave a second, older entry for the
\* same destination in the table.
AddressedToLatest ==
    wire # NoFrame /\ wire.kind = "ipv4" => wire.mac = learned[wire.ip]

\* Every entry of the two tables but the one in the last place is found by
\* the search, and at its own place.  (The search inserts an address larger
\* than all others before the last entry, which can then no longer be found.)
StoredIsFound ==
    \A table \in {arp, queries} :
        \A i \in 1 .. Len(table) - 1 : Search(table, table[i].ip) = i - 1

\* A packet that waits for an address leaves its slot, sent or given up after
\* TOSEND_TIMEOUT_MS.
WaitingEnds == \A s \in Slots : tosend[s] # Free ~> tosend[s] = Free

=============================================================================
