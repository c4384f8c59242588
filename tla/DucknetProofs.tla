----------------------------- MODULE DucknetProofs -----------------------------
(***************************************************************************)
(* The tables of the network stack, for every table size, every set of     *)
(* hosts and every order of announcements, datagrams and timeouts.         *)
(***************************************************************************)
EXTENDS Ducknet, SequenceTheorems, WellFoundedInduction, TLAPS

-----------------------------------------------------------------------------
(* Induction.  Nothing is assumed of the property but that it describes a  *)
(* set.                                                                    *)

\* A set of numbers that is not empty has a least element.
LEMMA LeastNumber ==
    ASSUME NEW T \in SUBSET Nat, T # {}
    PROVE  \E x \in T : \A y \in T : x <= y
<1>1. PICK x \in T : \A y \in T : ~ (<<y, x>> \in OpToRel(<, Nat))
  BY NatLessThanWellFounded, WFMin
<1>2. \A y \in T : ~ (y < x)
  BY <1>1 DEF OpToRel
<1> QED BY <1>2

\* A set that holds 0 and with each number the next one holds all up to n.
LEMMA Steps ==
    ASSUME NEW n \in Nat, NEW T, 0 \in T, \A i \in 1 .. n : i - 1 \in T => i \in T
    PROVE  \A i \in 0 .. n : i \in T
<1> SUFFICES ASSUME NEW j \in 0 .. n, j \notin T PROVE FALSE
  OBVIOUS
<1> DEFINE Out == {i \in 0 .. n : i \notin T}
<1>1. Out \in SUBSET Nat /\ Out # {}
  OBVIOUS
<1>2. PICK x \in Out : \A y \in Out : x <= y
  BY <1>1, LeastNumber
<1>3. x \in 1 .. n /\ x - 1 \notin Out
  BY <1>2
<1> QED BY <1>2, <1>3

\* What the rounds of a loop do to a value of S.
Loop(n, S, F) == F \in [(1 .. n) \X S -> S]

\* A value can be carried through n rounds.
LEMMA Rounds ==
    ASSUME NEW S, NEW c \in S, NEW n \in Nat, NEW F, Loop(n, S, F)
    PROVE  \E f \in [0 .. n -> S] :
              f[0] = c /\ \A k \in 1 .. n : f[k] = F[<<k, f[k - 1]>>]
<1> DEFINE Carried(m, f) == f[0] = c /\ \A k \in 1 .. m : f[k] = F[<<k, f[k - 1]>>]
           T == {m \in 0 .. n : \E f \in [0 .. m -> S] : Carried(m, f)}
<1>1. 0 \in T
  <2> DEFINE g == [k \in 0 .. 0 |-> c]
  <2>1. g \in [0 .. 0 -> S] /\ g[0] = c
    OBVIOUS
  <2> HIDE DEF g
  <2>2. Carried(0, g)
    BY <2>1
  <2> HIDE DEF Carried
  <2> QED BY <2>1, <2>2
<1>2. ASSUME NEW i \in 1 .. n, i - 1 \in T PROVE i \in T
  <2>1. PICK f \in [0 .. i - 1 -> S] : Carried(i - 1, f)
    BY <1>2
  <2> DEFINE g == [k \in 0 .. i |-> IF k = i THEN F[<<i, f[i - 1]>>] ELSE f[k]]
  <2>2. f[i - 1] \in S
    BY <2>1
  <2>3. g \in [0 .. i -> S]
    BY <2>1, <2>2 DEF Loop
  <2>4. g[i] = F[<<i, f[i - 1]>>] /\ \A k \in 0 .. i - 1 : g[k] = f[k]
    OBVIOUS
  <2> HIDE DEF g
  <2>5. g[0] = c
    BY <2>1, <2>4
  <2>6. \A k \in 1 .. i : g[k] = F[<<k, g[k - 1]>>]
    <3> TAKE k \in 1 .. i
    <3>1. CASE k = i
      BY <2>4, <3>1
    <3>2. CASE k # i
      <4>1. k \in 1 .. i - 1 /\ k \in 0 .. i - 1 /\ k - 1 \in 0 .. i - 1
        BY <3>2
      <4> QED BY <2>1, <2>4, <4>1
    <3> QED BY <3>1, <3>2
  <2> QED BY <2>3, <2>5, <2>6
<1> HIDE DEF T
<1>3. n \in T
  BY <1>1, <1>2, Steps
<1> QED BY <1>3 DEF T

-----------------------------------------------------------------------------
(* The binary search *)

\* The first n entries have addresses, and are in their order.
Addressed(table, n) == \A i \in 1 .. n : table[i].ip \in Nat
Increasing(table, n) == \A i, j \in 1 .. n : i < j => table[i].ip < table[j].ip

\* The entries before the last one are in order.
Ordered(table) == Increasing(table, Len(table) - 1)

\* Where an address belongs among the entries l + 1 .. r.
Cut(table, ip, l, r, k) ==
    /\ k \in l .. r
    /\ \A i \in l + 1 .. k : table[i].ip < ip
    /\ k < r => table[k + 1].ip >= ip

\* There is one such place.
LEMMA CutExists ==
    ASSUME NEW table, NEW ip \in Nat, NEW n \in Nat,
           Addressed(table, n),
           NEW l \in Nat, NEW r \in Nat, l <= r, r <= n
    PROVE  \E k \in Nat : Cut(table, ip, l, r, k)
<1> DEFINE T == {k \in l .. r : k = r \/ table[k + 1].ip >= ip}
<1>1. T \in SUBSET Nat /\ r \in T
  OBVIOUS
<1>2. PICK k \in T : \A y \in T : k <= y
  BY <1>1, LeastNumber
<1>3. ASSUME NEW i \in l + 1 .. k PROVE table[i].ip < ip
  <2>1. i - 1 \in l .. r /\ i - 1 # r /\ i \in 1 .. n /\ (i - 1) + 1 = i /\ i - 1 < k
    BY <1>2
  <2>2. i - 1 \notin T
    BY <1>2, <2>1
  <2> QED BY <2>1, <2>2 DEF Addressed
<1>4. k \in l .. r /\ (k < r => table[k + 1].ip >= ip) /\ k \in Nat
  BY <1>2
<1> QED BY <1>3, <1>4 DEF Cut

CutOf(table, ip, l, r) == CHOOSE k \in Nat : Cut(table, ip, l, r, k)

\* There are no two such places.
LEMMA CutUnique ==
    ASSUME NEW table, NEW ip \in Nat, NEW n \in Nat,
           Addressed(table, n),
           NEW l \in Nat, NEW r \in Nat, r <= n, NEW j, NEW k,
           Cut(table, ip, l, r, j), Cut(table, ip, l, r, k)
    PROVE  j = k
<1>1. j \in l .. r /\ k \in l .. r
  BY DEF Cut
<1>2. ASSUME j < k PROVE FALSE
  <2>1. j + 1 \in l + 1 .. k /\ j < r /\ j + 1 \in 1 .. n
    BY <1>1, <1>2
  <2> QED BY <2>1 DEF Cut, Addressed
<1>3. ASSUME k < j PROVE FALSE
  <2>1. k + 1 \in l + 1 .. j /\ k < r /\ k + 1 \in 1 .. n
    BY <1>1, <1>3
  <2> QED BY <2>1 DEF Cut, Addressed
<1> QED BY <1>1, <1>2, <1>3

\* The place in one half is the place in the whole.
LEMMA CutHalves ==
    ASSUME NEW table, NEW ip \in Nat, NEW n \in Nat,
           Addressed(table, n), Increasing(table, n),
           NEW l \in Nat, NEW r \in Nat, NEW mid \in Nat, l <= mid, mid < r, r <= n, NEW k
    PROVE  /\ table[mid + 1].ip < ip /\ Cut(table, ip, mid + 1, r, k) => Cut(table, ip, l, r, k)
           /\ ~ (table[mid + 1].ip < ip) /\ Cut(table, ip, l, mid, k) => Cut(table, ip, l, r, k)
<1>1. ASSUME table[mid + 1].ip < ip, Cut(table, ip, mid + 1, r, k)
      PROVE  Cut(table, ip, l, r, k)
  <2>1. k \in mid + 1 .. r /\ (k < r => table[k + 1].ip >= ip)
    BY <1>1 DEF Cut
  <2>2. ASSUME NEW i \in l + 1 .. k PROVE table[i].ip < ip
    <3>1. CASE i \in mid + 2 .. k
      BY <1>1, <3>1 DEF Cut
    <3>2. CASE i = mid + 1
      BY <1>1, <3>2
    <3>3. CASE i < mid + 1
      <4>1. i \in 1 .. n /\ mid + 1 \in 1 .. n
        BY <2>1, <3>3
      <4>2. table[i].ip < table[mid + 1].ip /\ table[i].ip \in Nat /\ table[mid + 1].ip \in Nat
        BY <3>3, <4>1 DEF Addressed, Increasing
      <4> QED BY <1>1, <4>2
    <3> QED BY <2>1, <3>1, <3>2, <3>3
  <2>3. k \in l .. r
    BY <2>1
  <2> QED BY <2>1, <2>2, <2>3 DEF Cut
<1>2. ASSUME ~ (table[mid + 1].ip < ip), Cut(table, ip, l, mid, k)
      PROVE  Cut(table, ip, l, r, k)
  <2>1. k \in l .. mid /\ (k < mid => table[k + 1].ip >= ip)
        /\ \A i \in l + 1 .. k : table[i].ip < ip
    BY <1>2 DEF Cut
  <2>2. mid + 1 \in 1 .. n
    OBVIOUS
  <2>3. k \in l .. r /\ table[k + 1].ip >= ip
    BY <1>2, <2>1, <2>2 DEF Addressed
  <2> QED BY <2>1, <2>3 DEF Cut
<1> QED BY <1>1, <1>2

\* The domain of the search and what one of its rounds does.
Ends(table) == (0 .. Len(table)) \X (-1 .. Len(table) - 1)
Halve(table, ip, f, lr) ==
    LET l == lr[1]  r == lr[2]  mid == (l + r) \div 2
    IN  IF l >= r THEN l
        ELSE IF table[mid + 1].ip < ip THEN f[<<mid + 1, r>>]
                                       ELSE f[<<l, mid>>]

\* The middle of two different ends.
LEMMA Middle ==
    ASSUME NEW l \in Nat, NEW r \in Nat, l < r
    PROVE  /\ (l + r) \div 2 \in Nat /\ l <= (l + r) \div 2 /\ (l + r) \div 2 < r
  OBVIOUS

\* The search is a function: it goes to the cut.
LEMMA SearchExists ==
    ASSUME NEW table, Len(table) \in Nat, Ordered(table), NEW ip \in Nat,
           Addressed(table, Len(table))
    PROVE  \E f : f = [lr \in Ends(table) |-> Halve(table, ip, f, lr)]
<1> DEFINE n == Len(table) - 1
           F == [lr \in Ends(table) |->
                   IF lr[1] >= lr[2] THEN lr[1]
                   ELSE CutOf(table, ip, lr[1], lr[2])]
<1>1. \A l \in 0 .. Len(table), r \in -1 .. n : <<l, r>> \in Ends(table)
  BY DEF Ends
<1>2. \A l \in 0 .. Len(table), r \in -1 .. n :
        /\ l >= r => F[<<l, r>>] = l
        /\ l < r => F[<<l, r>>] = CutOf(table, ip, l, r)
  <2> TAKE l \in 0 .. Len(table), r \in -1 .. n
  <2>1. <<l, r>> \in Ends(table) /\ <<l, r>>[1] = l /\ <<l, r>>[2] = r
    BY <1>1
  <2>2. F[<<l, r>>] = IF <<l, r>>[1] >= <<l, r>>[2] THEN <<l, r>>[1]
                      ELSE CutOf(table, ip, <<l, r>>[1], <<l, r>>[2])
    BY <2>1, Zenon
  <2>3. F[<<l, r>>] = IF l >= r THEN l ELSE CutOf(table, ip, l, r)
    BY <2>1, <2>2, Zenon
  <2> HIDE DEF F
  <2> QED BY <2>3
<1> HIDE DEF F
<1>3. ASSUME NEW l \in 0 .. Len(table), NEW r \in -1 .. n, l <= r
      PROVE  Cut(table, ip, l, r, F[<<l, r>>])
  <2>1. CASE l = r
    <3>1. F[<<l, r>>] = l
      BY <1>2, <1>3, <2>1
    <3> QED BY <2>1, <3>1 DEF Cut
  <2>2. CASE l < r
    <3>1. \E k \in Nat : Cut(table, ip, l, r, k)
      <4>1. l \in Nat /\ r \in Nat /\ r <= Len(table)
        BY <2>2
      <4> QED BY <1>3, <4>1, CutExists
    <3>2. F[<<l, r>>] = CutOf(table, ip, l, r)
      BY <1>2, <2>2
    <3> QED BY <3>1, <3>2, Zenon DEF CutOf
  <2> QED BY <1>3, <2>1, <2>2
<1>4. ASSUME NEW l \in 0 .. Len(table), NEW r \in -1 .. n
      PROVE  F[<<l, r>>] = Halve(table, ip, F, <<l, r>>)
  <2>1. CASE l >= r
    BY <1>2, <2>1 DEF Halve
  <2>2. CASE l < r
    <3> DEFINE mid == (l + r) \div 2
    <3>1. l \in Nat /\ r \in Nat /\ mid \in Nat /\ l <= mid /\ mid < r
      BY <2>2, Middle
    <3>2. n \in Nat /\ Addressed(table, n) /\ Increasing(table, n) /\ r <= n
      BY <3>1 DEF Ordered, Addressed
    <3>3. Halve(table, ip, F, <<l, r>>)
            = IF table[mid + 1].ip < ip THEN F[<<mid + 1, r>>] ELSE F[<<l, mid>>]
      BY <2>2 DEF Halve
    <3> HIDE DEF mid, n
    <3>4. Cut(table, ip, l, r, F[<<l, r>>])
      BY <1>3, <2>2
    <3>5. CASE table[mid + 1].ip < ip
      <4>1. Cut(table, ip, mid + 1, r, F[<<mid + 1, r>>])
        <5>1. mid + 1 \in 0 .. Len(table) /\ mid + 1 <= r
          BY <3>1 DEF n
        <5> QED BY <1>3, <5>1
      <4>2. Cut(table, ip, l, r, F[<<mid + 1, r>>])
        BY <3>1, <3>2, <3>5, <4>1, CutHalves
      <4> QED BY <3>1, <3>2, <3>3, <3>4, <3>5, <4>2, CutUnique
    <3>6. CASE ~ (table[mid + 1].ip < ip)
      <4>1. Cut(table, ip, l, mid, F[<<l, mid>>])
        <5>1. mid \in -1 .. n
          BY <3>1, <3>2
        <5> QED BY <1>3, <3>1, <5>1
      <4>2. Cut(table, ip, l, r, F[<<l, mid>>])
        BY <3>1, <3>2, <3>6, <4>1, CutHalves
      <4> QED BY <3>1, <3>2, <3>3, <3>4, <3>6, <4>2, CutUnique
    <3> QED BY <3>5, <3>6
  <2> QED BY <2>1, <2>2
<1>5. F = [lr \in Ends(table) |-> Halve(table, ip, F, lr)]
  <2>1. \A lr \in Ends(table) : F[lr] = Halve(table, ip, F, lr)
    BY <1>4 DEF Ends
  <2>2. \E G : F = [lr \in Ends(table) |-> G[lr]]
    <3>1. F = [lr \in Ends(table) |-> F[lr]]
      BY DEF F
    <3> QED BY <3>1
  <2> QED BY <2>1, <2>2
<1> QED BY <1>5

\* Search returns the place of the address among the entries before the last, or
\* the last place.
LEMMA SearchCuts ==
    ASSUME NEW table, Len(table) \in Nat, Ordered(table), NEW ip \in Nat,
           Addressed(table, Len(table))
    PROVE  /\ Len(table) = 0 => Search(table, ip) = 0
           /\ Len(table) # 0 => Cut(table, ip, 0, Len(table) - 1, Search(table, ip))
<1> DEFINE n == Len(table) - 1
           f == CHOOSE g : g = [lr \in Ends(table) |-> Halve(table, ip, g, lr)]
<1>1. f = [lr \in Ends(table) |-> Halve(table, ip, f, lr)]
  BY SearchExists, Zenon
<1>2. Search(table, ip) = f[<<0, n>>]
  BY Zenon DEF Search, Ends, Halve
<1> HIDE DEF f
<1>3. ASSUME NEW l \in 0 .. Len(table), NEW r \in -1 .. n
      PROVE  f[<<l, r>>] = Halve(table, ip, f, <<l, r>>)
  <2>1. <<l, r>> \in Ends(table)
    BY DEF Ends
  <2> QED BY <1>1, <2>1
<1>4. CASE Len(table) = 0
  BY <1>2, <1>3, <1>4 DEF Halve
<1>5. CASE Len(table) # 0
  <2> DEFINE Wrong(l, r) == l <= r /\ ~ Cut(table, ip, l, r, f[<<l, r>>])
             T == {d \in Nat : \E l, r \in 0 .. n : r - l = d /\ Wrong(l, r)}
  <2>1. n \in Nat /\ Addressed(table, n) /\ Increasing(table, n)
    BY <1>5 DEF Ordered, Addressed
  <2>2. ASSUME NEW d \in T PROVE \E e \in T : e < d
    <3>1. PICK l \in 0 .. n, r \in 0 .. n : r - l = d /\ Wrong(l, r)
      BY <2>2
    <3>2. f[<<l, r>>] = Halve(table, ip, f, <<l, r>>)
      BY <1>3, <2>1, <3>1
    <3>3. l < r
      <4>1. ASSUME l = r PROVE FALSE
        <5>1. f[<<l, r>>] = l
          BY <3>2, <4>1 DEF Halve
        <5> QED BY <3>1, <4>1, <5>1 DEF Cut
      <4> QED BY <3>1, <4>1
    <3> DEFINE mid == (l + r) \div 2
    <3>4. l \in Nat /\ r \in Nat /\ mid \in Nat /\ l <= mid /\ mid < r /\ r <= n
      BY <2>1, <3>1, <3>3, Middle
    <3>5. f[<<l, r>>] = IF table[mid + 1].ip < ip THEN f[<<mid + 1, r>>] ELSE f[<<l, mid>>]
      BY <3>2, <3>3 DEF Halve
    <3>6. mid + 1 \in 0 .. n /\ mid \in 0 .. n /\ mid + 1 <= r
      BY <2>1, <3>4
    <3> HIDE DEF mid, n
    <3>7. CASE table[mid + 1].ip < ip
      <4>1. ~ Cut(table, ip, mid + 1, r, f[<<mid + 1, r>>])
        BY <2>1, <3>1, <3>4, <3>5, <3>7, CutHalves
      <4>2. Wrong(mid + 1, r)
        BY <3>6, <4>1
      <4>3. r - (mid + 1) \in Nat /\ r - (mid + 1) < d
        BY <3>1, <3>4, <3>6
      <4> HIDE DEF Wrong
      <4> QED BY <3>1, <3>6, <4>2, <4>3
    <3>8. CASE ~ (table[mid + 1].ip < ip)
      <4>1. ~ Cut(table, ip, l, mid, f[<<l, mid>>])
        BY <2>1, <3>1, <3>4, <3>5, <3>8, CutHalves
      <4>2. Wrong(l, mid)
        BY <3>4, <4>1
      <4>3. mid - l \in Nat /\ mid - l < d
        BY <3>1, <3>4
      <4> HIDE DEF Wrong
      <4> QED BY <3>1, <3>6, <4>2, <4>3
    <3> QED BY <3>7, <3>8
  <2>3. T \in SUBSET Nat
    OBVIOUS
  <2>4. T = {}
    <3> HIDE DEF T
    <3>1. ASSUME T # {} PROVE FALSE
      <4>1. PICK d \in T : \A e \in T : d <= e
        BY <2>3, <3>1, LeastNumber
      <4>2. PICK e \in T : e < d
        BY <2>2
      <4> QED BY <2>3, <4>1, <4>2
    <3> QED BY <3>1
  <2>5. ~ Wrong(0, n)
    <3>1. 0 \in 0 .. n /\ n \in 0 .. n /\ n - 0 \in Nat
      BY <2>1
    <3> HIDE DEF Wrong, n
    <3> QED BY <2>4, <3>1
  <2> QED BY <1>2, <1>5, <2>1, <2>5
<1> QED BY <1>4, <1>5

-----------------------------------------------------------------------------
(* The loop that drops what has expired *)

\* The loop's table after i entries.
Keeps(table, now, kept, i) ==
    IF i = 0 THEN <<>>
    ELSE IF now > table[i].expire THEN kept[i - 1] ELSE Append(kept[i - 1], table[i])

\* kept[i] is the table after i rounds of the loop.
Kept(S, table, now, kept) ==
    /\ kept \in [0 .. Len(table) -> Seq(S)]
    /\ kept[0] = <<>>
    /\ \A i \in 1 .. Len(table) :
          kept[i] = IF now > table[i].expire THEN kept[i - 1]
                    ELSE Append(kept[i - 1], table[i])
    /\ Unexpired(table, now) = kept[Len(table)]

\* Unexpired is the last value of a table that is built entry by entry.
LEMMA KeptTable ==
    ASSUME NEW S, NEW table \in Seq(S), NEW now
    PROVE  \E kept : Kept(S, table, now, kept)
<1> DEFINE n == Len(table)
           F == [p \in (1 .. n) \X Seq(S) |->
                   IF now > table[p[1]].expire THEN p[2] ELSE Append(p[2], table[p[1]])]
           K == CHOOSE g : g = [i \in 0 .. n |-> Keeps(table, now, g, i)]
<1>1. n \in Nat /\ <<>> \in Seq(S) /\ \A i \in 1 .. n : table[i] \in S
  OBVIOUS
<1>2. F \in [(1 .. n) \X Seq(S) -> Seq(S)]
  OBVIOUS
<1>3. \A i \in 1 .. n, s \in Seq(S) :
        F[<<i, s>>] = IF now > table[i].expire THEN s ELSE Append(s, table[i])
  <2> TAKE i \in 1 .. n, s \in Seq(S)
  <2>1. <<i, s>> \in (1 .. n) \X Seq(S) /\ <<i, s>>[1] = i /\ <<i, s>>[2] = s
    OBVIOUS
  <2>2. F[<<i, s>>] = IF now > table[<<i, s>>[1]].expire THEN <<i, s>>[2]
                      ELSE Append(<<i, s>>[2], table[<<i, s>>[1]])
    BY <2>1, Zenon
  <2> QED BY <2>1, <2>2, Zenon
<1> HIDE DEF F, n
<1>4. PICK f \in [0 .. n -> Seq(S)] :
        f[0] = <<>> /\ \A k \in 1 .. n : f[k] = F[<<k, f[k - 1]>>]
  <2> DEFINE Q == Seq(S)
             c == <<>>
  <2>1. c \in Q /\ Loop(n, Q, F)
    BY <1>1, <1>2 DEF Loop
  <2> HIDE DEF Q, c, K
  <2>2. \E f \in [0 .. n -> Q] :
          f[0] = c /\ \A k \in 1 .. n : f[k] = F[<<k, f[k - 1]>>]
    BY <1>1, <2>1, Rounds
  <2> QED BY <2>2, Zenon DEF Q, c
<1>5. f = [i \in 0 .. n |-> Keeps(table, now, f, i)]
  <2>1. ASSUME NEW i \in 0 .. n PROVE f[i] = Keeps(table, now, f, i)
    <3>1. CASE i = 0
      BY <1>4, <3>1 DEF Keeps
    <3>2. CASE i # 0
      <4>1. i \in 1 .. n /\ f[i - 1] \in Seq(S)
        BY <1>1, <3>2
      <4> QED BY <1>3, <1>4, <3>2, <4>1 DEF Keeps
    <3> QED BY <3>1, <3>2
  <2> QED BY <2>1
<1>6. K = [i \in 0 .. n |-> Keeps(table, now, K, i)]
  BY <1>5, Zenon
<1>7. Unexpired(table, now) = K[n]
  BY Zenon DEF Unexpired, Keeps, n
<1> HIDE DEF K
<1>8. /\ K[0] = <<>>
      /\ \A i \in 1 .. n : K[i] = IF now > table[i].expire THEN K[i - 1]
                                  ELSE Append(K[i - 1], table[i])
  <2>1. \A i \in 0 .. n : K[i] = Keeps(table, now, K, i)
    BY <1>6
  <2>2. 0 \in 0 .. n /\ \A i \in 1 .. n : i \in 0 .. n /\ i # 0
    BY <1>1
  <2> QED BY <2>1, <2>2 DEF Keeps
<1>9. K \in [0 .. n -> Seq(S)]
  <2> DEFINE T == {i \in 0 .. n : K[i] \in Seq(S)}
  <2>1. 0 \in T
    <3>1. 0 \in 0 .. n /\ K[0] \in Seq(S)
      BY <1>1, <1>8
    <3> QED BY <3>1
  <2>2. ASSUME NEW i \in 1 .. n, i - 1 \in T PROVE i \in T
    <3>1. K[i - 1] \in Seq(S) /\ table[i] \in S /\ i \in 0 .. n
      BY <1>1, <2>2
    <3>2. K[i] = K[i - 1] \/ K[i] = Append(K[i - 1], table[i])
      BY <1>8
    <3>3. Append(K[i - 1], table[i]) \in Seq(S)
      BY <3>1
    <3>4. K[i] \in Seq(S)
      BY <3>1, <3>2, <3>3, Zenon
    <3> QED BY <3>1, <3>4
  <2> HIDE DEF T
  <2>3. \A i \in 0 .. n : i \in T
    BY <1>1, <2>1, <2>2, Steps
  <2>4. \A i \in 0 .. n : K[i] \in Seq(S)
    BY <2>3 DEF T
  <2> QED BY <1>6, <2>4
<1> QED BY <1>7, <1>8, <1>9 DEF n, Kept

\* What was kept of the first i entries has their addresses, in order.
KeptOf(table, b, i) ==
    /\ Len(b) <= i
    /\ Addressed(b, Len(b))
    /\ \A j \in 1 .. Len(b) : \E h \in 1 .. i : b[j].ip = table[h].ip
    /\ Increasing(b, IF i = Len(table) THEN Len(b) - 1 ELSE Len(b))

\* One round of the loop keeps that.
LEMMA KeepRound ==
    ASSUME NEW S, NEW table \in Seq(S), Addressed(table, Len(table)), Ordered(table),
           NEW i \in 1 .. Len(table), NEW a \in Seq(S), KeptOf(table, a, i - 1),
           NEW b \in Seq(S), b = a \/ b = Append(a, table[i])
    PROVE  KeptOf(table, b, i)
<1> DEFINE n == Len(table)
           m == Len(a)
<1>1. /\ n \in Nat /\ i \in 1 .. n /\ m \in Nat /\ m <= i - 1
      /\ \A h \in 1 .. n : table[h] \in S /\ table[h].ip \in Nat
      /\ \A h, j \in 1 .. n - 1 : h < j => table[h].ip < table[j].ip
  BY DEF Addressed, Ordered, Increasing, KeptOf
<1>2. /\ \A j \in 1 .. m : a[j].ip \in Nat
      /\ \A j \in 1 .. m : \E h \in 1 .. i - 1 : a[j].ip = table[h].ip
      /\ \A h, j \in 1 .. m : h < j => a[h].ip < a[j].ip
  BY DEF Addressed, Increasing, KeptOf
<1>3. CASE b = a
  <2>1. Len(b) = m /\ m <= i /\ Addressed(b, m)
    BY <1>1, <1>2, <1>3 DEF Addressed
  <2>2. \A j \in 1 .. m : \E h \in 1 .. i : b[j].ip = table[h].ip
    BY <1>1, <1>2, <1>3
  <2>3. Increasing(b, m)
    BY <1>2, <1>3 DEF Increasing
  <2>4. Increasing(b, m - 1)
    <3>1. \A j \in 1 .. m - 1 : j \in 1 .. m
      BY <1>1
    <3> QED BY <2>3, <3>1 DEF Increasing
  <2> QED BY <2>1, <2>2, <2>3, <2>4 DEF KeptOf
<1>4. CASE b = Append(a, table[i])
  <2>1. /\ Len(b) = m + 1 /\ b[m + 1] = table[i]
        /\ \A j \in 1 .. m : b[j] = a[j]
    BY <1>1, <1>4
  <2> HIDE DEF m, n
  <2>2. \A j \in 1 .. m + 1 : j \in 1 .. m \/ j = m + 1
    BY <1>1
  <2>3. Len(b) <= i
    BY <1>1, <2>1
  <2>4. Addressed(b, m + 1)
    BY <1>1, <1>2, <2>1, <2>2 DEF Addressed
  <2>5. \A j \in 1 .. m + 1 : \E h \in 1 .. i : b[j].ip = table[h].ip
    <3> TAKE j \in 1 .. m + 1
    <3>1. CASE j = m + 1
      BY <1>1, <2>1, <3>1
    <3>2. CASE j \in 1 .. m
      <4>1. PICK h \in 1 .. i - 1 : a[j].ip = table[h].ip
        BY <1>2, <3>2
      <4>2. h \in 1 .. i
        BY <1>1
      <4> QED BY <2>1, <3>2, <4>1, <4>2
    <3> QED BY <2>2, <3>1, <3>2
  <2>6. Increasing(b, m)
    BY <1>2, <2>1 DEF Increasing
  <2>7. i # n => Increasing(b, m + 1)
    <3> SUFFICES ASSUME i # n, NEW x \in 1 .. m + 1, NEW y \in 1 .. m + 1, x < y
                 PROVE  b[x].ip < b[y].ip
      BY DEF Increasing
    <3>1. x \in 1 .. m
      BY <1>1
    <3>2. CASE y = m + 1
      <4>1. PICK h \in 1 .. i - 1 : a[x].ip = table[h].ip
        BY <1>2, <3>1
      <4>2. h \in 1 .. n - 1 /\ i \in 1 .. n - 1 /\ h < i
        BY <1>1
      <4> QED BY <1>1, <2>1, <3>1, <3>2, <4>1, <4>2
    <3>3. CASE y \in 1 .. m
      BY <1>2, <2>1, <3>1, <3>3
    <3> QED BY <2>2, <3>2, <3>3
  <2>8. Len(b) - 1 = m
    BY <1>1, <2>1
  <2> QED BY <2>1, <2>3, <2>4, <2>5, <2>6, <2>7, <2>8 DEF KeptOf, n
<1> QED BY <1>3, <1>4

\* The table never grows, and its entries keep their order.
LEMMA UnexpiredOrdered ==
    ASSUME NEW S, NEW table \in Seq(S), NEW now, Addressed(table, Len(table)), Ordered(table)
    PROVE  /\ Unexpired(table, now) \in Seq(S)
           /\ Len(Unexpired(table, now)) <= Len(table)
           /\ Ordered(Unexpired(table, now))
<1> DEFINE n == Len(table)
<1>1. n \in Nat
  OBVIOUS
<1>0. PICK kept : Kept(S, table, now, kept)
  BY KeptTable
<1>2. /\ kept \in [0 .. n -> Seq(S)] /\ kept[0] = <<>>
      /\ \A i \in 1 .. n : kept[i] = IF now > table[i].expire THEN kept[i - 1]
                                     ELSE Append(kept[i - 1], table[i])
      /\ Unexpired(table, now) = kept[n]
  BY <1>0 DEF Kept
<1> DEFINE T == {i \in 0 .. n : KeptOf(table, kept[i], i)}
<1>3. 0 \in T
  <2>1. Len(kept[0]) = 0
    BY <1>2, EmptySeq
  <2> QED BY <1>1, <2>1 DEF KeptOf, Addressed, Increasing
<1>4. ASSUME NEW i \in 1 .. n, i - 1 \in T PROVE i \in T
  <2>1. /\ kept[i - 1] \in Seq(S) /\ kept[i] \in Seq(S) /\ i \in 0 .. n
        /\ KeptOf(table, kept[i - 1], i - 1)
    BY <1>1, <1>2, <1>4
  <2>2. kept[i] = kept[i - 1] \/ kept[i] = Append(kept[i - 1], table[i])
    BY <1>2
  <2>3. KeptOf(table, kept[i], i)
    BY <2>1, <2>2, KeepRound
  <2> QED BY <2>1, <2>3
<1> HIDE DEF T, n
<1>5. \A i \in 0 .. n : i \in T
  BY <1>1, <1>3, <1>4, Steps
<1>6. KeptOf(table, kept[n], n) /\ kept[n] \in Seq(S)
  BY <1>1, <1>2, <1>5 DEF T
<1> QED BY <1>2, <1>6 DEF Ordered, KeptOf, n

\* When nothing has expired the table stays as it is.
LEMMA UnexpiredAll ==
    ASSUME NEW S, NEW table \in Seq(S), NEW now,
           \A i \in 1 .. Len(table) : ~ (now > table[i].expire)
    PROVE  Unexpired(table, now) = table
<1> DEFINE n == Len(table)
<1>1. n \in Nat /\ \A i \in 1 .. n : table[i] \in S
  OBVIOUS
<1>0. PICK kept : Kept(S, table, now, kept)
  BY KeptTable
<1>2. /\ kept \in [0 .. n -> Seq(S)] /\ kept[0] = <<>>
      /\ \A i \in 1 .. n : kept[i] = IF now > table[i].expire THEN kept[i - 1]
                                     ELSE Append(kept[i - 1], table[i])
      /\ Unexpired(table, now) = kept[n]
  BY <1>0 DEF Kept
<1>3. \A i \in 1 .. n : kept[i] = Append(kept[i - 1], table[i])
  BY <1>2
<1> DEFINE T == {i \in 0 .. n : Len(kept[i]) = i /\ \A j \in 1 .. i : kept[i][j] = table[j]}
<1>4. 0 \in T
  <2>1. Len(kept[0]) = 0
    BY <1>2, EmptySeq
  <2> QED BY <1>1, <2>1
<1>5. ASSUME NEW i \in 1 .. n, i - 1 \in T PROVE i \in T
  <2> DEFINE a == kept[i - 1]
             b == kept[i]
  <2>1. a \in Seq(S) /\ Len(a) = i - 1 /\ \A j \in 1 .. i - 1 : a[j] = table[j]
    BY <1>1, <1>2, <1>5
  <2>2. b = Append(a, table[i]) /\ table[i] \in S
    BY <1>1, <1>3
  <2> HIDE DEF a, b
  <2>3. Len(b) = i /\ b[i] = table[i] /\ \A j \in 1 .. i - 1 : b[j] = a[j]
    BY <2>1, <2>2
  <2>4. \A j \in 1 .. i : b[j] = table[j]
    <3>1. \A j \in 1 .. i : j \in 1 .. i - 1 \/ j = i
      OBVIOUS
    <3> QED BY <2>1, <2>3, <3>1
  <2> QED BY <2>3, <2>4 DEF b
<1> HIDE DEF T, n
<1>6. \A i \in 0 .. n : i \in T
  BY <1>1, <1>4, <1>5, Steps
<1>7. /\ kept[n] \in Seq(S) /\ Len(kept[n]) = n
      /\ \A j \in 1 .. n : kept[n][j] = table[j]
  BY <1>1, <1>2, <1>6 DEF T
<1> QED BY <1>2, <1>7, SeqEqual DEF n

-----------------------------------------------------------------------------
(* What the tables do to an entry *)

\* The search finds every entry but the last, and that one when it is in order.
Findable(table, i) ==
    i < Len(table) \/ \A j \in 1 .. i - 1 : table[j].ip < table[i].ip

\* A table of the program: addresses, in order but for the last.
Table(S, table) ==
    /\ table \in Seq(S)
    /\ Addressed(table, Len(table))
    /\ Ordered(table)

\* An entry that can be found is found at its own place.
LEMMA FoundInPlace ==
    ASSUME NEW S, NEW table, Table(S, table), NEW i \in 1 .. Len(table), Findable(table, i)
    PROVE  Search(table, table[i].ip) = i - 1
<1> DEFINE n == Len(table) - 1
           ip == table[i].ip
<1>1. /\ Len(table) \in Nat /\ n \in Nat /\ ip \in Nat /\ i - 1 \in 0 .. n
      /\ Addressed(table, Len(table)) /\ Ordered(table)
  BY DEF Table, Addressed
<1>2. \A j \in 0 + 1 .. i - 1 : table[j].ip < ip
  <2> SUFFICES ASSUME NEW j \in 1 .. i - 1 PROVE table[j].ip < ip
    OBVIOUS
  <2>1. CASE i < Len(table)
    <3>1. i \in 1 .. n /\ j \in 1 .. n /\ j < i
      BY <1>1, <2>1
    <3> QED BY <1>1, <3>1 DEF Ordered, Increasing
  <2>2. CASE ~ (i < Len(table))
    BY <2>2 DEF Findable
  <2> QED BY <2>1, <2>2
<1>3. (i - 1) + 1 = i /\ table[(i - 1) + 1].ip >= ip
  BY <1>1
<1>4. Cut(table, ip, 0, n, i - 1)
  BY <1>1, <1>2, <1>3 DEF Cut
<1>5. Cut(table, ip, 0, n, Search(table, ip))
  <2>1. Len(table) # 0
    BY <1>1
  <2> HIDE DEF ip
  <2> QED BY <1>1, <2>1, SearchCuts
<1>6. 0 \in Nat /\ n <= Len(table)
  BY <1>1
<1> HIDE DEF ip, n
<1>7. Search(table, ip) = i - 1
  BY <1>1, <1>4, <1>5, <1>6, CutUnique
<1> QED BY <1>7 DEF ip

\* What the search answers: a place before which all addresses are smaller.
LEMMA SearchPlace ==
    ASSUME NEW S, NEW table, Table(S, table), NEW ip \in Nat
    PROVE  /\ Search(table, ip) \in Nat
           /\ Len(table) = 0 => Search(table, ip) = 0
           /\ Len(table) # 0 => Search(table, ip) < Len(table)
           /\ \A i \in 1 .. Search(table, ip) : table[i].ip < ip
           /\ Search(table, ip) + 1 < Len(table) => table[Search(table, ip) + 1].ip >= ip
<1> DEFINE n == Len(table) - 1
           l == Search(table, ip)
<1>1. Len(table) \in Nat /\ Addressed(table, Len(table)) /\ Ordered(table)
  BY DEF Table
<1>2. /\ Len(table) = 0 => l = 0
      /\ Len(table) # 0 => Cut(table, ip, 0, n, l)
  BY <1>1, SearchCuts
<1> HIDE DEF l
<1>3. CASE Len(table) = 0
  BY <1>2, <1>3 DEF l
<1>4. CASE Len(table) # 0
  <2>1. l \in 0 .. n /\ (\A i \in 0 + 1 .. l : table[i].ip < ip)
        /\ (l < n => table[l + 1].ip >= ip)
    BY <1>2, <1>4 DEF Cut
  <2> QED BY <1>1, <1>4, <2>1 DEF l
<1> QED BY <1>1, <1>3, <1>4

\* An address that is found is the address of an entry that can be found.
LEMMA FoundEntry ==
    ASSUME NEW S, NEW table, Table(S, table), NEW ip \in Nat, Found(table, ip)
    PROVE  /\ Search(table, ip) + 1 \in 1 .. Len(table)
           /\ table[Search(table, ip) + 1] \in S
           /\ table[Search(table, ip) + 1].ip = ip
           /\ Findable(table, Search(table, ip) + 1)
<1> DEFINE l == Search(table, ip)
<1>1. /\ l \in Nat /\ l < Len(table) /\ table[l + 1].ip = ip
      /\ \A i \in 1 .. l : table[i].ip < ip
  BY SearchPlace DEF Found
<1>2. Len(table) \in Nat /\ table \in Seq(S)
  BY DEF Table
<1> HIDE DEF l
<1>3. l + 1 \in 1 .. Len(table) /\ (l + 1) - 1 = l
  BY <1>1, <1>2
<1>4. table[l + 1] \in S
  BY <1>2, <1>3
<1> QED BY <1>1, <1>3, <1>4 DEF Findable, l

\* An address that is not found is not the address of an entry that can be found.
LEMMA NotFound ==
    ASSUME NEW S, NEW table, Table(S, table), NEW i \in 1 .. Len(table), Findable(table, i),
           NEW ip, ~ Found(table, ip)
    PROVE  table[i].ip # ip
<1>1. Search(table, table[i].ip) = i - 1
  BY FoundInPlace
<1>2. (i - 1) + 1 = i /\ i - 1 < Len(table)
  BY DEF Table
<1> QED BY <1>1, <1>2 DEF Found

\* new is the table with e after its first l entries.
Shifted(S, table, l, e, new) ==
    /\ new \in Seq(S) /\ Len(new) = Len(table) + 1 /\ new[l + 1] = e
    /\ \A i \in 1 .. l : new[i] = table[i]
    /\ \A i \in l + 2 .. Len(table) + 1 : new[i] = table[i - 1]

\* InsertAt moves up what comes after the new entry.
LEMMA Insertion ==
    ASSUME NEW S, NEW table \in Seq(S), NEW e \in S, NEW l \in Nat, l <= Len(table)
    PROVE  Shifted(S, table, l, e, InsertAt(table, l + 1, e))
<1> DEFINE n == Len(table)
           a == SubSeq(table, 1, (l + 1) - 1)
           b == SubSeq(table, l + 1, n)
           ae == a \o <<e>>
<1>1. n \in Nat /\ (l + 1) - 1 = l
  OBVIOUS
<1>2. a \in Seq(S) /\ Len(a) = l /\ \A i \in 1 .. l : a[i] = table[i]
  BY <1>1
<1>3. b \in Seq(S) /\ Len(b) = n - l /\ \A i \in 1 .. n - l : b[i] = table[l + i]
  BY <1>1
<1> DEFINE new == InsertAt(table, l + 1, e)
<1>4. new = ae \o b
  BY Zenon DEF InsertAt
<1> HIDE DEF a, b, n, new
<1>5. /\ ae \in Seq(S) /\ Len(ae) = l + 1 /\ ae[l + 1] = e
      /\ \A i \in 1 .. l : ae[i] = a[i]
  BY <1>2
<1> HIDE DEF ae
<1>6. /\ ae \o b \in Seq(S) /\ Len(ae \o b) = n + 1
      /\ \A i \in 1 .. l + 1 : (ae \o b)[i] = ae[i]
      /\ \A i \in l + 2 .. n + 1 : (ae \o b)[i] = b[i - (l + 1)]
  BY <1>1, <1>3, <1>5, l <= n DEF n
<1>7. ASSUME NEW i \in l + 2 .. n + 1 PROVE (ae \o b)[i] = table[i - 1]
  <2>1. i - (l + 1) \in 1 .. n - l /\ l + (i - (l + 1)) = i - 1
    BY <1>1
  <2> QED BY <1>3, <1>6, <2>1
<1>8. /\ new \in Seq(S) /\ Len(new) = n + 1 /\ new[l + 1] = e
      /\ \A i \in 1 .. l : new[i] = table[i]
      /\ \A i \in l + 2 .. n + 1 : new[i] = table[i - 1]
  <2>1. \A i \in 1 .. l + 1 : new[i] = ae[i]
    BY <1>4, <1>6
  <2>2. new[l + 1] = e /\ \A i \in 1 .. l : new[i] = table[i]
    BY <1>2, <1>5, <2>1
  <2> QED BY <1>4, <1>6, <1>7, <2>2
<1>9. Shifted(S, table, l, e, new)
  BY <1>8 DEF n, Shifted
<1> QED BY <1>9, Zenon DEF new

\* Inserting an address that is not found keeps the order; what can be found
\* then is the new entry, or an entry for another address that could be found.
LEMMA InsertedTable ==
    ASSUME NEW S, NEW table, Table(S, table), NEW e \in S, e.ip \in Nat,
           ~ Found(table, e.ip)
    PROVE  /\ Table(S, Inserted(table, e))
           /\ Len(Inserted(table, e)) = Len(table) + 1
           /\ \A i \in 1 .. Len(table) + 1 :
                 Inserted(table, e)[i] = e
                   \/ \E j \in 1 .. Len(table) : Inserted(table, e)[i] = table[j]
           /\ \A i \in 1 .. Len(table) + 1 :
                 Findable(Inserted(table, e), i) =>
                   \/ Inserted(table, e)[i] = e
                   \/ \E j \in 1 .. Len(table) :
                         /\ Findable(table, j) /\ table[j].ip # e.ip
                         /\ Inserted(table, e)[i] = table[j]
<1> DEFINE l == Search(table, e.ip)
           n == Len(table)
           new == Inserted(table, e)
<1>1. /\ table \in Seq(S) /\ n \in Nat
      /\ \A i \in 1 .. n : table[i].ip \in Nat
      /\ \A i, j \in 1 .. n - 1 : i < j => table[i].ip < table[j].ip
  BY DEF Table, Ordered, Increasing, Addressed
<1>2. /\ l \in Nat /\ (n = 0 => l = 0) /\ (n # 0 => l < n)
      /\ \A i \in 1 .. l : table[i].ip < e.ip
      /\ l + 1 < n => table[l + 1].ip >= e.ip
  BY SearchPlace
<1>3. l < n => table[l + 1].ip # e.ip
  BY DEF Found
<1>4. /\ new \in Seq(S) /\ Len(new) = n + 1 /\ new[l + 1] = e
      /\ \A i \in 1 .. l : new[i] = table[i]
      /\ \A i \in l + 2 .. n + 1 : new[i] = table[i - 1]
  <2>1. table \in Seq(S) /\ l \in Nat /\ l <= Len(table)
    BY <1>1, <1>2
  <2>2. new = InsertAt(table, l + 1, e)
    BY Zenon DEF Inserted
  <2> HIDE DEF l, new
  <2>3. Shifted(S, table, l, e, InsertAt(table, l + 1, e))
    BY <2>1, Insertion
  <2>4. Shifted(S, table, l, e, new)
    BY <2>2, <2>3, Zenon
  <2> QED BY <2>4 DEF Shifted
<1> HIDE DEF l, n, new
<1>5. \A i \in 1 .. n + 1 : i \in 1 .. l \/ i = l + 1 \/ i \in l + 2 .. n + 1
  BY <1>1, <1>2
<1>6. \A i \in l + 2 .. n + 1 : i - 1 \in l + 1 .. n /\ i - 1 \in 1 .. n
  BY <1>1, <1>2
<1>7. \A i \in 1 .. l : i \in 1 .. n /\ i < n /\ i \in 1 .. n - 1
  BY <1>1, <1>2
<1>8. \A i \in 1 .. n + 1 : new[i] = e \/ \E j \in 1 .. n : new[i] = table[j]
  BY <1>4, <1>5, <1>6, <1>7
<1>9. Addressed(new, Len(new))
  BY <1>1, <1>4, <1>8 DEF Addressed
<1>10. \A j \in l + 1 .. n - 1 : e.ip < table[j].ip
  <2> TAKE j \in l + 1 .. n - 1
  <2>1. l + 1 < n /\ l < n /\ l + 1 \in 1 .. n - 1 /\ l + 1 \in 1 .. n /\ j \in 1 .. n - 1
    BY <1>1, <1>2
  <2>2. e.ip < table[l + 1].ip
    BY <1>1, <1>2, <1>3, <2>1
  <2>3. CASE j = l + 1
    BY <2>2, <2>3
  <2>4. CASE j # l + 1
    <3>1. l + 1 < j /\ j \in 1 .. n
      BY <1>1, <1>2, <2>1, <2>4
    <3>2. table[l + 1].ip < table[j].ip
      BY <1>1, <2>1, <3>1
    <3> QED BY <1>1, <2>1, <2>2, <3>1, <3>2
  <2> QED BY <2>3, <2>4
<1>11. Ordered(new)
  <2> SUFFICES ASSUME NEW x \in 1 .. n, NEW y \in 1 .. n, x < y
               PROVE  new[x].ip < new[y].ip
    <3>1. Len(new) - 1 = n
      BY <1>1, <1>4
    <3> QED BY <3>1 DEF Ordered, Increasing
  <2>1. CASE y \in 1 .. l
    <3>1. x \in 1 .. l
      BY <1>1, <1>2, <2>1
    <3>2. table[x].ip < table[y].ip
      BY <1>1, <1>7, <2>1, <3>1
    <3> QED BY <1>4, <2>1, <3>1, <3>2
  <2>2. CASE y = l + 1
    <3>1. x \in 1 .. l
      BY <1>1, <1>2, <2>2
    <3> QED BY <1>2, <1>4, <2>2, <3>1
  <2>3. CASE y \in l + 2 .. n + 1
    <3>1. y - 1 \in l + 1 .. n - 1 /\ y - 1 \in 1 .. n - 1
      BY <1>1, <1>2, <2>3
    <3>2. new[y] = table[y - 1]
      BY <1>4, <2>3
    <3>3. CASE x \in 1 .. l
      <4>1. x < y - 1 /\ x \in 1 .. n - 1
        BY <1>1, <1>2, <3>1, <3>3
      <4>2. table[x].ip < table[y - 1].ip
        BY <1>1, <3>1, <4>1
      <4> QED BY <1>4, <3>2, <3>3, <4>2
    <3>4. CASE x = l + 1
      BY <1>4, <1>10, <3>1, <3>2, <3>4
    <3>5. CASE x \in l + 2 .. n + 1
      <4>1. x - 1 \in 1 .. n - 1 /\ x - 1 < y - 1
        BY <1>1, <1>2, <3>1, <3>5
      <4>2. table[x - 1].ip < table[y - 1].ip
        BY <1>1, <3>1, <4>1
      <4> QED BY <1>4, <3>2, <3>5, <4>2
    <3> QED BY <1>1, <1>5, <3>3, <3>4, <3>5
  <2> QED BY <1>1, <1>5, <2>1, <2>2, <2>3
<1>12. ASSUME NEW i \in 1 .. n + 1, Findable(new, i)
       PROVE  \/ new[i] = e
              \/ \E j \in 1 .. n : /\ Findable(table, j) /\ table[j].ip # e.ip
                                  /\ new[i] = table[j]
  <2>1. CASE i \in 1 .. l
    <3>1. i \in 1 .. n /\ Findable(table, i) /\ table[i].ip < e.ip
      BY <1>2, <1>7, <2>1 DEF Findable, n
    <3>2. table[i].ip # e.ip
      BY <1>1, <3>1
    <3> QED BY <1>4, <2>1, <3>1, <3>2
  <2>2. CASE i = l + 1
    BY <1>4, <2>2
  <2>3. CASE i \in l + 2 .. n
    <3>1. i - 1 \in l + 1 .. n - 1 /\ i - 1 \in 1 .. n /\ i - 1 < n /\ i \in l + 2 .. n + 1
      BY <1>1, <1>2, <2>3
    <3>2. Findable(table, i - 1)
      BY <3>1 DEF Findable, n
    <3>3. e.ip < table[i - 1].ip
      BY <1>10, <3>1
    <3>4. table[i - 1].ip # e.ip
      BY <1>1, <3>1, <3>3
    <3> QED BY <1>4, <3>1, <3>2, <3>4
  <2>4. CASE i = n + 1 /\ i \in l + 2 .. n + 1
    <3>1. n \in 1 .. n /\ (n + 1) - 1 = n /\ new[n + 1] = table[n] /\ ~ (n + 1 < Len(new))
      BY <1>1, <1>2, <1>4, <2>4
    <3>2. \A h \in 1 .. n : new[h].ip < table[n].ip
      BY <1>12, <2>4, <3>1 DEF Findable
    <3>3. e.ip < table[n].ip
      <4>1. l + 1 \in 1 .. n
        BY <1>1, <1>2, <2>4
      <4> QED BY <1>4, <3>2, <4>1
    <3>4. \A j \in 1 .. n - 1 : table[j].ip < table[n].ip
      <4> TAKE j \in 1 .. n - 1
      <4>1. CASE j \in 1 .. l
        <5>1. new[j] = table[j] /\ j \in 1 .. n
          BY <1>4, <1>7, <4>1
        <5> QED BY <3>2, <5>1
      <4>2. CASE j > l
        <5>1. j + 1 \in l + 2 .. n + 1 /\ j + 1 \in 1 .. n /\ (j + 1) - 1 = j
          BY <1>1, <1>2, <4>2
        <5>2. new[j + 1] = table[j]
          BY <1>4, <5>1
        <5> QED BY <3>2, <5>1, <5>2
      <4> QED BY <1>1, <1>2, <4>1, <4>2
    <3>5. Findable(table, n)
      BY <3>4 DEF Findable
    <3>6. table[n].ip # e.ip
      BY <1>1, <3>1, <3>3
    <3> QED BY <2>4, <3>1, <3>5, <3>6
  <2> QED BY <1>1, <1>5, <2>1, <2>2, <2>3, <2>4
<1> QED BY <1>4, <1>8, <1>9, <1>11, <1>12 DEF Table, n, new

\* new is the table with e in place k.
Replaced(S, table, k, e, new) ==
    /\ new \in Seq(S) /\ Len(new) = Len(table)
    /\ \A i \in 1 .. Len(table) : new[i] = IF i = k THEN e ELSE table[i]

\* Replacing an entry by one for the same address moves nothing.
LEMMA ReplacedTable ==
    ASSUME NEW S, NEW table, Table(S, table), NEW k \in 1 .. Len(table),
           NEW e \in S, e.ip = table[k].ip, NEW new, Replaced(S, table, k, e, new)
    PROVE  /\ Table(S, new)
           /\ \A i \in 1 .. Len(table) : Findable(new, i) => Findable(table, i)
<1> DEFINE n == Len(table)
<1>1. /\ table \in Seq(S) /\ n \in Nat
      /\ Addressed(table, n) /\ Increasing(table, n - 1)
  BY DEF Table, Ordered
<1>2. /\ new \in Seq(S) /\ Len(new) = n
      /\ \A i \in 1 .. n : new[i] = IF i = k THEN e ELSE table[i]
  BY DEF Replaced
<1>3. \A i \in 1 .. n : new[i].ip = table[i].ip
  BY <1>2
<1> HIDE DEF n
<1>4. \A i \in 1 .. n - 1 : i \in 1 .. n
  BY <1>1
<1>5. Addressed(new, n) /\ Increasing(new, n - 1)
  BY <1>1, <1>3, <1>4 DEF Addressed, Increasing
<1>6. ASSUME NEW i \in 1 .. n, Findable(new, i) PROVE Findable(table, i)
  <2>1. \A j \in 1 .. i - 1 : j \in 1 .. n
    BY <1>1
  <2> QED BY <1>2, <1>3, <1>6, <2>1 DEF Findable, n
<1> QED BY <1>2, <1>5, <1>6 DEF Table, Ordered, n

-----------------------------------------------------------------------------
(* The inductive invariant *)

\* An entry that can be found holds what was announced last for its address;
\* an older one for the same address may follow it, out of order.
Fresh(table, told) ==
    \A i \in 1 .. Len(table) : Findable(table, i) => table[i].mac = told[table[i].ip]

\* No clock reading is later than the time at which the entry expires.
Lasting(table) == \A i \in 1 .. Len(table) : table[i].expire >= Wrap

TosendTypes == tosend \in [Slots -> Query \cup {Free}]

NetInv == /\ TypeOK
          /\ TosendTypes
          /\ Ordered(arp) /\ Ordered(queries)
          /\ Lasting(arp) /\ Fresh(arp, learned)
          /\ AddressedToLatest

\* Both tables of a state that satisfies the invariant are tables.
LEMMA Tables ==
    ASSUME NetInv
    PROVE  Table(Entry, arp) /\ Table(Query, queries)
<1>1. arp \in Seq(Entry) /\ queries \in Seq(Query) /\ Ordered(arp) /\ Ordered(queries)
  BY DEF NetInv, TypeOK
<1>2. \A e \in Entry : e.ip \in Nat
  BY DucknetAssumption DEF Entry
<1>3. \A e \in Query : e.ip \in Nat
  BY DucknetAssumption DEF Query
<1>4. \A i \in 1 .. Len(arp) : arp[i] \in Entry
  BY <1>1
<1>5. \A i \in 1 .. Len(queries) : queries[i] \in Query
  BY <1>1
<1> QED BY <1>1, <1>2, <1>3, <1>4, <1>5 DEF Table, Addressed

\* ducknet_arp_lookup answers what was announced last, or nothing.
LEMMA LookupIsLatest ==
    ASSUME NetInv, NEW ip \in IP, ducknet_arp_lookup(ip) # NoMac
    PROVE  /\ ducknet_arp_lookup(ip) \in MAC
           /\ ducknet_arp_lookup(ip) = learned[ip]
<1> DEFINE k == Search(arp, ip) + 1
<1>1. Found(arp, ip) /\ ducknet_arp_lookup(ip) = arp[k].mac
  BY DEF ducknet_arp_lookup
<1>2. ip \in Nat
  BY DucknetAssumption
<1>3. k \in 1 .. Len(arp) /\ arp[k] \in Entry /\ arp[k].ip = ip /\ Findable(arp, k)
  BY <1>1, <1>2, Tables, FoundEntry
<1> HIDE DEF k
<1>4. arp[k].mac = learned[ip]
  BY <1>3 DEF NetInv, Fresh
<1>5. arp[k].mac \in MAC
  BY <1>3 DEF Entry
<1> QED BY <1>1, <1>4, <1>5

\* ducknet_arp_query leaves an ordered table within its array.
LEMMA QueryStep ==
    ASSUME NetInv, NEW ip \in IP, ducknet_arp_query(ip)
    PROVE  /\ queries' \in Seq(Query) /\ Len(queries') <= ArpTableSize
           /\ Ordered(queries')
           /\ wire' = NoFrame \/ wire' = [kind |-> "request", ip |-> ip]
<1> DEFINE asks == ~ Found(queries, ip) /\ ~ Full(queries)
           e == [ip |-> ip, expire |-> clock + QueryTimeout]
<1>1. /\ queries' = IF asks THEN Inserted(queries, e) ELSE queries
      /\ wire' = IF asks THEN [kind |-> "request", ip |-> ip] ELSE NoFrame
  BY DEF ducknet_arp_query
<1>2. /\ queries \in Seq(Query) /\ Len(queries) \in Nat /\ Len(queries) <= ArpTableSize
      /\ Ordered(queries) /\ Table(Query, queries)
  BY Tables DEF NetInv, TypeOK
<1>3. CASE ~ asks
  BY <1>1, <1>2, <1>3
<1>4. CASE asks
  <2>1. clock \in Nat /\ QueryTimeout \in Nat /\ ArpTableSize \in Nat /\ ip \in Nat
    BY DucknetAssumption DEF NetInv, TypeOK, Time
  <2>2. e \in Query /\ e.ip = ip
    BY <2>1 DEF Query
  <2>3. Len(queries) + 1 <= ArpTableSize
    BY <1>2, <1>4, <2>1 DEF Full
  <2>4. queries' = Inserted(queries, e)
    BY <1>1, <1>4
  <2>5. ~ Found(queries, e.ip)
    BY <1>4, <2>2
  <2> HIDE DEF e
  <2>6. /\ Table(Query, Inserted(queries, e))
        /\ Len(Inserted(queries, e)) = Len(queries) + 1
    BY <1>2, <2>1, <2>2, <2>5, InsertedTable
  <2> QED BY <1>1, <1>4, <2>3, <2>4, <2>6 DEF Table
<1> QED BY <1>3, <1>4

\* What ducknet_arp_update does to the table when it is told a new address.
LEMMA UpdateStep ==
    ASSUME NetInv, NEW ip \in IP, NEW mac \in MAC, ducknet_arp_update(ip, mac),
           learned' = [learned EXCEPT ![ip] = mac]
    PROVE  /\ arp' \in Seq(Entry) /\ Len(arp') <= ArpTableSize
           /\ Ordered(arp') /\ Lasting(arp') /\ Fresh(arp', learned')
<1> DEFINE e == [ip |-> ip, mac |-> mac, expire |-> clock + ArpTimeout]
           k == Search(arp, ip) + 1
<1>1. arp' = IF Found(arp, ip) THEN [arp EXCEPT ![k] = e]
             ELSE IF Full(arp) THEN arp ELSE Inserted(arp, e)
  BY DEF ducknet_arp_update
<1>2. /\ arp \in Seq(Entry) /\ Len(arp) \in Nat /\ Len(arp) <= ArpTableSize
      /\ Ordered(arp) /\ Table(Entry, arp) /\ Lasting(arp) /\ Fresh(arp, learned)
      /\ learned \in [IP -> MAC \cup {NoMac}]
  BY Tables DEF NetInv, TypeOK
<1>3. /\ clock \in Nat /\ ArpTimeout \in Nat /\ ArpTimeout >= Wrap /\ Wrap \in Nat
      /\ ArpTableSize \in Nat /\ ip \in Nat
  BY DucknetAssumption DEF NetInv, TypeOK, Time
<1>4. e \in Entry /\ e.ip = ip /\ e.mac = mac /\ e.expire >= Wrap
  BY <1>3 DEF Entry
<1>5. learned'[ip] = mac /\ \A a \in IP : a # ip => learned'[a] = learned[a]
  BY <1>2
<1>6. \A i \in 1 .. Len(arp) : arp[i] \in Entry /\ arp[i].ip \in IP
  <2>1. \A i \in 1 .. Len(arp) : arp[i] \in Entry
    BY <1>2
  <2> QED BY <2>1 DEF Entry
<1> HIDE DEF e
<1>7. CASE Found(arp, ip)
  <2>1. k \in 1 .. Len(arp) /\ arp[k].ip = ip
    BY <1>2, <1>3, <1>7, FoundEntry
  <2>2. arp' = [arp EXCEPT ![k] = e]
    BY <1>1, <1>7
  <2>3. /\ Table(Entry, arp') /\ Len(arp') = Len(arp)
        /\ \A i \in 1 .. Len(arp) : arp'[i] = IF i = k THEN e ELSE arp[i]
        /\ \A i \in 1 .. Len(arp) : Findable(arp', i) => Findable(arp, i)
    <3>1. e.ip = arp[k].ip
      BY <1>4, <2>1
    <3> HIDE DEF k
    <3>2. Replaced(Entry, arp, k, e, arp')
      BY <1>2, <1>4, <2>1, <2>2 DEF Replaced
    <3>3. Table(Entry, arp') /\ \A i \in 1 .. Len(arp) : Findable(arp', i) => Findable(arp, i)
      BY <1>2, <1>4, <2>1, <3>1, <3>2, ReplacedTable
    <3> QED BY <3>2, <3>3 DEF Replaced
  <2>4. Lasting(arp')
    BY <1>2, <1>4, <2>3 DEF Lasting
  <2>5. Fresh(arp', learned')
    <3> SUFFICES ASSUME NEW i \in 1 .. Len(arp), Findable(arp', i)
                 PROVE  arp'[i].mac = learned'[arp'[i].ip]
      BY <2>3 DEF Fresh
    <3>1. CASE i = k
      BY <1>4, <1>5, <2>3, <3>1
    <3>2. CASE i # k
      <4>1. arp'[i] = arp[i] /\ Findable(arp, i)
        BY <2>3, <3>2
      <4>2. arp[i].ip # ip
        <5>1. Search(arp, arp[i].ip) = i - 1
          BY <1>2, <4>1, FoundInPlace
        <5>2. (i - 1) + 1 = i
          BY <1>2
        <5>3. ASSUME arp[i].ip = ip PROVE i = k
          <6>1. Search(arp, ip) = i - 1
            BY <5>1, <5>3, Zenon
          <6> QED BY <5>2, <6>1, Zenon
        <5> QED BY <3>2, <5>3
      <4> HIDE DEF k
      <4> QED BY <1>2, <1>5, <1>6, <4>1, <4>2 DEF Fresh
    <3> QED BY <3>1, <3>2
  <2> QED BY <1>2, <2>3, <2>4, <2>5 DEF Table
<1>8. CASE ~ Found(arp, ip) /\ Full(arp)
  <2>1. arp' = arp
    BY <1>1, <1>8
  <2>2. Fresh(arp, learned')
    <3> SUFFICES ASSUME NEW i \in 1 .. Len(arp), Findable(arp, i)
                 PROVE  arp[i].mac = learned'[arp[i].ip]
      BY DEF Fresh
    <3>1. arp[i].ip # ip
      BY <1>2, <1>8, NotFound
    <3> QED BY <1>2, <1>5, <1>6, <3>1 DEF Fresh
  <2> QED BY <1>2, <2>1, <2>2, Zenon
<1>9. CASE ~ Found(arp, ip) /\ ~ Full(arp)
  <2> DEFINE new == Inserted(arp, e)
             n == Len(arp)
  <2>1. arp' = new
    BY <1>1, <1>9
  <2>2. n + 1 <= ArpTableSize
    BY <1>2, <1>3, <1>9 DEF Full
  <2>3. ~ Found(arp, e.ip)
    BY <1>4, <1>9
  <2>4. /\ Table(Entry, new) /\ Len(new) = n + 1
        /\ \A i \in 1 .. n + 1 : new[i] = e \/ \E j \in 1 .. n : new[i] = arp[j]
        /\ \A i \in 1 .. n + 1 :
              Findable(new, i) =>
                \/ new[i] = e
                \/ \E j \in 1 .. n : /\ Findable(arp, j) /\ arp[j].ip # e.ip
                                    /\ new[i] = arp[j]
    BY <1>2, <1>3, <1>4, <2>3, InsertedTable
  <2> HIDE DEF new
  <2>5. Lasting(new)
    BY <1>2, <1>4, <2>4 DEF Lasting
  <2>6. Fresh(new, learned')
    <3> SUFFICES ASSUME NEW i \in 1 .. n + 1, Findable(new, i)
                 PROVE  new[i].mac = learned'[new[i].ip]
      BY <2>4 DEF Fresh
    <3>1. CASE new[i] = e
      BY <1>4, <1>5, <3>1
    <3>2. CASE new[i] # e
      <4>1. PICK j \in 1 .. n : Findable(arp, j) /\ arp[j].ip # ip /\ new[i] = arp[j]
        BY <1>4, <2>4, <3>2
      <4> QED BY <1>2, <1>5, <1>6, <4>1 DEF Fresh
    <3> QED BY <3>1, <3>2
  <2>7. new \in Seq(Entry) /\ Ordered(new) /\ Len(new) <= ArpTableSize
    BY <2>2, <2>4 DEF Table
  <2> QED BY <2>1, <2>5, <2>6, <2>7, Zenon
<1> QED BY <1>7, <1>8, <1>9

\* Every step of ducknet_step keeps the invariant.
LEMMA NetStep == NetInv /\ [Next]_vars => NetInv'
<1> SUFFICES ASSUME NetInv, [Next]_vars PROVE NetInv'
  OBVIOUS
<1> USE DEF TosendTypes
<1>1. ASSUME NEW t \in Time, Idle(t) PROVE NetInv'
  <2>1. Unexpired(arp, t) = arp
    <3>1. \A i \in 1 .. Len(arp) : ~ (t > arp[i].expire)
      <4>1. t < Wrap /\ t \in Nat /\ Wrap \in Nat
        BY DucknetAssumption DEF Time
      <4>2. \A i \in 1 .. Len(arp) : arp[i].expire \in Nat /\ arp[i].expire >= Wrap
        <5>1. \A i \in 1 .. Len(arp) : arp[i] \in Entry
          BY DEF NetInv, TypeOK
        <5> QED BY <5>1 DEF NetInv, Lasting, Entry
      <4> QED BY <4>1, <4>2
    <3>2. arp \in Seq(Entry)
      BY DEF NetInv, TypeOK
    <3> QED BY <3>1, <3>2, UnexpiredAll
  <2>2. arp' = arp
    BY <1>1, <2>1 DEF Idle
  <2>3. queries' \in Seq(Query) /\ Len(queries') <= ArpTableSize /\ Ordered(queries')
    <3>1. /\ queries \in Seq(Query) /\ Len(queries) \in Nat /\ Len(queries) <= ArpTableSize
          /\ Ordered(queries) /\ Addressed(queries, Len(queries))
      BY Tables DEF NetInv, TypeOK, Table
    <3>2. CASE queries' = queries
      BY <3>1, <3>2
    <3>3. CASE queries' = Unexpired(queries, t)
      <4> DEFINE u == Unexpired(queries, t)
      <4>1. u \in Seq(Query) /\ Len(u) <= Len(queries) /\ Ordered(u)
        BY <3>1, UnexpiredOrdered
      <4> HIDE DEF u
      <4>2. Len(u) \in Nat /\ ArpTableSize \in Nat
        BY <4>1, DucknetAssumption
      <4>3. Len(u) <= ArpTableSize
        BY <3>1, <4>1, <4>2
      <4>4. queries' = u
        BY <3>3 DEF u
      <4> QED BY <4>1, <4>3, <4>4, Zenon
    <3> QED BY <1>1, <3>2, <3>3 DEF Idle
  <2>4. /\ phase' \in {"tosend", "recv"} /\ cursor' = 1 /\ clock' = t
        /\ wire' = NoFrame /\ tosend' = tosend /\ learned' = learned
    BY <1>1 DEF Idle
  <2>5. 1 \in Slots
    BY DucknetAssumption DEF Slots
  <2>6. TypeOK'
    BY <2>2, <2>3, <2>4, <2>5 DEF NetInv, TypeOK
  <2>7. (Lasting(arp) /\ Fresh(arp, learned) /\ Ordered(arp) /\ TosendTypes)'
    BY <2>2, <2>4, Zenon DEF NetInv, Lasting, Fresh, Ordered, Findable, Increasing
  <2>8. AddressedToLatest'
    BY <2>4 DEF AddressedToLatest
  <2> QED BY <2>3, <2>6, <2>7, <2>8 DEF NetInv
<1>2. ASSUME Tosend PROVE NetInv'
  <2> DEFINE p == tosend[cursor]
  <2>1. arp' = arp /\ learned' = learned /\ clock' = clock
    BY <1>2 DEF Tosend
  <2>2. /\ cursor \in Slots /\ p \in Query \cup {Free}
        /\ p # Free => p \in Query /\ p.ip \in IP
    BY DEF NetInv, TypeOK, Query
  <2>3. /\ phase' \in {"tosend", "recv"} /\ cursor' \in Slots
    <3>1. cursor \in 1 .. TosendSize /\ TosendSize \in Nat /\ phase = "tosend"
      BY <1>2, <2>2, DucknetAssumption DEF Slots, Tosend
    <3>2. \/ cursor = TosendSize /\ phase' = "recv" /\ cursor' = 1
          \/ cursor # TosendSize /\ phase' = phase /\ cursor' = cursor + 1
      BY <1>2 DEF Tosend
    <3> QED BY <3>1, <3>2 DEF Slots
  <2>4. /\ tosend' \in [Slots -> Query \cup {Free}]
        /\ queries' \in Seq(Query) /\ Len(queries') <= ArpTableSize /\ Ordered(queries')
        /\ \/ wire' = NoFrame
           \/ \E ip \in IP : wire' = [kind |-> "request", ip |-> ip]
           \/ \E ip \in IP, mac \in MAC : /\ mac = learned[ip]
                                         /\ wire' = [kind |-> "ipv4", ip |-> ip, mac |-> mac]
    <3>1. /\ tosend \in [Slots -> Query \cup {Free}]
          /\ queries \in Seq(Query) /\ Len(queries) <= ArpTableSize /\ Ordered(queries)
      BY DEF NetInv, TypeOK
    <3>2. CASE p # Free /\ ducknet_arp_query(p.ip) /\ UNCHANGED tosend
      BY <2>2, <3>1, <3>2, QueryStep
    <3>3. CASE /\ p # Free /\ ducknet_arp_lookup(p.ip) # NoMac
               /\ tosend' = [tosend EXCEPT ![cursor] = Free]
               /\ wire' = IPv4Frame(p.ip) /\ UNCHANGED queries
      <4>1. p.ip \in IP
        BY <2>2, <3>3
      <4>2. ducknet_arp_lookup(p.ip) \in MAC /\ ducknet_arp_lookup(p.ip) = learned[p.ip]
        BY <3>3, <4>1, LookupIsLatest
      <4>3. tosend' \in [Slots -> Query \cup {Free}]
        BY <3>1, <3>3
      <4>4. \E ip \in IP, mac \in MAC : /\ mac = learned[ip]
                                       /\ wire' = [kind |-> "ipv4", ip |-> ip, mac |-> mac]
        BY <3>3, <4>1, <4>2 DEF IPv4Frame
      <4> QED BY <3>1, <3>3, <4>3, <4>4
    <3>4. CASE /\ tosend' = [tosend EXCEPT ![cursor] = Free] \/ UNCHANGED tosend
               /\ wire' = NoFrame /\ UNCHANGED queries
      BY <3>1, <3>4
    <3> QED BY <1>2, <3>2, <3>3, <3>4 DEF Tosend
  <2> HIDE DEF p
  <2>5. TypeOK'
    BY <2>1, <2>3, <2>4 DEF NetInv, TypeOK, Frame
  <2>6. (Lasting(arp) /\ Fresh(arp, learned) /\ Ordered(arp))'
    BY <2>1, Zenon DEF NetInv, Lasting, Fresh, Ordered, Findable, Increasing
  <2>7. AddressedToLatest'
    BY <2>1, <2>4 DEF AddressedToLatest
  <2> QED BY <2>4, <2>5, <2>6, <2>7 DEF NetInv
<1>3. ASSUME RecvNone PROVE NetInv'
  <2>1. /\ phase' = "idle" /\ wire' = NoFrame
        /\ UNCHANGED <<cursor, clock, arp, queries, tosend, learned>>
    BY <1>3 DEF RecvNone
  <2>2. TypeOK'
    BY <2>1 DEF NetInv, TypeOK
  <2>3. (Ordered(arp) /\ Ordered(queries) /\ Lasting(arp) /\ Fresh(arp, learned) /\ TosendTypes)'
    BY <2>1, Zenon DEF NetInv, Lasting, Fresh, Ordered, Findable, Increasing
  <2> QED BY <2>1, <2>2, <2>3 DEF NetInv, AddressedToLatest
<1>4. ASSUME NEW a \in Announced, RecvArpReply(a[1], a[2]) PROVE NetInv'
  <2>1. a[1] \in IP /\ a[2] \in MAC
    BY DucknetAssumption
  <2>2. /\ phase' = "idle" /\ wire' = NoFrame
        /\ UNCHANGED <<cursor, clock, queries, tosend>>
        /\ learned' = [learned EXCEPT ![a[1]] = a[2]]
        /\ ducknet_arp_update(a[1], a[2])
    BY <1>4 DEF RecvArpReply
  <2>3. /\ arp' \in Seq(Entry) /\ Len(arp') <= ArpTableSize
        /\ Ordered(arp') /\ Lasting(arp') /\ Fresh(arp', learned')
    BY <2>1, <2>2, UpdateStep
  <2>4. TypeOK'
    BY <2>1, <2>2, <2>3 DEF NetInv, TypeOK
  <2>5. (Ordered(queries) /\ TosendTypes)'
    BY <2>2, Zenon DEF NetInv, Ordered, Increasing
  <2> QED BY <2>2, <2>3, <2>4, <2>5 DEF NetInv, AddressedToLatest
<1>5. ASSUME NEW mac \in MAC, RecvArpRequest(mac) PROVE NetInv'
  <2>1. /\ phase' = "idle" /\ wire' = [kind |-> "reply", mac |-> mac]
        /\ UNCHANGED <<cursor, clock, arp, queries, tosend, learned>>
    BY <1>5 DEF RecvArpRequest
  <2>2. TypeOK'
    BY <2>1 DEF NetInv, TypeOK, Frame
  <2>3. (Ordered(arp) /\ Ordered(queries) /\ Lasting(arp) /\ Fresh(arp, learned) /\ TosendTypes)'
    BY <2>1, Zenon DEF NetInv, Lasting, Fresh, Ordered, Findable, Increasing
  <2> QED BY <2>1, <2>2, <2>3 DEF NetInv, AddressedToLatest
<1>6. ASSUME NEW ip \in Client, NEW fits \in BOOLEAN, RecvDatagram(ip, fits) PROVE NetInv'
  <2>1. /\ ip \in IP /\ phase' = "idle" /\ UNCHANGED <<cursor, clock, arp, learned>>
        /\ ducknet_ipv4_send(ip, fits)
    BY <1>6, DucknetAssumption DEF RecvDatagram
  <2>2. /\ tosend' \in [Slots -> Query \cup {Free}]
        /\ queries' \in Seq(Query) /\ Len(queries') <= ArpTableSize /\ Ordered(queries')
        /\ \/ wire' = NoFrame
           \/ wire' = [kind |-> "request", ip |-> ip]
           \/ \E mac \in MAC : /\ mac = learned[ip]
                              /\ wire' = [kind |-> "ipv4", ip |-> ip, mac |-> mac]
    <3>1. /\ tosend \in [Slots -> Query \cup {Free}]
          /\ queries \in Seq(Query) /\ Len(queries) <= ArpTableSize /\ Ordered(queries)
      BY DEF NetInv, TypeOK
    <3>2. CASE /\ ducknet_arp_lookup(ip) # NoMac
               /\ wire' = IF fits THEN IPv4Frame(ip) ELSE NoFrame
               /\ UNCHANGED <<queries, tosend>>
      <4>1. ducknet_arp_lookup(ip) \in MAC /\ ducknet_arp_lookup(ip) = learned[ip]
        BY <2>1, <3>2, LookupIsLatest
      <4> QED BY <3>1, <3>2, <4>1 DEF IPv4Frame
    <3>3. CASE /\ ducknet_arp_query(ip)
               /\ tosend' = IF fits /\ find_tosend_free # 0
                            THEN [tosend EXCEPT ![find_tosend_free] =
                                      [ip |-> ip, expire |-> clock + TosendTimeout]]
                            ELSE tosend
      <4>1. [ip |-> ip, expire |-> clock + TosendTimeout] \in Query
        BY <2>1, DucknetAssumption DEF NetInv, TypeOK, Time, Query
      <4>2. tosend' \in [Slots -> Query \cup {Free}]
        BY <3>1, <3>3, <4>1
      <4> QED BY <2>1, <3>3, <4>2, QueryStep
    <3> QED BY <2>1, <3>2, <3>3 DEF ducknet_ipv4_send
  <2>3. TypeOK'
    BY <2>1, <2>2 DEF NetInv, TypeOK, Frame
  <2>4. (Ordered(arp) /\ Lasting(arp) /\ Fresh(arp, learned))'
    BY <2>1, Zenon DEF NetInv, Lasting, Fresh, Ordered, Findable, Increasing
  <2>5. AddressedToLatest'
    BY <2>1, <2>2 DEF AddressedToLatest
  <2> QED BY <2>2, <2>3, <2>4, <2>5 DEF NetInv
<1>7. ASSUME UNCHANGED vars PROVE NetInv'
  <2>1. TypeOK' /\ AddressedToLatest' /\ TosendTypes'
    BY <1>7 DEF vars, NetInv, TypeOK, AddressedToLatest
  <2>2. (Ordered(arp) /\ Ordered(queries) /\ Lasting(arp) /\ Fresh(arp, learned))'
    BY <1>7, Zenon DEF vars, NetInv, Lasting, Fresh, Ordered, Findable, Increasing
  <2> QED BY <2>1, <2>2 DEF NetInv
<1> QED BY <1>1, <1>2, <1>3, <1>4, <1>5, <1>6, <1>7 DEF Next, Recv

\* The invariant holds in every state of ducknet_mainloop.
THEOREM NetInvariance == Spec => []NetInv
<1>1. Init => NetInv
  <2> SUFFICES ASSUME Init PROVE NetInv
    OBVIOUS
  <2>1. /\ phase = "idle" /\ cursor = 1 /\ clock \in Time /\ wire = NoFrame
        /\ arp = <<>> /\ queries = <<>> /\ tosend = [s \in Slots |-> Free]
        /\ learned = [ip \in IP |-> NoMac]
    BY DEF Init
  <2>2. /\ arp \in Seq(Entry) /\ Len(arp) = 0 /\ queries \in Seq(Query) /\ Len(queries) = 0
    BY <2>1
  <2>3. 1 \in Slots /\ ArpTableSize \in Nat
    BY DucknetAssumption DEF Slots
  <2>4. TypeOK /\ TosendTypes
    BY <2>1, <2>2, <2>3 DEF TypeOK, TosendTypes
  <2>5. Ordered(arp) /\ Ordered(queries) /\ Lasting(arp) /\ Fresh(arp, learned)
    BY <2>2 DEF Ordered, Increasing, Lasting, Fresh
  <2> QED BY <2>1, <2>4, <2>5 DEF NetInv, AddressedToLatest
<1> QED BY <1>1, NetStep, PTL DEF Spec

\* The tables of arp.cpp stay within their arrays, and every variable has its type.
THEOREM TypesHold == Spec => []TypeOK
<1>1. NetInv => TypeOK
  BY DEF NetInv
<1> QED BY <1>1, NetInvariance, PTL

\* No IPv4 frame goes to an Ethernet address that a later announcement has replaced,
\* whatever the order of announcements and however full the table.
THEOREM LatestAddressIsUsed == Spec => []AddressedToLatest
<1>1. NetInv => AddressedToLatest
  BY DEF NetInv
<1> QED BY <1>1, NetInvariance, PTL

\* The binary search of ducknet_arp_lookup and ducknet_arp_query finds every entry
\* but the last one at its own place, in every state of the program.
THEOREM EntriesAreFound == Spec => []StoredIsFound
<1>1. NetInv => StoredIsFound
  <2> SUFFICES ASSUME NetInv, NEW table \in {arp, queries}, NEW i \in 1 .. Len(table) - 1
               PROVE  Search(table, table[i].ip) = i - 1
    BY DEF StoredIsFound
  <2>1. PICK S : Table(S, table)
    BY Tables
  <2>2. Len(table) \in Nat
    BY <2>1 DEF Table
  <2>3. i \in 1 .. Len(table) /\ i < Len(table)
    BY <2>2
  <2>4. Findable(table, i)
    BY <2>3 DEF Findable
  <2> QED BY <2>1, <2>3, <2>4, FoundInPlace
<1> QED BY <1>1, NetInvariance, PTL


=============================================================================
