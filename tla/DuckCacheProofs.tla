----------------------------- MODULE DuckCacheProofs -----------------------------
(***************************************************************************)
(* The index and the page lists of the cache, for every number of pages    *)
(* and objects, every set of digests and lengths, and every sequence of    *)
(* loads and stores.                                                       *)
(***************************************************************************)
EXTENDS DuckCache, SequenceTheorems, FiniteSetTheorems, WellFoundedInduction, TLAPS

-----------------------------------------------------------------------------
(* Induction.  Nothing is assumed of the property but that it describes a  *)
(* set.                                                                    *)

\* A set of numbers that is not empty has a least element.
LEMMA LeastNumber ==
    ASSUME NEW T \in SUBSET Nat, T # {}
    PROVE  \E x \in T : \A y \in T : x <= y
<1>1. PICK x \in T : \A y \in T : ~ (<<y, x>> \in OpToRel(<, Nat))
  BY NatLessThanWellFounded, WFMin
<1>2. \A y \in T : ~ (y < x)
  BY <1>1 DEF OpToRel
<1> QED BY <1>2

\* A set that holds 0 and with each number the next one holds all up to n.
LEMMA Steps ==
    ASSUME NEW n \in Nat, NEW T, 0 \in T, \A i \in 1 .. n : i - 1 \in T => i \in T
    PROVE  \A i \in 0 .. n : i \in T
<1> SUFFICES ASSUME NEW j \in 0 .. n, j \notin T PROVE FALSE
  OBVIOUS
<1> DEFINE Out == {i \in 0 .. n : i \notin T}
<1>1. Out \in SUBSET Nat /\ Out # {}
  OBVIOUS
<1>2. PICK x \in Out : \A y \in Out : x <= y
  BY <1>1, LeastNumber
<1>3. x \in 1 .. n /\ x - 1 \notin Out
  BY <1>2
<1> QED BY <1>2, <1>3

\* What the rounds of a loop do to a value of S.
Loop(n, S, F) == F \in [(1 .. n) \X S -> S]

\* A value can be carried through n rounds.
LEMMA Iterated ==
    ASSUME NEW S, NEW c \in S, NEW n \in Nat, NEW F, Loop(n, S, F)
    PROVE  \E f \in [0 .. n -> S] :
              f[0] = c /\ \A k \in 1 .. n : f[k] = F[<<k, f[k - 1]>>]
<1> DEFINE Carried(m, f) == f[0] = c /\ \A k \in 1 .. m : f[k] = F[<<k, f[k - 1]>>]
           T == {m \in 0 .. n : \E f \in [0 .. m -> S] : Carried(m, f)}
<1>1. 0 \in T
  <2> DEFINE g == [k \in 0 .. 0 |-> c]
  <2>1. g \in [0 .. 0 -> S] /\ g[0] = c
    OBVIOUS
  <2> HIDE DEF g
  <2>2. Carried(0, g)
    BY <2>1
  <2> HIDE DEF Carried
  <2> QED BY <2>1, <2>2
<1>2. ASSUME NEW i \in 1 .. n, i - 1 \in T PROVE i \in T
  <2>1. PICK f \in [0 .. i - 1 -> S] : Carried(i - 1, f)
    BY <1>2
  <2> DEFINE g == [k \in 0 .. i |-> IF k = i THEN F[<<i, f[i - 1]>>] ELSE f[k]]
  <2>2. f[i - 1] \in S
    BY <2>1
  <2>3. g \in [0 .. i -> S]
    BY <2>1, <2>2 DEF Loop
  <2>4. g[i] = F[<<i, f[i - 1]>>] /\ \A k \in 0 .. i - 1 : g[k] = f[k]
    OBVIOUS
  <2> HIDE DEF g
  <2>5. g[0] = c
    BY <2>1, <2>4
  <2>6. \A k \in 1 .. i : g[k] = F[<<k, g[k - 1]>>]
    <3> TAKE k \in 1 .. i
    <3>1. CASE k = i
      BY <2>4, <3>1
    <3>2. CASE k # i
      <4>1. k \in 1 .. i - 1 /\ k \in 0 .. i - 1 /\ k - 1 \in 0 .. i - 1
        BY <3>2
      <4> QED BY <2>1, <2>4, <4>1
    <3> QED BY <3>1, <3>2
  <2> QED BY <2>3, <2>5, <2>6
<1> HIDE DEF T
<1>3. n \in T
  BY <1>1, <1>2, Steps
<1> QED BY <1>3 DEF T

-----------------------------------------------------------------------------
(* Following the pointers of pages *)

Page == Addr \cup {Null}
Links(nxt) == nxt \in [Addr -> Page]

\* The page after page p.
After(nxt, p) == IF p = Null THEN Null ELSE nxt[p]

\* The body of Walk.
Hops(nxt, a, at, k) ==
  IF k = 0 THEN a ELSE IF at[k - 1] = Null THEN Null ELSE nxt[at[k - 1]]

\* at lists the pages from page a on.
Path(nxt, a, n, at) ==
  /\ at \in [0 .. n -> Page]
  /\ at[0] = a
  /\ \A k \in 1 .. n : at[k] = After(nxt, at[k - 1])

\* A page has a next one, or none.
LEMMA AfterType ==
  ASSUME NEW nxt, Links(nxt), NEW p \in Page
  PROVE  After(nxt, p) \in Page
  BY DEF Links, After, Page, Null

\* There are no two paths from a page.
LEMMA PathUnique ==
  ASSUME NEW nxt, NEW a, NEW m \in Nat, NEW n \in Nat, m <= n,
         NEW at, NEW bt, Path(nxt, a, m, at), Path(nxt, a, n, bt)
  PROVE  \A k \in 0 .. m : at[k] = bt[k]
<1> DEFINE T == {k \in 0 .. m : at[k] = bt[k]}
<1>1. 0 \in T
  BY DEF Path
<1>2. ASSUME NEW i \in 1 .. m, i - 1 \in T PROVE i \in T
  <2>1. at[i] = After(nxt, at[i - 1]) /\ bt[i] = After(nxt, bt[i - 1])
    BY DEF Path
  <2> QED BY <1>2, <2>1
<1> HIDE DEF T
<1>3. \A k \in 0 .. m : k \in T
  BY <1>1, <1>2, Steps
<1> QED BY <1>3 DEF T

\* Walk is the end of a path.
LEMMA WalkPath ==
  ASSUME NEW nxt, Links(nxt), NEW a \in Page, NEW n \in Nat
  PROVE  \E at : Path(nxt, a, n, at) /\ Walk(nxt, a, n) = at[n]
<1> DEFINE F == [p \in (1 .. n) \X Page |-> After(nxt, p[2])]
           K == CHOOSE g : g = [k \in 0 .. n |-> Hops(nxt, a, g, k)]
<1>1. \A k \in 1 .. n, p \in Page : F[<<k, p>>] = After(nxt, p)
  <2> TAKE k \in 1 .. n, p \in Page
  <2>1. <<k, p>> \in (1 .. n) \X Page /\ <<k, p>>[2] = p
    OBVIOUS
  <2>2. F[<<k, p>>] = After(nxt, <<k, p>>[2])
    BY <2>1, Zenon
  <2> QED BY <2>1, <2>2, Zenon
<1>2. Loop(n, Page, F)
  <2>1. \A p \in (1 .. n) \X Page : p[2] \in Page
    OBVIOUS
  <2> QED BY <2>1, AfterType DEF Loop
<1> HIDE DEF F
<1>3. PICK f \in [0 .. n -> Page] : f[0] = a /\ \A k \in 1 .. n : f[k] = F[<<k, f[k - 1]>>]
  BY <1>2, Iterated
<1>4. \A k \in 1 .. n : k - 1 \in 0 .. n /\ f[k - 1] \in Page
  OBVIOUS
<1>5. \A k \in 1 .. n : f[k] = After(nxt, f[k - 1])
  BY <1>1, <1>3, <1>4
<1>6. f = [k \in 0 .. n |-> Hops(nxt, a, f, k)]
  <2>1. ASSUME NEW k \in 0 .. n PROVE f[k] = Hops(nxt, a, f, k)
    <3>1. CASE k = 0
      BY <1>3, <3>1 DEF Hops
    <3>2. CASE k # 0
      <4>1. k \in 1 .. n
        BY <3>2
      <4> QED BY <1>5, <3>2, <4>1 DEF Hops, After
    <3> QED BY <3>1, <3>2
  <2> QED BY <2>1
<1>7. K = [k \in 0 .. n |-> Hops(nxt, a, K, k)]
  BY <1>6, Zenon
<1>8. Walk(nxt, a, n) = K[n]
  BY Zenon DEF Walk, Hops
<1> HIDE DEF K
<1>9. /\ K[0] = a
      /\ \A k \in 1 .. n : K[k] = After(nxt, K[k - 1])
  <2>1. \A k \in 0 .. n : K[k] = Hops(nxt, a, K, k)
    BY <1>7
  <2>2. 0 \in 0 .. n /\ \A k \in 1 .. n : k \in 0 .. n /\ k # 0
    OBVIOUS
  <2> QED BY <2>1, <2>2 DEF Hops, After
<1>10. K \in [0 .. n -> Page]
  <2> DEFINE T == {k \in 0 .. n : K[k] \in Page}
  <2>1. 0 \in T
    BY <1>9
  <2>2. ASSUME NEW i \in 1 .. n, i - 1 \in T PROVE i \in T
    <3>1. K[i - 1] \in Page /\ i \in 0 .. n
      BY <2>2
    <3> QED BY <1>9, <3>1, AfterType
  <2> HIDE DEF T
  <2>3. \A k \in 0 .. n : k \in T
    BY <2>1, <2>2, Steps
  <2>4. \A k \in 0 .. n : K[k] \in Page
    BY <2>3 DEF T
  <2> QED BY <1>7, <2>4
<1> QED BY <1>8, <1>9, <1>10 DEF Path

\* What Walk computes, pointer by pointer.
LEMMA WalkStep ==
  ASSUME NEW nxt, Links(nxt), NEW a \in Page
  PROVE  /\ Walk(nxt, a, 0) = a
         /\ \A k \in Nat : Walk(nxt, a, k) \in Page
         /\ \A k \in Nat : Walk(nxt, a, k + 1) = After(nxt, Walk(nxt, a, k))
<1>1. PICK at : Path(nxt, a, 0, at) /\ Walk(nxt, a, 0) = at[0]
  BY WalkPath
<1>2. Walk(nxt, a, 0) = a
  BY <1>1 DEF Path
<1>3. ASSUME NEW k \in Nat
      PROVE  Walk(nxt, a, k) \in Page /\ Walk(nxt, a, k + 1) = After(nxt, Walk(nxt, a, k))
  <2>1. PICK bt : Path(nxt, a, k, bt) /\ Walk(nxt, a, k) = bt[k]
    BY WalkPath
  <2>2. PICK ct : Path(nxt, a, k + 1, ct) /\ Walk(nxt, a, k + 1) = ct[k + 1]
    <3>1. k + 1 \in Nat
      OBVIOUS
    <3> QED BY <3>1, WalkPath
  <2>3. bt[k] = ct[k]
    <3>1. \A j \in 0 .. k : bt[j] = ct[j]
      <4> DEFINE n == k + 1
      <4>1. n \in Nat /\ k <= n /\ Path(nxt, a, n, ct) /\ Path(nxt, a, k, bt)
        BY <2>1, <2>2
      <4> HIDE DEF n
      <4> QED BY <4>1, PathUnique
    <3> QED BY <3>1
  <2>4. k + 1 \in 1 .. k + 1 /\ (k + 1) - 1 = k /\ k \in 0 .. k
    OBVIOUS
  <2>5. ct[k + 1] = After(nxt, ct[(k + 1) - 1])
    BY <2>2, <2>4 DEF Path
  <2>6. bt[k] \in Page
    BY <2>1, <2>4 DEF Path
  <2> QED BY <2>1, <2>2, <2>3, <2>4, <2>5, <2>6
<1> QED BY <1>2, <1>3

\* A walk can be taken in two parts.
LEMMA WalkSum ==
  ASSUME NEW nxt, Links(nxt), NEW a \in Page, NEW m \in Nat
  PROVE  \A k \in Nat : Walk(nxt, Walk(nxt, a, m), k) = Walk(nxt, a, m + k)
<1> DEFINE b == Walk(nxt, a, m)
<1>1. b \in Page
  BY WalkStep
<1> HIDE DEF b
<1> SUFFICES ASSUME NEW n \in Nat PROVE Walk(nxt, b, n) = Walk(nxt, a, m + n)
  BY DEF b
<1> DEFINE T == {k \in 0 .. n : Walk(nxt, b, k) = Walk(nxt, a, m + k)}
<1>2. 0 \in T
  <2>1. Walk(nxt, b, 0) = b /\ m + 0 = m
    BY <1>1, WalkStep
  <2> QED BY <2>1 DEF b
<1>3. ASSUME NEW i \in 1 .. n, i - 1 \in T PROVE i \in T
  <2>1. i - 1 \in Nat /\ (i - 1) + 1 = i /\ m + (i - 1) \in Nat /\ (m + (i - 1)) + 1 = m + i
        /\ i \in 0 .. n
    OBVIOUS
  <2>2. Walk(nxt, b, (i - 1) + 1) = After(nxt, Walk(nxt, b, i - 1))
    BY <1>1, <2>1, WalkStep
  <2>3. Walk(nxt, a, (m + (i - 1)) + 1) = After(nxt, Walk(nxt, a, m + (i - 1)))
    BY <2>1, WalkStep
  <2>4. Walk(nxt, b, i - 1) = Walk(nxt, a, m + (i - 1))
    BY <1>3
  <2> QED BY <2>1, <2>2, <2>3, <2>4
<1> HIDE DEF T
<1>4. \A k \in 0 .. n : k \in T
  BY <1>2, <1>3, Steps
<1>5. n \in T
  BY <1>4
<1> QED BY <1>5 DEF T

\* Two sets of pointers that differ in one page only.
Relinked(nxt, new, x) == Links(nxt) /\ Links(new) /\ \A p \in Addr : p # x => new[p] = nxt[p]

\* A walk that does not come through that page is the same in both.
LEMMA WalkFrame ==
  ASSUME NEW nxt, NEW new, NEW x, Relinked(nxt, new, x), NEW a \in Page, NEW n \in Nat,
         \A k \in 0 .. n - 1 : Walk(nxt, a, k) # x
  PROVE  \A k \in 0 .. n : Walk(new, a, k) = Walk(nxt, a, k)
<1> DEFINE T == {k \in 0 .. n : Walk(new, a, k) = Walk(nxt, a, k)}
<1>1. Links(nxt) /\ Links(new)
  BY DEF Relinked
<1>2. 0 \in T
  BY <1>1, WalkStep
<1>3. ASSUME NEW i \in 1 .. n, i - 1 \in T PROVE i \in T
  <2>1. i - 1 \in Nat /\ (i - 1) + 1 = i /\ i \in 0 .. n /\ i - 1 \in 0 .. n - 1
    OBVIOUS
  <2>2. Walk(nxt, a, (i - 1) + 1) = After(nxt, Walk(nxt, a, i - 1))
    BY <1>1, <2>1, WalkStep
  <2>3. Walk(new, a, (i - 1) + 1) = After(new, Walk(new, a, i - 1))
    BY <1>1, <2>1, WalkStep
  <2>4. Walk(new, a, i - 1) = Walk(nxt, a, i - 1)
    BY <1>3
  <2>5. Walk(nxt, a, i - 1) # x /\ Walk(nxt, a, i - 1) \in Page
    BY <1>1, <2>1, WalkStep
  <2>6. After(new, Walk(nxt, a, i - 1)) = After(nxt, Walk(nxt, a, i - 1))
    BY <2>5 DEF After, Relinked, Page
  <2> QED BY <2>1, <2>2, <2>3, <2>4, <2>6
<1> HIDE DEF T
<1>4. \A k \in 0 .. n : k \in T
  BY <1>2, <1>3, Steps
<1> QED BY <1>4 DEF T

-----------------------------------------------------------------------------
(* The pages an object needs *)

\* The larger of two numbers.
LEMMA LargerOf ==
  ASSUME NEW x \in Int, NEW y \in Int
  PROVE  Max({x, y}) = IF x >= y THEN x ELSE y
<1> DEFINE m == IF x >= y THEN x ELSE y
<1>1. m \in {x, y} /\ \A z \in {x, y} : m >= z
  OBVIOUS
<1>2. Max({x, y}) \in {x, y} /\ \A z \in {x, y} : Max({x, y}) >= z
  <2>1. \E v \in {x, y} : \A z \in {x, y} : v >= z
    BY <1>1
  <2> QED BY <2>1, Zenon DEF Max
<1> QED BY <1>2

\* A quotient that rounds up.
LEMMA RoundedUp ==
  ASSUME NEW len \in Nat, NEW c \in Nat \ {0}
  PROVE  /\ (len + c - 1) \div c \in Nat
         /\ len # 0 => (len + c - 1) \div c >= 1
         /\ len = 0 => (len + c - 1) \div c = 0
<1> DEFINE a == len + c - 1
           q == a \div c
<1>1. a \in Nat /\ q \in Int /\ c * q <= a /\ a < c * q + c
  OBVIOUS
<1> HIDE DEF q
<1>2. ASSUME q <= -1 PROVE FALSE
  <2>1. c * q <= -c
    BY <1>2, <1>1
  <2> QED BY <1>1, <2>1
<1>3. ASSUME len # 0, q <= 0 PROVE FALSE
  <2>1. c * q <= 0
    BY <1>1, <1>3
  <2> QED BY <1>1, <1>3, <2>1
<1>4. ASSUME len = 0, q >= 1 PROVE FALSE
  <2>1. c * q >= c
    BY <1>1, <1>4
  <2> QED BY <1>1, <1>4, <2>1
<1> QED BY <1>1, <1>2, <1>3, <1>4 DEF q

\* An object takes at least one page, and the copy takes as many as it is
\* charged for.
LEMMA NeedPages ==
  ASSUME NEW len \in Nat
  PROVE  /\ n_need_pages(len) \in Nat /\ n_need_pages(len) >= 1
         /\ PagesTaken(len) = n_need_pages(len)
<1> DEFINE q == (len + ContentSize - 1) \div ContentSize
<1>1. q \in Nat /\ (len # 0 => q >= 1) /\ (len = 0 => q = 0)
  BY RoundedUp, CacheAssumption
<1> HIDE DEF q
<1>2. Max({q, 1}) = IF q >= 1 THEN q ELSE 1
  BY <1>1, LargerOf
<1>3. n_need_pages(len) = Max({q, 1}) /\ Rounds(len) = q
  BY Zenon DEF n_need_pages, Rounds, q
<1> QED BY <1>1, <1>2, <1>3 DEF PagesTaken

-----------------------------------------------------------------------------
(* The pages are divided among the objects and the free list *)

FreeLists == [next : [Addr -> Page], free : Page, pages : Nat]

\* The objects at the places R of an index.
Placed(R, objs) ==
  /\ R \subseteq Nat \ {0}
  /\ \A i \in R : objs[i].start_addr \in Addr /\ objs[i].len \in Nat

\* Page k, from 0, of object i; of the free list, which has number 0.
At(list, objs, i, k) ==
  Walk(list.next, IF i = 0 THEN list.free ELSE objs[i].start_addr, k)
Size(list, objs, i) == IF i = 0 THEN list.pages ELSE n_need_pages(objs[i].len)

\* Every page is one page of one of them, and the free list has an end.
Inside(list, R, objs) ==
  \A i \in R \cup {0} : \A k \in 0 .. Size(list, objs, i) - 1 : At(list, objs, i, k) \in Addr
Apart(list, R, objs) ==
  \A i, j \in R \cup {0} :
    \A k \in 0 .. Size(list, objs, i) - 1, l \in 0 .. Size(list, objs, j) - 1 :
      At(list, objs, i, k) = At(list, objs, j, l) => i = j /\ k = l
NoLeak(list, R, objs) ==
  \A a \in Addr : \E i \in R \cup {0} : \E k \in 0 .. Size(list, objs, i) - 1 :
    At(list, objs, i, k) = a
Whole(list, R, objs) ==
  /\ Inside(list, R, objs) /\ Apart(list, R, objs) /\ NoLeak(list, R, objs)
  /\ At(list, objs, 0, list.pages) = Null

\* Sizes are numbers, those of objects are positive.
LEMMA Sizes ==
  ASSUME NEW list \in FreeLists, NEW R, NEW objs, Placed(R, objs)
  PROVE  /\ \A i \in R \cup {0} : Size(list, objs, i) \in Nat
         /\ \A i \in R : i # 0 /\ Size(list, objs, i) >= 1
<1>1. Size(list, objs, 0) \in Nat
  BY DEF FreeLists, Size
<1>2. ASSUME NEW i \in R
      PROVE  i # 0 /\ Size(list, objs, i) >= 1 /\ Size(list, objs, i) \in Nat
  <2>1. i # 0 /\ objs[i].len \in Nat
    BY DEF Placed
  <2> QED BY <2>1, NeedPages DEF Size
<1> QED BY <1>1, <1>2

\* Every new place stands for an old place with the same page; no two for the
\* same; and every old one has a new one: then the pages are still divided.
Stands(list, R, objs, new, S, nobjs, V) ==
  /\ V \in [(S \cup {0}) -> [Nat -> (R \cup {0}) \X Nat]]
  /\ \A i \in S \cup {0} : \A k \in 0 .. Size(new, nobjs, i) - 1 :
       /\ V[i][k][2] \in 0 .. Size(list, objs, V[i][k][1]) - 1
       /\ At(new, nobjs, i, k) = At(list, objs, V[i][k][1], V[i][k][2])
  /\ \A i, j \in S \cup {0} :
       \A k \in 0 .. Size(new, nobjs, i) - 1, l \in 0 .. Size(new, nobjs, j) - 1 :
         V[i][k][1] = V[j][l][1] /\ V[i][k][2] = V[j][l][2] => i = j /\ k = l
  /\ \A x \in R \cup {0} : \A y \in 0 .. Size(list, objs, x) - 1 :
       \E i \in S \cup {0} : \E k \in 0 .. Size(new, nobjs, i) - 1 :
         V[i][k][1] = x /\ V[i][k][2] = y

\* What was divided stays divided.
LEMMA Rearranged ==
  ASSUME NEW list, NEW R, NEW objs, Whole(list, R, objs),
         NEW new, NEW S, NEW nobjs,
         \A i \in S \cup {0} : Size(new, nobjs, i) \in Nat,
         NEW V, Stands(list, R, objs, new, S, nobjs, V)
  PROVE  Inside(new, S, nobjs) /\ Apart(new, S, nobjs) /\ NoLeak(new, S, nobjs)
<1> DEFINE X(i, k) == V[i][k][1]
           Y(i, k) == V[i][k][2]
<1>1. ASSUME NEW i \in S \cup {0}, NEW k \in 0 .. Size(new, nobjs, i) - 1
      PROVE  /\ X(i, k) \in R \cup {0}
             /\ Y(i, k) \in 0 .. Size(list, objs, X(i, k)) - 1
             /\ At(new, nobjs, i, k) = At(list, objs, X(i, k), Y(i, k))
  <2>1. k \in Nat
    OBVIOUS
  <2>2. V[i][k] \in (R \cup {0}) \X Nat
    BY <2>1 DEF Stands
  <2> QED BY <2>2 DEF Stands
<1>2. ASSUME NEW i \in S \cup {0}, NEW j \in S \cup {0},
             NEW k \in 0 .. Size(new, nobjs, i) - 1, NEW l \in 0 .. Size(new, nobjs, j) - 1,
             X(i, k) = X(j, l), Y(i, k) = Y(j, l)
      PROVE  i = j /\ k = l
  BY <1>2 DEF Stands
<1>3. ASSUME NEW x \in R \cup {0}, NEW y \in 0 .. Size(list, objs, x) - 1
      PROVE  \E i \in S \cup {0} : \E k \in 0 .. Size(new, nobjs, i) - 1 :
               X(i, k) = x /\ Y(i, k) = y
  BY <1>3 DEF Stands
<1> HIDE DEF X, Y
<1>4. Inside(new, S, nobjs)
  BY <1>1 DEF Inside, Whole
<1>5. Apart(new, S, nobjs)
  <2> SUFFICES ASSUME NEW i \in S \cup {0}, NEW j \in S \cup {0},
                      NEW k \in 0 .. Size(new, nobjs, i) - 1,
                      NEW l \in 0 .. Size(new, nobjs, j) - 1,
                      At(new, nobjs, i, k) = At(new, nobjs, j, l)
               PROVE  i = j /\ k = l
    BY DEF Apart
  <2>1. At(list, objs, X(i, k), Y(i, k)) = At(list, objs, X(j, l), Y(j, l))
    BY <1>1
  <2>2. X(i, k) = X(j, l) /\ Y(i, k) = Y(j, l)
    BY <1>1, <2>1 DEF Apart, Whole
  <2> QED BY <1>2, <2>2
<1>6. NoLeak(new, S, nobjs)
  <2> SUFFICES ASSUME NEW a \in Addr
               PROVE  \E i \in S \cup {0} : \E k \in 0 .. Size(new, nobjs, i) - 1 :
                        At(new, nobjs, i, k) = a
    BY DEF NoLeak
  <2>1. PICK x \in R \cup {0} : \E y \in 0 .. Size(list, objs, x) - 1 :
               At(list, objs, x, y) = a
    BY DEF NoLeak, Whole
  <2>2. PICK y \in 0 .. Size(list, objs, x) - 1 : At(list, objs, x, y) = a
    BY <2>1
  <2>3. PICK i \in S \cup {0} : \E k \in 0 .. Size(new, nobjs, i) - 1 :
               X(i, k) = x /\ Y(i, k) = y
    BY <1>3
  <2>4. PICK k \in 0 .. Size(new, nobjs, i) - 1 : X(i, k) = x /\ Y(i, k) = y
    BY <2>3
  <2>5. At(new, nobjs, i, k) = a
    BY <1>1, <2>2, <2>4
  <2> QED BY <2>5
<1> QED BY <1>4, <1>5, <1>6

\* One round of the removal: the pages of the object are on the free list.
LEMMA SpliceWhole ==
  ASSUME NEW list \in FreeLists, NEW R, NEW objs, Placed(R, objs), Whole(list, R, objs),
         NEW o \in R
  PROVE  /\ Splice(list, objs[o]) \in FreeLists
         /\ Whole(Splice(list, objs[o]), R \ {o}, objs)
<1> DEFINE s == objs[o].start_addr
           n == n_need_pages(objs[o].len)
           new == Splice(list, objs[o])
           last == Walk(list.next, s, n - 1)
           S == R \ {o}
<1>1. /\ o # 0 /\ s \in Addr /\ n \in Nat /\ n >= 1 /\ n - 1 \in Nat /\ (n - 1) + 1 = n
      /\ list.next \in [Addr -> Page] /\ list.free \in Page /\ list.pages \in Nat
      /\ Addr \subseteq Page /\ Null \notin Addr
  <2>1. o # 0 /\ s \in Addr /\ objs[o].len \in Nat
    BY DEF Placed
  <2>2. n \in Nat /\ n >= 1
    BY <2>1, NeedPages
  <2>3. list.next \in [Addr -> Page] /\ list.free \in Page /\ list.pages \in Nat
    BY DEF FreeLists
  <2>4. Addr \subseteq Page /\ Null \notin Addr
    BY DEF Page, Addr, Null
  <2> HIDE DEF n, s
  <2> QED BY <2>1, <2>2, <2>3, <2>4
<1>2. Size(list, objs, o) = n /\ \A k \in Nat : At(list, objs, o, k) = Walk(list.next, s, k)
  BY <1>1 DEF Size, At
<1>3. last \in Addr /\ At(list, objs, o, n - 1) = last /\ n - 1 \in 0 .. Size(list, objs, o) - 1
  <2>1. n - 1 \in 0 .. Size(list, objs, o) - 1
    BY <1>1, <1>2
  <2>2. At(list, objs, o, n - 1) \in Addr
    BY <2>1 DEF Whole, Inside
  <2> QED BY <1>1, <1>2, <2>1, <2>2
<1>4. /\ new.next = [list.next EXCEPT ![last] = list.free] /\ new.free = s
      /\ new.pages = list.pages + n
      /\ new = [next |-> [list.next EXCEPT ![last] = list.free], free |-> s,
                pages |-> list.pages + n]
  BY DEF Splice
<1>5. new \in FreeLists
  <2>1. [list.next EXCEPT ![last] = list.free] \in [Addr -> Page]
    BY <1>1, <1>3
  <2> QED BY <1>1, <1>4, <2>1 DEF FreeLists
<1>6. Links(list.next) /\ Links(new.next) /\ Relinked(list.next, new.next, last)
      /\ new.next[last] = list.free
  BY <1>1, <1>3, <1>4, <1>5 DEF FreeLists, Links, Relinked
<1> HIDE DEF new, last, n, s
<1>7. \A k \in 0 .. n - 1 : Walk(new.next, s, k) = Walk(list.next, s, k)
  <2>1. ASSUME NEW k \in 0 .. (n - 1) - 1 PROVE Walk(list.next, s, k) # last
    <3>1. k \in 0 .. Size(list, objs, o) - 1 /\ k # n - 1 /\ k \in Nat
      BY <1>1, <1>2
    <3>2. At(list, objs, o, k) # At(list, objs, o, n - 1)
      BY <1>3, <3>1 DEF Whole, Apart
    <3> QED BY <1>2, <1>3, <3>1, <3>2
  <2> DEFINE m == n - 1
  <2>2. m \in Nat /\ s \in Page /\ \A k \in 0 .. m - 1 : Walk(list.next, s, k) # last
    BY <1>1, <2>1
  <2> HIDE DEF m
  <2>3. \A k \in 0 .. m : Walk(new.next, s, k) = Walk(list.next, s, k)
    BY <1>6, <2>2, WalkFrame
  <2> QED BY <2>3 DEF m
<1>8. Walk(new.next, s, n) = list.free
  <2>1. n - 1 \in 0 .. n - 1 /\ n - 1 \in Nat /\ s \in Page
    BY <1>1
  <2>2. Walk(new.next, s, n - 1) = last
    BY <1>7, <2>1 DEF last
  <2>3. Walk(new.next, s, (n - 1) + 1) = After(new.next, Walk(new.next, s, n - 1))
    BY <1>6, <2>1, WalkStep
  <2>4. last # Null
    BY <1>1, <1>3
  <2> QED BY <1>1, <1>6, <2>2, <2>3, <2>4 DEF After
<1>9. ASSUME NEW i \in S \cup {0}, NEW a \in Page,
             \A k \in Nat : At(list, objs, i, k) = Walk(list.next, a, k)
      PROVE  \A k \in 0 .. Size(list, objs, i) : Walk(new.next, a, k) = Walk(list.next, a, k)
  <2> DEFINE m == Size(list, objs, i)
  <2>1. m \in Nat /\ i # o /\ i \in R \cup {0}
    BY <1>1, Sizes
  <2>2. ASSUME NEW k \in 0 .. m - 1 PROVE Walk(list.next, a, k) # last
    <3>1. At(list, objs, i, k) # At(list, objs, o, n - 1)
      BY <1>3, <2>1 DEF Whole, Apart
    <3>2. k \in Nat
      OBVIOUS
    <3> QED BY <1>3, <1>9, <3>1, <3>2
  <2> HIDE DEF m
  <2>3. \A k \in 0 .. m : Walk(new.next, a, k) = Walk(list.next, a, k)
    BY <1>6, <1>9, <2>1, <2>2, WalkFrame
  <2> QED BY <2>3 DEF m
<1>10. ASSUME NEW i \in S
       PROVE  /\ i # 0 /\ i \in R /\ Size(new, objs, i) = Size(list, objs, i)
              /\ \A k \in 0 .. Size(list, objs, i) : At(new, objs, i, k) = At(list, objs, i, k)
  <2> DEFINE a == objs[i].start_addr
  <2>1. i # 0 /\ a \in Page
    BY <1>1 DEF Placed
  <2>2. \A k : At(list, objs, i, k) = Walk(list.next, a, k) /\ At(new, objs, i, k) = Walk(new.next, a, k)
    BY <2>1 DEF At
  <2> HIDE DEF a
  <2>3. \A k \in 0 .. Size(list, objs, i) : Walk(new.next, a, k) = Walk(list.next, a, k)
    BY <1>9, <2>1, <2>2
  <2> QED BY <2>1, <2>2, <2>3 DEF Size
<1>11. \A k \in 0 .. n - 1 : At(new, objs, 0, k) = At(list, objs, o, k)
  BY <1>2, <1>4, <1>7 DEF At
<1>12. \A k \in 0 .. list.pages : At(new, objs, 0, n + k) = At(list, objs, 0, k)
  <2>1. \A k : At(list, objs, 0, k) = Walk(list.next, list.free, k)
               /\ At(new, objs, 0, k) = Walk(new.next, s, k)
    BY <1>4 DEF At
  <2>2. Size(list, objs, 0) = list.pages
    BY DEF Size
  <2>3. \A k \in 0 .. list.pages : Walk(new.next, list.free, k) = Walk(list.next, list.free, k)
    BY <1>1, <1>9, <2>1, <2>2
  <2>4. \A k \in Nat : Walk(new.next, Walk(new.next, s, n), k) = Walk(new.next, s, n + k)
    BY <1>1, <1>6, WalkSum
  <2>5. \A k \in 0 .. list.pages : k \in Nat
    BY <1>1
  <2> QED BY <1>8, <2>1, <2>3, <2>4, <2>5
<1>13. Size(list, objs, 0) = list.pages /\ Size(new, objs, 0) = list.pages + n
  BY <1>4 DEF Size
<1> DEFINE V == [i \in S \cup {0} |->
                   [k \in Nat |-> IF i # 0 THEN <<i, k>>
                                  ELSE IF k < n THEN <<o, k>> ELSE <<0, IF k < n THEN 0 ELSE k - n>>]]
<1>14. /\ V \in [(S \cup {0}) -> [Nat -> (R \cup {0}) \X Nat]]
       /\ \A i \in S : \A k \in Nat : V[i][k][1] = i /\ V[i][k][2] = k
       /\ \A k \in Nat : k < n => V[0][k][1] = o /\ V[0][k][2] = k
       /\ \A k \in Nat : ~ (k < n) => V[0][k][1] = 0 /\ V[0][k][2] = k - n
  <2>1. \A i \in S : i # 0
    BY <1>10
  <2>2. \A k \in Nat : ~ (k < n) => k - n \in Nat
    BY <1>1
  <2>3. V \in [(S \cup {0}) -> [Nat -> (R \cup {0}) \X Nat]]
    BY <2>2
  <2>4. \A i \in S : \A k \in Nat : V[i][k] = <<i, k>>
    BY <2>1
  <2>5. \A k \in Nat : k < n => V[0][k] = <<o, k>>
    OBVIOUS
  <2>6. \A k \in Nat : ~ (k < n) => V[0][k] = <<0, k - n>>
    OBVIOUS
  <2> HIDE DEF V
  <2> QED BY <2>3, <2>4, <2>5, <2>6
<1> HIDE DEF V
<1>15. Stands(list, R, objs, new, S, objs, V)
  <2>1. \A k \in 0 .. Size(new, objs, 0) - 1 :
          k \in Nat /\ (~ (k < n) => k - n \in 0 .. list.pages - 1 /\ n + (k - n) = k)
    BY <1>1, <1>13
  <2>2. \A i \in S : \A k \in 0 .. Size(new, objs, i) - 1 :
          k \in Nat /\ k \in 0 .. Size(list, objs, i)
    BY <1>10, Sizes
  <2>3. ASSUME NEW i \in S \cup {0}, NEW k \in 0 .. Size(new, objs, i) - 1
        PROVE  /\ V[i][k][2] \in 0 .. Size(list, objs, V[i][k][1]) - 1
               /\ At(new, objs, i, k) = At(list, objs, V[i][k][1], V[i][k][2])
    <3>1. CASE i \in S
      BY <1>10, <1>14, <2>2, <3>1
    <3>2. CASE i = 0 /\ k < n
      <4>1. k \in Nat /\ k \in 0 .. n - 1
        BY <1>1, <2>1, <3>2
      <4> QED BY <1>2, <1>11, <1>14, <3>2, <4>1
    <3>3. CASE i = 0 /\ ~ (k < n)
      <4>1. k \in Nat /\ k - n \in 0 .. list.pages - 1 /\ n + (k - n) = k /\ k - n \in 0 .. list.pages
        BY <1>1, <2>1, <3>3
      <4>2. At(new, objs, 0, n + (k - n)) = At(list, objs, 0, k - n)
        BY <1>12, <4>1
      <4> QED BY <1>13, <1>14, <3>3, <4>1, <4>2
    <3> QED BY <3>1, <3>2, <3>3
  <2>4. ASSUME NEW i \in S \cup {0}, NEW j \in S \cup {0},
               NEW k \in 0 .. Size(new, objs, i) - 1, NEW l \in 0 .. Size(new, objs, j) - 1,
               V[i][k][1] = V[j][l][1], V[i][k][2] = V[j][l][2]
        PROVE  i = j /\ k = l
    <3>1. k \in Nat /\ l \in Nat
      BY <2>1, <2>2
    <3>2. \A x \in S : x # 0 /\ x # o
      BY <1>10
    <3>3. CASE i \in S /\ j \in S
      BY <1>14, <2>4, <3>1, <3>3
    <3>4. CASE i = 0 /\ j = 0
      <4>1. CASE k < n <=> l < n
        BY <1>1, <1>14, <2>4, <3>1, <3>4, <4>1
      <4>2. CASE ~ (k < n <=> l < n)
        BY <1>1, <1>14, <2>4, <3>1, <3>4, <4>2
      <4> QED BY <4>1, <4>2
    <3>7. \A m \in Nat : V[0][m][1] \in {0, o}
      BY <1>14
    <3>5. CASE i \in S /\ j = 0
      <4>1. V[i][k][1] = i /\ V[j][l][1] \in {0, o} /\ i # 0 /\ i # o
        BY <1>14, <3>1, <3>2, <3>5, <3>7
      <4> QED BY <2>4, <4>1
    <3>6. CASE i = 0 /\ j \in S
      <4>1. V[j][l][1] = j /\ V[i][k][1] \in {0, o} /\ j # 0 /\ j # o
        BY <1>14, <3>1, <3>2, <3>6, <3>7
      <4> QED BY <2>4, <4>1
    <3> QED BY <3>3, <3>4, <3>5, <3>6
  <2>5. ASSUME NEW x \in R \cup {0}, NEW y \in 0 .. Size(list, objs, x) - 1
        PROVE  \E i \in S \cup {0} : \E k \in 0 .. Size(new, objs, i) - 1 :
                 V[i][k][1] = x /\ V[i][k][2] = y
    <3>1. CASE x \in S
      <4>1. y \in 0 .. Size(new, objs, x) - 1 /\ y \in Nat
        BY <1>10, <3>1
      <4> QED BY <1>14, <3>1, <4>1
    <3>2. CASE x = o
      <4>1. y \in 0 .. Size(new, objs, 0) - 1 /\ y \in Nat /\ y < n
        BY <1>1, <1>2, <1>13, <3>2
      <4> QED BY <1>14, <3>2, <4>1
    <3>3. CASE x = 0
      <4>1. n + y \in 0 .. Size(new, objs, 0) - 1 /\ n + y \in Nat /\ ~ (n + y < n) /\ (n + y) - n = y
        BY <1>1, <1>13, <3>3
      <4> QED BY <1>14, <3>3, <4>1
    <3> QED BY <3>1, <3>2, <3>3
  <2> QED BY <1>14, <2>3, <2>4, <2>5 DEF Stands
<1>16. At(new, objs, 0, new.pages) = Null
  <2>1. list.pages \in 0 .. list.pages /\ new.pages = n + list.pages
    BY <1>1, <1>4
  <2> QED BY <1>12, <2>1 DEF Whole
<1>17. \A i \in S \cup {0} : Size(new, objs, i) \in Nat
  BY <1>1, <1>10, <1>13, Sizes
<1>18. Inside(new, S, objs) /\ Apart(new, S, objs) /\ NoLeak(new, S, objs)
  <2> HIDE DEF S
  <2> QED BY <1>15, <1>17, Rearranged
<1>19. Whole(new, S, objs)
  BY <1>16, <1>18 DEF Whole
<1> QED BY <1>5, <1>19 DEF new

\* The objects at the places R of one index are those of another, except q.
Moved(objs, R, nobjs, M, q, G) ==
  /\ G \in [1 .. M -> Nat]
  /\ \A p \in 1 .. M : p # q =>
       /\ G[p] \in R
       /\ nobjs[p].start_addr = objs[G[p]].start_addr /\ nobjs[p].len = objs[G[p]].len
  /\ \A p, r \in 1 .. M : p # q /\ r # q /\ G[p] = G[r] => p = r
  /\ \A i \in R : \E p \in 1 .. M : p # q /\ G[p] = i

\* The first n pages of the free list, taken off it.
Taken(list, n, new) ==
  /\ new \in FreeLists
  /\ new.next = list.next
  /\ new.free = Walk(list.next, list.free, n)
  /\ new.pages = list.pages - n

\* A new object takes the first pages of the free list, and the others keep theirs.
LEMMA TakeWhole ==
  ASSUME NEW list \in FreeLists, NEW R, NEW objs, Placed(R, objs), Whole(list, R, objs),
         NEW n \in Nat, n <= list.pages, NEW new, Taken(list, n, new),
         NEW M \in Nat, NEW q \in 1 .. M, NEW nobjs, NEW G, Moved(objs, R, nobjs, M, q, G),
         nobjs[q].start_addr = list.free, n_need_pages(nobjs[q].len) = n
  PROVE  Whole(new, 1 .. M, nobjs)
<1> DEFINE S == 1 .. M
<1>0. /\ \A p \in S : p # q => G[p] \in R
      /\ \A p, r \in S : p # q /\ r # q /\ G[p] = G[r] => p = r
      /\ \A i \in R : \E p \in S : p # q /\ G[p] = i
  BY DEF Moved
<1>1. /\ list.pages \in Nat /\ list.free \in Page /\ Links(list.next)
      /\ new.pages = list.pages - n /\ new.pages \in Nat
      /\ 0 \notin S /\ q \in S /\ 0 \notin R /\ q # 0
  BY DEF FreeLists, Links, Taken, Placed
<1>2. /\ Size(list, objs, 0) = list.pages /\ Size(new, nobjs, 0) = new.pages
      /\ Size(new, nobjs, q) = n
      /\ \A k : At(list, objs, 0, k) = Walk(list.next, list.free, k)
      /\ \A k : At(new, nobjs, q, k) = At(list, objs, 0, k)
      /\ \A k : At(new, nobjs, 0, k) = Walk(list.next, Walk(list.next, list.free, n), k)
  BY <1>1 DEF Size, At, Taken
<1>3. \A k \in Nat : At(new, nobjs, 0, k) = At(list, objs, 0, n + k)
  <2>1. \A k \in Nat : Walk(list.next, Walk(list.next, list.free, n), k)
                         = Walk(list.next, list.free, n + k)
    BY <1>1, WalkSum
  <2> QED BY <1>2, <2>1
<1>4. ASSUME NEW p \in S, p # q
      PROVE  /\ G[p] \in R /\ Size(new, nobjs, p) = Size(list, objs, G[p])
             /\ \A k : At(new, nobjs, p, k) = At(list, objs, G[p], k)
  <2>1. /\ G[p] \in R /\ p # 0 /\ G[p] # 0
        /\ nobjs[p].start_addr = objs[G[p]].start_addr /\ nobjs[p].len = objs[G[p]].len
    BY <1>1, <1>4 DEF Moved
  <2> QED BY <2>1 DEF Size, At, Taken
<1>5. \A i \in S \cup {0} : Size(new, nobjs, i) \in Nat
  <2>1. \A i \in R : Size(list, objs, i) \in Nat
    BY Sizes
  <2> QED BY <1>1, <1>2, <1>4, <2>1
<1> DEFINE V == [p \in S \cup {0} |->
                   [k \in Nat |-> IF p = 0 THEN <<0, n + k>>
                                  ELSE IF p = q THEN <<0, k>>
                                  ELSE <<IF p = q THEN 0 ELSE G[p], k>>]]
<1>6. /\ V \in [(S \cup {0}) -> [Nat -> (R \cup {0}) \X Nat]]
      /\ \A k \in Nat : V[0][k][1] = 0 /\ V[0][k][2] = n + k
      /\ \A k \in Nat : V[q][k][1] = 0 /\ V[q][k][2] = k
      /\ \A p \in S : p # q => \A k \in Nat : V[p][k][1] = G[p] /\ V[p][k][2] = k
  <2>1. \A p \in S : p # q => G[p] \in R
    BY <1>4
  <2>2. \A k \in Nat : n + k \in Nat
    OBVIOUS
  <2>3. V \in [(S \cup {0}) -> [Nat -> (R \cup {0}) \X Nat]]
    BY <2>1, <2>2
  <2>4. \A k \in Nat : V[0][k] = <<0, n + k>>
    BY <1>1
  <2>5. \A k \in Nat : V[q][k] = <<0, k>>
    BY <1>1
  <2>6. \A p \in S : p # q => \A k \in Nat : V[p][k] = <<G[p], k>>
    BY <1>1
  <2> HIDE DEF V, S
  <2>8. ASSUME NEW p \in S, p # q, NEW k \in Nat PROVE V[p][k][1] = G[p] /\ V[p][k][2] = k
    <3>1. V[p][k] = <<G[p], k>>
      BY <2>6, <2>8, Zenon
    <3> QED BY <3>1
  <2>9. ASSUME NEW k \in Nat
        PROVE  V[0][k][1] = 0 /\ V[0][k][2] = n + k /\ V[q][k][1] = 0 /\ V[q][k][2] = k
    <3>1. V[0][k] = <<0, n + k>> /\ V[q][k] = <<0, k>>
      BY <2>4, <2>5, Zenon
    <3> QED BY <3>1
  <2> QED BY <2>3, <2>8, <2>9
<1> HIDE DEF V, S
<1>7. Stands(list, R, objs, new, S, nobjs, V)
  <2>1. \A i \in S \cup {0} : \A k \in 0 .. Size(new, nobjs, i) - 1 : k \in Nat
    BY <1>5
  <2>2. ASSUME NEW i \in S \cup {0}, NEW k \in 0 .. Size(new, nobjs, i) - 1
        PROVE  /\ V[i][k][2] \in 0 .. Size(list, objs, V[i][k][1]) - 1
               /\ At(new, nobjs, i, k) = At(list, objs, V[i][k][1], V[i][k][2])
    <3>1. k \in Nat
      BY <2>1
    <3>2. CASE i = 0
      <4>1. n + k \in 0 .. list.pages - 1
        BY <1>1, <1>2, <3>1, <3>2
      <4> QED BY <1>2, <1>3, <1>6, <3>1, <3>2, <4>1
    <3>3. CASE i = q
      <4>1. k \in 0 .. list.pages - 1
        BY <1>1, <1>2, <3>1, <3>3
      <4> QED BY <1>2, <1>6, <3>1, <3>3, <4>1
    <3>4. CASE i \in S /\ i # q
      <4>1. V[i][k][1] = G[i] /\ V[i][k][2] = k
        BY <1>6, <3>1, <3>4, Zenon
      <4>2. /\ Size(new, nobjs, i) = Size(list, objs, G[i])
            /\ At(new, nobjs, i, k) = At(list, objs, G[i], k)
        BY <1>4, <3>4, Zenon
      <4> QED BY <2>2, <4>1, <4>2, Zenon
    <3> QED BY <3>2, <3>3, <3>4
  <2>3. ASSUME NEW i \in S \cup {0}, NEW j \in S \cup {0},
               NEW k \in 0 .. Size(new, nobjs, i) - 1, NEW l \in 0 .. Size(new, nobjs, j) - 1,
               V[i][k][1] = V[j][l][1], V[i][k][2] = V[j][l][2]
        PROVE  i = j /\ k = l
    <3>1. k \in Nat /\ l \in Nat /\ (i = q => k < n) /\ (j = q => l < n)
      BY <1>2, <2>1
    <3>2. /\ i = 0 => V[i][k][1] = 0 /\ V[i][k][2] = n + k
          /\ i = q => V[i][k][1] = 0 /\ V[i][k][2] = k
          /\ i # 0 /\ i # q => V[i][k][1] = G[i] /\ V[i][k][1] # 0 /\ V[i][k][2] = k
      <4>1. i # 0 => i \in S
        OBVIOUS
      <4>2. i # 0 /\ i # q => V[i][k][1] = G[i] /\ V[i][k][2] = k /\ G[i] \in R
        BY <1>0, <1>6, <3>1, <4>1, Zenon
      <4>3. i = 0 => V[i][k][1] = 0 /\ V[i][k][2] = n + k
        BY <1>6, <3>1
      <4>4. i = q => V[i][k][1] = 0 /\ V[i][k][2] = k
        BY <1>6, <3>1
      <4>5. \A x \in R : x # 0
        BY <1>1
      <4> QED BY <4>2, <4>3, <4>4, <4>5
    <3>3. /\ j = 0 => V[j][l][1] = 0 /\ V[j][l][2] = n + l
          /\ j = q => V[j][l][1] = 0 /\ V[j][l][2] = l
          /\ j # 0 /\ j # q => V[j][l][1] = G[j] /\ V[j][l][1] # 0 /\ V[j][l][2] = l
      <4>1. j # 0 => j \in S
        OBVIOUS
      <4>2. j # 0 /\ j # q => V[j][l][1] = G[j] /\ V[j][l][2] = l /\ G[j] \in R
        BY <1>0, <1>6, <3>1, <4>1, Zenon
      <4>3. j = 0 => V[j][l][1] = 0 /\ V[j][l][2] = n + l
        BY <1>6, <3>1
      <4>4. j = q => V[j][l][1] = 0 /\ V[j][l][2] = l
        BY <1>6, <3>1
      <4>5. \A x \in R : x # 0
        BY <1>1
      <4> QED BY <4>2, <4>3, <4>4, <4>5
    <3>4. CASE i # 0 /\ i # q
      <4>1. j # 0 /\ j # q /\ G[i] = G[j] /\ k = l /\ i \in S /\ j \in S
        BY <2>3, <3>2, <3>3, <3>4
      <4> QED BY <3>4, <4>1 DEF Moved, S
    <3>5. CASE i = 0
      BY <2>3, <3>1, <3>2, <3>3, <3>5
    <3>6. CASE i = q
      BY <2>3, <3>1, <3>2, <3>3, <3>6
    <3> QED BY <3>4, <3>5, <3>6
  <2>4. ASSUME NEW x \in R \cup {0}, NEW y \in 0 .. Size(list, objs, x) - 1
        PROVE  \E i \in S \cup {0} : \E k \in 0 .. Size(new, nobjs, i) - 1 :
                 V[i][k][1] = x /\ V[i][k][2] = y
    <3>1. CASE x \in R
      <4>1. PICK p \in S : p # q /\ G[p] = x
        BY <3>1 DEF Moved, S
      <4>2. y \in 0 .. Size(new, nobjs, p) - 1 /\ y \in Nat
        BY <1>4, <4>1
      <4>3. V[p][y][1] = x /\ V[p][y][2] = y
        BY <1>6, <4>1, <4>2, Zenon
      <4> QED BY <4>2, <4>3, Zenon
    <3>2. CASE x = 0 /\ y < n
      <4>1. y \in 0 .. Size(new, nobjs, q) - 1 /\ y \in Nat
        BY <1>1, <1>2, <3>2
      <4> QED BY <1>1, <1>6, <3>2, <4>1
    <3>3. CASE x = 0 /\ ~ (y < n)
      <4>1. y - n \in 0 .. Size(new, nobjs, 0) - 1 /\ y - n \in Nat /\ n + (y - n) = y
        BY <1>1, <1>2, <3>3
      <4> DEFINE z == y - n
      <4>2. V[0][z][1] = 0 /\ V[0][z][2] = n + z
        BY <1>6, <4>1, Zenon
      <4> HIDE DEF z
      <4>3. V[0][z][1] = x /\ V[0][z][2] = y
        BY <3>3, <4>1, <4>2 DEF z
      <4>4. z \in 0 .. Size(new, nobjs, 0) - 1
        BY <4>1 DEF z
      <4> QED BY <4>3, <4>4
    <3> QED BY <3>1, <3>2, <3>3
  <2>5. V \in [(S \cup {0}) -> [Nat -> (R \cup {0}) \X Nat]]
    BY <1>6
  <2>6. \A i \in S \cup {0} : \A k \in 0 .. Size(new, nobjs, i) - 1 :
          /\ V[i][k][2] \in 0 .. Size(list, objs, V[i][k][1]) - 1
          /\ At(new, nobjs, i, k) = At(list, objs, V[i][k][1], V[i][k][2])
    BY <2>2, Zenon
  <2>7. \A i, j \in S \cup {0} :
          \A k \in 0 .. Size(new, nobjs, i) - 1, l \in 0 .. Size(new, nobjs, j) - 1 :
            V[i][k][1] = V[j][l][1] /\ V[i][k][2] = V[j][l][2] => i = j /\ k = l
    BY <2>3
  <2>8. \A x \in R \cup {0} : \A y \in 0 .. Size(list, objs, x) - 1 :
          \E i \in S \cup {0} : \E k \in 0 .. Size(new, nobjs, i) - 1 :
            V[i][k][1] = x /\ V[i][k][2] = y
    BY <2>4, Zenon
  <2> QED BY <2>5, <2>6, <2>7, <2>8 DEF Stands
<1>8. Inside(new, S, nobjs) /\ Apart(new, S, nobjs) /\ NoLeak(new, S, nobjs)
  BY <1>5, <1>7, Rearranged
<1>9. At(new, nobjs, 0, new.pages) = Null
  <2>1. n + new.pages = list.pages
    BY <1>1
  <2> QED BY <1>1, <1>3, <2>1 DEF Whole
<1> QED BY <1>8, <1>9 DEF Whole, S

\* The pages of an object do not depend on when it was used.
LEMMA SamePages ==
  ASSUME NEW list, NEW R, NEW objs, Whole(list, R, objs), NEW nobjs,
         \A i \in R : nobjs[i].start_addr = objs[i].start_addr /\ nobjs[i].len = objs[i].len
  PROVE  Whole(list, R, nobjs)
<1>1. ASSUME NEW i \in R \cup {0}
      PROVE  /\ Size(list, nobjs, i) = Size(list, objs, i)
             /\ \A k : At(list, nobjs, i, k) = At(list, objs, i, k)
  BY DEF Size, At
<1>2. Inside(list, R, nobjs)
  BY <1>1 DEF Whole, Inside
<1>3. Apart(list, R, nobjs)
  BY <1>1 DEF Whole, Apart
<1>4. NoLeak(list, R, nobjs)
  <2> SUFFICES ASSUME NEW a \in Addr
               PROVE  \E i \in R \cup {0} : \E k \in 0 .. Size(list, nobjs, i) - 1 :
                        At(list, nobjs, i, k) = a
    BY DEF NoLeak
  <2>1. PICK i \in R \cup {0} : \E k \in 0 .. Size(list, objs, i) - 1 : At(list, objs, i, k) = a
    BY DEF Whole, NoLeak
  <2>2. PICK k \in 0 .. Size(list, objs, i) - 1 : At(list, objs, i, k) = a
    BY <2>1
  <2> QED BY <1>1, <2>2
<1> QED BY <1>1, <1>2, <1>3, <1>4 DEF Whole

\* There is room for everything that is on the free list, and when there are no
\* objects every page is on it.
LEMMA PagesCounted ==
  ASSUME NEW list \in FreeLists, NEW R, NEW objs, Placed(R, objs), Whole(list, R, objs)
  PROVE  /\ list.pages <= TotalPages
         /\ R = {} => list.pages = TotalPages
         /\ \A i \in R : Size(list, objs, i) <= TotalPages
<1>1. TotalPages \in Nat /\ IsFiniteSet(Addr) /\ Cardinality(Addr) = TotalPages
  <2>1. TotalPages \in Nat /\ 1 \in Int /\ TotalPages \in Int
    BY CacheAssumption
  <2>2. IsFiniteSet(1 .. TotalPages)
        /\ Cardinality(1 .. TotalPages) = IF 1 > TotalPages THEN 0 ELSE TotalPages - 1 + 1
    BY <2>1, FS_Interval
  <2> QED BY <2>1, <2>2 DEF Addr
<1>2. ASSUME NEW i \in R \cup {0}
      PROVE  /\ Size(list, objs, i) <= TotalPages
             /\ R = {} => Size(list, objs, i) = TotalPages
  <2> DEFINE n == Size(list, objs, i)
             D == 0 .. n - 1
             f == [k \in D |-> At(list, objs, i, k)]
  <2>1. n \in Nat
    BY Sizes
  <2>2. Cardinality(D) = n /\ IsFiniteSet(D)
    <3>1. 0 \in Int /\ n - 1 \in Int
      BY <2>1
    <3> HIDE DEF n
    <3>2. IsFiniteSet(0 .. n - 1) /\ Cardinality(0 .. n - 1) = IF 0 > n - 1 THEN 0 ELSE n - 1 - 0 + 1
      BY <3>1, FS_Interval
    <3> QED BY <2>1, <3>2
  <2>3. f \in [D -> Addr] /\ \A k \in D : f[k] = At(list, objs, i, k)
    BY DEF Whole, Inside
  <2>4. \A k, l \in D : f[k] = f[l] => k = l
    BY <2>3 DEF Whole, Apart
  <2> HIDE DEF f
  <2>5. f \in Injection(D, Addr)
    BY <2>3, <2>4 DEF Injection, IsInjective
  <2> HIDE DEF D
  <2>6. Cardinality(D) <= Cardinality(Addr)
        /\ (Cardinality(D) = Cardinality(Addr) <=> f \in Surjection(D, Addr))
    BY <1>1, <2>5, FS_Injection
  <2>7. R = {} => f \in Surjection(D, Addr)
    <3> SUFFICES ASSUME R = {}, NEW a \in Addr PROVE \E k \in D : f[k] = a
      BY <2>3 DEF Surjection
    <3>1. PICK j \in R \cup {0} : \E k \in 0 .. Size(list, objs, j) - 1 : At(list, objs, j, k) = a
      BY DEF Whole, NoLeak
    <3>2. j = i
      OBVIOUS
    <3> QED BY <2>3, <3>1, <3>2 DEF D
  <2> QED BY <1>1, <2>2, <2>6, <2>7
<1>3. Size(list, objs, 0) = list.pages
  BY DEF Size
<1> QED BY <1>2, <1>3

-----------------------------------------------------------------------------
(* The order of use *)

\* p lists m of the places 1 .. N, those with the least times first.
Listed(t, N, m, p) ==
  /\ p \in [1 .. m -> 1 .. N]
  /\ \A i, j \in 1 .. m : p[i] = p[j] => i = j
  /\ \A i, j \in 1 .. m : i < j => t[p[i]] <= t[p[j]]
  /\ \A x \in 1 .. N : (\A i \in 1 .. m : p[i] # x) => \A i \in 1 .. m : t[p[i]] <= t[x]

\* A list that leaves out a place can be continued.
LEMMA ListedNext ==
  ASSUME NEW N \in Nat, NEW t \in [1 .. N -> Nat], NEW m \in Nat, m < N,
         NEW p, Listed(t, N, m, p)
  PROVE  \E q : Listed(t, N, m + 1, q)
<1> DEFINE Rest == {x \in 1 .. N : \A i \in 1 .. m : p[i] # x}
<1>1. Rest # {}
  <2> SUFFICES ASSUME Rest = {} PROVE FALSE
    OBVIOUS
  <2>1. p \in Surjection(1 .. m, 1 .. N)
    BY DEF Surjection, Listed
  <2>2. /\ IsFiniteSet(1 .. m) /\ Cardinality(1 .. m) = m
        /\ IsFiniteSet(1 .. N) /\ Cardinality(1 .. N) = N
    <3>1. 1 \in Int /\ m \in Int /\ N \in Int
      OBVIOUS
    <3>2. /\ IsFiniteSet(1 .. m) /\ Cardinality(1 .. m) = IF 1 > m THEN 0 ELSE m - 1 + 1
          /\ IsFiniteSet(1 .. N) /\ Cardinality(1 .. N) = IF 1 > N THEN 0 ELSE N - 1 + 1
      BY <3>1, FS_Interval
    <3> QED BY <3>2
  <2>3. Cardinality(1 .. N) <= Cardinality(1 .. m)
    BY <2>1, <2>2, FS_Surjection
  <2> QED BY <2>2, <2>3
<1> DEFINE Times == {t[x] : x \in Rest}
<1>2. Times \in SUBSET Nat /\ Times # {}
  BY <1>1
<1>3. PICK l \in Times : \A y \in Times : l <= y
  BY <1>2, LeastNumber
<1>4. PICK x \in Rest : t[x] = l
  BY <1>3
<1>5. /\ x \in 1 .. N /\ \A i \in 1 .. m : p[i] # x
      /\ \A y \in 1 .. N : (\A i \in 1 .. m : p[i] # y) => t[x] <= t[y]
  BY <1>3, <1>4
<1> HIDE DEF Rest, Times
<1> DEFINE q == [i \in 1 .. m + 1 |-> IF i = m + 1 THEN x ELSE p[i]]
<1>6. p \in [1 .. m -> 1 .. N]
  BY DEF Listed
<1>7. \A i \in 1 .. m + 1 : i = m + 1 \/ i \in 1 .. m
  OBVIOUS
<1>8. /\ q \in [1 .. m + 1 -> 1 .. N] /\ q[m + 1] = x
      /\ \A i \in 1 .. m : q[i] = p[i] /\ i \in 1 .. m + 1 /\ i < m + 1
  BY <1>5, <1>6, <1>7
<1> HIDE DEF q
<1>9. \A i, j \in 1 .. m + 1 : q[i] = q[j] => i = j
  BY <1>5, <1>7, <1>8 DEF Listed
<1>10. ASSUME NEW i \in 1 .. m + 1, NEW j \in 1 .. m + 1, i < j PROVE t[q[i]] <= t[q[j]]
  <2>1. i \in 1 .. m
    BY <1>10
  <2>2. CASE j = m + 1
    BY <1>5, <1>8, <2>1, <2>2 DEF Listed
  <2>3. CASE j \in 1 .. m
    BY <1>8, <1>10, <2>1, <2>3 DEF Listed
  <2> QED BY <1>7, <2>2, <2>3
<1>11. ASSUME NEW y \in 1 .. N, \A i \in 1 .. m + 1 : q[i] # y, NEW i \in 1 .. m + 1
       PROVE  t[q[i]] <= t[y]
  <2>1. \A k \in 1 .. m : p[k] # y
    BY <1>8, <1>11
  <2>2. CASE i = m + 1
    BY <1>5, <1>8, <2>1, <2>2
  <2>3. CASE i \in 1 .. m
    BY <1>8, <2>1, <2>3 DEF Listed
  <2> QED BY <1>7, <2>2, <2>3
<1>12. Listed(t, N, m + 1, q)
  BY <1>8, <1>9, <1>10, <1>11 DEF Listed
<1> QED BY <1>12

\* All places can be listed.
LEMMA ListedAll ==
  ASSUME NEW N \in Nat, NEW t \in [1 .. N -> Nat]
  PROVE  \E p : Listed(t, N, N, p)
<1> DEFINE T == {m \in 0 .. N : \E p : Listed(t, N, m, p)}
<1>1. 0 \in T
  <2> DEFINE p == [i \in 1 .. 0 |-> 1]
  <2>1. p \in [1 .. 0 -> 1 .. N]
    OBVIOUS
  <2> HIDE DEF p
  <2>2. Listed(t, N, 0, p)
    BY <2>1 DEF Listed
  <2> QED BY <2>2
<1>2. ASSUME NEW i \in 1 .. N, i - 1 \in T PROVE i \in T
  <2>1. i - 1 \in Nat /\ i - 1 < N /\ (i - 1) + 1 = i /\ i \in 0 .. N
    OBVIOUS
  <2>2. PICK p : Listed(t, N, i - 1, p)
    BY <1>2
  <2>3. \E q : Listed(t, N, (i - 1) + 1, q)
    <3> DEFINE m == i - 1
    <3>1. m \in Nat /\ m < N /\ Listed(t, N, m, p)
      BY <2>1, <2>2
    <3> HIDE DEF m
    <3>2. \E q : Listed(t, N, m + 1, q)
      BY <3>1, ListedNext
    <3> QED BY <3>2 DEF m
  <2> QED BY <2>1, <2>3
<1> HIDE DEF T
<1>3. \A i \in 0 .. N : i \in T
  BY <1>1, <1>2, Steps
<1>4. N \in T
  BY <1>3
<1> QED BY <1>4 DEF T

\* What the index holds.
Obj == [digest : Digest, last_used_tsc : 1 .. MaxTsc, start_addr : Addr, len : Lens]

\* sort_ids is a permutation of the places of the index.
LEMMA SortIds ==
  ASSUME obj \in Seq(Obj)
  PROVE  /\ sort_ids \in [1 .. Len(obj) -> 1 .. Len(obj)]
         /\ \A i, j \in 1 .. Len(obj) : sort_ids[i] = sort_ids[j] => i = j
         /\ \A x \in 1 .. Len(obj) : \E i \in 1 .. Len(obj) : sort_ids[i] = x
<1> DEFINE N == Len(obj)
           t == [i \in 1 .. N |-> obj[i].last_used_tsc]
           InUse(ids) == /\ IsInjective(ids)
                         /\ \A i, j \in DOMAIN obj : i < j =>
                              obj[ids[i]].last_used_tsc <= obj[ids[j]].last_used_tsc
<1>1. N \in Nat /\ DOMAIN obj = 1 .. N /\ \A i \in 1 .. N : obj[i] \in Obj
  OBVIOUS
<1>2. t \in [1 .. N -> Nat] /\ \A i \in 1 .. N : t[i] = obj[i].last_used_tsc
  BY <1>1, CacheAssumption DEF Obj
<1> HIDE DEF t
<1>3. PICK p : Listed(t, N, N, p)
  <2> HIDE DEF N
  <2> QED BY <1>1, <1>2, ListedAll
<1>4. p \in [DOMAIN obj -> DOMAIN obj] /\ InUse(p)
  <2>1. p \in [1 .. N -> 1 .. N] /\ DOMAIN p = 1 .. N
    BY <1>3 DEF Listed
  <2>2. IsInjective(p)
    BY <1>3, <2>1 DEF Listed, IsInjective
  <2>3. \A i, j \in 1 .. N : i < j => obj[p[i]].last_used_tsc <= obj[p[j]].last_used_tsc
    BY <1>2, <1>3, <2>1 DEF Listed
  <2> QED BY <1>1, <2>1, <2>2, <2>3
<1>5. sort_ids = CHOOSE ids \in [DOMAIN obj -> DOMAIN obj] : InUse(ids)
  BY Zenon DEF sort_ids
<1> HIDE DEF InUse
<1>6. sort_ids \in [DOMAIN obj -> DOMAIN obj] /\ InUse(sort_ids)
  BY <1>4, <1>5, Zenon
<1>7. sort_ids \in [1 .. N -> 1 .. N] /\ \A i, j \in 1 .. N : sort_ids[i] = sort_ids[j] => i = j
  BY <1>1, <1>6 DEF InUse, IsInjective
<1>8. sort_ids \in Injection(1 .. N, 1 .. N)
  BY <1>7 DEF Injection, IsInjective
<1>9. IsFiniteSet(1 .. N)
  <2>1. 1 \in Int /\ N \in Int
    BY <1>1
  <2> HIDE DEF N
  <2> QED BY <2>1, FS_Interval
<1>10. sort_ids \in Surjection(1 .. N, 1 .. N)
  BY <1>8, <1>9, FS_Injection
<1> QED BY <1>7, <1>10 DEF Surjection

-----------------------------------------------------------------------------
(* Removing the objects that were not used for longest *)

\* The objects left after n rounds.
Left(n) == (1 .. Len(obj)) \ {sort_ids[j] : j \in 1 .. n}

\* The free list as it is.
FreeList == [next |-> next, free |-> free_list_addr, pages |-> n_free_pages]

\* The body of Freed.
FreedBody(list, k) ==
  IF k = 0 THEN [next |-> next, free |-> free_list_addr, pages |-> n_free_pages]
  ELSE Splice(list[k - 1], obj[sort_ids[k]])

\* Objects of the index are in place.
LEMMA IndexPlaced ==
  ASSUME obj \in Seq(Obj), NEW R \in SUBSET (1 .. Len(obj))
  PROVE  Placed(R, obj)
<1>1. \A i \in R : i \in 1 .. Len(obj) /\ obj[i] \in Obj
  OBVIOUS
<1>2. R \subseteq Nat \ {0}
  OBVIOUS
<1>3. ASSUME NEW i \in R PROVE obj[i].start_addr \in Addr /\ obj[i].len \in Nat
  <2> DEFINE o == obj[i]
  <2>1. o \in Obj
    BY <1>1
  <2> HIDE DEF o
  <2>2. o.start_addr \in Addr /\ o.len \in Nat
    BY <2>1, CacheAssumption DEF Obj
  <2> QED BY <2>2 DEF o
<1> QED BY <1>2, <1>3 DEF Placed

\* A round makes a free list.
LEMMA SpliceType ==
  ASSUME NEW list \in FreeLists, NEW o \in Obj
  PROVE  Splice(list, o) \in FreeLists
<1>1. o.start_addr \in Page /\ o.len \in Nat
  BY CacheAssumption DEF Obj, Page
<1>2. n_need_pages(o.len) \in Nat
  BY <1>1, NeedPages
<1> DEFINE x == Walk(list.next, o.start_addr, n_need_pages(o.len) - 1)
           n == n_need_pages(o.len)
<1>3. Splice(list, o) = [next |-> [list.next EXCEPT ![x] = list.free], free |-> o.start_addr,
                         pages |-> list.pages + n]
  BY Zenon DEF Splice
<1> HIDE DEF x, n
<1>4. n \in Nat
  BY <1>2 DEF n
<1>5. [list.next EXCEPT ![x] = list.free] \in [Addr -> Page]
  BY DEF FreeLists
<1>6. list.pages + n \in Nat
  BY <1>4 DEF FreeLists
<1> QED BY <1>1, <1>3, <1>5, <1>6 DEF FreeLists

\* The rounds put the pages of the removed objects on the free list, and leave
\* those of the others alone.
LEMMA FreedWhole ==
  ASSUME obj \in Seq(Obj), FreeList \in FreeLists, Whole(FreeList, 1 .. Len(obj), obj),
         NEW n \in 0 .. Len(obj)
  PROVE  /\ Freed(n) \in FreeLists
         /\ Whole(Freed(n), Left(n), obj)
         /\ n = 0 => Freed(n) = FreeList
<1> DEFINE N == Len(obj)
           F == [p \in (1 .. n) \X FreeLists |-> Splice(p[2], obj[sort_ids[p[1]]])]
           K == CHOOSE g : g = [k \in 0 .. n |-> FreedBody(g, k)]
<1>1. /\ n \in Nat /\ N \in Nat
      /\ \A k \in 1 .. n : k \in 1 .. N /\ sort_ids[k] \in 1 .. N /\ obj[sort_ids[k]] \in Obj
  <2>1. sort_ids \in [1 .. N -> 1 .. N]
    BY SortIds
  <2>2. n \in Nat /\ N \in Nat /\ \A k \in 1 .. n : k \in 1 .. N
    OBVIOUS
  <2>3. \A i \in 1 .. N : obj[i] \in Obj
    OBVIOUS
  <2> HIDE DEF N
  <2> QED BY <2>1, <2>2, <2>3
<1>2. \A k \in 1 .. n, p \in FreeLists : F[<<k, p>>] = Splice(p, obj[sort_ids[k]])
  <2> TAKE k \in 1 .. n, p \in FreeLists
  <2>1. <<k, p>> \in (1 .. n) \X FreeLists /\ <<k, p>>[2] = p /\ <<k, p>>[1] = k
    OBVIOUS
  <2>2. F[<<k, p>>] = Splice(<<k, p>>[2], obj[sort_ids[<<k, p>>[1]]])
    BY <2>1, Zenon
  <2> QED BY <2>1, <2>2, Zenon
<1>3. Loop(n, FreeLists, F)
  <2>1. \A p \in (1 .. n) \X FreeLists : p[2] \in FreeLists /\ obj[sort_ids[p[1]]] \in Obj
    BY <1>1
  <2>2. \A p \in (1 .. n) \X FreeLists : Splice(p[2], obj[sort_ids[p[1]]]) \in FreeLists
    BY <2>1, SpliceType
  <2> QED BY <2>2 DEF Loop
<1> HIDE DEF F
<1>4. PICK f \in [0 .. n -> FreeLists] :
        f[0] = FreeList /\ \A k \in 1 .. n : f[k] = F[<<k, f[k - 1]>>]
  <2> DEFINE c == FreeList
  <2>1. c \in FreeLists /\ n \in Nat
    BY <1>1
  <2> HIDE DEF c
  <2>2. \E f \in [0 .. n -> FreeLists] :
          f[0] = c /\ \A k \in 1 .. n : f[k] = F[<<k, f[k - 1]>>]
    BY <1>3, <2>1, Iterated
  <2> QED BY <2>2 DEF c
<1>5. \A k \in 1 .. n : k - 1 \in 0 .. n /\ f[k - 1] \in FreeLists
  OBVIOUS
<1>6. \A k \in 1 .. n : f[k] = Splice(f[k - 1], obj[sort_ids[k]])
  BY <1>2, <1>4, <1>5
<1>7. f = [k \in 0 .. n |-> FreedBody(f, k)]
  <2>1. ASSUME NEW k \in 0 .. n PROVE f[k] = FreedBody(f, k)
    <3>1. CASE k = 0
      BY <1>4, <3>1 DEF FreedBody, FreeList
    <3>2. CASE k # 0
      <4>1. k \in 1 .. n
        BY <3>2
      <4> QED BY <1>6, <3>2, <4>1, Zenon DEF FreedBody
    <3> QED BY <3>1, <3>2
  <2> QED BY <2>1
<1>8. K = [k \in 0 .. n |-> FreedBody(K, k)]
  BY <1>7, Zenon
<1>9. Freed(n) = K[n]
  BY Zenon DEF Freed, FreedBody
<1> HIDE DEF K
<1>10. K[0] = FreeList /\ \A k \in 1 .. n : K[k] = Splice(K[k - 1], obj[sort_ids[k]])
  <2>1. \A k \in 0 .. n : K[k] = FreedBody(K, k)
    BY <1>8, Zenon
  <2>2. 0 \in 0 .. n /\ \A k \in 1 .. n : k \in 0 .. n /\ k # 0
    OBVIOUS
  <2>3. K[0] = FreeList
    BY <2>1, <2>2, Zenon DEF FreedBody, FreeList
  <2>4. ASSUME NEW k \in 1 .. n PROVE K[k] = Splice(K[k - 1], obj[sort_ids[k]])
    BY <2>1, <2>2, Zenon DEF FreedBody
  <2> QED BY <2>3, <2>4
<1> DEFINE T == {k \in 0 .. n : K[k] \in FreeLists /\ Whole(K[k], Left(k), obj)}
<1>11. 0 \in T
  <2>1. Left(0) = 1 .. N
    BY DEF Left
  <2> QED BY <1>10, <2>1
<1>12. ASSUME NEW i \in 1 .. n, i - 1 \in T PROVE i \in T
  <2> DEFINE R == Left(i - 1)
             list == K[i - 1]
             o == sort_ids[i]
  <2>1. list \in FreeLists /\ Whole(list, R, obj) /\ i \in 0 .. n
    BY <1>12
  <2>2. o \in R
    <3>1. \A j \in 1 .. i - 1 : j \in 1 .. N /\ i \in 1 .. N /\ j # i
      BY <1>1
    <3>2. \A j \in 1 .. i - 1 : sort_ids[j] # sort_ids[i]
      BY <3>1, SortIds
    <3> QED BY <1>1, <3>2 DEF Left
  <2>3. Left(i) = R \ {o}
    <3>1. \A j : j \in 1 .. i <=> j \in 1 .. i - 1 \/ j = i
      OBVIOUS
    <3> QED BY <3>1 DEF Left
  <2>4. Placed(R, obj)
    <3>1. R \in SUBSET (1 .. N)
      BY DEF Left
    <3> HIDE DEF R
    <3> QED BY <3>1, IndexPlaced
  <2>5. K[i] = Splice(list, obj[o])
    BY <1>10, Zenon
  <2> HIDE DEF R, list, o
  <2>6. Splice(list, obj[o]) \in FreeLists /\ Whole(Splice(list, obj[o]), R \ {o}, obj)
    BY <2>1, <2>2, <2>4, SpliceWhole
  <2> QED BY <2>1, <2>3, <2>5, <2>6
<1> HIDE DEF T
<1>13. \A k \in 0 .. n : k \in T
  BY <1>1, <1>11, <1>12, Steps
<1>14. n \in T
  BY <1>1, <1>13
<1>15. n = 0 => Freed(n) = FreeList
  BY <1>9, <1>10
<1> QED BY <1>9, <1>14, <1>15 DEF T

-----------------------------------------------------------------------------
(* The defragmentation *)

\* s holds, in their order, the objects of the first i places that are in R; g
\* says where they were.
Kept(R, i, s, g) ==
  /\ s \in Seq(Obj)
  /\ g \in [1 .. Len(s) -> 1 .. i]
  /\ \A j \in 1 .. Len(s) : g[j] \in R /\ s[j] = obj[g[j]]
  /\ \A j, k \in 1 .. Len(s) : j < k => g[j] < g[k]
  /\ \A x \in R : x <= i => \E j \in 1 .. Len(s) : g[j] = x

\* The time of use the loop sees, and its body.
Tsc(n, i) == IF i \in {sort_ids[k] : k \in 1 .. n} THEN 0 ELSE obj[i].last_used_tsc
DefragBody(n, s, i) ==
  IF i = 0 THEN <<>>
  ELSE IF Tsc(n, i) = 0 THEN s[i - 1] ELSE Append(s[i - 1], obj[i])

\* A round that keeps an object.
LEMMA KeptNext ==
  ASSUME obj \in Seq(Obj), NEW R \in SUBSET (1 .. Len(obj)), NEW i \in R,
         NEW s, NEW g, Kept(R, i - 1, s, g)
  PROVE  \E h : Kept(R, i, Append(s, obj[i]), h)
<1> DEFINE m == Len(s)
           e == obj[i]
           h == [j \in 1 .. m + 1 |-> IF j = m + 1 THEN i ELSE g[j]]
           new == Append(s, e)
<1>1. i \in Nat /\ i >= 1 /\ s \in Seq(Obj) /\ m \in Nat /\ e \in Obj
  BY DEF Kept
<1>2. /\ new \in Seq(Obj) /\ Len(new) = m + 1 /\ new[m + 1] = e
      /\ \A j \in 1 .. m : new[j] = s[j]
  BY <1>1
<1>3. \A j \in 1 .. m : g[j] \in 1 .. i - 1 /\ g[j] \in R /\ s[j] = obj[g[j]]
  BY DEF Kept
<1>4. \A j \in 1 .. m : g[j] \in 1 .. i /\ g[j] < i
  BY <1>1, <1>3
<1> HIDE DEF new, m
<1>5. \A j \in 1 .. m + 1 : j = m + 1 \/ j \in 1 .. m
  BY <1>1
<1>6. /\ h \in [1 .. m + 1 -> 1 .. i] /\ h[m + 1] = i
      /\ \A j \in 1 .. m : h[j] = g[j] /\ j \in 1 .. m + 1 /\ j # m + 1
      /\ m + 1 \in 1 .. m + 1
  BY <1>1, <1>4, <1>5
<1> HIDE DEF h
<1>7. \A j \in 1 .. m + 1 : h[j] \in R /\ new[j] = obj[h[j]]
  BY <1>2, <1>3, <1>5, <1>6
<1>8. ASSUME NEW j \in 1 .. m + 1, NEW k \in 1 .. m + 1, j < k PROVE h[j] < h[k]
  <2>1. j \in 1 .. m
    BY <1>1, <1>8
  <2>2. CASE k = m + 1
    BY <1>4, <1>6, <2>1, <2>2
  <2>3. CASE k \in 1 .. m
    <3>1. g[j] < g[k]
      BY <1>8, <2>1, <2>3 DEF Kept, m
    <3> QED BY <1>6, <2>1, <2>3, <3>1
  <2> QED BY <1>5, <2>2, <2>3
<1>9. ASSUME NEW x \in R, x <= i PROVE \E j \in 1 .. m + 1 : h[j] = x
  <2>1. CASE x = i
    BY <1>6, <2>1
  <2>2. CASE x # i
    <3>1. x <= i - 1
      BY <1>1, <1>9, <2>2
    <3>2. PICK j \in 1 .. m : g[j] = x
      BY <3>1 DEF Kept, m
    <3> QED BY <1>6, <3>2
  <2> QED BY <2>1, <2>2
<1>10. Kept(R, i, new, h)
  BY <1>2, <1>6, <1>7, <1>8, <1>9 DEF Kept
<1> QED BY <1>10 DEF new

\* A round that drops one.
LEMMA KeptSame ==
  ASSUME NEW R \in SUBSET Nat, NEW i \in Nat \ {0}, i \notin R,
         NEW s, NEW g, Kept(R, i - 1, s, g)
  PROVE  Kept(R, i, s, g)
<1>1. g \in [1 .. Len(s) -> 1 .. i]
  <2>1. g \in [1 .. Len(s) -> 1 .. i - 1] /\ 1 .. i - 1 \subseteq 1 .. i
    BY DEF Kept
  <2> QED BY <2>1
<1>2. \A x \in R : x <= i => x <= i - 1
  OBVIOUS
<1> QED BY <1>1, <1>2 DEF Kept

\* The defragmentation keeps the objects that are left, in their order.
LEMMA DefraggedKept ==
  ASSUME obj \in Seq(Obj), NEW n \in 0 .. Len(obj)
  PROVE  \E g : Kept(Left(n), Len(obj), Defragged(n), g)
<1> DEFINE N == Len(obj)
           S == Seq(Obj)
           Round(i, s) == IF Tsc(n, i) = 0 THEN s ELSE Append(s, obj[i])
           F == [p \in (1 .. N) \X S |-> Round(p[1], p[2])]
           K == CHOOSE g : g = [i \in 0 .. N |-> DefragBody(n, g, i)]
<1>1. N \in Nat /\ \A i \in 1 .. N : obj[i] \in Obj
  OBVIOUS
<1>2. ASSUME NEW i \in 1 .. N, NEW s \in S PROVE Round(i, s) \in S /\ F[<<i, s>>] = Round(i, s)
  <2>1. Append(s, obj[i]) \in S
    BY <1>1
  <2>2. <<i, s>> \in (1 .. N) \X S /\ <<i, s>>[2] = s /\ <<i, s>>[1] = i
    OBVIOUS
  <2>3. F[<<i, s>>] = Round(<<i, s>>[1], <<i, s>>[2])
    BY <2>2, Zenon
  <2> HIDE DEF Round
  <2>4. F[<<i, s>>] = Round(i, s)
    BY <2>2, <2>3, Zenon
  <2> QED BY <2>1, <2>4 DEF Round
<1>3. Loop(N, S, F)
  <2>1. \A p \in (1 .. N) \X S : p[1] \in 1 .. N /\ p[2] \in S
    OBVIOUS
  <2> HIDE DEF Round, S, N
  <2>2. \A p \in (1 .. N) \X S : Round(p[1], p[2]) \in S
    BY <1>2, <2>1
  <2> QED BY <2>2 DEF Loop
<1> HIDE DEF F
<1>4. PICK f \in [0 .. N -> S] : f[0] = <<>> /\ \A k \in 1 .. N : f[k] = F[<<k, f[k - 1]>>]
  <2> DEFINE c == << >>
  <2>1. c \in S
    OBVIOUS
  <2> HIDE DEF c, S, N
  <2>2. \E f \in [0 .. N -> S] : f[0] = c /\ \A k \in 1 .. N : f[k] = F[<<k, f[k - 1]>>]
    BY <1>1, <1>3, <2>1, Iterated
  <2> QED BY <2>2 DEF c
<1> HIDE DEF S
<1>5. \A k \in 1 .. N : f[k] = Round(k, f[k - 1])
  <2> TAKE k \in 1 .. N
  <2>1. f[k - 1] \in S
    BY <1>1
  <2> HIDE DEF Round
  <2> QED BY <1>2, <1>4, <2>1
<1>6. f = [i \in 0 .. N |-> DefragBody(n, f, i)]
  <2>1. ASSUME NEW k \in 0 .. N PROVE f[k] = DefragBody(n, f, k)
    <3>1. CASE k = 0
      BY <1>4, <3>1 DEF DefragBody
    <3>2. CASE k # 0
      <4>1. k \in 1 .. N
        BY <3>2
      <4> QED BY <1>5, <3>2, <4>1, Zenon DEF DefragBody
    <3> QED BY <3>1, <3>2
  <2> QED BY <2>1
<1>7. K = [i \in 0 .. N |-> DefragBody(n, K, i)]
  BY <1>6, Zenon
<1>8. Defragged(n) = K[N]
  BY Zenon DEF Defragged, DefragBody, Tsc
<1> HIDE DEF K
<1>9. K[0] = <<>> /\ \A i \in 1 .. N : K[i] = Round(i, K[i - 1])
  <2>1. \A k \in 0 .. N : K[k] = DefragBody(n, K, k)
    BY <1>7, Zenon
  <2>2. 0 \in 0 .. N /\ \A k \in 1 .. N : k \in 0 .. N /\ k # 0
    BY <1>1
  <2>3. K[0] = <<>>
    BY <2>1, <2>2, Zenon DEF DefragBody
  <2>4. ASSUME NEW k \in 1 .. N PROVE K[k] = Round(k, K[k - 1])
    BY <2>1, <2>2, Zenon DEF DefragBody
  <2> QED BY <2>3, <2>4
<1>10. ASSUME NEW i \in 1 .. N
       PROVE  (i \in Left(n) => Round(i, K[i - 1]) = Append(K[i - 1], obj[i]))
              /\ (i \notin Left(n) => Round(i, K[i - 1]) = K[i - 1])
  <2>1. obj[i].last_used_tsc # 0
    <3> DEFINE o == obj[i]
    <3>1. o \in Obj
      BY <1>1
    <3> HIDE DEF o
    <3>2. o.last_used_tsc # 0
      BY <3>1, CacheAssumption DEF Obj
    <3> QED BY <3>2 DEF o
  <2>2. Tsc(n, i) = 0 <=> i \notin Left(n)
    BY <2>1 DEF Tsc, Left
  <2> QED BY <2>2, Zenon
<1> HIDE DEF Round
<1> DEFINE T == {i \in 0 .. N : \E g : Kept(Left(n), i, K[i], g)}
<1>11. 0 \in T
  <2> DEFINE g == [j \in 1 .. 0 |-> 1]
  <2>1. g \in [1 .. 0 -> 1 .. 0] /\ <<>> \in Seq(Obj) /\ Len(<<>>) = 0
    OBVIOUS
  <2> HIDE DEF g
  <2>2. \A x \in Left(n) : ~ (x <= 0)
    BY DEF Left
  <2>3. Kept(Left(n), 0, <<>>, g)
    BY <2>1, <2>2 DEF Kept
  <2>4. 0 \in 0 .. N
    BY <1>1
  <2> QED BY <1>9, <2>3, <2>4
<1>12. ASSUME NEW i \in 1 .. N, i - 1 \in T PROVE i \in T
  <2>1. PICK g : Kept(Left(n), i - 1, K[i - 1], g)
    BY <1>12
  <2> DEFINE R == Left(n)
             s == K[i - 1]
  <2>2. R \in SUBSET (1 .. N) /\ R \in SUBSET Nat
    BY DEF Left
  <2>3. Kept(R, i - 1, s, g)
    BY <2>1
  <2>4. K[i] = Round(i, s)
    BY <1>9
  <2>5. i \in 0 .. N /\ i \in Nat \ {0}
    OBVIOUS
  <2> HIDE DEF R, s
  <2>6. CASE i \in R
    <3>1. K[i] = Append(s, obj[i])
      BY <1>10, <2>4, <2>6 DEF R, s
    <3>2. \E h : Kept(R, i, Append(s, obj[i]), h)
      BY <2>2, <2>3, <2>6, KeptNext
    <3> QED BY <2>5, <3>1, <3>2 DEF R
  <2>7. CASE i \notin R
    <3>1. K[i] = s
      BY <1>10, <2>4, <2>7 DEF R, s
    <3>2. Kept(R, i, s, g)
      BY <2>2, <2>3, <2>5, <2>7, KeptSame
    <3> QED BY <2>5, <3>1, <3>2 DEF R
  <2> QED BY <2>6, <2>7
<1> HIDE DEF T
<1>13. \A k \in 0 .. N : k \in T
  BY <1>1, <1>11, <1>12, Steps
<1>14. N \in T
  BY <1>1, <1>13
<1> QED BY <1>8, <1>14 DEF T

\* Each round makes the index one object shorter.
LEMMA KeptLength ==
  ASSUME obj \in Seq(Obj), NEW n \in 0 .. Len(obj), NEW s, NEW g, Kept(Left(n), Len(obj), s, g)
  PROVE  Len(s) = Len(obj) - n
<1> DEFINE N == Len(obj)
           D == 1 .. N
           G == {sort_ids[j] : j \in 1 .. n}
           m == Len(s)
           ids == [j \in 1 .. n |-> sort_ids[j]]
<1>1. N \in Nat /\ n \in Nat /\ m \in Nat /\ n <= N
  BY DEF Kept
<1>2. /\ IsFiniteSet(D) /\ Cardinality(D) = N
      /\ IsFiniteSet(1 .. n) /\ Cardinality(1 .. n) = n
      /\ IsFiniteSet(1 .. m) /\ Cardinality(1 .. m) = m
  <2>1. 1 \in Int /\ m \in Int /\ N \in Int /\ n \in Int
    BY <1>1
  <2> HIDE DEF m, N
  <2>2. /\ IsFiniteSet(1 .. m) /\ Cardinality(1 .. m) = IF 1 > m THEN 0 ELSE m - 1 + 1
        /\ IsFiniteSet(1 .. N) /\ Cardinality(1 .. N) = IF 1 > N THEN 0 ELSE N - 1 + 1
        /\ IsFiniteSet(1 .. n) /\ Cardinality(1 .. n) = IF 1 > n THEN 0 ELSE n - 1 + 1
    BY <2>1, FS_Interval
  <2> QED BY <1>1, <2>2
<1>3. /\ sort_ids \in [1 .. N -> 1 .. N]
      /\ \A i, j \in 1 .. N : sort_ids[i] = sort_ids[j] => i = j
      /\ \A j \in 1 .. n : j \in 1 .. N
  BY <1>1, SortIds
<1>4. ids \in Surjection(1 .. n, G) /\ ids \in Injection(1 .. n, G) /\ G \subseteq D
  <2>1. ids \in [1 .. n -> G] /\ \A j \in 1 .. n : ids[j] = sort_ids[j]
    OBVIOUS
  <2>2. G \subseteq D
    BY <1>3
  <2>3. \A x \in G : \E j \in 1 .. n : ids[j] = x
    BY <2>1
  <2>4. \A i, j \in 1 .. n : ids[i] = ids[j] => i = j
    BY <1>3, <2>1
  <2> HIDE DEF ids, G
  <2> QED BY <2>1, <2>2, <2>3, <2>4 DEF Surjection, Injection, IsInjective
<1> HIDE DEF ids, G, D, m, N
<1>5. Cardinality(G) = n
  BY <1>2, <1>4, FS_Surjection
<1>6. IsFiniteSet(D \ G) /\ Cardinality(D \ G) = N - n
  <2>1. D \cap G = G
    BY <1>4
  <2>2. IsFiniteSet(D \ G) /\ Cardinality(D \ G) = Cardinality(D) - Cardinality(D \cap G)
    BY <1>2, FS_Difference, Zenon
  <2>3. Cardinality(D \cap G) = n
    BY <1>5, <2>1, Zenon
  <2> QED BY <1>2, <2>2, <2>3
<1>7. Left(n) = D \ G
  BY DEF Left, D, G, N
<1>8. g \in Surjection(1 .. m, D \ G) /\ g \in Injection(1 .. m, D \ G)
  <2>1. /\ \A j \in 1 .. m : g[j] \in D \ G
        /\ DOMAIN g = 1 .. m /\ g = [j \in 1 .. m |-> g[j]]
    BY <1>7 DEF Kept, m
  <2>2. g \in [1 .. m -> D \ G]
    BY <2>1
  <2>3. \A x \in D \ G : x <= N
    BY <1>1 DEF D
  <2>4. \A x \in D \ G : \E j \in 1 .. m : g[j] = x
    BY <1>7, <2>3 DEF Kept, m, N
  <2>5. ASSUME NEW i \in 1 .. m, NEW j \in 1 .. m, g[i] = g[j] PROVE i = j
    <3>1. g[i] \in Nat /\ g[j] \in Nat
      BY <2>1, <1>1 DEF D
    <3>2. (i < j => g[i] < g[j]) /\ (j < i => g[j] < g[i])
      BY DEF Kept, m
    <3> QED BY <2>5, <3>1, <3>2
  <2>6. \A i, j \in DOMAIN g : g[i] = g[j] => i = j
    BY <2>1, <2>5
  <2>7. g \in Injection(1 .. m, D \ G)
    BY <2>2, <2>6, Zenon DEF Injection, IsInjective
  <2>8. g \in Surjection(1 .. m, D \ G)
    BY <2>2, <2>4, Zenon DEF Surjection
  <2> QED BY <2>7, <2>8
<1>9. Cardinality(D \ G) = m
  BY <1>2, <1>8, FS_Surjection
<1> QED BY <1>6, <1>9 DEF m, N

-----------------------------------------------------------------------------
(* Finding a digest *)

\* The digests are in a total order.
LEMMA DigestOrder ==
  ASSUME NEW a \in Digest, NEW b \in Digest
  PROVE  /\ a[1] \in Nat /\ a[2] \in Nat
         /\ Less(a, b) \/ a = b \/ Less(b, a)
         /\ Less(a, b) => a # b /\ ~ Less(b, a)
         /\ \A c \in Digest : Less(a, b) /\ Less(b, c) => Less(a, c)
<1>1. \A c \in Digest : c[1] \in Nat /\ c[2] \in Nat /\ c = <<c[1], c[2]>>
  BY CacheAssumption
<1>2. a[1] = b[1] /\ a[2] = b[2] => a = b
  BY <1>1
<1>3. ASSUME NEW c \in Digest, Less(a, b), Less(b, c) PROVE Less(a, c)
  BY <1>1, <1>3 DEF Less
<1> QED BY <1>1, <1>2, <1>3 DEF Less

\* The least element of a set of numbers.
LEMMA SmallestOf ==
  ASSUME NEW T \in SUBSET Nat, T # {}
  PROVE  Min(T) \in T /\ \A y \in T : Min(T) <= y
<1>1. \E x \in T : \A y \in T : x <= y
  BY LeastNumber
<1> QED BY <1>1, Zenon DEF Min

\* Places that come before all others are the first ones.
LEMMA FirstPlaces ==
  ASSUME NEW N \in Nat, NEW P \in SUBSET (1 .. N),
         \A i, j \in 1 .. N : i < j /\ j \in P => i \in P
  PROVE  Cardinality(P) \in 0 .. N /\ P = 1 .. Cardinality(P)
<1> DEFINE Out == {i \in 1 .. N + 1 : i \notin P}
<1>1. Out \in SUBSET Nat /\ Out # {}
  <2>1. N + 1 \in Out
    OBVIOUS
  <2> QED BY <2>1
<1>2. PICK x \in Out : \A y \in Out : x <= y
  BY <1>1, LeastNumber
<1> DEFINE a == x - 1
<1>3. a \in 0 .. N /\ a \in Nat /\ x = a + 1
  OBVIOUS
<1>4. P = 1 .. a
  <2>1. ASSUME NEW i \in 1 .. a PROVE i \in P
    BY <1>2
  <2>2. ASSUME NEW i \in P PROVE i \in 1 .. a
    <3>1. i \in 1 .. N /\ x \notin P /\ i # x
      BY <1>2
    <3>2. CASE x < i
      <4>1. x \in 1 .. N
        BY <3>1, <3>2
      <4> QED BY <3>1, <3>2, <4>1
    <3> QED BY <3>1, <3>2
  <2> QED BY <2>1, <2>2
<1> HIDE DEF a
<1>5. Cardinality(1 .. a) = a
  <2>1. 1 \in Int /\ a \in Int
    BY <1>3
  <2>2. Cardinality(1 .. a) = IF 1 > a THEN 0 ELSE a - 1 + 1
    BY <2>1, FS_Interval
  <2> QED BY <1>3, <2>2
<1> QED BY <1>3, <1>4, <1>5

Sorted(index) ==
  \A i, j \in 1 .. Len(index) : i < j => Less(index[i].digest, index[j].digest)

\* On a sorted index find returns the place where the digest is, or the one
\* where it belongs.
LEMMA FindPlace ==
  ASSUME NEW index \in Seq(Obj), Sorted(index), NEW d \in Digest
  PROVE  /\ find(index, d).idx \in 1 .. Len(index) + 1
         /\ find(index, d).found =>
              find(index, d).idx \in 1 .. Len(index) /\ index[find(index, d).idx].digest = d
         /\ \A i \in 1 .. Len(index) : i < find(index, d).idx => Less(index[i].digest, d)
         /\ ~ find(index, d).found =>
              \A i \in 1 .. Len(index) : i >= find(index, d).idx => Less(d, index[i].digest)
<1> DEFINE N == Len(index)
           P1 == {i \in DOMAIN index : index[i].digest[1] < d[1]}
           P2 == {i \in DOMAIN index : index[i].digest[1] <= d[1]}
           a == Cardinality(P1)
           b == Cardinality(P2)
           T == {i \in 1 + a .. (1 + b) - 1 : ~ Less(index[i].digest, d)} \cup {1 + b}
           idx == Min(T)
<1>1. N \in Nat /\ DOMAIN index = 1 .. N /\ \A i \in 1 .. N : index[i] \in Obj
  OBVIOUS
<1>2. \A i \in 1 .. N : index[i].digest \in Digest /\ index[i].digest[1] \in Nat
  <2> TAKE i \in 1 .. N
  <2> DEFINE o == index[i]
  <2>1. o \in Obj
    BY <1>1
  <2> HIDE DEF o
  <2>2. o.digest \in Digest
    BY <2>1 DEF Obj
  <2> QED BY <2>2, DigestOrder DEF o
<1>3. d[1] \in Nat
  BY DigestOrder
<1>4. \A i, j \in 1 .. N : i < j => index[i].digest[1] <= index[j].digest[1]
  BY <1>2 DEF Sorted, Less
<1>5. find(index, d) = [found |-> idx < 1 + b /\ index[idx].digest = d, idx |-> idx]
  BY Zenon DEF find
<1>6. a \in 0 .. N /\ P1 = 1 .. a
  <2>1. P1 \in SUBSET (1 .. N)
    BY <1>1
  <2>2. \A i, j \in 1 .. N : i < j /\ j \in P1 => i \in P1
    BY <1>1, <1>2, <1>3, <1>4
  <2> HIDE DEF P1, N
  <2> QED BY <1>1, <2>1, <2>2, FirstPlaces
<1>7. b \in 0 .. N /\ P2 = 1 .. b
  <2>1. P2 \in SUBSET (1 .. N)
    BY <1>1
  <2>2. \A i, j \in 1 .. N : i < j /\ j \in P2 => i \in P2
    BY <1>1, <1>2, <1>3, <1>4
  <2> HIDE DEF P2, N
  <2> QED BY <1>1, <2>1, <2>2, FirstPlaces
<1>8. /\ \A i \in 1 .. N : i <= a <=> index[i].digest[1] < d[1]
      /\ \A i \in 1 .. N : i <= b <=> index[i].digest[1] <= d[1]
  <2>1. \A i \in 1 .. N : i \in P1 <=> index[i].digest[1] < d[1]
    BY <1>1
  <2>2. \A i \in 1 .. N : i \in P2 <=> index[i].digest[1] <= d[1]
    BY <1>1
  <2> HIDE DEF P1, P2, a, b, N
  <2>3. \A i \in 1 .. N : (i <= a <=> i \in 1 .. a) /\ (i <= b <=> i \in 1 .. b)
    BY <1>1, <1>6, <1>7
  <2> QED BY <1>6, <1>7, <2>1, <2>2, <2>3
<1> HIDE DEF P1, P2, a, b, N
<1>9. /\ idx \in T /\ \A y \in T : idx <= y
      /\ \A y \in T : y \in Nat
  <2>1. T \in SUBSET Nat /\ T # {}
    BY <1>6, <1>7
  <2> HIDE DEF T
  <2> QED BY <2>1, SmallestOf
<1> HIDE DEF idx
<1>10. a <= b
  <2>1. CASE a = 0
    BY <1>7, <2>1
  <2>2. CASE a # 0
    <3>1. a \in 1 .. N /\ a <= a
      BY <1>6, <2>2
    <3>2. index[a].digest[1] < d[1]
      BY <1>8, <3>1
    <3>3. index[a].digest[1] <= d[1]
      BY <1>2, <1>3, <3>1, <3>2
    <3> QED BY <1>8, <3>1, <3>3
  <2> QED BY <2>1, <2>2
<1>11. idx \in 1 + a .. 1 + b /\ idx \in 1 .. N + 1 /\ idx \in Nat
  BY <1>1, <1>6, <1>7, <1>9, <1>10
<1>12. ASSUME NEW i \in 1 .. N, i < idx PROVE Less(index[i].digest, d)
  <2>1. CASE i <= a
    BY <1>8, <2>1 DEF Less
  <2>2. CASE ~ (i <= a)
    <3>1. i \in 1 + a .. (1 + b) - 1 /\ i \notin T
      BY <1>6, <1>7, <1>9, <1>11, <1>12, <2>2
    <3> QED BY <3>1
  <2> QED BY <2>1, <2>2
<1>13. idx < 1 + b => ~ Less(index[idx].digest, d) /\ idx \in 1 .. N
  BY <1>1, <1>6, <1>7, <1>9, <1>11
<1> HIDE DEF T
<1>14. ASSUME NEW i \in 1 .. N, i >= idx, ~ (idx < 1 + b /\ index[idx].digest = d)
       PROVE  Less(d, index[i].digest)
  <2>1. CASE ~ (i <= b)
    <3>1. ~ (index[i].digest[1] <= d[1])
      BY <1>8, <2>1
    <3> QED BY <1>2, <1>3, <3>1 DEF Less
  <2>2. CASE i <= b
    <3>1. idx < 1 + b
      BY <1>7, <1>11, <1>14, <2>2
    <3>2. idx \in 1 .. N /\ ~ Less(index[idx].digest, d) /\ index[idx].digest # d
          /\ index[idx].digest \in Digest
      BY <1>2, <1>13, <1>14, <3>1
    <3>3. Less(d, index[idx].digest)
      BY <3>2, DigestOrder
    <3>4. CASE i = idx
      BY <3>3, <3>4
    <3>5. CASE i # idx
      <4>1. idx < i
        BY <1>11, <1>14, <3>5
      <4>2. Less(index[idx].digest, index[i].digest)
        BY <3>2, <4>1 DEF Sorted, N
      <4> QED BY <1>2, <3>2, <3>3, <4>2, DigestOrder
    <3> QED BY <3>4, <3>5
  <2> QED BY <2>1, <2>2
<1> DEFINE fnd == idx < 1 + b /\ index[idx].digest = d
<1>15. find(index, d).idx = idx /\ (find(index, d).found <=> fnd)
  <2>1. fnd \in BOOLEAN
    OBVIOUS
  <2>2. find(index, d) = [found |-> fnd, idx |-> idx]
    BY <1>5, Zenon
  <2> HIDE DEF fnd
  <2>3. find(index, d).idx = idx /\ find(index, d).found = fnd
    BY <2>2
  <2> QED BY <2>1, <2>3
<1>16. /\ idx \in 1 .. N + 1
       /\ idx < 1 + b /\ index[idx].digest = d => idx \in 1 .. N /\ index[idx].digest = d
       /\ \A i \in 1 .. N : i < idx => Less(index[i].digest, d)
       /\ ~ (idx < 1 + b /\ index[idx].digest = d) =>
            \A i \in 1 .. N : i >= idx => Less(d, index[i].digest)
  BY <1>11, <1>12, <1>13, <1>14
<1> QED BY <1>15, <1>16 DEF N

-----------------------------------------------------------------------------
(* Room for a new object *)

\* However many objects it removes, the loop ends with enough free pages and
\* with a free entry in the index.
LEMMA RemovedEnough ==
  ASSUME obj \in Seq(Obj), FreeList \in FreeLists, Whole(FreeList, 1 .. Len(obj), obj),
         Len(obj) <= MaxObjects, NEW len \in Nat, n_need_pages(len) <= TotalPages
  PROVE  /\ Removed(len) \in 0 .. Len(obj)
         /\ n_need_pages(len) <= Freed(Removed(len)).pages
         /\ Len(obj) - Removed(len) + 1 <= MaxObjects
<1> DEFINE N == Len(obj)
           n == Removed(len)
           need == n_need_pages(len)
           T == {k \in 1 .. N : ~ still_need_remove(len, k)} \cup {N}
<1>1. N \in Nat /\ need \in Nat /\ MaxObjects \in Nat /\ MaxObjects >= 1 /\ TotalPages \in Nat
  BY NeedPages, CacheAssumption
<1>2. \A k \in 0 .. N : /\ Freed(k) \in FreeLists /\ Freed(k).pages \in Nat
                        /\ Whole(Freed(k), Left(k), obj)
                        /\ k = 0 => Freed(k).pages = n_free_pages
  <2> TAKE k \in 0 .. N
  <2>1. Freed(k) \in FreeLists /\ Whole(Freed(k), Left(k), obj) /\ (k = 0 => Freed(k) = FreeList)
    BY FreedWhole
  <2>2. Freed(k).pages \in Nat
    BY <2>1 DEF FreeLists
  <2>3. FreeList.pages = n_free_pages
    BY DEF FreeList
  <2> QED BY <2>1, <2>2, <2>3
<1>3. CASE ~ need_remove(len)
  <2>1. n = 0 /\ 0 \in 0 .. N
    <3>1. n = 0
      BY <1>3, Zenon DEF Removed
    <3> QED BY <1>1, <3>1
  <2>2. n_free_pages \in Nat
    BY <1>1, <1>2, <2>1
  <2>3. ~ (need > n_free_pages) /\ ~ (N + 1 > MaxObjects)
    BY <1>3, Zenon DEF need_remove
  <2>4. Freed(n).pages = n_free_pages
    BY <1>2, <2>1
  <2> HIDE DEF n, need, N
  <2>5. n \in 0 .. N /\ need <= Freed(n).pages /\ N - n + 1 <= MaxObjects
    BY <1>1, <2>1, <2>2, <2>3, <2>4
  <2> QED BY <2>5 DEF n, need, N
<1>4. CASE need_remove(len)
  <2>1. n = Min(T)
    BY <1>4, Zenon DEF Removed
  <2>2. T \in SUBSET Nat /\ T # {} /\ T \subseteq 0 .. N
    BY <1>1
  <2>3. n \in T
    <3> HIDE DEF T, n
    <3> QED BY <2>1, <2>2, SmallestOf
  <2>4. n \in 0 .. N /\ Freed(n).pages \in Nat
    <3>1. n \in 0 .. N
      BY <2>2, <2>3
    <3> HIDE DEF n
    <3> QED BY <1>2, <3>1
  <2>5. CASE n \in 1 .. N /\ ~ still_need_remove(len, n)
    <3>1. ~ (need > Freed(n).pages) /\ ~ (N + 1 > MaxObjects + n)
      BY <2>5, Zenon DEF still_need_remove
    <3> HIDE DEF n, need, N
    <3>2. need <= Freed(n).pages /\ N - n + 1 <= MaxObjects
      BY <1>1, <2>4, <3>1
    <3> QED BY <2>4, <3>2 DEF n, need, N
  <2>6. CASE n = N
    <3>1. Left(N) = {}
      BY SortIds DEF Left
    <3>2. Placed(Left(N), obj)
      <4> DEFINE R == Left(N)
      <4>1. R \in SUBSET (1 .. Len(obj))
        BY <3>1
      <4> HIDE DEF R
      <4>2. Placed(R, obj)
        BY <4>1, IndexPlaced
      <4> QED BY <4>2 DEF R
    <3>3. Freed(N).pages = TotalPages
      <4> DEFINE R == Left(N)
                 list == Freed(N)
      <4>0. N \in 0 .. N
        BY <1>1
      <4>1. list \in FreeLists /\ Placed(R, obj) /\ Whole(list, R, obj) /\ R = {}
        BY <1>2, <3>1, <3>2, <4>0
      <4> HIDE DEF R, list
      <4>2. list.pages = TotalPages
        BY <4>1, PagesCounted
      <4> QED BY <4>2 DEF list
    <3> HIDE DEF n, need, N
    <3>4. need <= Freed(n).pages /\ N - n + 1 <= MaxObjects
      <4>1. need <= TotalPages
        BY DEF need
      <4> QED BY <1>1, <2>6, <3>3, <4>1
    <3> QED BY <2>4, <3>4 DEF n, need, N
  <2>7. (n \in 1 .. N /\ ~ still_need_remove(len, n)) \/ n = N
    <3> HIDE DEF n
    <3> QED BY <2>3
  <2> QED BY <2>5, <2>6, <2>7
<1> QED BY <1>3, <1>4

-----------------------------------------------------------------------------
(* The new object's entry *)

\* new is the index with e after its first l objects.
Shifted(S, index, l, e, new) ==
  /\ new \in Seq(S) /\ Len(new) = Len(index) + 1 /\ new[l + 1] = e
  /\ \A i \in 1 .. l : new[i] = index[i]
  /\ \A i \in l + 2 .. Len(index) + 1 : new[i] = index[i - 1]

\* InsertAt moves up what comes after the new object.
LEMMA Insertion ==
  ASSUME NEW S, NEW index \in Seq(S), NEW e \in S, NEW l \in Nat, l <= Len(index)
  PROVE  Shifted(S, index, l, e, InsertAt(index, l + 1, e))
<1> DEFINE n == Len(index)
           a == SubSeq(index, 1, (l + 1) - 1)
           b == SubSeq(index, l + 1, n)
           ae == a \o <<e>>
<1>1. n \in Nat /\ (l + 1) - 1 = l
  OBVIOUS
<1>2. a \in Seq(S) /\ Len(a) = l /\ \A i \in 1 .. l : a[i] = index[i]
  BY <1>1
<1>3. b \in Seq(S) /\ Len(b) = n - l /\ \A i \in 1 .. n - l : b[i] = index[l + i]
  BY <1>1
<1> DEFINE new == InsertAt(index, l + 1, e)
<1>4. new = ae \o b
  BY Zenon DEF InsertAt
<1> HIDE DEF a, b, n, new
<1>5. /\ ae \in Seq(S) /\ Len(ae) = l + 1 /\ ae[l + 1] = e
      /\ \A i \in 1 .. l : ae[i] = a[i]
  BY <1>2
<1> HIDE DEF ae
<1>6. /\ ae \o b \in Seq(S) /\ Len(ae \o b) = n + 1
      /\ \A i \in 1 .. l + 1 : (ae \o b)[i] = ae[i]
      /\ \A i \in l + 2 .. n + 1 : (ae \o b)[i] = b[i - (l + 1)]
  BY <1>1, <1>3, <1>5, l <= n DEF n
<1>7. ASSUME NEW i \in l + 2 .. n + 1 PROVE (ae \o b)[i] = index[i - 1]
  <2>1. i - (l + 1) \in 1 .. n - l /\ l + (i - (l + 1)) = i - 1
    BY <1>1
  <2> QED BY <1>3, <1>6, <2>1
<1>8. /\ new \in Seq(S) /\ Len(new) = n + 1 /\ new[l + 1] = e
      /\ \A i \in 1 .. l : new[i] = index[i]
      /\ \A i \in l + 2 .. n + 1 : new[i] = index[i - 1]
  <2>1. \A i \in 1 .. l + 1 : new[i] = ae[i]
    BY <1>4, <1>6
  <2>2. new[l + 1] = e /\ \A i \in 1 .. l : new[i] = index[i]
    BY <1>2, <1>5, <2>1
  <2> QED BY <1>4, <1>6, <1>7, <2>2
<1>9. Shifted(S, index, l, e, new)
  BY <1>8 DEF n, Shifted
<1> QED BY <1>9, Zenon DEF new

\* An object whose digest is not in the index is inserted in its place.
LEMMA InsertedSorted ==
  ASSUME NEW index \in Seq(Obj), Sorted(index), NEW e \in Obj,
         ~ find(index, e.digest).found, NEW q, q = find(index, e.digest).idx
  PROVE  /\ q \in 1 .. Len(index) + 1
         /\ Shifted(Obj, index, q - 1, e, InsertAt(index, q, e))
         /\ Sorted(InsertAt(index, q, e))
<1> DEFINE N == Len(index)
           d == e.digest
           new == InsertAt(index, q, e)
           l == q - 1
<1>1. N \in Nat /\ d \in Digest
  BY DEF Obj
<1>2. /\ q \in 1 .. N + 1
      /\ \A i \in 1 .. N : i < q => Less(index[i].digest, d)
      /\ \A i \in 1 .. N : i >= q => Less(d, index[i].digest)
  <2> HIDE DEF d
  <2>1. d \in Digest /\ q = find(index, d).idx /\ ~ find(index, d).found
    BY <1>1 DEF d
  <2> QED BY <2>1, FindPlace
<1>3. l \in Nat /\ l <= N /\ q = l + 1
  BY <1>1, <1>2
<1>4. Shifted(Obj, index, l, e, new)
  <2>1. InsertAt(index, l + 1, e) = new
    BY <1>3
  <2> HIDE DEF l, new
  <2>2. Shifted(Obj, index, l, e, InsertAt(index, l + 1, e))
    BY <1>3, Insertion
  <2> QED BY <2>1, <2>2
<1> HIDE DEF new, d, l
<1>5. /\ Len(new) = N + 1 /\ new[q] = e
      /\ \A i \in 1 .. l : new[i] = index[i]
      /\ \A i \in l + 2 .. N + 1 : new[i] = index[i - 1]
  BY <1>3, <1>4 DEF Shifted
<1> HIDE DEF N
<1>6. \A i \in 1 .. N + 1 : \/ i = q
                            \/ i < q /\ i \in 1 .. l /\ i \in 1 .. N
                            \/ i > q /\ i \in l + 2 .. N + 1 /\ i - 1 \in 1 .. N /\ i - 1 >= q
  BY <1>1, <1>3
<1>7. \A i, j \in 1 .. N : i < j => Less(index[i].digest, index[j].digest)
  BY DEF Sorted, N
<1>8. \A i \in 1 .. N : index[i].digest \in Digest
  <2> TAKE i \in 1 .. N
  <2> DEFINE o == index[i]
  <2>1. o \in Obj
    BY DEF N
  <2> HIDE DEF o
  <2>2. o.digest \in Digest
    BY <2>1 DEF Obj
  <2> QED BY <2>2 DEF o
<1>9. ASSUME NEW i \in 1 .. N + 1, NEW j \in 1 .. N + 1, i < j
      PROVE  Less(new[i].digest, new[j].digest)
  <2>1. CASE j < q
    <3>1. i \in 1 .. l /\ j \in 1 .. l /\ i \in 1 .. N /\ j \in 1 .. N
      BY <1>3, <1>6, <1>9, <2>1
    <3> QED BY <1>5, <1>7, <1>9, <3>1
  <2>2. CASE j = q
    <3>1. i \in 1 .. l /\ i \in 1 .. N /\ i < q
      BY <1>3, <1>6, <1>9, <2>2
    <3> QED BY <1>2, <1>5, <2>2, <3>1 DEF d
  <2>3. CASE j > q /\ i = q
    <3>1. j - 1 \in 1 .. N /\ j - 1 >= q /\ j \in l + 2 .. N + 1
      BY <1>3, <1>6, <2>3
    <3>2. Less(d, index[j - 1].digest)
      BY <1>2, <3>1
    <3> QED BY <1>5, <2>3, <3>1, <3>2 DEF d
  <2>4. CASE j > q /\ i < q
    <3>1. i \in 1 .. l /\ i \in 1 .. N /\ j - 1 \in 1 .. N /\ j \in l + 2 .. N + 1 /\ i < j - 1
      BY <1>3, <1>6, <2>4
    <3> QED BY <1>5, <1>7, <3>1
  <2>5. CASE j > q /\ i > q
    <3>1. /\ i - 1 \in 1 .. N /\ i \in l + 2 .. N + 1 /\ i - 1 < j - 1
          /\ j - 1 \in 1 .. N /\ j \in l + 2 .. N + 1
      BY <1>3, <1>6, <1>9, <2>5
    <3>2. Less(index[i - 1].digest, index[j - 1].digest)
      BY <1>7, <3>1
    <3> QED BY <1>5, <3>1, <3>2
  <2> QED BY <1>3, <1>9, <2>1, <2>2, <2>3, <2>4, <2>5
<1>10. Sorted(new)
  BY <1>5, <1>9 DEF Sorted
<1> QED BY <1>2, <1>4, <1>10 DEF N, l, new

-----------------------------------------------------------------------------
(* The invariant *)

CacheInv ==
  /\ obj \in Seq(Obj) /\ Len(obj) <= MaxObjects
  /\ FreeList \in FreeLists
  /\ clock \in 1 .. MaxTsc
  /\ Sorted(obj)
  /\ Whole(FreeList, 1 .. Len(obj), obj)

\* At first every page is on the free list.
LEMMA InitInv ==
  ASSUME Init
  PROVE  CacheInv
<1>1. /\ obj = <<>> /\ free_list_addr = 1 /\ n_free_pages = TotalPages /\ clock = 1
      /\ next = [a \in Addr |-> IF a = TotalPages THEN Null ELSE a + 1]
  BY DEF Init
<1>2. obj \in Seq(Obj) /\ Len(obj) = 0
  BY <1>1
<1>3. TotalPages \in Nat /\ TotalPages >= 1 /\ MaxObjects \in Nat /\ MaxTsc \in Nat /\ MaxTsc >= 1
  BY CacheAssumption
<1>4. /\ next \in [Addr -> Page] /\ next[TotalPages] = Null
      /\ \A a \in Addr : a # TotalPages => next[a] = a + 1
  BY <1>1, <1>3 DEF Addr, Page, Null
<1>5. /\ FreeList \in FreeLists
      /\ FreeList.next = next /\ FreeList.free = 1 /\ FreeList.pages = TotalPages
  BY <1>1, <1>3, <1>4 DEF FreeList, FreeLists, Page, Addr
<1>6. Links(next) /\ 1 \in Page
  BY <1>3, <1>4 DEF Links, Page, Addr
<1> DEFINE T == {k \in 0 .. TotalPages - 1 : Walk(next, 1, k) = k + 1}
<1>7. \A k \in 0 .. TotalPages - 1 : Walk(next, 1, k) = k + 1
  <2>1. 0 \in T
    BY <1>3, <1>6, WalkStep
  <2>2. ASSUME NEW i \in 1 .. TotalPages - 1, i - 1 \in T PROVE i \in T
    <3>1. i - 1 \in Nat /\ (i - 1) + 1 = i /\ i \in 0 .. TotalPages - 1
      BY <1>3
    <3>2. Walk(next, 1, (i - 1) + 1) = After(next, Walk(next, 1, i - 1))
      BY <1>6, <3>1, WalkStep
    <3>3. Walk(next, 1, i - 1) = i
      BY <2>2, <3>1
    <3>4. i \in Addr /\ i # TotalPages /\ i # Null
      BY <1>3 DEF Addr, Null
    <3> QED BY <1>4, <3>1, <3>2, <3>3, <3>4 DEF After
  <2> DEFINE m == TotalPages - 1
  <2>3. m \in Nat
    BY <1>3
  <2>4. \A k \in 0 .. m : k \in T
    <3>1. \A i \in 1 .. m : i - 1 \in T => i \in T
      BY <2>2
    <3> HIDE DEF T, m
    <3> QED BY <2>1, <2>3, <3>1, Steps
  <2> QED BY <2>4
<1>8. Walk(next, 1, TotalPages) = Null
  <2>1. TotalPages - 1 \in Nat /\ TotalPages - 1 \in 0 .. TotalPages - 1 /\ (TotalPages - 1) + 1 = TotalPages
    BY <1>3
  <2>2. Walk(next, 1, (TotalPages - 1) + 1) = After(next, Walk(next, 1, TotalPages - 1))
    BY <1>6, <2>1, WalkStep
  <2>3. Walk(next, 1, TotalPages - 1) = TotalPages
    BY <1>7, <2>1
  <2> QED BY <1>4, <2>1, <2>2, <2>3 DEF After
<1>9. /\ Size(FreeList, obj, 0) = TotalPages
      /\ \A k : At(FreeList, obj, 0, k) = Walk(next, 1, k)
  BY <1>5 DEF Size, At
<1>10. \A i \in {} \cup {0} : i = 0
  OBVIOUS
<1>11. Inside(FreeList, {}, obj)
  BY <1>3, <1>7, <1>9, <1>10 DEF Inside, Addr
<1>12. Apart(FreeList, {}, obj)
  BY <1>3, <1>7, <1>9, <1>10 DEF Apart
<1>13. NoLeak(FreeList, {}, obj)
  <2> SUFFICES ASSUME NEW a \in Addr
               PROVE  \E i \in {} \cup {0} : \E k \in 0 .. Size(FreeList, obj, i) - 1 :
                        At(FreeList, obj, i, k) = a
    BY DEF NoLeak
  <2>1. a - 1 \in 0 .. Size(FreeList, obj, 0) - 1 /\ At(FreeList, obj, 0, a - 1) = a
    BY <1>3, <1>7, <1>9 DEF Addr
  <2> QED BY <2>1
<1>14. Whole(FreeList, 1 .. Len(obj), obj)
  <2>1. 1 .. Len(obj) = {}
    BY <1>2
  <2>2. At(FreeList, obj, 0, FreeList.pages) = Null
    BY <1>5, <1>8, <1>9
  <2> QED BY <1>11, <1>12, <1>13, <2>1, <2>2 DEF Whole
<1>15. Sorted(obj)
  BY <1>2 DEF Sorted
<1> QED BY <1>1, <1>2, <1>3, <1>5, <1>14, <1>15 DEF CacheInv

\* A load changes when an object was used, and nothing else of it.
LEMMA LoadInv ==
  ASSUME CacheInv, NEW d \in Digest, NEW len \in Lens, LoadHit(d, len)
  PROVE  CacheInv'
<1> DEFINE q == find(obj, d).idx
<1>1. /\ find(obj, d).found /\ clock < MaxTsc /\ clock' = clock + 1
      /\ obj' = [obj EXCEPT ![q].last_used_tsc = clock]
      /\ next' = next /\ free_list_addr' = free_list_addr /\ n_free_pages' = n_free_pages
  BY Zenon DEF LoadHit
<1>2. obj \in Seq(Obj) /\ Sorted(obj) /\ clock \in 1 .. MaxTsc /\ Len(obj) \in Nat
  BY DEF CacheInv
<1>3. q \in 1 .. Len(obj)
  BY <1>1, <1>2, FindPlace
<1> HIDE DEF q
<1> DEFINE o == [obj[q] EXCEPT !.last_used_tsc = clock]
<1>4. o \in Obj /\ \A i \in 1 .. Len(obj) : obj[i] \in Obj
  <2>1. \A i \in 1 .. Len(obj) : obj[i] \in Obj
    BY <1>2
  <2>2. obj[q] \in Obj
    BY <1>3, <2>1
  <2> QED BY <1>2, <2>1, <2>2 DEF Obj
<1>5. o.digest = obj[q].digest /\ o.start_addr = obj[q].start_addr /\ o.len = obj[q].len
  BY <1>3, <1>4 DEF Obj
<1>6. obj' = [obj EXCEPT ![q] = o]
  BY <1>1
<1> HIDE DEF o
<1>7. /\ obj' \in Seq(Obj) /\ Len(obj') = Len(obj)
      /\ \A i \in 1 .. Len(obj) : obj'[i] = IF i = q THEN o ELSE obj[i]
  BY <1>2, <1>3, <1>4, <1>6
<1>8. \A i \in 1 .. Len(obj) : /\ obj'[i].digest = obj[i].digest
                               /\ obj'[i].start_addr = obj[i].start_addr
                               /\ obj'[i].len = obj[i].len
  BY <1>5, <1>7
<1>9. Sorted(obj')
  BY <1>2, <1>7, <1>8 DEF Sorted
<1>10. FreeList' = FreeList
  BY <1>1 DEF FreeList
<1>11. Whole(FreeList, 1 .. Len(obj), obj')
  <2> DEFINE R == 1 .. Len(obj)
             list == FreeList
             nobjs == obj'
  <2>1. Whole(list, R, obj)
    BY DEF CacheInv
  <2>2. \A i \in R : nobjs[i].start_addr = obj[i].start_addr /\ nobjs[i].len = obj[i].len
    BY <1>8
  <2> HIDE DEF R, list, nobjs
  <2>3. Whole(list, R, nobjs)
    BY <2>1, <2>2, SamePages
  <2> QED BY <2>3 DEF R, list, nobjs
<1>12. clock' \in 1 .. MaxTsc
  BY <1>1, <1>2, CacheAssumption
<1>13. Len(obj) <= MaxObjects /\ FreeList \in FreeLists
  BY DEF CacheInv
<1>14. Whole(FreeList', 1 .. Len(obj'), obj') /\ FreeList' \in FreeLists
  BY <1>7, <1>10, <1>11, <1>13
<1> QED BY <1>7, <1>9, <1>12, <1>13, <1>14 DEF CacheInv

\* The objects that stay are in order.
LEMMA KeptSorted ==
  ASSUME obj \in Seq(Obj), Sorted(obj), NEW R, NEW s, NEW g, Kept(R, Len(obj), s, g)
  PROVE  Sorted(s)
<1>1. /\ \A j \in 1 .. Len(s) : g[j] \in 1 .. Len(obj) /\ s[j] = obj[g[j]]
      /\ \A j, k \in 1 .. Len(s) : j < k => g[j] < g[k]
  BY DEF Kept
<1> QED BY <1>1 DEF Sorted

\* When there is room, all stay.
LEMMA KeptAll ==
  ASSUME obj \in Seq(Obj)
  PROVE  \E g : Kept(Left(0), Len(obj), obj, g)
<1> DEFINE g == [j \in 1 .. Len(obj) |-> j]
<1>1. Left(0) = 1 .. Len(obj)
  BY DEF Left
<1>2. g \in [1 .. Len(obj) -> 1 .. Len(obj)] /\ \A j \in 1 .. Len(obj) : g[j] = j
  OBVIOUS
<1> HIDE DEF g
<1>3. Kept(Left(0), Len(obj), obj, g)
  BY <1>1, <1>2 DEF Kept
<1> QED BY <1>3

\* A store puts the object into its place of the index and its pages from the
\* free list, after the objects in its way have given up theirs.
LEMMA StoreInv ==
  ASSUME CacheInv, NEW d \in Digest, NEW v \in Payload, NEW len \in Lens, StoreNew(d, v, len)
  PROVE  CacheInv'
<1> DEFINE n     == Removed(len)
           list  == Freed(n)
           index == IF n > 0 THEN Defragged(n) ELSE obj
           e     == [digest |-> d, last_used_tsc |-> clock, start_addr |-> list.free, len |-> len]
           need  == n_need_pages(len)
           q     == find(index, d).idx
           N     == Len(obj)
           R     == Left(n)
<1>1. /\ ~ find(obj, d).found /\ need <= TotalPages
      /\ clock < MaxTsc /\ clock' = clock + 1
      /\ obj' = InsertAt(index, q, e)
      /\ next' = list.next
      /\ free_list_addr' = Walk(list.next, list.free, PagesTaken(len))
      /\ n_free_pages' = list.pages - need
  BY Zenon DEF StoreNew, InsertIndex
<1>2. /\ obj \in Seq(Obj) /\ N \in Nat /\ N <= MaxObjects /\ FreeList \in FreeLists
      /\ clock \in 1 .. MaxTsc /\ Sorted(obj) /\ Whole(FreeList, 1 .. N, obj)
      /\ len \in Nat /\ MaxObjects \in Nat /\ MaxTsc \in Nat
  BY CacheAssumption DEF CacheInv
<1>3. need \in Nat /\ need >= 1 /\ PagesTaken(len) = need
  BY <1>2, NeedPages
<1>4. n \in 0 .. N /\ need <= list.pages /\ N - n + 1 <= MaxObjects
  BY <1>1, <1>2, RemovedEnough
<1> HIDE DEF n
<1>5. list \in FreeLists /\ Whole(list, R, obj) /\ Placed(R, obj) /\ R \in SUBSET (1 .. N)
  <2>1. list \in FreeLists /\ Whole(list, R, obj)
    BY <1>2, <1>4, FreedWhole
  <2>2. R \in SUBSET (1 .. N)
    BY DEF Left
  <2> HIDE DEF R
  <2>3. Placed(R, obj)
    BY <1>2, <2>2, IndexPlaced
  <2> QED BY <2>1, <2>2, <2>3
<1>6. PICK g : Kept(R, N, index, g)
  <2>1. CASE n > 0
    <3>1. \E g : Kept(Left(n), Len(obj), Defragged(n), g)
      BY <1>2, <1>4, DefraggedKept
    <3> QED BY <2>1, <3>1
  <2>2. CASE ~ (n > 0)
    <3>1. n = 0 /\ index = obj
      BY <1>4, <2>2
    <3>2. \E g : Kept(Left(0), Len(obj), obj, g)
      BY <1>2, KeptAll
    <3> QED BY <3>1, <3>2
  <2> QED BY <2>1, <2>2
<1> HIDE DEF index, list
<1> DEFINE m == Len(index)
<1>7. /\ index \in Seq(Obj) /\ m \in Nat /\ m = N - n /\ Sorted(index)
      /\ \A j \in 1 .. m : g[j] \in R /\ g[j] \in Nat /\ index[j] = obj[g[j]]
      /\ \A j, k \in 1 .. m : j < k => g[j] < g[k]
      /\ \A x \in R : \E j \in 1 .. m : g[j] = x
  <2>1. Len(index) = Len(obj) - n
    BY <1>2, <1>4, <1>6, KeptLength
  <2>2. Sorted(index)
    BY <1>2, <1>6, KeptSorted
  <2>3. \A x \in R : x <= N /\ x \in Nat
    BY <1>2, <1>5
  <2>4. /\ index \in Seq(Obj)
        /\ \A j \in 1 .. m : g[j] \in R /\ index[j] = obj[g[j]]
        /\ \A j, k \in 1 .. m : j < k => g[j] < g[k]
        /\ \A x \in R : \E j \in 1 .. m : g[j] = x
    BY <1>6, <2>3 DEF Kept
  <2> QED BY <2>1, <2>2, <2>3, <2>4
<1>8. list.free \in Addr /\ list.pages \in Nat /\ Links(list.next) /\ list.free \in Page
  <2>1. list.pages \in Nat /\ Links(list.next) /\ list.free \in Page
    BY <1>5 DEF FreeLists, Links
  <2>2. 0 \in 0 .. Size(list, obj, 0) - 1
    BY <1>3, <1>4, <2>1 DEF Size
  <2>3. At(list, obj, 0, 0) \in Addr
    BY <1>5, <2>2 DEF Whole, Inside
  <2>4. At(list, obj, 0, 0) = list.free
    BY <2>1, WalkStep DEF At
  <2> QED BY <2>1, <2>3, <2>4
<1>9. /\ e \in Obj /\ e.digest = d /\ e.start_addr = list.free /\ e.len = len
  BY <1>2, <1>8 DEF Obj
<1> HIDE DEF e
<1>10. ~ find(index, d).found
  <2>1. \A i \in 1 .. N : Less(obj[i].digest, d) \/ Less(d, obj[i].digest)
    <3> DEFINE p == find(obj, d).idx
    <3>1. /\ p \in 1 .. N + 1
          /\ \A i \in 1 .. N : i < p => Less(obj[i].digest, d)
          /\ \A i \in 1 .. N : i >= p => Less(d, obj[i].digest)
      BY <1>1, <1>2, FindPlace
    <3> HIDE DEF p
    <3> QED BY <1>2, <3>1
  <2>2. ~ Less(d, d)
    BY DigestOrder
  <2>3. ASSUME find(index, d).found PROVE FALSE
    <3>1. q \in 1 .. m /\ index[q].digest = d
      BY <1>7, <2>3, FindPlace
    <3>2. g[q] \in 1 .. N /\ obj[g[q]].digest = d
      BY <1>5, <1>7, <3>1
    <3> QED BY <2>1, <2>2, <3>2
  <2> QED BY <2>3
<1> HIDE DEF q
<1>11. /\ q \in 1 .. m + 1
       /\ Shifted(Obj, index, q - 1, e, obj') /\ Sorted(obj')
  <2>1. q = find(index, e.digest).idx /\ ~ find(index, e.digest).found
    BY <1>9, <1>10 DEF q
  <2>2. /\ q \in 1 .. Len(index) + 1
        /\ Shifted(Obj, index, q - 1, e, InsertAt(index, q, e)) /\ Sorted(InsertAt(index, q, e))
    BY <1>7, <1>9, <2>1, InsertedSorted
  <2> QED BY <1>1, <2>2
<1> HIDE DEF m, R, N, need
<1> DEFINE M == m + 1
<1>12. /\ obj' \in Seq(Obj) /\ Len(obj') = M /\ obj'[q] = e
       /\ \A i \in 1 .. q - 1 : obj'[i] = index[i]
       /\ \A i \in q + 1 .. M : obj'[i] = index[i - 1]
  <2>1. (q - 1) + 1 = q /\ (q - 1) + 2 = q + 1
    BY <1>7, <1>11
  <2> QED BY <1>11, <2>1 DEF Shifted, m
<1> DEFINE G == [p \in 1 .. M |-> IF p < q THEN g[p] ELSE IF p = q THEN 0 ELSE g[p - 1]]
<1>13. \A p \in 1 .. M : \/ p = q
                         \/ p < q /\ p \in 1 .. q - 1 /\ p \in 1 .. m
                         \/ p > q /\ p \in q + 1 .. M /\ p - 1 \in 1 .. m
  BY <1>7, <1>11
<1>14. /\ DOMAIN G = 1 .. M
       /\ \A p \in 1 .. M : (p < q => G[p] = g[p]) /\ (p = q => G[p] = 0)
                            /\ (p > q => G[p] = g[p - 1])
  BY <1>7, <1>11
<1>15. G \in [1 .. M -> Nat]
  <2>1. \A p \in 1 .. M : G[p] \in Nat
    BY <1>7, <1>13, <1>14
  <2> QED BY <2>1
<1> HIDE DEF G, M
<1>16. Moved(obj, R, obj', M, q, G)
  <2>1. ASSUME NEW p \in 1 .. M, p # q
        PROVE  G[p] \in R /\ obj'[p] = obj[G[p]]
    <3>1. CASE p < q
      <4>1. p \in 1 .. q - 1 /\ p \in 1 .. m
        BY <1>7, <1>11, <1>13, <3>1
      <4> QED BY <1>7, <1>12, <1>14, <3>1, <4>1
    <3>2. CASE p > q
      <4>1. p \in q + 1 .. M /\ p - 1 \in 1 .. m
        BY <1>7, <1>11, <1>13, <3>2
      <4> QED BY <1>7, <1>12, <1>14, <3>2, <4>1
    <3> QED BY <1>7, <1>11, <2>1, <3>1, <3>2
  <2>3. \A j, k \in 1 .. m : g[j] = g[k] => j = k
    BY <1>7
  <2>4. ASSUME NEW p \in 1 .. M, NEW r \in 1 .. M, p # q, r # q, G[p] = G[r] PROVE p = r
    <3>1. CASE p < q /\ r < q
      <4>1. p \in 1 .. m /\ r \in 1 .. m
        BY <1>7, <1>11, <1>13, <3>1
      <4> QED BY <1>14, <2>3, <2>4, <3>1, <4>1
    <3>2. CASE p > q /\ r > q
      <4>1. p - 1 \in 1 .. m /\ r - 1 \in 1 .. m
        BY <1>7, <1>11, <1>13, <3>2
      <4>2. p - 1 = r - 1
        BY <1>14, <2>3, <2>4, <3>2, <4>1
      <4> QED BY <4>2
    <3>3. CASE p < q /\ r > q
      <4>1. p \in 1 .. m /\ r - 1 \in 1 .. m /\ p # r - 1
        BY <1>7, <1>11, <1>13, <3>3
      <4> QED BY <1>14, <2>3, <2>4, <3>3, <4>1
    <3>4. CASE p > q /\ r < q
      <4>1. p - 1 \in 1 .. m /\ r \in 1 .. m /\ p - 1 # r
        BY <1>7, <1>11, <1>13, <3>4
      <4> QED BY <1>14, <2>3, <2>4, <3>4, <4>1
    <3> QED BY <1>7, <1>11, <2>4, <3>1, <3>2, <3>3, <3>4
  <2>5. ASSUME NEW x \in R PROVE \E p \in 1 .. M : p # q /\ G[p] = x
    <3>1. PICK j \in 1 .. m : g[j] = x
      BY <1>7
    <3>2. CASE j < q
      <4>1. j \in 1 .. M /\ j # q
        BY <1>7, <1>11, <3>2 DEF M
      <4> QED BY <1>14, <3>1, <3>2, <4>1
    <3>3. CASE ~ (j < q)
      <4>1. j + 1 \in 1 .. M /\ j + 1 # q /\ j + 1 > q /\ (j + 1) - 1 = j
        BY <1>7, <1>11, <3>3 DEF M
      <4> QED BY <1>14, <3>1, <4>1
    <3> QED BY <3>2, <3>3
  <2> QED BY <1>15, <2>1, <2>4, <2>5 DEF Moved
<1>17. FreeList' \in FreeLists /\ Taken(list, need, FreeList')
  <2>1. /\ FreeList'.next = list.next
        /\ FreeList'.free = Walk(list.next, list.free, need)
        /\ FreeList'.pages = list.pages - need
        /\ FreeList' = [next |-> next', free |-> free_list_addr', pages |-> n_free_pages']
    BY <1>1, <1>3 DEF FreeList
  <2>2. Walk(list.next, list.free, need) \in Page
    BY <1>3, <1>8, WalkStep
  <2>3. list.pages - need \in Nat /\ list.next \in [Addr -> Page]
    BY <1>3, <1>4, <1>8 DEF Links
  <2>4. FreeList' \in FreeLists
    BY <1>1, <1>3, <2>1, <2>2, <2>3 DEF FreeLists
  <2> QED BY <2>1, <2>4 DEF Taken
<1>18. Whole(FreeList', 1 .. M, obj')
  <2> DEFINE new == FreeList'
             nobjs == obj'
  <2>1. /\ list \in FreeLists /\ Placed(R, obj) /\ Whole(list, R, obj) /\ need \in Nat
        /\ need <= list.pages /\ Taken(list, need, new) /\ M \in Nat /\ q \in 1 .. M
        /\ Moved(obj, R, nobjs, M, q, G)
    BY <1>3, <1>4, <1>5, <1>7, <1>11, <1>16, <1>17 DEF M
  <2>2. nobjs[q].start_addr = list.free /\ n_need_pages(nobjs[q].len) = need
    BY <1>9, <1>12 DEF need
  <2> HIDE DEF new, nobjs
  <2>3. Whole(new, 1 .. M, nobjs)
    BY <2>1, <2>2, TakeWhole
  <2> QED BY <2>3 DEF new, nobjs
<1>19. Len(obj') <= MaxObjects
  BY <1>2, <1>4, <1>7, <1>12 DEF M
<1>20. clock' \in 1 .. MaxTsc
  BY <1>1, <1>2
<1>21. Whole(FreeList', 1 .. Len(obj'), obj')
  BY <1>12, <1>18
<1> QED BY <1>11, <1>12, <1>17, <1>19, <1>20, <1>21 DEF CacheInv

\* Loads and stores keep the invariant.
LEMMA NextInv ==
  ASSUME CacheInv, [Next]_vars
  PROVE  CacheInv'
<1>1. ASSUME UNCHANGED <<obj, next, free_list_addr, n_free_pages, clock>> PROVE CacheInv'
  <2>1. FreeList' = FreeList
    BY <1>1 DEF FreeList
  <2> QED BY <1>1, <2>1 DEF CacheInv
<1>2. ASSUME NEW d \in Digest, NEW len \in Lens, LoadHit(d, len) PROVE CacheInv'
  BY <1>2, LoadInv
<1>3. ASSUME NEW d \in Digest, NEW len \in Lens, LoadMiss(d, len) PROVE CacheInv'
  BY <1>1, <1>3 DEF LoadMiss
<1>4. ASSUME NEW d \in Digest, NEW v \in Payload, NEW len \in Lens, StoreFound(d, v, len)
      PROVE  CacheInv'
  BY <1>1, <1>4 DEF StoreFound
<1>5. ASSUME NEW d \in Digest, NEW v \in Payload, NEW len \in Lens, StoreTooLarge(d, v, len)
      PROVE  CacheInv'
  BY <1>1, <1>5 DEF StoreTooLarge
<1>6. ASSUME NEW d \in Digest, NEW v \in Payload, NEW len \in Lens, StoreNew(d, v, len)
      PROVE  CacheInv'
  BY <1>6, StoreInv
<1>7. CASE UNCHANGED vars
  BY <1>1, <1>7 DEF vars
<1> QED BY <1>2, <1>3, <1>4, <1>5, <1>6, <1>7 DEF Next

\* The invariant holds in every state of the cache.
THEOREM CacheInvariance == Spec => []CacheInv
<1>1. Init => CacheInv
  BY InitInv
<1>2. CacheInv /\ [Next]_vars => CacheInv'
  BY NextInv
<1> QED BY <1>1, <1>2, PTL DEF Spec

\* The index stays sorted by digest, without duplicates, whatever the loads,
\* stores, evictions and defragmentations (DuckCache::store, DuckCache::find).
THEOREM IndexStaysSorted == Spec => []IndexSorted
<1>1. CacheInv => IndexSorted
  <2> SUFFICES ASSUME CacheInv, NEW i \in 1 .. Len(obj) - 1
               PROVE  Less(obj[i].digest, obj[i + 1].digest)
    BY DEF IndexSorted
  <2>1. i \in 1 .. Len(obj) /\ i + 1 \in 1 .. Len(obj) /\ i < i + 1
    BY DEF CacheInv
  <2> QED BY <2>1 DEF CacheInv, Sorted
<1> QED BY <1>1, CacheInvariance, PTL

\* The index fits its arrays and the counters stay in range: the loop of
\* DuckCache::store makes enough room before it takes pages.
THEOREM CacheTypes == Spec => []TypeOK
<1>1. CacheInv => TypeOK
  <2> SUFFICES ASSUME CacheInv PROVE TypeOK
    OBVIOUS
  <2>1. /\ FreeList.next = next /\ FreeList.free = free_list_addr /\ FreeList.pages = n_free_pages
    BY DEF FreeList
  <2>2. /\ next \in [Addr -> Page] /\ free_list_addr \in Page /\ n_free_pages \in Nat
    BY <2>1 DEF CacheInv, FreeLists
  <2>3. n_free_pages <= TotalPages
    <3> DEFINE R == 1 .. Len(obj)
               list == FreeList
    <3>1. R \in SUBSET (1 .. Len(obj)) /\ obj \in Seq(Obj) /\ list \in FreeLists /\ Whole(list, R, obj)
      BY DEF CacheInv
    <3> HIDE DEF R, list
    <3>2. Placed(R, obj)
      BY <3>1, IndexPlaced
    <3>3. list.pages <= TotalPages
      BY <3>1, <3>2, PagesCounted
    <3> QED BY <2>1, <3>3 DEF list
  <2>4. \A i \in DOMAIN obj : obj[i] \in Obj
    BY DEF CacheInv
  <2> QED BY <2>2, <2>3, <2>4, CacheAssumption DEF TypeOK, CacheInv, Page, Obj
<1> QED BY <1>1, CacheInvariance, PTL

\* Chain lists the pages of an object, or of the free list.
LEMMA ChainPages ==
  ASSUME NEW i
  PROVE  /\ DOMAIN Chain(i) = 1 .. Size(FreeList, obj, i)
         /\ \A k \in 1 .. Size(FreeList, obj, i) : Chain(i)[k] = At(FreeList, obj, i, k - 1)
<1> DEFINE start == IF i = 0 THEN free_list_addr ELSE obj[i].start_addr
           n     == IF i = 0 THEN n_free_pages ELSE n_need_pages(obj[i].len)
<1>1. Chain(i) = [k \in 1 .. n |-> Walk(next, start, k - 1)]
  BY Zenon DEF Chain
<1>2. FreeList.next = next /\ FreeList.free = free_list_addr /\ FreeList.pages = n_free_pages
  BY DEF FreeList
<1>3. n = Size(FreeList, obj, i) /\ \A k : Walk(next, start, k) = At(FreeList, obj, i, k)
  BY <1>2 DEF Size, At
<1> HIDE DEF start, n
<1> QED BY <1>1, <1>3

\* Every page is in exactly one chain, once, and the free list ends in null: no
\* load, store, eviction or defragmentation loses a page or gives it to two
\* objects (the loops of DuckCache::store over free_list_addr).
THEOREM PagesStayPartitioned == Spec => []PagesPartitioned
<1>1. CacheInv => PagesPartitioned
  <2> SUFFICES ASSUME CacheInv PROVE PagesPartitioned
    OBVIOUS
  <2> DEFINE N == Len(obj)
             R == 1 .. N
             list == FreeList
  <2>1. /\ N \in Nat /\ obj \in Seq(Obj) /\ list \in FreeLists /\ Whole(list, R, obj)
        /\ R \in SUBSET (1 .. Len(obj))
    BY DEF CacheInv
  <2>2. R \cup {0} = 0 .. N
    BY <2>1
  <2>3. Placed(R, obj)
    <3> HIDE DEF R
    <3> QED BY <2>1, IndexPlaced
  <2>4. /\ \A i \in 0 .. N : Size(list, obj, i) \in Nat /\ Size(list, obj, i) <= TotalPages
        /\ list.pages = n_free_pages
    <3>1. \A i \in R \cup {0} : Size(list, obj, i) \in Nat
      <4> HIDE DEF R, list
      <4> QED BY <2>1, <2>3, Sizes
    <3>2. \A i \in R \cup {0} : Size(list, obj, i) <= TotalPages
      <4>1. list.pages <= TotalPages /\ \A i \in R : Size(list, obj, i) <= TotalPages
        <5> HIDE DEF R, list
        <5> QED BY <2>1, <2>3, PagesCounted
      <4>2. Size(list, obj, 0) = list.pages
        BY DEF Size
      <4> QED BY <4>1, <4>2
    <3> QED BY <2>2, <3>1, <3>2 DEF FreeList
  <2>5. \A i : /\ DOMAIN Chain(i) = 1 .. Size(list, obj, i)
               /\ \A k \in 1 .. Size(list, obj, i) : Chain(i)[k] = At(list, obj, i, k - 1)
    BY ChainPages
  <2>6. /\ \A i \in 0 .. N : \A k \in 0 .. Size(list, obj, i) - 1 : At(list, obj, i, k) \in Addr
        /\ \A i, j \in 0 .. N :
             \A k \in 0 .. Size(list, obj, i) - 1, l \in 0 .. Size(list, obj, j) - 1 :
               At(list, obj, i, k) = At(list, obj, j, l) => i = j /\ k = l
        /\ \A a \in Addr : \E i \in 0 .. N : \E k \in 0 .. Size(list, obj, i) - 1 :
             At(list, obj, i, k) = a
    <3> HIDE DEF R, list, N
    <3> QED BY <2>1, <2>2 DEF Whole, Inside, Apart, NoLeak
  <2>7. Walk(next, free_list_addr, n_free_pages) = Null
    BY <2>1 DEF Whole, At, FreeList
  <2> HIDE DEF list, R, N
  <2>8. ASSUME NEW i \in 0 .. N, NEW k \in DOMAIN Chain(i) PROVE Chain(i)[k] # Null
    <3>1. k \in 1 .. Size(list, obj, i) /\ k - 1 \in 0 .. Size(list, obj, i) - 1
      BY <2>4, <2>5
    <3>2. Null \notin Addr
      BY DEF Addr, Null
    <3> QED BY <2>5, <2>6, <3>1, <3>2
  <2>9. ASSUME NEW a \in Addr
        PROVE  Cardinality({p \in (0 .. N) \X (1 .. TotalPages) :
                              p[2] \in DOMAIN Chain(p[1]) /\ Chain(p[1])[p[2]] = a}) = 1
    <3> DEFINE P == {p \in (0 .. N) \X (1 .. TotalPages) :
                       p[2] \in DOMAIN Chain(p[1]) /\ Chain(p[1])[p[2]] = a}
    <3>1. PICK i \in 0 .. N : \E k \in 0 .. Size(list, obj, i) - 1 : At(list, obj, i, k) = a
      BY <2>6
    <3>2. PICK k \in 0 .. Size(list, obj, i) - 1 : At(list, obj, i, k) = a
      BY <3>1
    <3> DEFINE y == k + 1
    <3>3. /\ y \in 1 .. Size(list, obj, i) /\ y - 1 = k /\ y \in 1 .. TotalPages
      BY <2>4, CacheAssumption
    <3> HIDE DEF y
    <3>4. <<i, y>> \in P
      <4>1. <<i, y>> \in (0 .. N) \X (1 .. TotalPages) /\ <<i, y>>[1] = i /\ <<i, y>>[2] = y
        BY <3>3
      <4>2. y \in DOMAIN Chain(i) /\ Chain(i)[y] = a
        BY <2>5, <3>2, <3>3
      <4> QED BY <4>1, <4>2
    <3>5. ASSUME NEW p \in P PROVE p = <<i, y>>
      <4>1. /\ p = <<p[1], p[2]>> /\ p[1] \in 0 .. N /\ p[2] \in 1 .. TotalPages
            /\ p[2] \in DOMAIN Chain(p[1]) /\ Chain(p[1])[p[2]] = a
        OBVIOUS
      <4> DEFINE j == p[1]
                 z == p[2]
                 l == z - 1
      <4>2. /\ z \in 1 .. Size(list, obj, j) /\ l \in 0 .. Size(list, obj, j) - 1
            /\ At(list, obj, j, l) = a /\ l + 1 = z
        BY <2>4, <2>5, <4>1
      <4>3. j \in 0 .. N /\ p = <<j, z>> /\ z \in Int
        BY <4>1
      <4> HIDE DEF j, z, l
      <4>4. j = i /\ l = k
        BY <2>6, <3>2, <4>2, <4>3
      <4> QED BY <3>3, <4>2, <4>3, <4>4 DEF y
    <3> HIDE DEF P
    <3>6. P = {<<i, y>>}
      BY <3>4, <3>5
    <3>7. Cardinality(P) = 1
      BY <3>6, FS_Singleton
    <3> QED BY <3>7 DEF P
  <2> QED BY <2>7, <2>8, <2>9 DEF PagesPartitioned, N
<1> QED BY <1>1, CacheInvariance, PTL

=============================================================================
