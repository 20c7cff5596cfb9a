--------------------------- MODULE CoinsCacheProofs --------------------------
(***************************************************************************)
(* The stack of coin caches keeps its flags sound and implements the stack *)
(* of plain maps of module CoinsView, for every number of caches, every    *)
(* set of transactions and both settings of BIP30.  With BIP30 enforced    *)
(* the memory they count is the memory they hold.                          *)
(***************************************************************************)
EXTENDS CoinsCache, FiniteSetTheorems, WellFoundedInduction, TLAPS

-----------------------------------------------------------------------------
(* The level that answers a read                                           *)

\* A non-empty set of levels has a greatest member.
LEMMA GreatestLevel ==
    ASSUME NEW l \in Nat, NEW S \in SUBSET (1..l), S # {}
    PROVE  \E m \in S : \A k \in S : k <= m
<1> DEFINE T == {n \in Nat : l - n \in S}
           R == OpToRel(<, Nat)
<1>1. T \subseteq Nat /\ T # {}
  <2>1. PICK k \in S : TRUE
    BY Zenon
  <2>2. l - k \in Nat /\ l - (l - k) = k
    OBVIOUS
  <2> QED  BY <2>1, <2>2
<1>2. \E x \in T : \A y \in T : ~(<<y, x>> \in R)
  <2> HIDE DEF T
  <2> QED  BY <1>1, NatLessThanWellFounded, WFMin, Zenon
<1>3. PICK x \in T : \A y \in T : ~(y < x)
  BY <1>2, Zenon DEF OpToRel
<1>4. l - x \in S
  OBVIOUS
<1>5. ASSUME NEW k \in S PROVE k <= l - x
  <2>1. l - k \in T
    <3>1. l - k \in Nat /\ l - (l - k) = k
      OBVIOUS
    <3> QED  BY <3>1
  <2>2. ~(l - k < x)
    BY <2>1, <1>3
  <2> QED  BY <2>2
<1> QED  BY <1>4, <1>5

\* What Top computes: the greatest member, and 0 only of the empty set.
LEMMA TopIsGreatest ==
    ASSUME NEW l \in Nat, NEW S \in SUBSET (1..l)
    PROVE  /\ Top(S) \in 0..l
           /\ S # {} => Top(S) \in S
           /\ S = {} => Top(S) = 0
           /\ \A k \in S : k <= Top(S)
<1>1. CASE S = {}
  BY <1>1 DEF Top
<1>2. CASE S # {}
  <2>1. \E m \in S : \A k \in S : k <= m
    BY <1>2, GreatestLevel, Zenon
  <2>2. Top(S) \in S /\ \A k \in S : k <= Top(S)
    BY <1>2, <2>1, Zenon DEF Top
  <2>3. \A k \in S : k \in 0..l
    OBVIOUS
  <2> QED  BY <1>2, <2>2, <2>3, Zenon
<1> QED  BY <1>1, <1>2

\* The conditions under which the answer of a read is at level m.
LEMMA TopUnique ==
    ASSUME NEW l \in Nat, NEW S \in SUBSET (1..l), NEW m \in 0..l,
           m # 0 => m \in S, \A k \in S : k <= m
    PROVE  Top(S) = m
<1>1. /\ Top(S) \in 0..l
      /\ S # {} => Top(S) \in S
      /\ S = {} => Top(S) = 0
      /\ \A k \in S : k <= Top(S)
  BY TopIsGreatest
<1> QED  BY <1>1

\* Source is the highest level that holds the entry.
LEMMA SourceIsHighest ==
    ASSUME NEW c, NEW t, NEW l \in Nat
    PROVE  /\ Source(c, l, t) \in 0..l
           /\ Source(c, l, t) # 0 => c[Source(c, l, t)][t].in
           /\ \A k \in 1..l : c[k][t].in => k <= Source(c, l, t)
<1> DEFINE S == {k \in 1..l : c[k][t].in}
<1>1. S \in SUBSET (1..l)
  OBVIOUS
<1>2. Source(c, l, t) = Top(S)
  BY DEF Source
<1>3. /\ Top(S) \in 0..l
      /\ S # {} => Top(S) \in S
      /\ S = {} => Top(S) = 0
      /\ \A k \in S : k <= Top(S)
  <2> HIDE DEF S
  <2> QED  BY <1>1, TopIsGreatest
<1> QED  BY <1>2, <1>3

LEMMA SourceUnique ==
    ASSUME NEW c, NEW t, NEW l \in Nat, NEW m \in 0..l,
           m # 0 => c[m][t].in, \A k \in 1..l : c[k][t].in => k <= m
    PROVE  Source(c, l, t) = m
<1> DEFINE S == {k \in 1..l : c[k][t].in}
<1>1. S \in SUBSET (1..l) /\ (m # 0 => m \in S) /\ \A k \in S : k <= m
  OBVIOUS
<1>2. Top(S) = m
  <2> HIDE DEF S
  <2> QED  BY <1>1, TopUnique
<1> QED  BY <1>2 DEF Source

\* A read at level l is answered there or by the level below.
LEMMA ViewStep ==
    ASSUME NEW c, NEW d, NEW t, NEW l \in Nat
    PROVE  /\ ViewOf(c, d, 0, t) = d[t]
           /\ l # 0 => ViewOf(c, d, l, t) = IF c[l][t].in THEN c[l][t].coins
                                            ELSE ViewOf(c, d, l - 1, t)
<1>1. Source(c, 0, t) = 0
  BY SourceIsHighest
<1>2. ASSUME l # 0, c[l][t].in PROVE Source(c, l, t) = l
  BY <1>2, SourceUnique
<1>3. ASSUME l # 0, ~c[l][t].in PROVE Source(c, l, t) = Source(c, l - 1, t)
  <2>1. l - 1 \in Nat
    BY <1>3
  <2>2. /\ Source(c, l - 1, t) \in 0..(l - 1)
        /\ Source(c, l - 1, t) # 0 => c[Source(c, l - 1, t)][t].in
        /\ \A k \in 1..(l - 1) : c[k][t].in => k <= Source(c, l - 1, t)
    BY <2>1, SourceIsHighest
  <2>3. \A k \in 1..l : k = l \/ k \in 1..(l - 1)
    OBVIOUS
  <2>4. Source(c, l - 1, t) \in 0..l
    BY <2>1, <2>2
  <2>5. \A k \in 1..l : c[k][t].in => k <= Source(c, l - 1, t)
    BY <1>3, <2>2, <2>3
  <2> QED  BY <2>2, <2>4, <2>5, SourceUnique
<1> QED  BY <1>1, <1>2, <1>3 DEF ViewOf

\* A read returns coins.
LEMMA ViewType ==
    ASSUME NEW c \in [1..N -> [Txids -> Entry]], NEW d \in [Txids -> Coins],
           NEW t \in Txids, NEW l \in 0..N
    PROVE  ViewOf(c, d, l, t) \in Coins
<1>1. Source(c, l, t) \in 0..l
  BY SourceIsHighest
<1> QED  BY <1>1, DepthAssumption DEF ViewOf, Entry

-----------------------------------------------------------------------------
(* FetchCoins fills caches and changes no view                             *)

LEMMA FillType ==
    ASSUME TypeOK, NEW L \in 0..N, NEW t \in Txids
    PROVE  CacheFilled(L, t) \in [1..N -> [Txids -> Entry]]
<1>1. View(L, t) \in Coins
  BY ViewType DEF TypeOK, View
<1>2. Fetched(View(L, t)) \in Entry
  BY <1>1 DEF Fetched, Entry
<1> QED  BY <1>2 DEF CacheFilled, TypeOK

\* The levels between the answering one and the reader all show its answer.
LEMMA ViewBetween ==
    ASSUME NEW c, NEW d, NEW t, NEW L \in Nat, NEW l \in 0..L,
           l >= Source(c, L, t)
    PROVE  Source(c, l, t) = Source(c, L, t) /\ ViewOf(c, d, l, t) = ViewOf(c, d, L, t)
<1>1. /\ Source(c, L, t) \in 0..L
      /\ Source(c, L, t) # 0 => c[Source(c, L, t)][t].in
      /\ \A k \in 1..L : c[k][t].in => k <= Source(c, L, t)
  BY SourceIsHighest
<1>2. l \in Nat /\ Source(c, L, t) \in 0..l /\ \A k \in 1..l : k \in 1..L
  BY <1>1
<1>3. Source(c, l, t) = Source(c, L, t)
  BY <1>1, <1>2, SourceUnique
<1> QED  BY <1>3 DEF ViewOf

LEMMA FillKeepsView ==
    ASSUME TypeOK, NEW L \in 0..N, NEW t \in Txids, NEW l \in 0..N, NEW s \in Txids
    PROVE  ViewOf(CacheFilled(L, t), db, l, s) = View(l, s)
<1> DEFINE c == CacheFilled(L, t)
           m == Source(cache, L, t)
           F == Filled(L, t)
<1> N \in Nat /\ l \in Nat /\ L \in Nat
  BY DepthAssumption
<1>m. /\ m \in 0..L
      /\ m # 0 => cache[m][t].in
      /\ \A k \in 1..L : cache[k][t].in => k <= m
  BY SourceIsHighest
<1>l. /\ Source(cache, l, s) \in 0..l
      /\ Source(cache, l, s) # 0 => cache[Source(cache, l, s)][s].in
      /\ \A k \in 1..l : cache[k][s].in => k <= Source(cache, l, s)
  BY SourceIsHighest
<1>F. F \subseteq 1..L /\ \A k \in F : k > m
  BY DEF Filled
<1>1. \A k \in 1..N : k \in F => c[k][t] = Fetched(View(L, t))
  BY DEF CacheFilled, TypeOK
<1>2. \A k \in 1..N : (k \notin F \/ s # t) => c[k][s] = cache[k][s]
  BY DEF CacheFilled, TypeOK
<1> HIDE DEF c, m, F
<1>3. CASE s # t \/ F = {} \/ l <= m
  <2>1. \A k \in 1..l : c[k][s] = cache[k][s]
    BY <1>2, <1>3, <1>F, <1>m
  <2>2. Source(c, l, s) = Source(cache, l, s)
    BY <2>1, <1>l, SourceUnique
  <2> QED  BY <2>1, <2>2, <1>l DEF ViewOf, View, c
<1>4. CASE s = t /\ F # {} /\ l > m
  <2>1. F = {k \in 1..L : k > m}
    BY <1>4 DEF F, Filled, m
  <2>0. \A j \in (L + 1)..l : j \in 1..N /\ j \notin 1..L
    OBVIOUS
  <2>2. CASE l <= L
    <3>1. c[l][t] = Fetched(View(L, t))
      BY <2>1, <2>2, <1>1, <1>4, <1>m
    <3>2. ViewOf(c, db, l, t) = View(L, t)
      BY <3>1, <1>4, <1>m, ViewStep DEF Fetched
    <3>3. l \in 0..L /\ l >= Source(cache, L, t)
      BY <2>2, <1>4, <1>m DEF m
    <3>4. View(l, t) = View(L, t)
      BY <3>3, ViewBetween DEF View
    <3> QED  BY <3>2, <3>4, <1>4 DEF c
  <2>3. CASE l > L /\ \E k \in (L + 1)..l : cache[k][t].in
    <3>1. PICK k \in (L + 1)..l : cache[k][t].in
      BY <2>3
    <3>2. Source(cache, l, t) > L
      BY <3>1, <1>l, <1>4, <2>3
    <3>3. \A j \in (L + 1)..l : c[j][t] = cache[j][t]
      BY <2>0, <1>2, <1>F, <1>4
    <3>4. \A j \in 1..l : j \in 1..L \/ j \in (L + 1)..l
      OBVIOUS
    <3>5. Source(c, l, t) = Source(cache, l, t)
      BY <3>2, <3>3, <3>4, <1>l, <1>4, SourceUnique
    <3> QED  BY <3>2, <3>3, <3>5, <1>l, <1>4 DEF ViewOf, View, c
  <2>4. CASE l > L /\ ~ \E k \in (L + 1)..l : cache[k][t].in
    <3>1. \A j \in 1..l : j \in 1..L \/ j \in (L + 1)..l
      OBVIOUS
    <3>2. L \in F
      BY <2>1, <1>4, <1>F, <1>m
    <3>3. \A j \in (L + 1)..l : c[j][t] = cache[j][t]
      BY <2>0, <1>2, <1>F, <1>4
    <3>4. c[L][t] = Fetched(View(L, t))
      BY <3>2, <1>1, <1>F
    <3>5. Source(c, l, t) = L
      BY <3>1, <3>2, <3>3, <3>4, <2>4, <1>F, SourceUnique DEF Fetched
    <3>6. ViewOf(c, db, l, t) = View(L, t)
      BY <3>5, <3>4, <3>2, <1>F DEF ViewOf, Fetched
    <3>7. Source(cache, l, t) = m
      BY <3>1, <2>4, <1>m, SourceUnique
    <3>8. View(l, t) = View(L, t)
      BY <3>7 DEF View, ViewOf, m
    <3> QED  BY <3>6, <3>8, <1>4 DEF c
  <2> QED  BY <2>2, <2>3, <2>4
<1> QED  BY <1>3, <1>4, <1>m

\* The entries FetchCoins makes have sound flags, and the old ones keep theirs.
LEMMA FillKeepsFlags ==
    ASSUME TypeOK, FlagsSound, NEW L \in 0..N, NEW t \in Txids
    PROVE  FlagsOf(CacheFilled(L, t), db)
<1> DEFINE c == CacheFilled(L, t)
<1> SUFFICES ASSUME NEW k \in 1..N, NEW s \in Txids, c[k][s].in
             PROVE  /\ ~c[k][s].dirty => c[k][s].coins = ViewOf(c, db, k - 1, s)
                    /\ c[k][s].fresh => ViewOf(c, db, k - 1, s) = Pruned
  BY DEF FlagsOf
<1> N \in Nat /\ k \in Nat /\ L \in Nat /\ k - 1 \in 0..N
  BY DepthAssumption
<1>0. ViewOf(c, db, k - 1, s) = View(k - 1, s)
  BY FillKeepsView
<1>1. CASE k \in Filled(L, t) /\ s = t
  <2>1. c[k][s] = Fetched(View(L, t))
    BY <1>1 DEF CacheFilled, TypeOK
  <2>2. k \in 1..L /\ k > Source(cache, L, t)
    BY <1>1 DEF Filled
  <2>3. Source(cache, L, t) \in 0..L
    BY SourceIsHighest
  <2>4. k - 1 \in 0..L /\ k - 1 >= Source(cache, L, t)
    BY <2>2, <2>3
  <2>5. View(k - 1, t) = View(L, t)
    BY <2>4, ViewBetween DEF View
  <2>6. /\ Fetched(View(L, t)).coins = View(L, t)
        /\ Fetched(View(L, t)).fresh <=> View(L, t) = Pruned
    BY Zenon DEF Fetched
  <2> HIDE DEF c
  <2> QED  BY <2>1, <2>5, <2>6, <1>0, <1>1
<1>2. CASE ~(k \in Filled(L, t) /\ s = t)
  <2>1. c[k][s] = cache[k][s]
    BY <1>2 DEF CacheFilled, TypeOK
  <2> HIDE DEF c
  <2> QED  BY <2>1, <1>0 DEF FlagsSound, FlagsOf, View
<1> QED  BY <1>1, <1>2

-----------------------------------------------------------------------------
(* Changes of entries                                                      *)

\* A read does not depend on levels above the reader.
LEMMA ViewSame ==
    ASSUME NEW c, NEW c2, NEW d, NEW d2, NEW s, NEW l \in Nat,
           \A k \in 1..l : c2[k][s] = c[k][s], d2[s] = d[s]
    PROVE  ViewOf(c2, d2, l, s) = ViewOf(c, d, l, s)
<1>1. /\ Source(c, l, s) \in 0..l
      /\ Source(c, l, s) # 0 => c[Source(c, l, s)][s].in
      /\ \A k \in 1..l : c[k][s].in => k <= Source(c, l, s)
  BY SourceIsHighest
<1>2. Source(c2, l, s) = Source(c, l, s)
  BY <1>1, SourceUnique
<1> QED  BY <1>1, <1>2 DEF ViewOf

\* Levels without an entry show what the level below them shows.
LEMMA ViewAbove ==
    ASSUME NEW c, NEW d, NEW s, NEW l \in Nat, NEW o \in 0..l,
           \A k \in (o + 1)..l : ~c[k][s].in
    PROVE  ViewOf(c, d, l, s) = ViewOf(c, d, o, s)
<1>1. /\ Source(c, l, s) \in 0..l
      /\ Source(c, l, s) # 0 => c[Source(c, l, s)][s].in
  BY SourceIsHighest
<1>2. Source(c, l, s) <= o
  BY <1>1
<1> QED  BY <1>2, ViewBetween

\* A changed entry of the top view keeps the flags sound when it is DIRTY.
LEMMA PutKeepsFlags ==
    ASSUME NEW c \in [1..N -> [Txids -> Entry]], NEW d, NEW o \in 1..N,
           NEW t \in Txids, NEW e \in Entry, FlagsOf(c, d),
           \A k \in 1..N, s \in Txids : k > o => ~c[k][s].in,
           e.in => e.dirty /\ (e.fresh => ViewOf(c, d, o - 1, t) = Pruned)
    PROVE  FlagsOf([c EXCEPT ![o][t] = e], d)
<1> DEFINE c2 == [c EXCEPT ![o][t] = e]
<1> SUFFICES ASSUME NEW k \in 1..N, NEW s \in Txids, c2[k][s].in
             PROVE  /\ ~c2[k][s].dirty => c2[k][s].coins = ViewOf(c2, d, k - 1, s)
                    /\ c2[k][s].fresh => ViewOf(c2, d, k - 1, s) = Pruned
  BY Zenon DEF FlagsOf
<1> N \in Nat /\ k - 1 \in 0..N /\ o - 1 \in Nat
  BY DepthAssumption
<1>1. c2[k][s] = IF k = o /\ s = t THEN e ELSE c[k][s]
  OBVIOUS
<1> ~(k > o)
  BY <1>1
<1>2. ViewOf(c2, d, k - 1, s) = ViewOf(c, d, k - 1, s)
  <2>1. \A j \in 1..(k - 1) : c2[j][s] = c[j][s]
    OBVIOUS
  <2> HIDE DEF c2
  <2> k - 1 \in Nat
    OBVIOUS
  <2> QED  BY <2>1, ViewSame
<1> HIDE DEF c2
<1> QED  BY <1>1, <1>2 DEF FlagsOf

-----------------------------------------------------------------------------
(* The operations on coins: what each does to the views, and the invariant *)

\* What ~CCoinsModifier leaves of an entry that was made DIRTY.
LEMMA AfterModifierEntry ==
    ASSUME NEW e \in Entry, e.in, e.dirty
    PROVE  LET n == AfterModifier(e)
           IN  /\ n \in Entry
               /\ n.in => n = e
               /\ ~n.in => n = Absent /\ e.fresh /\ e.coins = Pruned
BY DEF AfterModifier, Absent, Entry, Coins

LEMMA FetchStep ==
    ASSUME IInv, NEW t \in Txids, FetchCoins(t)
    PROVE  IInv' /\ \A l \in 0..N, s \in Txids : ViewOf(cache', db', l, s) = View(l, s)
<1> USE DEF IInv, FetchCoins
<1> N \in Nat /\ open \in 0..N
  BY DepthAssumption DEF TypeOK
<1>1. TypeOK'
  BY FillType DEF TypeOK, UsageFilled
<1>2. \A l \in 0..N, s \in Txids : ViewOf(cache', db', l, s) = View(l, s)
  BY FillKeepsView
<1>3. FlagsSound'
  BY FillKeepsFlags DEF FlagsSound
<1>4. ShapeInv'
  <2>1. \A k \in 1..N, s \in Txids :
           cache'[k][s] = cache[k][s] \/ (k <= open /\ cache'[k][s] = Fetched(View(open, t)))
    BY DEF CacheFilled, Filled, TypeOK
  <2> QED  BY <2>1 DEF ShapeInv, Fetched, TypeOK
<1> QED  BY <1>1, <1>2, <1>3, <1>4 DEF NoLogicError

\* The common part of ModifyCoins and ModifyNewCoins: the entry of t in the top
\* view of the caches c, which show what cache shows, becomes e.
LEMMA PutStep ==
    ASSUME IInv, NEW t \in Txids, NEW v \in Coins,
           NEW c \in [1..N -> [Txids -> Entry]], FlagsOf(c, db),
           \A l \in 0..N, s \in Txids : ViewOf(c, db, l, s) = View(l, s),
           \A k \in 1..N, s \in Txids : ~c[k][s].in \/ k > open => c[k][s] = Absent,
           NEW e \in Entry, e.in => e.dirty /\ e.coins = v,
           e.fresh => View(open - 1, t) = Pruned,
           ~e.in => e = Absent /\ v = Pruned /\ View(open - 1, t) = Pruned,
           cache' = [c EXCEPT ![open][t] = e], DOMAIN usage' = 1..N,
           UNCHANGED <<db, hashBlock, open, logicError>>
    PROVE  /\ IInv'
           /\ \A l \in 0..N, s \in Txids :
                 ViewOf(cache', db', l, s) = IF l >= open /\ s = t THEN v ELSE View(l, s)
<1> N \in Nat /\ open \in 1..N /\ open - 1 \in 0..N
  BY DepthAssumption DEF IInv, TypeOK
<1>1. \A k \in 1..N, s \in Txids : k > open => ~c[k][s].in
  BY DEF Absent
<1>2. TypeOK'
  BY DEF IInv, TypeOK
<1>3. FlagsSound'
  <2>1. ViewOf(c, db, open - 1, t) = View(open - 1, t)
    OBVIOUS
  <2>2. e.in => e.dirty /\ (e.fresh => ViewOf(c, db, open - 1, t) = Pruned)
    BY <2>1
  <2>3. FlagsOf([c EXCEPT ![open][t] = e], db)
    BY <2>2, <1>1, PutKeepsFlags, Zenon
  <2> QED  BY <2>3 DEF FlagsSound
<1>4. ShapeInv'
  BY DEF IInv, ShapeInv, TypeOK
<1>5. ASSUME NEW l \in 0..N, NEW s \in Txids
      PROVE  ViewOf(cache', db', l, s) = IF l >= open /\ s = t THEN v ELSE View(l, s)
  <2> DEFINE c2 == cache'
  <2>1. /\ c2[open][t] = e
        /\ \A k \in 1..N : k # open \/ s # t => c2[k][s] = c[k][s]
        /\ \A k \in 1..(open - 1) : c2[k][t] = c[k][t]
    OBVIOUS
  <2> HIDE DEF c2
  <2> l \in Nat /\ open \in Nat /\ open - 1 \in Nat
    OBVIOUS
  <2>2. CASE l < open \/ s # t
    <3>1. \A k \in 1..l : c2[k][s] = c[k][s]
      BY <2>1, <2>2
    <3>2. ViewOf(c2, db, l, s) = ViewOf(c, db, l, s)
      BY <3>1, ViewSame
    <3> QED  BY <3>2, <2>2 DEF c2
  <2>3. CASE l >= open /\ s = t
    <3>1. open \in 0..l /\ \A k \in (open + 1)..l : k \in 1..N /\ k > open
      BY <2>3
    <3>2. \A k \in (open + 1)..l : ~c2[k][t].in
      BY <3>1, <2>1, <2>3, <1>1
    <3>3. ViewOf(c2, db, l, t) = ViewOf(c2, db, open, t)
      BY <3>1, <3>2, ViewAbove
    <3>4. ViewOf(c2, db, open, t) = IF e.in THEN e.coins ELSE ViewOf(c2, db, open - 1, t)
      BY <2>1, ViewStep
    <3>5. ViewOf(c2, db, open - 1, t) = ViewOf(c, db, open - 1, t)
      BY <2>1, ViewSame
    <3> QED  BY <3>3, <3>4, <3>5, <2>3 DEF c2
  <2> QED  BY <2>2, <2>3
<1> QED  BY <1>2, <1>3, <1>4, <1>5, Zenon DEF IInv, NoLogicError

LEMMA ModifyStep ==
    ASSUME IInv, NEW t \in Txids, NEW v \in Coins, ModifyCoins(t, v)
    PROVE  /\ IInv'
           /\ \A l \in 0..N, s \in Txids :
                 ViewOf(cache', db', l, s) = IF l >= open /\ s = t THEN v ELSE View(l, s)
<1> DEFINE old   == cache[open][t]
           below == View(open - 1, t)
           entry == IF old.in THEN old ELSE Fetched(below)
           put   == [entry EXCEPT !.coins = v, !.dirty = TRUE]
           new   == AfterModifier(put)
           c     == IF old.in THEN cache ELSE CacheFilled(open - 1, t)
           u     == IF old.in THEN usage ELSE UsageFilled(open - 1, t)
<1> N \in Nat /\ open \in 1..N /\ open - 1 \in 0..N
  BY DepthAssumption DEF IInv, TypeOK
<1>1. below \in Coins
  BY ViewType, SMTT(30) DEF IInv, TypeOK, View
<1>2. Fetched(below) \in Entry /\ Fetched(below).in /\ (Fetched(below).fresh <=> below = Pruned)
  BY <1>1, Zenon DEF Fetched, Entry
<1>3. old \in Entry /\ (old.in /\ old.fresh => below = Pruned)
  BY DEF IInv, TypeOK, FlagsSound, FlagsOf, View
<1>4. entry \in Entry /\ entry.in /\ (entry.fresh => below = Pruned)
  BY <1>2, <1>3
<1>5. put \in Entry /\ put.in /\ put.dirty /\ put.coins = v /\ (put.fresh => below = Pruned)
  <2> HIDE DEF entry, below
  <2> QED  BY <1>4, Zenon DEF Entry
<1>6. /\ new \in Entry
      /\ new.in => new.dirty /\ new.coins = v
      /\ new.fresh => below = Pruned
      /\ ~new.in => new = Absent /\ v = Pruned /\ below = Pruned
  <2> HIDE DEF put, below
  <2> QED  BY <1>5, AfterModifierEntry DEF Absent
<1>7. c \in [1..N -> [Txids -> Entry]] /\ FlagsOf(c, db)
  BY FillType, FillKeepsFlags DEF IInv, TypeOK, FlagsSound
<1>8. \A l \in 0..N, s \in Txids : ViewOf(c, db, l, s) = View(l, s)
  BY FillKeepsView DEF IInv, View
<1>9. \A k \in 1..N, s \in Txids : ~c[k][s].in \/ k > open => c[k][s] = Absent
  <2>1. \A k \in 1..N, s \in Txids :
           c[k][s] = cache[k][s] \/ (k <= open - 1 /\ c[k][s] = Fetched(below))
    BY DEF CacheFilled, Filled, IInv, TypeOK
  <2> HIDE DEF c, below
  <2> QED  BY <2>1, <1>2 DEF IInv, ShapeInv
<1>10. /\ cache' = [c EXCEPT ![open][t] = new]
       /\ UNCHANGED <<db, hashBlock, open, logicError>>
  BY DEF ModifyCoins
<1>11. DOMAIN usage' = 1..N
  <2>1. DOMAIN u = 1..N
    BY DEF UsageFilled, IInv, TypeOK
  <2>2. DOMAIN usage' = DOMAIN u
    BY DEF ModifyCoins
  <2> QED  BY <2>1, <2>2
<1> HIDE DEF new, c, below
<1> QED  BY <1>6, <1>7, <1>8, <1>9, <1>10, <1>11, PutStep, Zenon DEF below

\* ModifyNewCoins never throws, because a transaction without unspent outputs in
\* the view has none in the entry of the top cache.
LEMMA ModifyNewStep ==
    ASSUME IInv, NEW t \in Txids, NEW coinbase \in BOOLEAN, NEW v \in Coins,
           ModifyNewCoins(t, coinbase, v)
    PROVE  /\ IInv'
           /\ \A l \in 0..N, s \in Txids :
                 ViewOf(cache', db', l, s) = IF l >= open /\ s = t THEN v ELSE View(l, s)
<1> DEFINE old   == cache[open][t]
           below == View(open - 1, t)
           put   == [in |-> TRUE, coins |-> v, dirty |-> TRUE,
                     fresh |-> old.fresh \/ (~coinbase /\ ~old.dirty)]
           new   == AfterModifier(put)
<1> N \in Nat /\ open \in 1..N /\ open - 1 \in 0..N /\ open \in Nat
  BY DepthAssumption DEF IInv, TypeOK
<1>1. old \in Entry /\ (~old.in => old = Absent)
  BY DEF IInv, TypeOK, ShapeInv
<1>2. View(open, t) = IF old.in THEN old.coins ELSE below
  BY ViewStep DEF View
<1>3. /\ old.in /\ old.fresh => below = Pruned
      /\ old.in /\ ~old.dirty => old.coins = below
  BY DEF IInv, FlagsSound, FlagsOf, View
<1>4. coinbase \/ View(open, t) = Pruned
  BY DEF ModifyNewCoins
<1>5. ~(~coinbase /\ old.in /\ old.coins # Pruned)
  BY <1>2, <1>4
<1>6. old.fresh \/ (~coinbase /\ ~old.dirty) => below = Pruned
  BY <1>1, <1>2, <1>3, <1>4 DEF Absent
<1>7. put \in Entry /\ put.in /\ put.dirty /\ put.coins = v /\ (put.fresh => below = Pruned)
  <2>1. (old.fresh \/ (~coinbase /\ ~old.dirty)) \in BOOLEAN
    BY <1>1 DEF Entry
  <2> HIDE DEF below
  <2> QED  BY <2>1, <1>6, Zenon DEF Entry
<1>8. /\ new \in Entry
      /\ new.in => new.dirty /\ new.coins = v
      /\ new.fresh => below = Pruned
      /\ ~new.in => new = Absent /\ v = Pruned /\ below = Pruned
  <2> HIDE DEF put, below
  <2> QED  BY <1>7, AfterModifierEntry DEF Absent
<1>9. /\ cache' = [cache EXCEPT ![open][t] = new]
      /\ DOMAIN usage' = 1..N
      /\ UNCHANGED <<db, hashBlock, open, logicError>>
  BY <1>5 DEF ModifyNewCoins, IInv, TypeOK
<1> HIDE DEF new, below
<1>10. /\ cache \in [1..N -> [Txids -> Entry]] /\ FlagsOf(cache, db)
       /\ \A l \in 0..N, s \in Txids : ViewOf(cache, db, l, s) = View(l, s)
       /\ \A k \in 1..N, s \in Txids : ~cache[k][s].in \/ k > open => cache[k][s] = Absent
  BY DEF IInv, TypeOK, FlagsSound, ShapeInv, View
<1> QED  BY <1>8, <1>9, <1>10, PutStep, Zenon DEF below

\* BatchWrite of a child entry: the parent shows what the child showed.
LEMMA MergedEntry ==
    ASSUME NEW child \in Entry, NEW parent \in Entry, NEW below \in Coins,
           ~child.in => child = Absent, ~parent.in => parent = Absent,
           child.in /\ ~child.dirty
              => child.coins = (IF parent.in THEN parent.coins ELSE below),
           child.in /\ child.fresh
              => (IF parent.in THEN parent.coins ELSE below) = Pruned,
           parent.in /\ ~parent.dirty => parent.coins = below,
           parent.in /\ parent.fresh => below = Pruned
    PROVE  LET m == Merged(child, parent)
           IN  /\ m \in Entry
               /\ ~m.in => m = Absent
               /\ m.in /\ ~m.dirty => m.coins = below
               /\ m.in /\ m.fresh => below = Pruned
               /\ (IF m.in THEN m.coins ELSE below)
                    = (IF child.in THEN child.coins
                       ELSE IF parent.in THEN parent.coins ELSE below)
               /\ ~Misapplied(child, parent)
<1> DEFINE m == Merged(child, parent)
<1>1. CASE ~child.dirty
  <2>1. m = parent
    BY <1>1 DEF Merged
  <2> QED  BY <1>1, <2>1 DEF Misapplied
<1>2. CASE child.dirty /\ ~parent.in
  <2>1. child.in
    BY <1>2 DEF Absent
  <2>2. m = AfterModifier(child)
    BY <1>2, Zenon DEF Merged, Entry
  <2>3. /\ m \in Entry
        /\ m.in => m = child
        /\ ~m.in => m = Absent /\ child.fresh /\ child.coins = Pruned
    BY <1>2, <2>1, <2>2, AfterModifierEntry
  <2> HIDE DEF m
  <2> QED  BY <1>2, <2>1, <2>3 DEF Misapplied, m
<1>3. CASE child.dirty /\ parent.in
  <2>1. child.in
    BY <1>3 DEF Absent
  <2>2. CASE parent.fresh /\ child.coins = Pruned
    <3>1. m = Absent
      BY <1>3, <2>2 DEF Merged
    <3> QED  BY <1>3, <2>1, <2>2, <3>1 DEF Misapplied, Absent, Entry, Coins
  <2>3. CASE ~(parent.fresh /\ child.coins = Pruned)
    <3>1. m = [parent EXCEPT !.coins = child.coins, !.dirty = TRUE]
      BY <1>3, <2>3 DEF Merged
    <3>2. m \in Entry /\ m.in /\ m.dirty /\ m.coins = child.coins /\ m.fresh = parent.fresh
      BY <3>1, <1>3, Zenon DEF Entry
    <3> HIDE DEF m
    <3> QED  BY <1>3, <2>1, <3>2 DEF Misapplied, m
  <2> QED  BY <2>2, <2>3
<1> QED  BY <1>1, <1>2, <1>3

\* BatchWrite of a parent cache never throws, and hands the top view down.
LEMMA FlushToCacheStep ==
    ASSUME IInv, FlushToCache
    PROVE  /\ IInv'
           /\ hashBlock' = [hashBlock EXCEPT ![open - 1] = hashBlock[open]]
           /\ \A l \in 0..N, s \in Txids :
                 ViewOf(cache', db', l, s) = IF l >= open - 1 THEN View(open, s) ELSE View(l, s)
<1> DEFINE p == open - 1
           c2 == cache'
           merged(s) == Merged(cache[open][s], cache[p][s])
<1> N \in Nat /\ open \in 2..N /\ p \in 1..N /\ open \in 1..N /\ open \in Nat /\ p \in Nat /\ p - 1 \in Nat
  BY DepthAssumption DEF IInv, TypeOK, FlushToCache
<1> p - 1 \in 0..N /\ p # 0 /\ open # 0
  BY SMTT(30)
<1>1. ASSUME NEW s \in Txids
      PROVE  /\ merged(s) \in Entry
             /\ ~merged(s).in => merged(s) = Absent
             /\ merged(s).in /\ ~merged(s).dirty => merged(s).coins = View(p - 1, s)
             /\ merged(s).in /\ merged(s).fresh => View(p - 1, s) = Pruned
             /\ (IF merged(s).in THEN merged(s).coins ELSE View(p - 1, s)) = View(open, s)
             /\ ~Misapplied(cache[open][s], cache[p][s])
  <2>1. cache[open][s] \in Entry /\ cache[p][s] \in Entry /\ View(p - 1, s) \in Coins
    BY ViewType, Zenon DEF IInv, TypeOK, View
  <2>2. View(p, s) = IF cache[p][s].in THEN cache[p][s].coins ELSE View(p - 1, s)
    BY ViewStep, SMTT(30) DEF View
  <2>3. View(open, s) = IF cache[open][s].in THEN cache[open][s].coins ELSE View(p, s)
    BY ViewStep, SMTT(30) DEF View
  <2>4. /\ cache[open][s].in /\ ~cache[open][s].dirty => cache[open][s].coins = View(p, s)
        /\ cache[open][s].in /\ cache[open][s].fresh => View(p, s) = Pruned
        /\ cache[p][s].in /\ ~cache[p][s].dirty => cache[p][s].coins = View(p - 1, s)
        /\ cache[p][s].in /\ cache[p][s].fresh => View(p - 1, s) = Pruned
    BY DEF IInv, FlagsSound, FlagsOf, View
  <2>5. /\ ~cache[open][s].in => cache[open][s] = Absent
        /\ ~cache[p][s].in => cache[p][s] = Absent
    BY DEF IInv, ShapeInv
  <2> DEFINE child  == cache[open][s]
             parent == cache[p][s]
             below  == View(p - 1, s)
  <2>6. /\ child \in Entry /\ parent \in Entry /\ below \in Coins
        /\ ~child.in => child = Absent
        /\ ~parent.in => parent = Absent
        /\ child.in /\ ~child.dirty
              => child.coins = (IF parent.in THEN parent.coins ELSE below)
        /\ child.in /\ child.fresh
              => (IF parent.in THEN parent.coins ELSE below) = Pruned
        /\ parent.in /\ ~parent.dirty => parent.coins = below
        /\ parent.in /\ parent.fresh => below = Pruned
    BY <2>1, <2>2, <2>4, <2>5
  <2>7. View(open, s) = IF child.in THEN child.coins
                        ELSE IF parent.in THEN parent.coins ELSE below
    BY <2>2, <2>3
  <2> HIDE DEF child, parent, below
  <2> QED  BY <2>6, <2>7, MergedEntry DEF child, parent, below
<1>2. /\ cache' = [cache EXCEPT ![p] = [t \in Txids |-> merged(t)],
                                ![open] = [t \in Txids |-> Absent]]
      /\ hashBlock' = [hashBlock EXCEPT ![p] = hashBlock[open]]
      /\ DOMAIN usage' = 1..N
      /\ UNCHANGED <<db, open, logicError>>
  <2>1. ~ \E t \in Txids : Misapplied(cache[open][t], cache[p][t])
    BY <1>1
  <2> QED  BY <2>1 DEF FlushToCache, BatchWritten, IInv, TypeOK
<1> HIDE DEF merged
<1>3. \A s \in Txids : /\ c2[p][s] = merged(s)
                       /\ c2[open][s] = Absent
                       /\ \A k \in 1..N : k # p /\ k # open => c2[k][s] = cache[k][s]
  BY <1>2 DEF IInv, TypeOK
<1>4. TypeOK'
  <2>1. Absent \in Entry
    BY DEF Absent, Entry, Coins
  <2>2. [t \in Txids |-> merged(t)] \in [Txids -> Entry]
    BY <1>1
  <2>3. [t \in Txids |-> Absent] \in [Txids -> Entry]
    BY <2>1
  <2>4. cache' \in [1..N -> [Txids -> Entry]]
    <3> DEFINE f == [t \in Txids |-> merged(t)]
               g == [t \in Txids |-> Absent]
    <3> HIDE DEF f, g
    <3>1. f \in [Txids -> Entry] /\ g \in [Txids -> Entry]
      BY <2>2, <2>3 DEF f, g
    <3>2. cache' = [cache EXCEPT ![p] = f, ![open] = g]
      BY <1>2 DEF f, g
    <3>3. [cache EXCEPT ![p] = f] \in [1..N -> [Txids -> Entry]]
      BY <3>1 DEF IInv, TypeOK
    <3> QED  BY <3>1, <3>2, <3>3
  <2>5. hashBlock' \in [0..N -> Hashes \cup {NullHash}]
    BY <1>2 DEF IInv, TypeOK
  <2> QED  BY <1>2, <2>4, <2>5, Zenon DEF IInv, TypeOK
<1>5. ShapeInv'
  <2>1. \A k \in 1..N, s \in Txids : ~c2[k][s].in \/ k > open => c2[k][s] = Absent
    BY <1>1, <1>3 DEF IInv, ShapeInv
  <2>2. \A k \in 1..N : k > open => hashBlock'[k] = NullHash
    BY <1>2 DEF IInv, ShapeInv, TypeOK
  <2> QED  BY <1>2, <2>1, <2>2, Zenon DEF ShapeInv
<1> HIDE DEF c2
<1>6. ASSUME NEW l \in 0..N, NEW s \in Txids
      PROVE  ViewOf(c2, db, l, s) = IF l >= p THEN View(open, s) ELSE View(l, s)
  <2> l \in Nat
    OBVIOUS
  <2>1. CASE l < p
    <3>1. \A k \in 1..l : k \in 1..N /\ k # p /\ k # open
      BY <2>1
    <3>2. \A k \in 1..l : c2[k][s] = cache[k][s]
      BY <1>3, <3>1
    <3> QED  BY <3>2, <2>1, ViewSame DEF View
  <2>2. CASE l >= p
    <3>1. p \in 0..l /\ \A k \in (p + 1)..l : k \in 1..N /\ (k = open \/ k > open)
      BY <2>2
    <3>2. \A k \in (p + 1)..l : ~c2[k][s].in
      BY <3>1, <1>3 DEF Absent, IInv, ShapeInv
    <3>3. ViewOf(c2, db, l, s) = ViewOf(c2, db, p, s)
      BY <3>1, <3>2, ViewAbove
    <3>4. ViewOf(c2, db, p, s)
             = IF merged(s).in THEN merged(s).coins ELSE ViewOf(c2, db, p - 1, s)
      BY <1>3, ViewStep
    <3>5. \A k \in 1..(p - 1) : c2[k][s] = cache[k][s]
      BY <1>3
    <3>6. ViewOf(c2, db, p - 1, s) = View(p - 1, s)
      BY <3>5, ViewSame DEF View
    <3> QED  BY <3>3, <3>4, <3>6, <1>1, <2>2
  <2> QED  BY <2>1, <2>2
<1>7. FlagsOf(c2, db)
  <2> SUFFICES ASSUME NEW k \in 1..N, NEW s \in Txids, c2[k][s].in
               PROVE  /\ ~c2[k][s].dirty => c2[k][s].coins = ViewOf(c2, db, k - 1, s)
                      /\ c2[k][s].fresh => ViewOf(c2, db, k - 1, s) = Pruned
    BY DEF FlagsOf
  <2>1. k <= p
    BY <1>3 DEF IInv, ShapeInv, Absent
  <2>2. k - 1 \in 0..N /\ ~(k - 1 >= p)
    BY <2>1
  <2>3. ViewOf(c2, db, k - 1, s) = View(k - 1, s)
    BY <2>2, <1>6
  <2>4. CASE k = p
    BY <2>3, <2>4, <1>1, <1>3
  <2>5. CASE k # p
    BY <2>1, <2>3, <2>5, <1>3 DEF IInv, FlagsSound, FlagsOf, View
  <2> QED  BY <2>4, <2>5
<1> QED  BY <1>2, <1>4, <1>5, <1>6, <1>7 DEF IInv, NoLogicError, FlagsSound, c2

\* CCoinsViewDB::BatchWrite: the database shows what pcoinsTip showed.
LEMMA FlushToDiskStep ==
    ASSUME IInv, FlushToDisk
    PROVE  /\ IInv'
           /\ \A l \in 0..N, s \in Txids : ViewOf(cache', db', l, s) = View(open, s)
<1> DEFINE c2 == cache'
           d2 == db'
<1> N \in Nat /\ open = 1 /\ 1 \in 1..N /\ 1 \in Nat
  BY DepthAssumption DEF FlushToDisk
<1>1. \A k \in 1..N, s \in Txids : c2[k][s] = Absent
  BY DEF FlushToDisk, IInv, TypeOK, ShapeInv
<1>2. TypeOK'
  <2>1. Absent \in Entry
    BY DEF Absent, Entry, Coins
  <2>2. cache' \in [1..N -> [Txids -> Entry]]
    <3> DEFINE g == [t \in Txids |-> Absent]
    <3> HIDE DEF g
    <3>1. g \in [Txids -> Entry]
      BY <2>1 DEF g
    <3>2. cache' = [cache EXCEPT ![1] = g]
      BY DEF FlushToDisk, g
    <3> QED  BY <3>1, <3>2 DEF IInv, TypeOK
  <2>3. db' \in [Txids -> Coins]
    BY DEF FlushToDisk, IInv, TypeOK, Entry
  <2> QED  BY <2>2, <2>3 DEF FlushToDisk, IInv, TypeOK
<1>3. ShapeInv'
  BY <1>1 DEF FlushToDisk, IInv, ShapeInv, TypeOK
<1>4. \A s \in Txids : d2[s] = View(1, s)
  <2> SUFFICES ASSUME NEW s \in Txids PROVE d2[s] = View(1, s)
    OBVIOUS
  <2>1. View(0, s) = db[s]
    BY ViewStep DEF View
  <2>2. View(1, s) = IF cache[1][s].in THEN cache[1][s].coins ELSE View(0, s)
    <3>1. 1 - 1 = 0
      OBVIOUS
    <3> QED  BY <3>1, ViewStep DEF View
  <2>3. /\ cache[1][s].in /\ ~cache[1][s].dirty => cache[1][s].coins = View(0, s)
        /\ ~cache[1][s].in => cache[1][s] = Absent
    BY DEF IInv, FlagsSound, FlagsOf, View, ShapeInv
  <2> QED  BY <2>1, <2>2, <2>3 DEF FlushToDisk, Absent
<1> HIDE DEF c2, d2
<1>5. ASSUME NEW l \in 0..N, NEW s \in Txids PROVE ViewOf(c2, d2, l, s) = View(1, s)
  <2>1. 0 \in 0..l /\ l \in Nat /\ \A k \in (0 + 1)..l : k \in 1..N
    OBVIOUS
  <2>2. \A k \in (0 + 1)..l : ~c2[k][s].in
    BY <2>1, <1>1 DEF Absent
  <2>3. ViewOf(c2, d2, l, s) = ViewOf(c2, d2, 0, s)
    BY <2>1, <2>2, ViewAbove
  <2> QED  BY <2>3, <1>4, ViewStep
<1>6. FlagsOf(c2, d2)
  BY <1>1 DEF FlagsOf, Absent
<1> QED  BY <1>2, <1>3, <1>5, <1>6, Zenon DEF IInv, FlagsSound, NoLogicError, FlushToDisk, c2, d2

\* An entry without flags can go: every level shows what it showed.
LEMMA UncacheStep ==
    ASSUME IInv, NEW t \in Txids, Uncache(t)
    PROVE  IInv' /\ \A l \in 0..N, s \in Txids : ViewOf(cache', db', l, s) = View(l, s)
<1> DEFINE c2 == cache'
<1> N \in Nat /\ 1 \in 1..N /\ 1 \in Nat
  BY DepthAssumption
<1>1. /\ c2[1][t] = Absent
      /\ \A k \in 1..N, s \in Txids : k # 1 \/ s # t => c2[k][s] = cache[k][s]
  BY DEF Uncache, IInv, TypeOK
<1>2. TypeOK'
  <2>1. Absent \in Entry
    BY DEF Absent, Entry, Coins
  <2>2. [cache[1] EXCEPT ![t] = Absent] \in [Txids -> Entry]
    BY <2>1 DEF IInv, TypeOK
  <2>3. cache' \in [1..N -> [Txids -> Entry]]
    BY <2>2 DEF Uncache, IInv, TypeOK
  <2> QED  BY <2>3 DEF Uncache, IInv, TypeOK
<1>3. ShapeInv'
  BY <1>1 DEF Uncache, IInv, ShapeInv, TypeOK
<1>4. cache[1][t].in /\ cache[1][t].coins = db[t]
  <2>1. 1 - 1 = 0
    OBVIOUS
  <2>2. cache[1][t].coins = ViewOf(cache, db, 0, t)
    BY <2>1 DEF Uncache, IInv, FlagsSound, FlagsOf
  <2>3. ViewOf(cache, db, 0, t) = db[t]
    BY ViewStep
  <2>4. cache[1][t].in
    BY DEF Uncache
  <2> QED  BY <2>2, <2>3, <2>4
<1> HIDE DEF c2
<1>5. ASSUME NEW l \in 0..N, NEW s \in Txids PROVE ViewOf(c2, db, l, s) = View(l, s)
  <2> DEFINE m == Source(cache, l, s)
  <2> l \in Nat
    OBVIOUS
  <2>1. /\ m \in 0..l
        /\ m # 0 => cache[m][s].in
        /\ \A k \in 1..l : cache[k][s].in => k <= m
    BY SourceIsHighest
  <2> HIDE DEF m
  <2>2. CASE s # t \/ l = 0
    <3>1. \A k \in 1..l : c2[k][s] = cache[k][s]
      BY <1>1, <2>2
    <3> QED  BY <3>1, ViewSame DEF View
  <2>3. CASE s = t /\ l # 0 /\ m # 1
    <3>1. m \in 2..l
      BY <2>1, <2>3, <1>4
    <3>2. \A k \in 1..l : c2[k][s] = IF k = 1 THEN Absent ELSE cache[k][s]
      BY <1>1, <2>3
    <3>3. Source(c2, l, s) = m
      BY <2>1, <3>1, <3>2, SourceUnique DEF Absent
    <3> QED  BY <3>1, <3>2, <3>3 DEF View, ViewOf, m
  <2>4. CASE s = t /\ l # 0 /\ m = 1
    <3>1. \A k \in 1..l : ~c2[k][s].in
      BY <1>1, <2>1, <2>4 DEF Absent
    <3>2. Source(c2, l, s) = 0
      BY <3>1, SourceUnique
    <3> QED  BY <3>2, <2>4, <1>4 DEF View, ViewOf, m
  <2> QED  BY <2>2, <2>3, <2>4
<1>6. FlagsOf(c2, db)
  <2> SUFFICES ASSUME NEW k \in 1..N, NEW s \in Txids, c2[k][s].in
               PROVE  /\ ~c2[k][s].dirty => c2[k][s].coins = ViewOf(c2, db, k - 1, s)
                      /\ c2[k][s].fresh => ViewOf(c2, db, k - 1, s) = Pruned
    BY DEF FlagsOf
  <2>1. k - 1 \in 0..N /\ c2[k][s] = cache[k][s]
    BY <1>1 DEF Absent
  <2>2. ViewOf(c2, db, k - 1, s) = ViewOf(cache, db, k - 1, s)
    BY <2>1, <1>5 DEF View
  <2> QED  BY <2>1, <2>2 DEF IInv, FlagsSound, FlagsOf
<1> QED  BY <1>2, <1>3, <1>5, <1>6, Zenon DEF IInv, FlagsSound, NoLogicError, Uncache, c2

\* Dropping the top view uncovers the one below it.
LEMMA PopStep ==
    ASSUME IInv, Pop
    PROVE  /\ IInv'
           /\ \A l \in 0..N, s \in Txids :
                 ViewOf(cache', db', l, s) = IF l < open THEN View(l, s) ELSE View(open - 1, s)
<1> DEFINE c2 == cache'
<1> N \in Nat /\ open \in 1..N /\ open > 1 /\ open - 1 \in Nat /\ open - 1 \in 1..N
  BY DepthAssumption DEF Pop, IInv, TypeOK
<1>1. \A k \in 1..N, s \in Txids : c2[k][s] = IF k >= open THEN Absent ELSE cache[k][s]
  BY DEF Pop, IInv, TypeOK, ShapeInv
<1>2. TypeOK'
  <2>1. Absent \in Entry
    BY DEF Absent, Entry, Coins
  <2>2. cache' \in [1..N -> [Txids -> Entry]]
    <3> DEFINE g == [t \in Txids |-> Absent]
    <3> HIDE DEF g
    <3>1. g \in [Txids -> Entry]
      BY <2>1 DEF g
    <3>2. cache' = [cache EXCEPT ![open] = g]
      BY DEF Pop, g
    <3> QED  BY <3>1, <3>2 DEF IInv, TypeOK
  <2> QED  BY <2>2 DEF Pop, IInv, TypeOK
<1>3. ShapeInv'
  BY <1>1 DEF Pop, IInv, ShapeInv, TypeOK
<1> HIDE DEF c2
<1>4. ASSUME NEW l \in 0..N, NEW s \in Txids
      PROVE  ViewOf(c2, db, l, s) = IF l < open THEN View(l, s) ELSE View(open - 1, s)
  <2> l \in Nat
    OBVIOUS
  <2>1. ASSUME NEW j \in 0..N, j < open PROVE ViewOf(c2, db, j, s) = View(j, s)
    <3>1. j \in Nat /\ \A k \in 1..j : c2[k][s] = cache[k][s]
      BY <1>1, <2>1
    <3> QED  BY <3>1, ViewSame DEF View
  <2>2. CASE l >= open
    <3>1. open - 1 \in 0..l /\ \A k \in ((open - 1) + 1)..l : k \in 1..N /\ k >= open
      BY <2>2
    <3>2. \A k \in ((open - 1) + 1)..l : ~c2[k][s].in
      BY <3>1, <1>1 DEF Absent
    <3>3. ViewOf(c2, db, l, s) = ViewOf(c2, db, open - 1, s)
      BY <3>1, <3>2, ViewAbove
    <3> QED  BY <3>3, <2>1, <2>2
  <2> QED  BY <2>1, <2>2
<1>5. FlagsOf(c2, db)
  <2> SUFFICES ASSUME NEW k \in 1..N, NEW s \in Txids, c2[k][s].in
               PROVE  /\ ~c2[k][s].dirty => c2[k][s].coins = ViewOf(c2, db, k - 1, s)
                      /\ c2[k][s].fresh => ViewOf(c2, db, k - 1, s) = Pruned
    BY DEF FlagsOf
  <2>1. k - 1 \in 0..N /\ k < open /\ c2[k][s] = cache[k][s]
    BY <1>1 DEF Absent
  <2>2. ViewOf(c2, db, k - 1, s) = ViewOf(cache, db, k - 1, s)
    BY <2>1, <1>4 DEF View
  <2> QED  BY <2>1, <2>2 DEF IInv, FlagsSound, FlagsOf
<1> QED  BY <1>2, <1>3, <1>4, <1>5, Zenon DEF IInv, FlagsSound, NoLogicError, Pop, c2

LEMMA CrashStep ==
    ASSUME IInv, Crash
    PROVE  IInv' /\ \A l \in 0..N, s \in Txids : ViewOf(cache', db', l, s) = View(0, s)
<1> N \in Nat /\ 1 \in 1..N /\ 0 \in Nat
  BY DepthAssumption
<1>1. \A k \in 1..N, s \in Txids : cache'[k][s] = Absent
  BY DEF Crash
<1>2. TypeOK' /\ ShapeInv' /\ NoLogicError'
  <2>1. Absent \in Entry
    BY DEF Absent, Entry, Coins
  <2>2. cache' \in [1..N -> [Txids -> Entry]]
    BY <2>1 DEF Crash
  <2>3. TypeOK'
    BY <2>2, Zenon DEF Crash, IInv, TypeOK
  <2>4. ShapeInv'
    BY <1>1 DEF Crash, ShapeInv
  <2> QED  BY <2>3, <2>4 DEF Crash, NoLogicError
<1>3. FlagsOf(cache', db') /\ \A l \in 0..N, s \in Txids : ViewOf(cache', db', l, s) = db'[s]
  <2> DEFINE c2 == cache'
             d2 == db'
  <2> HIDE DEF c2, d2
  <2>1. \A k \in 1..N, s \in Txids : c2[k][s] = Absent
    BY <1>1 DEF c2
  <2>2. FlagsOf(c2, d2)
    BY <2>1 DEF FlagsOf, Absent
  <2>3. ASSUME NEW l \in 0..N, NEW s \in Txids PROVE ViewOf(c2, d2, l, s) = d2[s]
    <3>1. 0 \in 0..l /\ l \in Nat /\ \A k \in (0 + 1)..l : k \in 1..N
      OBVIOUS
    <3>2. \A k \in (0 + 1)..l : ~c2[k][s].in
      BY <2>1, <3>1 DEF Absent
    <3>3. ViewOf(c2, d2, l, s) = ViewOf(c2, d2, 0, s)
      BY <3>1, <3>2, ViewAbove
    <3> QED  BY <3>3, ViewStep
  <2> QED  BY <2>2, <2>3 DEF c2, d2
<1>4. \A s \in Txids : View(0, s) = db[s]
  BY ViewStep DEF View
<1> QED  BY <1>2, <1>3, <1>4 DEF IInv, FlagsSound, Crash

LEMMA InitStep ==
    ASSUME Init
    PROVE  IInv /\ \A l \in 0..N, s \in Txids : View(l, s) = db[s]
<1> N \in Nat /\ 1 \in 1..N
  BY DepthAssumption
<1>1. \A k \in 1..N, s \in Txids : cache[k][s] = Absent
  BY DEF Init
<1>2. TypeOK /\ ShapeInv /\ NoLogicError
  <2>1. Absent \in Entry
    BY DEF Absent, Entry, Coins
  <2>2. cache \in [1..N -> [Txids -> Entry]]
    BY <2>1 DEF Init
  <2>3. TypeOK
    BY <2>2, Zenon DEF Init, TypeOK
  <2>4. ShapeInv
    BY <1>1 DEF Init, ShapeInv
  <2> QED  BY <2>3, <2>4 DEF Init, NoLogicError
<1>3. FlagsOf(cache, db)
  BY <1>1 DEF FlagsOf, Absent
<1>4. ASSUME NEW l \in 0..N, NEW s \in Txids PROVE ViewOf(cache, db, l, s) = db[s]
  <2> DEFINE c == cache
             d == db
  <2> HIDE DEF c, d
  <2>1. \A k \in 1..N, r \in Txids : c[k][r] = Absent
    BY <1>1 DEF c
  <2>2. ViewOf(c, d, l, s) = d[s]
    <3>1. 0 \in 0..l /\ l \in Nat /\ \A k \in (0 + 1)..l : k \in 1..N
      OBVIOUS
    <3>2. \A k \in (0 + 1)..l : ~c[k][s].in
      BY <2>1, <3>1 DEF Absent
    <3>3. ViewOf(c, d, l, s) = ViewOf(c, d, 0, s)
      BY <3>1, <3>2, ViewAbove
    <3> QED  BY <3>3, ViewStep
  <2> QED  BY <2>2 DEF c, d
<1> QED  BY <1>2, <1>3, <1>4 DEF IInv, FlagsSound, View

-----------------------------------------------------------------------------
(* The best block, read through the stack in the same way                  *)

LEMMA HashSourceIsHighest ==
    ASSUME NEW h, NEW l \in Nat
    PROVE  /\ HashSource(h, l) \in 0..l
           /\ HashSource(h, l) # 0 => h[HashSource(h, l)] # NullHash
           /\ \A k \in 1..l : h[k] # NullHash => k <= HashSource(h, l)
<1> DEFINE S == {k \in 1..l : h[k] # NullHash}
<1>1. S \in SUBSET (1..l)
  OBVIOUS
<1>2. HashSource(h, l) = Top(S)
  BY DEF HashSource
<1>3. /\ Top(S) \in 0..l
      /\ S # {} => Top(S) \in S
      /\ S = {} => Top(S) = 0
      /\ \A k \in S : k <= Top(S)
  <2> HIDE DEF S
  <2> QED  BY <1>1, TopIsGreatest
<1> QED  BY <1>2, <1>3

LEMMA HashSourceUnique ==
    ASSUME NEW h, NEW l \in Nat, NEW m \in 0..l,
           m # 0 => h[m] # NullHash, \A k \in 1..l : h[k] # NullHash => k <= m
    PROVE  HashSource(h, l) = m
<1> DEFINE S == {k \in 1..l : h[k] # NullHash}
<1>1. S \in SUBSET (1..l) /\ (m # 0 => m \in S) /\ \A k \in S : k <= m
  OBVIOUS
<1>2. Top(S) = m
  <2> HIDE DEF S
  <2> QED  BY <1>1, TopUnique
<1> QED  BY <1>2 DEF HashSource

\* Level l answers with its own hashBlock when that is set.
LEMMA BestOwn ==
    ASSUME NEW h, NEW l \in Nat, l # 0 => h[l] # NullHash
    PROVE  BestOf(h, l) = h[l]
<1>1. l \in 0..l /\ \A k \in 1..l : k <= l
  OBVIOUS
<1>2. HashSource(h, l) = l
  BY <1>1, HashSourceUnique
<1> QED  BY <1>2 DEF BestOf

LEMMA BestSame ==
    ASSUME NEW h, NEW h2, NEW l \in Nat, \A k \in 0..l : h2[k] = h[k]
    PROVE  BestOf(h2, l) = BestOf(h, l)
<1>1. /\ HashSource(h, l) \in 0..l
      /\ HashSource(h, l) # 0 => h[HashSource(h, l)] # NullHash
      /\ \A k \in 1..l : h[k] # NullHash => k <= HashSource(h, l)
  BY HashSourceIsHighest
<1>2. \A k \in 1..l : k \in 0..l
  OBVIOUS
<1>3. HashSource(h2, l) = HashSource(h, l)
  BY <1>1, <1>2, HashSourceUnique
<1> QED  BY <1>1, <1>3 DEF BestOf

LEMMA BestAbove ==
    ASSUME NEW h, NEW l \in Nat, NEW o \in 0..l,
           \A k \in (o + 1)..l : h[k] = NullHash
    PROVE  BestOf(h, l) = BestOf(h, o)
<1>1. /\ HashSource(h, o) \in 0..o
      /\ HashSource(h, o) # 0 => h[HashSource(h, o)] # NullHash
      /\ \A k \in 1..o : h[k] # NullHash => k <= HashSource(h, o)
  BY HashSourceIsHighest
<1>2. \A k \in 1..l : k \in 1..o \/ k \in (o + 1)..l
  OBVIOUS
<1>3. HashSource(h, o) \in 0..l
  BY <1>1
<1>4. HashSource(h, l) = HashSource(h, o)
  BY <1>1, <1>2, <1>3, HashSourceUnique
<1> QED  BY <1>4 DEF BestOf

\* GetBestBlock remembers the answer at every level it passed, and changes none.
LEMMA GetBestStep ==
    ASSUME IInv, GetBestBlock
    PROVE  IInv' /\ \A l \in 0..N : BestOf(hashBlock', l) = BestOf(hashBlock, l)
<1> DEFINE h  == hashBlock
           h2 == hashBlock'
           m  == HashSource(h, open)
<1> N \in Nat /\ open \in 1..N /\ open \in Nat
  BY DepthAssumption DEF IInv, TypeOK
<1>1. /\ m \in 0..open
      /\ m # 0 => h[m] # NullHash
      /\ \A k \in 1..open : h[k] # NullHash => k <= m
  BY HashSourceIsHighest
<1>2. \A k \in 0..N : h2[k] = IF k \in 1..open /\ k > m THEN h[m] ELSE h[k]
  BY DEF GetBestBlock, BestOf
<1>3. \A k \in 1..N : k > open => h[k] = NullHash /\ h2[k] = NullHash
  BY <1>2 DEF IInv, ShapeInv
<1>4. h[m] \in Hashes \cup {NullHash}
  BY <1>1 DEF IInv, TypeOK
<1>5. IInv'
  <2>1. hashBlock' \in [0..N -> Hashes \cup {NullHash}]
    <3>1. \A k \in 0..N : h2[k] \in Hashes \cup {NullHash}
      BY <1>2, <1>4 DEF IInv, TypeOK
    <3>2. h2 = [k \in 0..N |-> h2[k]]
      BY DEF GetBestBlock
    <3> QED  BY <3>1, <3>2
  <2>2. TypeOK'
    BY <2>1 DEF IInv, TypeOK, GetBestBlock
  <2>3. ShapeInv'
    BY <1>3 DEF IInv, ShapeInv, GetBestBlock
  <2> QED  BY <2>2, <2>3 DEF IInv, FlagsSound, NoLogicError, GetBestBlock
<1> HIDE DEF h, h2, m
<1>6. ASSUME NEW l \in 0..N PROVE BestOf(h2, l) = BestOf(h, l)
  <2> l \in Nat
    OBVIOUS
  <2>1. CASE h[m] = NullHash \/ l <= m
    <3>1. \A k \in 0..l : h2[k] = h[k]
      BY <1>1, <1>2, <2>1
    <3> QED  BY <3>1, BestSame
  <2>2. CASE h[m] # NullHash /\ l > m /\ l <= open
    <3>1. h2[l] = h[m]
      BY <1>1, <1>2, <2>2
    <3>2. BestOf(h2, l) = h[m]
      BY <2>2, <3>1, BestOwn
    <3>3. m \in 0..l /\ \A k \in 1..l : h[k] # NullHash => k <= m
      BY <1>1, <2>2
    <3>4. HashSource(h, l) = m
      BY <1>1, <3>3, HashSourceUnique
    <3> QED  BY <3>2, <3>4 DEF BestOf
  <2>3. CASE h[m] # NullHash /\ l > m /\ l > open
    <3>1. open \in 0..l /\ \A k \in (open + 1)..l : h[k] = NullHash /\ h2[k] = NullHash
      BY <1>3, <2>3
    <3>2. BestOf(h2, l) = BestOf(h2, open) /\ BestOf(h, l) = BestOf(h, open)
      BY <3>1, BestAbove
    <3>3. BestOf(h, open) = h[m]
      BY DEF BestOf, m
    <3>4. h2[open] = h[m]
      <4>1. CASE open > m
        BY <4>1, <1>2
      <4>2. CASE open = m
        BY <4>2, <1>2
      <4> QED  BY <4>1, <4>2, <1>1
    <3>5. BestOf(h2, open) = h[m]
      BY <3>4, <2>3, BestOwn
    <3> QED  BY <3>2, <3>3, <3>5
  <2> QED  BY <2>1, <2>2, <2>3, <1>1
<1> QED  BY <1>5, <1>6 DEF h, h2

LEMMA SetBestStep ==
    ASSUME IInv, NEW b \in Hashes, SetBestBlock(b)
    PROVE  /\ IInv'
           /\ \A l \in 0..N : BestOf(hashBlock', l) = IF l < open THEN BestOf(hashBlock, l) ELSE b
<1> DEFINE h  == hashBlock
           h2 == hashBlock'
<1> N \in Nat /\ open \in 1..N /\ open \in Nat
  BY DepthAssumption DEF IInv, TypeOK
<1>1. \A k \in 0..N : h2[k] = IF k = open THEN b ELSE h[k]
  BY DEF SetBestBlock, IInv, TypeOK
<1>2. TypeOK' /\ ShapeInv'
  BY DEF SetBestBlock, IInv, TypeOK, ShapeInv
<1>3. \A k \in 1..N : k > open => h2[k] = NullHash
  BY <1>1 DEF IInv, ShapeInv
<1> HIDE DEF h, h2
<1>4. ASSUME NEW l \in 0..N PROVE BestOf(h2, l) = IF l < open THEN BestOf(h, l) ELSE b
  <2>1. CASE l < open
    <3>1. l \in Nat /\ \A k \in 0..l : h2[k] = h[k]
      BY <1>1, <2>1
    <3> QED  BY <3>1, <2>1, BestSame
  <2>2. CASE l >= open
    <3>1. l \in Nat /\ open \in 0..l /\ \A k \in (open + 1)..l : h2[k] = NullHash
      BY <1>3, <2>2
    <3>2. BestOf(h2, l) = BestOf(h2, open)
      BY <3>1, BestAbove
    <3>3. h2[open] = b /\ b # NullHash
      BY <1>1, NullAssumption
    <3>4. BestOf(h2, open) = b
      BY <3>3, BestOwn
    <3> QED  BY <3>2, <3>4, <2>2
  <2> QED  BY <2>1, <2>2
<1> QED  BY <1>2, <1>4, Zenon DEF IInv, FlagsSound, NoLogicError, SetBestBlock, h, h2

\* The three operations that hand a best block down or forget one.
LEMMA FlushToCacheBest ==
    ASSUME IInv, FlushToCache, hashBlock' = [hashBlock EXCEPT ![open - 1] = hashBlock[open]]
    PROVE  \A l \in 0..N : BestOf(hashBlock', l)
                  = IF l >= open - 1 THEN BestOf(hashBlock, open) ELSE BestOf(hashBlock, l)
<1> DEFINE h  == hashBlock
           h2 == hashBlock'
<1> N \in Nat /\ open \in 1..N /\ open \in Nat /\ open > 1 /\ open - 1 \in 1..N
  BY DepthAssumption DEF IInv, TypeOK, FlushToCache
<1>1. /\ h[open] # NullHash
      /\ \A k \in 0..N : h2[k] = IF k = open - 1 THEN h[open] ELSE h[k]
  BY DEF FlushToCache, IInv, TypeOK
<1>2. \A k \in 1..N : k > open => h2[k] = NullHash
  BY <1>1 DEF IInv, ShapeInv
<1> HIDE DEF h, h2
<1>3. BestOf(h, open) = h[open]
  BY <1>1, BestOwn
<1>4. ASSUME NEW l \in 0..N
      PROVE  BestOf(h2, l) = IF l >= open - 1 THEN BestOf(h, open) ELSE BestOf(h, l)
  <2> l \in Nat
    OBVIOUS
  <2>1. CASE l < open - 1
    <3>1. \A k \in 0..l : h2[k] = h[k]
      BY <1>1, <2>1
    <3> QED  BY <3>1, <2>1, BestSame
  <2>2. CASE l = open - 1 \/ l = open
    <3>1. h2[l] = h[open]
      BY <1>1, <2>2
    <3>2. BestOf(h2, l) = h[open]
      BY <3>1, <1>1, BestOwn
    <3> QED  BY <3>2, <1>3, <2>2
  <2>3. CASE l > open
    <3>1. open \in 0..l /\ \A k \in (open + 1)..l : h2[k] = NullHash
      BY <1>2, <2>3
    <3>2. BestOf(h2, l) = BestOf(h2, open)
      BY <3>1, BestAbove
    <3>3. h2[open] = h[open]
      BY <1>1
    <3>4. BestOf(h2, open) = h[open]
      BY <3>3, <1>1, BestOwn
    <3> QED  BY <3>2, <3>4, <1>3, <2>3
  <2> QED  BY <2>1, <2>2, <2>3
<1> QED  BY <1>4, Zenon DEF h, h2

LEMMA FlushToDiskBest ==
    ASSUME IInv, FlushToDisk
    PROVE  \A l \in 0..N : BestOf(hashBlock', l) = BestOf(hashBlock, open)
<1> DEFINE h  == hashBlock
           h2 == hashBlock'
<1> N \in Nat /\ open = 1 /\ 1 \in 1..N /\ 1 \in Nat /\ 0 \in Nat
  BY DepthAssumption DEF FlushToDisk
<1>1. /\ h2[0] = IF h[1] # NullHash THEN h[1] ELSE h[0]
      /\ h2[1] = h[1]
      /\ \A k \in 1..N : k > 1 => h[k] = NullHash /\ h2[k] = NullHash
  BY DEF FlushToDisk, IInv, TypeOK, ShapeInv
<1> HIDE DEF h, h2
<1>2. BestOf(h, 0) = h[0] /\ BestOf(h2, 0) = h2[0]
  BY BestOwn
<1>3. BestOf(h, 1) = h2[0] /\ BestOf(h2, 1) = h2[0]
  <2>1. CASE h[1] # NullHash
    BY <2>1, <1>1, BestOwn
  <2>2. CASE h[1] = NullHash
    <3>1. 0 \in 0..1 /\ \A k \in (0 + 1)..1 : h[k] = NullHash /\ h2[k] = NullHash
      BY <2>2, <1>1
    <3>2. BestOf(h, 1) = BestOf(h, 0) /\ BestOf(h2, 1) = BestOf(h2, 0)
      BY <3>1, BestAbove
    <3> QED  BY <3>2, <2>2, <1>1, <1>2
  <2> QED  BY <2>1, <2>2
<1>4. ASSUME NEW l \in 0..N, l > 1 PROVE BestOf(h2, l) = h2[0]
  <2>1. l \in Nat /\ 1 \in 0..l /\ \A k \in (1 + 1)..l : h2[k] = NullHash
    BY <1>1, <1>4
  <2> QED  BY <2>1, <1>3, BestAbove
<1>5. \A l \in 0..N : l = 0 \/ l = 1 \/ l > 1
  OBVIOUS
<1> QED  BY <1>2, <1>3, <1>4, <1>5 DEF h, h2

LEMMA PopBest ==
    ASSUME IInv, Pop
    PROVE  \A l \in 0..N : BestOf(hashBlock', l)
                  = IF l < open THEN BestOf(hashBlock, l) ELSE BestOf(hashBlock, open - 1)
<1> DEFINE h  == hashBlock
           h2 == hashBlock'
           p  == open - 1
<1> N \in Nat /\ open \in Nat /\ p \in Nat /\ p \in 0..N
  BY DepthAssumption DEF IInv, TypeOK, Pop
<1>1. \A k \in 0..N : h2[k] = IF k = open \/ k > open THEN NullHash ELSE h[k]
  BY DEF Pop, IInv, TypeOK, ShapeInv
<1> HIDE DEF h, h2
<1>2. ASSUME NEW l \in 0..N, l < open PROVE BestOf(h2, l) = BestOf(h, l)
  <2>1. l \in Nat /\ \A k \in 0..l : h2[k] = h[k]
    BY <1>1, <1>2
  <2> QED  BY <2>1, BestSame
<1>3. ASSUME NEW l \in 0..N, ~(l < open) PROVE BestOf(h2, l) = BestOf(h, p)
  <2>1. l \in Nat /\ p \in 0..l /\ \A k \in (p + 1)..l : h2[k] = NullHash
    BY <1>1, <1>3
  <2>2. BestOf(h2, l) = BestOf(h2, p)
    <3> HIDE DEF p
    <3> QED  BY <2>1, BestAbove
  <2>3. BestOf(h2, p) = BestOf(h, p)
    BY <1>2
  <2> QED  BY <2>2, <2>3
<1> QED  BY <1>2, <1>3 DEF h, h2

LEMMA CrashBest ==
    ASSUME Crash \/ Init
    PROVE  /\ Crash => \A l \in 0..N : BestOf(hashBlock', l) = BestOf(hashBlock, 0)
           /\ Init => \A l \in 0..N : BestOf(hashBlock, l) = hashBlock[0]
<1> N \in Nat /\ 0 \in Nat
  BY DepthAssumption
<1>1. ASSUME NEW h, \A k \in 1..N : h[k] = NullHash, NEW l \in 0..N
      PROVE  BestOf(h, l) = h[0]
  <2>1. l \in Nat /\ 0 \in 0..l /\ \A k \in (0 + 1)..l : h[k] = NullHash
    BY <1>1
  <2>2. BestOf(h, l) = BestOf(h, 0) /\ BestOf(h, 0) = h[0]
    BY <2>1, BestAbove, BestOwn
  <2> QED  BY <2>2
<1>2. ASSUME Crash
      PROVE  \A k \in 1..N : hashBlock'[k] = NullHash
  BY <1>2 DEF Crash
<1>3. ASSUME Crash
      PROVE  hashBlock'[0] = hashBlock[0]
  BY <1>3 DEF Crash
<1>4. ASSUME Init
      PROVE  \A k \in 1..N : hashBlock[k] = NullHash
  BY <1>4 DEF Init
<1>5. BestOf(hashBlock, 0) = hashBlock[0]
  BY BestOwn
<1> QED  BY <1>1, <1>2, <1>3, <1>4, <1>5

-----------------------------------------------------------------------------
(* The theorems                                                            *)

LEMMA IInvStep ==
    ASSUME IInv, [Next]_vars
    PROVE  IInv'
<1>1. ASSUME NEW t \in Txids, FetchCoins(t) \/ Uncache(t) PROVE IInv'
  BY <1>1, FetchStep, UncacheStep
<1>2. ASSUME NEW t \in Txids, NEW v \in Coins, ModifyCoins(t, v) PROVE IInv'
  BY <1>2, ModifyStep
<1>3. ASSUME NEW t \in Txids, NEW v \in Coins, NEW coinbase \in BOOLEAN,
             ModifyNewCoins(t, coinbase, v)
      PROVE  IInv'
  BY <1>3, ModifyNewStep
<1>4. CASE GetBestBlock
  BY <1>4, GetBestStep
<1>5. ASSUME NEW h \in Hashes, SetBestBlock(h) PROVE IInv'
  BY <1>5, SetBestStep
<1>6. CASE FlushToCache
  BY <1>6, FlushToCacheStep
<1>7. CASE FlushToDisk
  BY <1>7, FlushToDiskStep
<1>8. CASE Push
  <2>1. open \in 1..N /\ open' = open + 1 /\ open < N /\ N \in Nat
    BY <1>8, DepthAssumption DEF Push, IInv, TypeOK
  <2>2. TypeOK'
    BY <1>8, <2>1 DEF Push, IInv, TypeOK
  <2>3. ShapeInv'
    BY <1>8, <2>1 DEF Push, IInv, ShapeInv
  <2> QED  BY <1>8, <2>2, <2>3 DEF Push, IInv, FlagsSound, NoLogicError
<1>9. CASE Pop
  BY <1>9, PopStep
<1>10. CASE Crash
  BY <1>10, CrashStep
<1>11. CASE UNCHANGED vars
  BY <1>11 DEF vars, IInv, TypeOK, ShapeInv, FlagsSound, NoLogicError
<1> QED
  BY <1>1, <1>2, <1>3, <1>4, <1>5, <1>6, <1>7, <1>8, <1>9, <1>10, <1>11 DEF Next

\* The conjunction that the operations of the caches preserve.
THEOREM Invariance == Spec => []IInv
<1>1. Init => IInv
  BY InitStep
<1>2. IInv /\ [Next]_vars => IInv'
  BY IInvStep
<1> QED  BY <1>1, <1>2, PTL DEF Spec

THEOREM TypeCorrect == Spec => []TypeOK
<1>1. IInv => TypeOK
  BY DEF IInv
<1> QED  BY <1>1, Invariance, PTL

\* However the operations follow each other, at every level an entry that is not
\* DIRTY agrees with the parent view and a FRESH entry has nothing below it.
THEOREM FlagsAreSound == Spec => []FlagsSound
<1>1. IInv => FlagsSound
  BY DEF IInv
<1> QED  BY <1>1, Invariance, PTL

\* The two std::logic_error of coins.cpp are never thrown.
THEOREM NeverThrows == Spec => []NoLogicError
<1>1. IInv => NoLogicError
  BY DEF IInv
<1> QED  BY <1>1, Invariance, PTL

-----------------------------------------------------------------------------
(* The refinement                                                          *)

\* A level that is not open shows what the top view shows.
LEMMA ClosedLevels ==
    ASSUME IInv, NEW l \in 0..N, l > open
    PROVE  /\ \A s \in Txids : View(l, s) = View(open, s)
           /\ BestOf(hashBlock, l) = BestOf(hashBlock, open)
<1> N \in Nat /\ open \in 1..N /\ open \in Nat /\ l \in Nat /\ open \in 0..l
  BY DepthAssumption DEF IInv, TypeOK
<1>1. \A k \in (open + 1)..l : k \in 1..N /\ k > open
  OBVIOUS
<1>2. \A k \in (open + 1)..l : hashBlock[k] = NullHash
  BY <1>1 DEF IInv, ShapeInv
<1>3. BestOf(hashBlock, l) = BestOf(hashBlock, open)
  BY <1>2, BestAbove
<1>4. ASSUME NEW s \in Txids PROVE View(l, s) = View(open, s)
  <2>1. \A k \in (open + 1)..l : ~cache[k][s].in
    BY <1>1 DEF IInv, ShapeInv, Absent
  <2> QED  BY <2>1, ViewAbove DEF View
<1> QED  BY <1>3, <1>4

\* Every operation of the caches is an operation of the plain maps or changes
\* nothing that a reader sees.
LEMMA RefinementStep ==
    ASSUME IInv, [Next]_vars
    PROVE  [Abstract!Next]_(Abstract!vars)
<1> DEFINE V  == [l \in 0..N |-> [t \in Txids |-> View(l, t)]]
           B  == [l \in 0..N |-> BestOf(hashBlock, l)]
<1>a. V' = [l \in 0..N |-> [t \in Txids |-> ViewOf(cache', db', l, t)]]
  BY DEF View
<1>b. B' = [l \in 0..N |-> BestOf(hashBlock', l)]
  OBVIOUS
<1>c. N \in Nat /\ open \in 1..N /\ open - 1 \in 0..N /\ open \in 0..N
  BY DepthAssumption DEF IInv, TypeOK
<1>d. (\A l \in 0..N, s \in Txids : ViewOf(cache', db', l, s) = View(l, s)) => V' = V
  BY <1>a
<1>e. (\A l \in 0..N : BestOf(hashBlock', l) = BestOf(hashBlock, l)) => B' = B
  BY <1>b
<1>f. hashBlock' = hashBlock => B' = B
  BY <1>b
<1>g. UNCHANGED <<cache, db>> => V' = V
  BY <1>a DEF View
<1>h. ASSUME NEW t \in Txids, NEW v \in Coins,
             \A l \in 0..N, s \in Txids :
                ViewOf(cache', db', l, s) = IF l >= open /\ s = t THEN v ELSE View(l, s),
             UNCHANGED <<hashBlock, open>>
      PROVE  Abstract!Write(t, v)
  <2>1. V' = [l \in 0..N |-> IF l < open THEN V[l] ELSE [V[l] EXCEPT ![t] = v]]
    <3>1. ASSUME NEW l \in 0..N
          PROVE  V'[l] = IF l < open THEN V[l] ELSE [V[l] EXCEPT ![t] = v]
      BY <1>a, <1>c, <1>h
    <3> QED  BY <3>1, <1>a
  <2> QED  BY <2>1, <1>f, <1>h DEF Abstract!Write
<1>1. ASSUME NEW t \in Txids, FetchCoins(t) \/ Uncache(t) PROVE UNCHANGED Abstract!vars
  <2>1. V' = V
    BY <1>1, <1>d, FetchStep, UncacheStep
  <2> QED  BY <1>1, <2>1, <1>f DEF FetchCoins, Uncache, Abstract!vars
<1>2. ASSUME NEW t \in Txids, NEW v \in Coins, ModifyCoins(t, v) PROVE Abstract!Write(t, v)
  <2>1. UNCHANGED <<hashBlock, open>>
    BY <1>2 DEF ModifyCoins
  <2> QED  BY <1>2, <2>1, <1>h, ModifyStep
<1>3. ASSUME NEW t \in Txids, NEW v \in Coins, NEW coinbase \in BOOLEAN,
             ModifyNewCoins(t, coinbase, v)
      PROVE  Abstract!Write(t, v)
  <2>1. UNCHANGED <<hashBlock, open>>
    BY <1>3 DEF ModifyNewCoins
  <2> QED  BY <1>3, <2>1, <1>h, ModifyNewStep
<1>4. CASE GetBestBlock
  <2>1. B' = B
    BY <1>4, <1>e, GetBestStep
  <2> QED  BY <1>4, <2>1, <1>g DEF GetBestBlock, Abstract!vars
<1>5. ASSUME NEW h \in Hashes, SetBestBlock(h) PROVE Abstract!SetBestBlock(h)
  <2>1. B' = [l \in 0..N |-> IF l < open THEN B[l] ELSE h]
    BY <1>5, <1>b, SetBestStep
  <2> QED  BY <1>5, <2>1, <1>g, Zenon DEF SetBestBlock, Abstract!SetBestBlock
<1>6. ASSUME FlushToCache \/ FlushToDisk PROVE Abstract!Flush
  <2>1. \A l \in 0..N, s \in Txids :
           ViewOf(cache', db', l, s) = IF l >= open - 1 THEN View(open, s) ELSE View(l, s)
    <3>1. FlushToDisk => open = 1
      BY DEF FlushToDisk
    <3> QED  BY <1>6, <3>1, FlushToCacheStep, FlushToDiskStep
  <2>2. \A l \in 0..N : BestOf(hashBlock', l)
              = IF l >= open - 1 THEN BestOf(hashBlock, open) ELSE BestOf(hashBlock, l)
    <3>1. FlushToDisk => open = 1
      BY DEF FlushToDisk
    <3> QED  BY <1>6, <3>1, FlushToCacheStep, FlushToCacheBest, FlushToDiskBest
  <2>3. \A l \in 0..N : l < open - 1 \/ l = open - 1 \/ l = open \/ l > open
    BY <1>c
  <2>4. V' = [V EXCEPT ![open - 1] = V[open]]
    <3>1. ASSUME NEW l \in 0..N
          PROVE  V'[l] = IF l = open - 1 THEN V[open] ELSE V[l]
      BY <1>a, <1>c, <2>1, <2>3, ClosedLevels
    <3> QED  BY <3>1, <1>a, Zenon
  <2>5. B' = [B EXCEPT ![open - 1] = B[open]]
    <3>1. ASSUME NEW l \in 0..N
          PROVE  B'[l] = IF l = open - 1 THEN B[open] ELSE B[l]
      BY <1>b, <1>c, <2>2, <2>3, ClosedLevels
    <3> QED  BY <3>1, <1>b, Zenon
  <2> QED  BY <1>6, <2>4, <2>5 DEF FlushToCache, FlushToDisk, Abstract!Flush
<1>7. CASE Push
  BY <1>7, <1>f, <1>g DEF Push, Abstract!Push, Abstract!Next
<1>8. ASSUME Pop PROVE Abstract!Pop
  <2>1. V' = [l \in 0..N |-> IF l < open THEN V[l] ELSE V[open - 1]]
    BY <1>8, <1>a, <1>c, PopStep
  <2>2. B' = [l \in 0..N |-> IF l < open THEN B[l] ELSE B[open - 1]]
    BY <1>8, <1>b, <1>c, PopBest
  <2> QED  BY <1>8, <2>1, <2>2, Zenon DEF Pop, Abstract!Pop
<1>9. ASSUME Crash PROVE Abstract!Crash
  <2>1. V' = [l \in 0..N |-> V[0]]
    BY <1>9, <1>a, <1>c, CrashStep
  <2>2. B' = [l \in 0..N |-> B[0]]
    BY <1>9, <1>b, <1>c, CrashBest
  <2> QED  BY <1>9, <2>1, <2>2 DEF Crash, Abstract!Crash
<1>10. CASE UNCHANGED vars
  BY <1>10, <1>f, <1>g DEF vars, Abstract!vars
<1> QED
  BY <1>1, <1>2, <1>3, <1>4, <1>5, <1>6, <1>7, <1>8, <1>9, <1>10 DEF Next, Abstract!Next

\* Whatever the caches hold, reading through them, flushing them, dropping them
\* and losing them in a crash is the same as with plain maps and no cache.
THEOREM Refinement == Spec => ImplementsCoinsView
<1>1. Init => Abstract!Init
  <2> SUFFICES ASSUME Init PROVE Abstract!Init
    OBVIOUS
  <2>1. [l \in 0..N |-> [t \in Txids |-> View(l, t)]] = [l \in 0..N |-> db]
    <3>1. db = [t \in Txids |-> db[t]]
      BY DEF Init
    <3> QED  BY <3>1, InitStep
  <2>2. [l \in 0..N |-> BestOf(hashBlock, l)] = [l \in 0..N |-> hashBlock[0]]
    BY CrashBest
  <2>3. db \in [Txids -> Coins] /\ hashBlock[0] \in Hashes \cup {NullHash} /\ open = 1
    BY DepthAssumption DEF Init
  <2> QED  BY <2>1, <2>2, <2>3 DEF Abstract!Init
<1>2. IInv /\ [Next]_vars => [Abstract!Next]_(Abstract!vars)
  BY RefinementStep
<1> QED  BY <1>1, <1>2, Invariance, PTL DEF Spec, ImplementsCoinsView, Abstract!Spec

-----------------------------------------------------------------------------
(* Sums over a finite set: SumFunctionOnSet of the library is defined by   *)
(* recursion on the set, so what it computes is shown for the smallest set *)
(* for which it could be wrong.                                            *)

\* Every non-empty set of natural numbers has a least member.
LEMMA LeastNumber ==
    ASSUME NEW S \in SUBSET Nat, S # {}
    PROVE  \E n \in S : \A m \in S : n <= m
<1> DEFINE R == {ss \in Nat \X Nat : ss[1] < ss[2]}
<1>1. IsWellFoundedOn(R, Nat)
  BY NatLessThanWellFounded DEF OpToRel
<1>2. \A m, n \in Nat : m < n => <<m, n>> \in R
  OBVIOUS
<1> HIDE DEF R
<1>3. PICK n \in S : \A m \in S : <<m, n>> \notin R
  BY <1>1, WFMin, Zenon
<1>4. \A m \in S : m \in Nat /\ n \in Nat /\ ~(m < n)
  BY <1>2, <1>3, Zenon
<1>5. \A m \in S : n <= m
  BY <1>4
<1> QED
  BY <1>5

\* Every non-empty set of subsets of a finite set has a smallest member.
LEMMA Smallest ==
    ASSUME NEW S, IsFiniteSet(S), NEW C \in SUBSET (SUBSET S), C # {}
    PROVE  \E T \in C : \A U \in C : Cardinality(T) <= Cardinality(U)
<1> DEFINE Counts == {Cardinality(T) : T \in C}
<1>1. \A T \in C : Cardinality(T) \in Nat
  BY FS_Subset, FS_CardinalityType, Zenon
<1>2. Counts \in SUBSET Nat /\ Counts # {}
  BY <1>1
<1>3. PICK n \in Counts : \A m \in Counts : n <= m
  BY <1>2, LeastNumber, Zenon
<1> QED
  BY <1>3

Pick(T) == CHOOSE x \in T : TRUE

\* g is the recursion by which SumFunctionOnSet adds up f, on the sets of D.
Adds(D, f, g) ==
    \A T \in D : g[T] = IF T = {} THEN 0 ELSE f[Pick(T)] + g[T \ {Pick(T)}]

LEMMA OneLess ==
    ASSUME NEW T, IsFiniteSet(T), NEW x \in T
    PROVE  /\ IsFiniteSet(T \ {x})
           /\ Cardinality(T \ {x}) \in Nat /\ Cardinality(T) \in Nat
           /\ Cardinality(T \ {x}) = Cardinality(T) - 1
  BY FS_RemoveElement, FS_CardinalityType

LEMMA PickIn == ASSUME NEW T, T # {} PROVE Pick(T) \in T
  BY DEF Pick

LEMMA SumRecursion ==
    ASSUME NEW S, IsFiniteSet(S), NEW f, \A x \in S : f[x] \in Int
    PROVE  \E g \in [SUBSET S -> Int] : Adds(SUBSET S, f, g)
<1> DEFINE Small(n) == {T \in SUBSET S : Cardinality(T) <= n}
           Good(n) == \E g \in [Small(n) -> Int] : Adds(Small(n), f, g)
           Wrong == {n \in Nat : ~Good(n)}
<1>1. \A T \in SUBSET S : /\ IsFiniteSet(T) /\ Cardinality(T) \in Nat
                          /\ Cardinality(T) <= Cardinality(S)
  BY FS_Subset, FS_CardinalityType, Zenon
<1>2. ASSUME Wrong # {} PROVE FALSE
  <2>1. PICK n \in Wrong : \A m \in Wrong : n <= m
    <3>1. Wrong \in SUBSET Nat
      OBVIOUS
    <3> HIDE DEF Wrong
    <3> QED  BY <1>2, <3>1, LeastNumber, Zenon
  <2>2. CASE n = 0
    <3>1. Small(0) = {{}}
      <4>1. \A T \in SUBSET S : Cardinality(T) <= 0 <=> T = {}
        BY <1>1, FS_EmptySet
      <4> QED  BY <4>1
    <3> DEFINE z == [T \in Small(0) |-> 0]
    <3>2. z \in [Small(0) -> Int] /\ Adds(Small(0), f, z)
      BY <3>1 DEF Adds
    <3>3. Good(0)
      <4> HIDE DEF z, Small
      <4> QED  BY <3>2
    <3> HIDE DEF Good
    <3> QED
      BY <2>1, <2>2, <3>3
  <2>3. CASE n # 0
    <3>1. n - 1 \in Nat /\ Good(n - 1)
      <4> HIDE DEF Good
      <4> QED  BY <2>1, <2>3
    <3>2. PICK g \in [Small(n - 1) -> Int] : Adds(Small(n - 1), f, g)
      BY <3>1, Zenon
    <3> DEFINE h == [T \in Small(n) |-> IF T = {} THEN 0 ELSE f[Pick(T)] + g[T \ {Pick(T)}]]
    <3>3. \A T \in Small(n) : T # {} => T \ {Pick(T)} \in Small(n - 1) /\ Pick(T) \in S
      <4> SUFFICES ASSUME NEW T \in Small(n), T # {}
                   PROVE  T \ {Pick(T)} \in Small(n - 1) /\ Pick(T) \in S
        OBVIOUS
      <4>1. T \in SUBSET S /\ Cardinality(T) <= n /\ Pick(T) \in T /\ IsFiniteSet(T)
        BY <1>1, PickIn
      <4>2. Cardinality(T \ {Pick(T)}) = Cardinality(T) - 1 /\ Cardinality(T) \in Nat
        BY <4>1, OneLess
      <4>3. Cardinality(T \ {Pick(T)}) <= n - 1 /\ T \ {Pick(T)} \in SUBSET S
        BY <4>1, <4>2
      <4> QED
        BY <4>1, <4>3
    <3>4. Small(n - 1) \subseteq Small(n)
      BY <1>1
    <3> HIDE DEF Small
    <3>5. h \in [Small(n) -> Int]
      BY <3>3
    <3>6. \A T \in Small(n - 1) : h[T] = g[T]
      BY <3>2, <3>4, Zenon DEF Adds
    <3>7. Adds(Small(n), f, h)
      BY <3>3, <3>6, Zenon DEF Adds
    <3> HIDE DEF h
    <3>8. Good(n)
      BY <3>5, <3>7
    <3> QED
      BY <2>1, <3>8
  <2> QED
    BY <2>2, <2>3
<1>3. Cardinality(S) \in Nat
  BY FS_CardinalityType
<1>4. Good(Cardinality(S))
  BY <1>2, <1>3, Zenon
<1>5. Small(Cardinality(S)) = SUBSET S
  BY <1>1
<1> QED
  BY <1>4, <1>5, Zenon

LEMMA SumIs ==
    ASSUME NEW S, NEW f
    PROVE  SumFunctionOnSet(f, S) =
              (CHOOSE g : g = [T \in SUBSET S |->
                    IF T = {} THEN 0 ELSE f[Pick(T)] + g[T \ {Pick(T)}]])[S]
  BY DEF SumFunctionOnSet, FoldFunctionOnSet, MapThenFoldSet, Pick

\* Two recursions agree on what both add up.
LEMMA SumUnique ==
    ASSUME NEW S, IsFiniteSet(S), NEW f, NEW g, NEW h,
           Adds(SUBSET S, f, g), Adds(SUBSET S, f, h)
    PROVE  \A T \in SUBSET S : g[T] = h[T]
<1> DEFINE Wrong == {T \in SUBSET S : g[T] # h[T]}
<1>1. ASSUME Wrong # {} PROVE FALSE
  <2>1. PICK T \in Wrong : \A U \in Wrong : Cardinality(T) <= Cardinality(U)
    BY <1>1, Smallest, Zenon
  <2>2. T # {}
    BY <2>1 DEF Adds
  <2>3. IsFiniteSet(T) /\ Pick(T) \in T /\ T \ {Pick(T)} \in SUBSET S
    BY <2>2, PickIn, FS_Subset
  <2>4. T \ {Pick(T)} \notin Wrong
    BY <2>1, <2>3, OneLess
  <2> QED
    BY <2>1, <2>2, <2>3, <2>4 DEF Adds
<1> QED
  BY <1>1

\* SumFunctionOnSet adds up the members one by one.
LEMMA SumStep ==
    ASSUME NEW S, IsFiniteSet(S), NEW f, \A x \in S : f[x] \in Int
    PROVE  /\ SumFunctionOnSet(f, S) \in Int
           /\ S = {} => SumFunctionOnSet(f, S) = 0
           /\ S # {} => SumFunctionOnSet(f, S)
                          = f[Pick(S)] + SumFunctionOnSet(f, S \ {Pick(S)})
<1> DEFINE It(T) == CHOOSE g : g = [U \in SUBSET T |->
                        IF U = {} THEN 0 ELSE f[Pick(U)] + g[U \ {Pick(U)}]]
<1>1. ASSUME NEW T \in SUBSET S
      PROVE  /\ Adds(SUBSET T, f, It(T)) /\ It(T)[T] \in Int
             /\ SumFunctionOnSet(f, T) = It(T)[T]
  <2>1. IsFiniteSet(T)
    BY FS_Subset
  <2>3. PICK g \in [SUBSET T -> Int] : Adds(SUBSET T, f, g)
    BY <2>1, SumRecursion, Zenon
  <2>4. g = [U \in SUBSET T |-> IF U = {} THEN 0 ELSE f[Pick(U)] + g[U \ {Pick(U)}]]
    BY <2>3 DEF Adds
  <2>5. It(T) = [U \in SUBSET T |-> IF U = {} THEN 0 ELSE f[Pick(U)] + It(T)[U \ {Pick(U)}]]
    BY <2>4, Zenon
  <2> HIDE DEF It
  <2>6. Adds(SUBSET T, f, It(T))
    BY <2>5, Zenon DEF Adds
  <2>7. It(T)[T] = g[T]
    BY <2>1, <2>3, <2>6, SumUnique
  <2>8. SumFunctionOnSet(f, T) = It(T)[T]
    BY SumIs, Zenon DEF It
  <2> QED
    BY <2>3, <2>6, <2>7, <2>8
<1> HIDE DEF It
<1>2. CASE S = {}
  BY <1>1, <1>2 DEF Adds
<1>3. CASE S # {}
  <2> DEFINE T == S \ {Pick(S)}
  <2>1. T \in SUBSET S /\ IsFiniteSet(T)
    BY FS_Subset
  <2>2. Adds(SUBSET T, f, It(S))
    BY <1>1, <2>1, Zenon DEF Adds
  <2>3. It(S)[T] = It(T)[T]
    <3> HIDE DEF T
    <3>1. Adds(SUBSET T, f, It(T)) /\ T \in SUBSET T
      BY <1>1, <2>1
    <3>2. \A U \in SUBSET T : It(S)[U] = It(T)[U]
      BY <2>1, <2>2, <3>1, SumUnique
    <3> QED
      BY <3>1, <3>2
  <2>4. It(S)[S] = f[Pick(S)] + It(S)[T]
    BY <1>1, <1>3, Zenon DEF Adds
  <2>5. /\ SumFunctionOnSet(f, S) = It(S)[S] /\ It(S)[S] \in Int
        /\ SumFunctionOnSet(f, T) = It(T)[T]
    BY <1>1, <2>1, Zenon
  <2> HIDE DEF T
  <2>6. SumFunctionOnSet(f, S) = f[Pick(S)] + SumFunctionOnSet(f, T)
    BY <2>3, <2>4, <2>5
  <2> QED
    BY <1>3, <2>5, <2>6 DEF T
<1> QED
  BY <1>1, <1>2, <1>3

\* It does not matter which member is added first.
LEMMA SumAny ==
    ASSUME NEW S, IsFiniteSet(S), NEW f, \A x \in S : f[x] \in Int, NEW y \in S
    PROVE  SumFunctionOnSet(f, S) = f[y] + SumFunctionOnSet(f, S \ {y})
<1> DEFINE Sum(T) == SumFunctionOnSet(f, T)
           OK(T) == \A x \in T : Sum(T) = f[x] + Sum(T \ {x})
           Wrong == {T \in SUBSET S : ~OK(T)}
<1>1. ASSUME NEW T \in SUBSET S
      PROVE  /\ IsFiniteSet(T) /\ Sum(T) \in Int
             /\ T # {} => Pick(T) \in T /\ Sum(T) = f[Pick(T)] + Sum(T \ {Pick(T)})
  <2>1. IsFiniteSet(T) /\ \A x \in T : f[x] \in Int
    BY FS_Subset
  <2> QED
    BY <2>1, SumStep, PickIn, Zenon
<1> HIDE DEF Sum
<1>2. ASSUME Wrong # {} PROVE FALSE
  <2>1. PICK T \in Wrong : \A U \in Wrong : Cardinality(T) <= Cardinality(U)
    BY <1>2, Smallest, Zenon
  <2>2. PICK x \in T : Sum(T) # f[x] + Sum(T \ {x})
    BY <2>1
  <2> DEFINE p == Pick(T)
             U == T \ {x}
             V == T \ {p}
             W == T \ {x, p}
  <2>3. T \in SUBSET S /\ IsFiniteSet(T) /\ p \in T /\ p # x
    BY <1>1, <2>1, <2>2, Zenon
  <2>4. OK(U) /\ OK(V)
    <3>1. /\ Cardinality(U) = Cardinality(T) - 1 /\ Cardinality(V) = Cardinality(T) - 1
          /\ Cardinality(T) \in Nat
      BY <2>2, <2>3, OneLess
    <3>2. ~(Cardinality(T) <= Cardinality(U)) /\ ~(Cardinality(T) <= Cardinality(V))
      <4> HIDE DEF U, V
      <4> QED  BY <3>1
    <3>3. U \notin Wrong /\ V \notin Wrong
      BY <2>1, <3>2, Zenon
    <3> QED
      BY <2>3, <3>3, Zenon
  <2>5. U \ {p} = W /\ V \ {x} = W /\ p \in U /\ x \in V
    BY <2>3
  <2>6. Sum(U) = f[p] + Sum(W) /\ Sum(V) = f[x] + Sum(W)
    <3> HIDE DEF p, U, V, W
    <3> QED  BY <2>4, <2>5
  <2>7. /\ Sum(T) = f[p] + Sum(V) /\ Sum(W) \in Int /\ Sum(U) \in Int /\ Sum(V) \in Int
        /\ f[x] \in Int /\ f[p] \in Int
    BY <1>1, <2>3, Zenon
  <2>8. Sum(T) = f[x] + Sum(U)
    <3> HIDE DEF p, U, V, W
    <3> QED  BY <2>6, <2>7
  <2> QED
    BY <2>2, <2>8
<1>3. S \in SUBSET S /\ S \notin Wrong
  BY <1>2
<1> QED
  BY <1>3 DEF Sum

\* The sum of sums is the sum of both.
LEMMA SumOfSums ==
    ASSUME NEW S, IsFiniteSet(S), NEW f, NEW g, NEW h,
           \A x \in S : f[x] \in Int /\ g[x] \in Int /\ h[x] = f[x] + g[x]
    PROVE  SumFunctionOnSet(h, S) = SumFunctionOnSet(f, S) + SumFunctionOnSet(g, S)
<1> DEFINE OK(T) == SumFunctionOnSet(h, T) = SumFunctionOnSet(f, T) + SumFunctionOnSet(g, T)
           Wrong == {T \in SUBSET S : ~OK(T)}
<1>1. ASSUME Wrong # {} PROVE FALSE
  <2>1. PICK T \in Wrong : \A U \in Wrong : Cardinality(T) <= Cardinality(U)
    BY <1>1, Smallest, Zenon
  <2>2. /\ T \in SUBSET S /\ IsFiniteSet(T)
        /\ \A x \in T : f[x] \in Int /\ g[x] \in Int /\ h[x] \in Int
    BY <2>1, FS_Subset
  <2>3. T # {}
    <3> SUFFICES ASSUME T = {} PROVE FALSE
      OBVIOUS
    <3>1. /\ SumFunctionOnSet(f, T) = 0 /\ SumFunctionOnSet(g, T) = 0
          /\ SumFunctionOnSet(h, T) = 0
      BY <2>2, SumStep, Zenon
    <3>2. OK(T)
      BY <3>1
    <3> QED
      BY <2>1, <3>2
  <2> DEFINE p == Pick(T)
             U == T \ {p}
  <2>4. p \in T /\ U \in SUBSET S
    BY <2>2, <2>3, PickIn
  <2>5. U \notin Wrong /\ IsFiniteSet(U)
    <3>1. /\ Cardinality(U) = Cardinality(T) - 1 /\ Cardinality(T) \in Nat
          /\ IsFiniteSet(U)
      BY <2>2, <2>4, OneLess
    <3>2. ~(Cardinality(T) <= Cardinality(U))
      <4> HIDE DEF U
      <4> QED  BY <3>1
    <3> QED
      BY <2>1, <3>1, <3>2, Zenon
  <2>6. OK(U)
    BY <2>4, <2>5
  <2> HIDE DEF p, U
  <2>7. /\ SumFunctionOnSet(f, T) = f[p] + SumFunctionOnSet(f, U)
        /\ SumFunctionOnSet(g, T) = g[p] + SumFunctionOnSet(g, U)
        /\ SumFunctionOnSet(h, T) = h[p] + SumFunctionOnSet(h, U)
    BY <2>2, <2>3, SumStep, Zenon DEF p, U
  <2>8. /\ SumFunctionOnSet(f, U) \in Int /\ SumFunctionOnSet(g, U) \in Int
        /\ SumFunctionOnSet(h, U) \in Int
    BY <2>2, <2>5, SumStep, Zenon DEF U
  <2>9. f[p] \in Int /\ g[p] \in Int /\ h[p] = f[p] + g[p]
    BY <2>2, <2>4
  <2>10. OK(T)
    BY <2>6, <2>7, <2>8, <2>9
  <2> QED
    BY <2>1, <2>10
<1>2. S \in SUBSET S /\ S \notin Wrong
  BY <1>1
<1> QED
  BY <1>2

\* A sum of zeros is 0.
LEMMA SumOfZeros ==
    ASSUME NEW S, IsFiniteSet(S), NEW f, \A x \in S : f[x] = 0
    PROVE  SumFunctionOnSet(f, S) = 0
<1>1. \A x \in S : f[x] \in Int /\ f[x] = f[x] + f[x]
  OBVIOUS
<1>2. SumFunctionOnSet(f, S) = SumFunctionOnSet(f, S) + SumFunctionOnSet(f, S)
  BY <1>1, SumOfSums, Zenon
<1>3. SumFunctionOnSet(f, S) \in Int
  BY <1>1, SumStep, Zenon
<1>4. \A y \in Int : y = y + y => y = 0
  OBVIOUS
<1> QED
  BY <1>2, <1>3, <1>4, Zenon

\* Values that are the same give the same sum.
LEMMA SumOfSame ==
    ASSUME NEW S, IsFiniteSet(S), NEW f, NEW g, \A x \in S : f[x] \in Int /\ g[x] = f[x]
    PROVE  SumFunctionOnSet(g, S) = SumFunctionOnSet(f, S)
<1> DEFINE z == [x \in S |-> 0]
<1>1. SumFunctionOnSet(g, S) = SumFunctionOnSet(f, S) + SumFunctionOnSet(z, S)
  BY SumOfSums
<1>2. SumFunctionOnSet(z, S) = 0
  BY SumOfZeros
<1>3. SumFunctionOnSet(f, S) \in Int
  BY SumStep, Zenon
<1> HIDE DEF z
<1> QED
  BY <1>1, <1>2, <1>3

\* The sum changes with the one value that does.
LEMMA SumOfChange ==
    ASSUME NEW S, IsFiniteSet(S), NEW f, NEW g, NEW y \in S, g[y] \in Int,
           \A x \in S : f[x] \in Int /\ (x # y => g[x] = f[x])
    PROVE  SumFunctionOnSet(g, S) = SumFunctionOnSet(f, S) - f[y] + g[y]
<1> DEFINE T == S \ {y}
<1>1. IsFiniteSet(T) /\ \A x \in T : f[x] \in Int /\ g[x] = f[x]
  BY FS_Subset
<1>2. SumFunctionOnSet(f, S) = f[y] + SumFunctionOnSet(f, T)
  BY SumAny
<1>3. SumFunctionOnSet(g, S) = g[y] + SumFunctionOnSet(g, T)
  BY SumAny
<1> HIDE DEF T
<1>4. SumFunctionOnSet(g, T) = SumFunctionOnSet(f, T) /\ SumFunctionOnSet(f, T) \in Int
  BY <1>1, SumOfSame, SumStep, Zenon
<1> QED
  BY <1>2, <1>3, <1>4

-----------------------------------------------------------------------------
(* cachedCoinsUsage                                                        *)

\* The size of an entry is an integer, and an entry without coins has none.
LEMMA Sizes ==
    ASSUME NEW e \in Entry
    PROVE  /\ DynamicMemoryUsage(e.coins) \in Int
           /\ e.coins = Pruned => DynamicMemoryUsage(e.coins) = 0
           /\ Absent.coins = Pruned /\ DynamicMemoryUsage(Absent.coins) = 0
  BY UsageAssumption DEF Entry, Coins, DynamicMemoryUsage, Absent

\* SizeOf as a sum over the transactions.
LEMMA SizeIsSum ==
    ASSUME NEW m
    PROVE  SizeOf(m) = SumFunctionOnSet([t \in Txids |-> DynamicMemoryUsage(m[t].coins)], Txids)
  BY DEF SizeOf, SumFunction

LEMMA SizeType ==
    ASSUME NEW m \in [Txids -> Entry]
    PROVE  SizeOf(m) \in Int
<1> DEFINE f == [t \in Txids |-> DynamicMemoryUsage(m[t].coins)]
<1>1. \A t \in Txids : f[t] \in Int
  BY Sizes
<1> HIDE DEF f
<1>2. SumFunctionOnSet(f, Txids) \in Int
  BY <1>1, SumStep, TxidsAssumption, Zenon
<1> QED  BY <1>2, SizeIsSum DEF f

\* A cache without entries has size 0.
LEMMA SizeOfNothing == SizeOf([t \in Txids |-> Absent]) = 0
<1> DEFINE m == [t \in Txids |-> Absent]
           f == [t \in Txids |-> DynamicMemoryUsage(m[t].coins)]
<1>1. \A t \in Txids : f[t] = 0
  BY DEF Absent, DynamicMemoryUsage
<1> HIDE DEF f
<1>2. SumFunctionOnSet(f, Txids) = 0
  BY <1>1, SumOfZeros, TxidsAssumption, Zenon
<1>3. SizeOf(m) = SumFunctionOnSet(f, Txids)
  BY SizeIsSum DEF f
<1> QED  BY <1>2, <1>3

\* What the change of one entry does to the size.
LEMMA SizeOfPut ==
    ASSUME NEW m \in [Txids -> Entry], NEW t \in Txids, NEW e \in Entry
    PROVE  SizeOf([m EXCEPT ![t] = e])
             = SizeOf(m) - DynamicMemoryUsage(m[t].coins) + DynamicMemoryUsage(e.coins)
<1> DEFINE m2 == [m EXCEPT ![t] = e]
           f  == [s \in Txids |-> DynamicMemoryUsage(m[s].coins)]
           f2 == [s \in Txids |-> DynamicMemoryUsage(m2[s].coins)]
<1>1. m[t] \in Entry /\ m2[t] = e /\ \A s \in Txids : s # t => m2[s] = m[s]
  OBVIOUS
<1>2. \A s \in Txids : f[s] \in Int
  BY Sizes
<1> HIDE DEF m2
<1>3. /\ f[t] = DynamicMemoryUsage(m[t].coins) /\ f2[t] = DynamicMemoryUsage(e.coins)
      /\ \A s \in Txids : f[s] \in Int /\ (s # t => f2[s] = f[s])
  BY <1>1, <1>2
<1>4. f2[t] \in Int
  BY <1>3, Sizes
<1>5. SizeOf(m) = SumFunctionOnSet(f, Txids) /\ SizeOf(m2) = SumFunctionOnSet(f2, Txids)
  BY SizeIsSum
<1> HIDE DEF f, f2
<1>6. SumFunctionOnSet(f2, Txids) = SumFunctionOnSet(f, Txids) - f[t] + f2[t]
  BY <1>3, <1>4, SumOfChange, TxidsAssumption
<1> QED  BY <1>3, <1>5, <1>6 DEF m2

\* The changes that BatchWrite adds up are the change of the parent's size.
LEMMA SizeOfBatch ==
    ASSUME NEW m \in [Txids -> Entry], NEW m2 \in [Txids -> Entry]
    PROVE  SizeOf(m2) = SizeOf(m)
             + SumFunction([t \in Txids |-> DynamicMemoryUsage(m2[t].coins)
                                              - DynamicMemoryUsage(m[t].coins)])
<1> DEFINE f  == [t \in Txids |-> DynamicMemoryUsage(m[t].coins)]
           f2 == [t \in Txids |-> DynamicMemoryUsage(m2[t].coins)]
           d  == [t \in Txids |-> DynamicMemoryUsage(m2[t].coins)
                                    - DynamicMemoryUsage(m[t].coins)]
<1>1. \A t \in Txids : /\ DynamicMemoryUsage(m[t].coins) \in Int
                       /\ DynamicMemoryUsage(m2[t].coins) \in Int
  BY Sizes
<1>2. \A t \in Txids : f[t] \in Int /\ d[t] \in Int /\ f2[t] = f[t] + d[t]
  BY <1>1
<1>3. /\ SizeOf(m) = SumFunctionOnSet(f, Txids) /\ SizeOf(m2) = SumFunctionOnSet(f2, Txids)
      /\ SumFunction(d) = SumFunctionOnSet(d, Txids)
  BY SizeIsSum DEF SumFunction
<1> HIDE DEF f, f2, d
<1>4. SumFunctionOnSet(f2, Txids) = SumFunctionOnSet(f, Txids) + SumFunctionOnSet(d, Txids)
  BY <1>2, SumOfSums, TxidsAssumption
<1> QED  BY <1>3, <1>4 DEF d

\* The usage u is the size of every one of the caches c.
Exact(c, u) == \A l \in 1..N : u[l] = SizeOf(c[l])

\* FetchCoins adds the size of what it fetches to the levels that had no entry.
LEMMA FillKeepsUsage ==
    ASSUME IInv, UsageExact, NEW L \in 0..N, NEW t \in Txids
    PROVE  Exact(CacheFilled(L, t), UsageFilled(L, t))
<1> SUFFICES ASSUME NEW k \in 1..N
             PROVE  UsageFilled(L, t)[k] = SizeOf(CacheFilled(L, t)[k])
  BY DEF Exact
<1> DEFINE v == View(L, t)
           e == Fetched(v)
<1> N \in Nat /\ L \in Nat
  BY DepthAssumption
<1>1. cache[k] \in [Txids -> Entry] /\ usage[k] = SizeOf(cache[k])
  BY DEF IInv, TypeOK, UsageExact
<1>2. CASE k \in Filled(L, t)
  <2>1. v \in Coins
    BY ViewType DEF IInv, TypeOK, View
  <2>2. e \in Entry /\ e.coins = v
    BY <2>1 DEF Fetched, Entry
  <2>3. ~cache[k][t].in
    BY <1>2, SourceIsHighest DEF Filled
  <2>4. cache[k][t] = Absent
    BY <2>3 DEF IInv, ShapeInv
  <2>5. CacheFilled(L, t)[k] = [cache[k] EXCEPT ![t] = e]
    BY <1>2 DEF CacheFilled
  <2>6. UsageFilled(L, t)[k] = usage[k] + DynamicMemoryUsage(v)
    BY <1>2 DEF UsageFilled
  <2> HIDE DEF e, v
  <2>7. SizeOf([cache[k] EXCEPT ![t] = e])
          = SizeOf(cache[k]) - DynamicMemoryUsage(cache[k][t].coins) + DynamicMemoryUsage(e.coins)
    BY <1>1, <2>2, SizeOfPut
  <2>8. DynamicMemoryUsage(cache[k][t].coins) = 0 /\ SizeOf(cache[k]) \in Int
    BY <1>1, <2>4, Sizes, SizeType
  <2> QED  BY <1>1, <2>2, <2>5, <2>6, <2>7, <2>8
<1>3. CASE k \notin Filled(L, t)
  BY <1>1, <1>3 DEF CacheFilled, UsageFilled
<1> QED  BY <1>2, <1>3

\* A changed entry, with the difference of the sizes added.
LEMMA PutKeepsUsage ==
    ASSUME NEW c \in [1..N -> [Txids -> Entry]], NEW u, DOMAIN u = 1..N, Exact(c, u),
           NEW o \in 1..N, NEW t \in Txids, NEW e \in Entry
    PROVE  Exact([c EXCEPT ![o][t] = e],
                 [u EXCEPT ![o] = @ - DynamicMemoryUsage(c[o][t].coins)
                                    + DynamicMemoryUsage(e.coins)])
<1> DEFINE D == DynamicMemoryUsage(c[o][t].coins)
           E == DynamicMemoryUsage(e.coins)
           c2 == [c EXCEPT ![o][t] = e]
           u2 == [u EXCEPT ![o] = @ - D + E]
<1>1. c[o] \in [Txids -> Entry] /\ c2[o] = [c[o] EXCEPT ![t] = e]
  OBVIOUS
<1>2. \A k \in 1..N : k # o => c2[k] = c[k] /\ u2[k] = u[k]
  OBVIOUS
<1>3. u2[o] = u[o] - D + E /\ u[o] = SizeOf(c[o])
  BY DEF Exact
<1>4. SizeOf(c2[o]) = SizeOf(c[o]) - D + E
  BY <1>1, SizeOfPut, Zenon
<1> HIDE DEF c2, u2, D, E
<1>5. \A k \in 1..N : u2[k] = SizeOf(c2[k])
  BY <1>2, <1>3, <1>4 DEF Exact
<1> QED  BY <1>5, Zenon DEF Exact, c2, u2, D, E

\* Every operation accounts for the entries that it changes.
LEMMA UsageStep ==
    ASSUME BIP30, IInv, IInv', UsageExact, [Next]_vars
    PROVE  UsageExact'
<1> N \in Nat /\ open \in 1..N /\ open - 1 \in 0..N /\ open \in Nat /\ 1 \in 1..N
  BY DepthAssumption DEF IInv, TypeOK
<1> cache \in [1..N -> [Txids -> Entry]] /\ DOMAIN usage = 1..N
  BY DEF IInv, TypeOK
<1> DEFINE none == [t \in Txids |-> Absent]
<1>1. ASSUME Exact(cache', usage') PROVE UsageExact'
  BY <1>1 DEF Exact, UsageExact
<1>2. Exact(cache, usage)
  BY DEF Exact, UsageExact
<1>3. ASSUME NEW t \in Txids, FetchCoins(t) PROVE UsageExact'
  BY <1>1, <1>3, FillKeepsUsage DEF FetchCoins
<1>4. ASSUME NEW t \in Txids, Uncache(t) PROVE UsageExact'
  <2>1. Absent \in Entry
    BY DEF Absent, Entry, Coins
  <2>2. Exact([cache EXCEPT ![1][t] = Absent],
              [usage EXCEPT ![1] = @ - DynamicMemoryUsage(cache[1][t].coins)
                                     + DynamicMemoryUsage(Absent.coins)])
    BY <1>2, <2>1, PutKeepsUsage, Zenon
  <2>3. /\ DynamicMemoryUsage(Absent.coins) = 0 /\ DynamicMemoryUsage(cache[1][t].coins) \in Int
        /\ usage[1] \in Int
    BY <2>1, Sizes, SizeType DEF UsageExact
  <2>4. usage[1] - DynamicMemoryUsage(cache[1][t].coins) + DynamicMemoryUsage(Absent.coins)
          = usage[1] - DynamicMemoryUsage(cache[1][t].coins)
    BY <2>3
  <2> QED  BY <1>1, <1>4, <2>2, <2>4, Zenon DEF Uncache
<1>5. ASSUME NEW t \in Txids, NEW v \in Coins, ModifyCoins(t, v) PROVE UsageExact'
  <2> DEFINE old   == cache[open][t]
             below == View(open - 1, t)
             entry == IF old.in THEN old ELSE Fetched(below)
             new   == AfterModifier([entry EXCEPT !.coins = v, !.dirty = TRUE])
             c     == IF old.in THEN cache ELSE CacheFilled(open - 1, t)
             u     == IF old.in THEN usage ELSE UsageFilled(open - 1, t)
  <2>1. /\ cache' = [c EXCEPT ![open][t] = new]
        /\ usage' = [u EXCEPT ![open] = @ - DynamicMemoryUsage(old.coins)
                                          + DynamicMemoryUsage(new.coins)]
    BY <1>5 DEF ModifyCoins
  <2>2. new \in Entry
    <3>1. below \in Coins
      BY ViewType, Zenon DEF IInv, TypeOK, View
    <3>2. entry \in Entry
      BY <3>1 DEF Fetched, Entry
    <3> HIDE DEF entry
    <3> QED  BY <3>2, Zenon DEF AfterModifier, Absent, Entry, Coins
  <2>3. c[open] = cache[open]
    BY DEF CacheFilled, Filled
  <2>4. c \in [1..N -> [Txids -> Entry]] /\ DOMAIN u = 1..N
    BY FillType DEF IInv, UsageFilled
  <2>5. Exact(c, u)
    BY <1>2, FillKeepsUsage
  <2> HIDE DEF c, u, new
  <2> QED  BY <1>1, <2>1, <2>2, <2>3, <2>4, <2>5, PutKeepsUsage, Zenon
<1>6. ASSUME NEW t \in Txids, NEW v \in Coins, NEW coinbase \in BOOLEAN,
             ModifyNewCoins(t, coinbase, v)
      PROVE  UsageExact'
  <2> DEFINE old == cache[open][t]
             new == AfterModifier([in |-> TRUE, coins |-> v, dirty |-> TRUE,
                                   fresh |-> old.fresh \/ (~coinbase /\ ~old.dirty)])
  <2>1. View(open, t) = Pruned
    BY <1>6 DEF ModifyNewCoins
  <2>2. old \in Entry /\ old.coins = Pruned
    <3>1. View(open, t) = IF old.in THEN old.coins ELSE View(open - 1, t)
      BY ViewStep DEF View
    <3>2. ~old.in => old.coins = Pruned
      BY DEF IInv, ShapeInv, Absent
    <3> QED  BY <2>1, <3>1, <3>2
  <2>3. /\ cache' = [cache EXCEPT ![open][t] = new]
        /\ usage' = [usage EXCEPT ![open] = @ + DynamicMemoryUsage(new.coins)]
    BY <1>6, <2>2 DEF ModifyNewCoins
  <2>4. new \in Entry
    <3>1. (old.fresh \/ (~coinbase /\ ~old.dirty)) \in BOOLEAN
      BY <2>2 DEF Entry
    <3> QED  BY <3>1, Zenon DEF AfterModifier, Absent, Entry, Coins
  <2> HIDE DEF new
  <2>5. /\ DynamicMemoryUsage(old.coins) = 0 /\ DynamicMemoryUsage(new.coins) \in Int
        /\ usage[open] \in Int
    BY <2>2, <2>4, Sizes, SizeType DEF UsageExact
  <2>6. usage[open] - DynamicMemoryUsage(old.coins) + DynamicMemoryUsage(new.coins)
          = usage[open] + DynamicMemoryUsage(new.coins)
    BY <2>5
  <2>7. Exact([cache EXCEPT ![open][t] = new],
              [usage EXCEPT ![open] = @ - DynamicMemoryUsage(old.coins)
                                        + DynamicMemoryUsage(new.coins)])
    BY <1>2, <2>4, PutKeepsUsage, Zenon
  <2> QED  BY <1>1, <2>3, <2>6, <2>7, Zenon
<1>7. CASE FlushToCache
  <2> DEFINE p == open - 1
  <2>1. p \in 1..N /\ p # open
    BY <1>7 DEF FlushToCache
  <2>2. ~logicError'
    BY DEF IInv, NoLogicError
  <2>3. /\ cache' = [cache EXCEPT ![p] = BatchWritten, ![open] = none]
        /\ usage' = [usage EXCEPT ![p] = @ + BatchUsage, ![open] = 0]
    BY <1>7, <2>2 DEF FlushToCache
  <2>4. cache'[p] = BatchWritten
    BY <2>1, <2>3
  <2>5. BatchWritten \in [Txids -> Entry]
    BY <2>1, <2>4 DEF IInv, TypeOK
  <2>6. SizeOf(BatchWritten) = SizeOf(cache[p]) + BatchUsage
    BY <2>1, <2>5, SizeOfBatch DEF BatchUsage
  <2>7. SizeOf(none) = 0
    BY SizeOfNothing
  <2> HIDE DEF none, p
  <2>8. /\ usage'[p] = usage[p] + BatchUsage
        /\ cache'[open] = none /\ usage'[open] = 0
        /\ \A k \in 1..N : k # p /\ k # open => cache'[k] = cache[k] /\ usage'[k] = usage[k]
    BY <2>1, <2>3, Zenon
  <2>9. \A k \in 1..N : usage'[k] = SizeOf(cache'[k])
    BY <2>1, <2>4, <2>6, <2>7, <2>8 DEF UsageExact
  <2> QED  BY <2>9 DEF UsageExact
<1>8. ASSUME NEW l \in 1..N, cache' = [cache EXCEPT ![l] = none], usage' = [usage EXCEPT ![l] = 0]
      PROVE  UsageExact'
  <2>1. SizeOf(none) = 0
    BY SizeOfNothing
  <2> HIDE DEF none
  <2>2. \A k \in 1..N : usage'[k] = SizeOf(cache'[k])
    BY <1>8, <2>1 DEF UsageExact
  <2> QED  BY <2>2 DEF UsageExact
<1>9. CASE FlushToDisk \/ Pop
  BY <1>8, <1>9 DEF FlushToDisk, Pop
<1>10. CASE Crash
  BY <1>10, SizeOfNothing DEF Crash, UsageExact
<1>11. CASE UNCHANGED <<cache, usage>>
  BY <1>11 DEF UsageExact
<1>12. ASSUME GetBestBlock \/ (\E h \in Hashes : SetBestBlock(h)) \/ Push \/ UNCHANGED vars
       PROVE  UNCHANGED <<cache, usage>>
  BY <1>12 DEF GetBestBlock, SetBestBlock, Push, vars
<1> QED
  BY <1>3, <1>4, <1>5, <1>6, <1>7, <1>9, <1>10, <1>11, <1>12 DEF Next

\* With BIP30 enforced, cachedCoinsUsage of every cache is exactly the memory of the
\* coins that it holds, after any sequence of fetches, changes, flushes and drops.
THEOREM UsageIsExact == ASSUME BIP30 PROVE Spec => []UsageExact
<1>1. Init => UsageExact
  BY SizeOfNothing DEF Init, UsageExact
<1>2. IInv /\ IInv' /\ UsageExact /\ [Next]_vars => UsageExact'
  BY UsageStep
<1> QED  BY <1>1, <1>2, Invariance, PTL DEF Spec
==============================================================================
