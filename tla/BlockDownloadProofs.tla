------------------------- MODULE BlockDownloadProofs -------------------------
(***************************************************************************)
(* For any set of peers, any tree of blocks and any limits, the map of the *)
(* blocks in flight, the lists of the nodes and all counters agree, no     *)
(* peer is asked for more blocks than the limit, and a peer that stalls    *)
(* the window owes a block.                                                *)
(***************************************************************************)
EXTENDS BlockDownload, FiniteSetTheorems, WellFoundedInduction, TLAPS

\* Most leaves are first-order; the ones with arithmetic cite SMT.
USE Zenon

-----------------------------------------------------------------------------
(* The records of one bookkeeping f agree                                  *)

Flights ==
    [nStallingSince : [Peers -> BOOLEAN],
     vBlocksInFlight : [Peers -> SUBSET Blocks],
     nBlocksInFlight : [Peers -> Int],
     nBlocksInFlightValidHeaders : [Peers -> Int],
     partialBlock : [Peers -> SUBSET Blocks],
     mapBlocksInFlight : [Blocks -> Peers \cup {NoPeer}],
     nPeersWithValidatedDownloads : Int]

PeerOK(f, p) ==
    /\ f.vBlocksInFlight[p] = {b \in Blocks : f.mapBlocksInFlight[b] = p}
    /\ f.nBlocksInFlight[p] = Cardinality(f.vBlocksInFlight[p])
    /\ f.nBlocksInFlightValidHeaders[p] = f.nBlocksInFlight[p]
    /\ f.partialBlock[p] \subseteq f.vBlocksInFlight[p]
    /\ f.nBlocksInFlight[p] <= MaxInTransit
    /\ f.nStallingSince[p] => f.vBlocksInFlight[p] # {}

\* The peers that blocks with a validated header are requested from
Sources(f) == {p \in Peers : f.nBlocksInFlightValidHeaders[p] > 0}

FlightOK(f) ==
    /\ f \in Flights
    /\ \A p \in Peers : PeerOK(f, p)
    /\ f.nPeersWithValidatedDownloads = Cardinality(Sources(f))

\* Sets of blocks and of peers are finite, and their sizes are numbers.
LEMMA Finite ==
    /\ \A S \in SUBSET Blocks : IsFiniteSet(S) /\ Cardinality(S) \in Nat
    /\ \A S \in SUBSET Peers : IsFiniteSet(S) /\ Cardinality(S) \in Nat
  BY DownloadAssumption, FS_Subset, FS_CardinalityType

\* The number of the peers with a property changes with the one peer for which it does.
LEMMA CountOne ==
    ASSUME NEW S \in SUBSET Peers, NEW T \in SUBSET Peers, NEW p \in Peers,
           \A q \in Peers \ {p} : q \in S <=> q \in T
    PROVE  Cardinality(T) = Cardinality(S) + (IF p \in T /\ p \notin S THEN 1 ELSE 0)
                                           - (IF p \in S /\ p \notin T THEN 1 ELSE 0)
<1>1. IsFiniteSet(S) /\ Cardinality(S) \in Nat
  BY Finite
<1>2. CASE p \in T /\ p \notin S
  <2>1. T = S \cup {p}
    BY <1>2
  <2>2. Cardinality(S \cup {p}) = Cardinality(S) + 1
    BY <1>1, <1>2, FS_AddElement
  <2> QED
    BY SMT, <1>1, <1>2, <2>1, <2>2
<1>3. CASE p \in S /\ p \notin T
  <2>1. T = S \ {p}
    BY <1>3
  <2>2. Cardinality(S \ {p}) = Cardinality(S) - 1
    BY <1>1, <1>3, FS_RemoveElement
  <2> QED
    BY SMT, <1>1, <1>3, <2>1, <2>2
<1>4. CASE p \in S <=> p \in T
  <2>1. T = S
    BY SMT, <1>4
  <2> QED
    BY SMT, <1>1, <1>4, <2>1
<1> QED
  BY <1>2, <1>3, <1>4

\* What is in flight from p, and how many blocks that are.
LEMMA InFlightFrom ==
    ASSUME NEW f, FlightOK(f), NEW p \in Peers
    PROVE  /\ f.vBlocksInFlight[p] \in SUBSET Blocks
           /\ f.nBlocksInFlight[p] \in Nat
           /\ f.nBlocksInFlightValidHeaders[p] = f.nBlocksInFlight[p]
           /\ f.nBlocksInFlight[p] = 0 <=> f.vBlocksInFlight[p] = {}
<1>1. f.vBlocksInFlight[p] \in SUBSET Blocks
  BY DEF FlightOK, Flights
<1>2. PeerOK(f, p)
  BY DEF FlightOK
<1>3. Cardinality(f.vBlocksInFlight[p]) = 0 <=> f.vBlocksInFlight[p] = {}
  BY <1>1, Finite, FS_EmptySet
<1> QED
  BY <1>1, <1>2, <1>3, Finite DEF PeerOK

\* Every non-empty set of natural numbers has a least member.
LEMMA LeastNumber ==
    ASSUME NEW S \in SUBSET Nat, S # {}
    PROVE  \E n \in S : \A m \in S : n <= m
<1> DEFINE R == {ss \in Nat \X Nat : ss[1] < ss[2]}
<1>1. IsWellFoundedOn(R, Nat)
  BY NatLessThanWellFounded DEF OpToRel
<1>2. \A m, n \in Nat : m < n => <<m, n>> \in R
  OBVIOUS
<1> HIDE DEF R
<1>3. PICK n \in S : \A m \in S : <<m, n>> \notin R
  BY <1>1, WFMin
<1>4. \A m \in S : m \in Nat /\ n \in Nat /\ ~(m < n)
  BY <1>2, <1>3
<1>5. \A m \in S : n <= m
  BY SMT, <1>4
<1> QED
  BY <1>5

-----------------------------------------------------------------------------
(* The tree of blocks                                                      *)

Tree == Blocks \cup {0}

UpTo(n) == {b \in Tree : b <= n}

\* h and c are the heights and the chains of the blocks of D, as Height and Chain define
\* them.
Defined(D, h, c) ==
    /\ h \in [D -> Nat]
    /\ c \in [D -> SUBSET Tree]
    /\ \A b \in D : /\ h[b] = IF b = 0 THEN 0 ELSE h[Parent[b]] + 1
                    /\ c[b] = IF b = 0 THEN {0} ELSE c[Parent[b]] \cup {b}

\* A parent has a lower number than its block.
LEMMA TreeFacts ==
    /\ \A b \in Tree : b \in Nat
    /\ \A b \in Tree \ {0} : b \in Blocks /\ Parent[b] \in Tree /\ Parent[b] < b
    /\ IsFiniteSet(Tree)
  BY SMT, DownloadAssumption, FS_AddElement DEF Tree

\* There is a block with the greatest number.
LEMMA LastBlock == \E n \in Nat : UpTo(n) = Tree
<1> DEFINE Rest(n) == Tree \ UpTo(n)
           N == {Cardinality(Rest(n)) : n \in Nat}
<1>1. \A n \in Nat : IsFiniteSet(Rest(n)) /\ Cardinality(Rest(n)) \in Nat
  BY TreeFacts, FS_Subset, FS_CardinalityType
<1>2. PICK m \in N : \A k \in N : m <= k
  <2>1. N \in SUBSET Nat /\ N # {}
    BY <1>1
  <2> QED
    BY <2>1, LeastNumber
<1>3. PICK n \in Nat : m = Cardinality(Rest(n))
  BY <1>2
<1>4. ASSUME NEW b \in Rest(n) PROVE FALSE
  <2>1. b \in Nat /\ b \in Tree /\ n < b
    <3>1. b \in Tree /\ b \notin UpTo(n)
      OBVIOUS
    <3> QED
      BY SMT, <3>1, TreeFacts DEF UpTo
  <2>2. Rest(b) \subseteq Rest(n) /\ b \notin Rest(b)
    <3>1. b \in UpTo(b)
      BY SMT, <2>1 DEF UpTo
    <3>2. UpTo(n) \subseteq UpTo(b)
      <4> HIDE DEF N, Rest
      <4> SUFFICES ASSUME NEW x \in UpTo(n) PROVE x \in UpTo(b)
        OBVIOUS
      <4>1. x \in Tree /\ x <= n /\ x \in Nat
        BY TreeFacts DEF UpTo
      <4> QED
        BY SMT, <2>1, <4>1 DEF UpTo
    <3> QED
      BY <3>1, <3>2
  <2>3. Cardinality(Rest(n)) <= Cardinality(Rest(b))
    BY <1>2, <1>3, <2>1
  <2> HIDE DEF Rest
  <2>4. Cardinality(Rest(b)) <= Cardinality(Rest(n)) /\ Cardinality(Rest(b)) # Cardinality(Rest(n))
    BY <1>1, <2>2, FS_Subset
  <2> QED
    BY SMT, <1>1, <2>1, <2>3, <2>4
<1> QED
  BY <1>3, <1>4 DEF UpTo

\* The recursions that define Height and Chain end: the blocks up to any number have
\* heights and chains.
LEMMA Recursion ==
    ASSUME NEW n \in Nat
    PROVE  \E h, c : Defined(UpTo(n), h, c)
<1> DEFINE Wrong == {m \in Nat : ~\E h, c : Defined(UpTo(m), h, c)}
<1> SUFFICES ASSUME Wrong # {} PROVE FALSE
  OBVIOUS
<1>1. PICK m \in Wrong : \A k \in Wrong : m <= k
  BY LeastNumber
<1>2. CASE m = 0
  <2>1. UpTo(0) = {0} /\ 0 \in Tree
    BY SMT, TreeFacts DEF UpTo, Tree
  <2>2. Defined(UpTo(0), [b \in UpTo(0) |-> 0], [b \in UpTo(0) |-> {0}])
    BY <2>1 DEF Defined
  <2> QED
    BY <1>1, <1>2, <2>2
<1>3. CASE m # 0
  <2>1. m - 1 \in Nat /\ m - 1 \notin Wrong
    BY SMT, <1>1, <1>3
  <2>2. PICK g, d : Defined(UpTo(m - 1), g, d)
    BY <2>1
  <2> DEFINE h == [b \in UpTo(m) |-> IF b = 0 THEN 0 ELSE g[Parent[b]] + 1]
             c == [b \in UpTo(m) |-> IF b = 0 THEN {0} ELSE d[Parent[b]] \cup {b}]
  <2>3. /\ \A b \in UpTo(m) \ {0} : Parent[b] \in UpTo(m - 1)
        /\ UpTo(m - 1) \subseteq UpTo(m) /\ UpTo(m) \subseteq Tree
    BY SMT, <1>1, TreeFacts DEF UpTo
  <2>4. \A b \in UpTo(m - 1) : h[b] = g[b] /\ c[b] = d[b]
    BY <2>2, <2>3 DEF Defined
  <2>5. h \in [UpTo(m) -> Nat]
    BY SMT, <2>2, <2>3 DEF Defined
  <2>6. c \in [UpTo(m) -> SUBSET Tree]
    BY <2>2, <2>3 DEF Defined, Tree
  <2>7. Defined(UpTo(m), h, c)
    BY <2>3, <2>4, <2>5, <2>6 DEF Defined
  <2> QED
    BY <1>1, <2>7
<1> QED
  BY <1>2, <1>3

\* Height and Chain are what their recursive definitions say.
LEMMA HeightChain == Defined(Tree, Height, Chain)
<1>1. PICK h, c : Defined(Tree, h, c)
  BY LastBlock, Recursion
<1>2. h = [b \in Blocks \cup {0} |-> IF b = 0 THEN 0 ELSE h[Parent[b]] + 1]
  BY <1>1 DEF Defined, Tree
<1>3. Height = [b \in Blocks \cup {0} |-> IF b = 0 THEN 0 ELSE Height[Parent[b]] + 1]
  BY <1>2 DEF Height
<1>4. c = [b \in Blocks \cup {0} |-> IF b = 0 THEN {0} ELSE c[Parent[b]] \cup {b}]
  BY <1>1 DEF Defined, Tree
<1>5. Chain = [b \in Blocks \cup {0} |-> IF b = 0 THEN {0} ELSE Chain[Parent[b]] \cup {b}]
  BY <1>4 DEF Chain
<1> DEFINE Wrong == {b \in Tree : ~(Height[b] \in Nat /\ Chain[b] \in SUBSET Tree)}
<1>6. ASSUME Wrong # {} PROVE FALSE
  <2>1. Wrong \in SUBSET Nat
    BY TreeFacts
  <2>2. PICK b \in Wrong : \A x \in Wrong : b <= x
    BY <1>6, <2>1, LeastNumber
  <2>3. CASE b = 0
    BY SMT, <1>3, <1>5, <2>2, <2>3 DEF Tree
  <2>4. CASE b # 0
    <3>1. b \in Nat /\ Parent[b] \in Nat /\ Parent[b] \in Tree /\ Parent[b] < b
      BY <2>2, <2>4, TreeFacts
    <3>2. Height[Parent[b]] \in Nat /\ Chain[Parent[b]] \in SUBSET Tree
      BY SMT, <2>2, <3>1
    <3>3. Height[b] = Height[Parent[b]] + 1 /\ Chain[b] = Chain[Parent[b]] \cup {b}
      BY <1>3, <1>5, <2>2, <2>4 DEF Tree
    <3> QED
      BY SMT, <2>2, <3>2, <3>3
  <2> QED
    BY <2>3, <2>4
<1>7. \A b \in Tree : Height[b] \in Nat /\ Chain[b] \in SUBSET Tree
  BY <1>6
<1> QED
  BY <1>3, <1>5, <1>7 DEF Defined, Tree

\* On one branch every height belongs to one block.
LEMMA OneBranch ==
    ASSUME NEW top \in Tree
    PROVE  /\ \A c \in Chain[top] : Height[c] \in Nat
           /\ \A c, d \in Chain[top] : Height[c] = Height[d] => c = d
<1> DEFINE OK(b) == /\ \A c \in Chain[b] : Height[c] <= Height[b]
                    /\ \A c, d \in Chain[b] : Height[c] = Height[d] => c = d
           Wrong == {b \in Tree : ~OK(b)}
<1>1. \A b \in Tree : \A c \in Chain[b] : Height[b] \in Nat /\ c \in Tree /\ Height[c] \in Nat
  BY HeightChain DEF Defined
<1>2. ASSUME Wrong # {} PROVE FALSE
  <2>1. Wrong \in SUBSET Nat
    BY TreeFacts
  <2>2. PICK b \in Wrong : \A x \in Wrong : b <= x
    BY <1>2, <2>1, LeastNumber
  <2>3. CASE b = 0
    BY SMT, <1>1, <2>2, <2>3, HeightChain DEF Defined
  <2>4. CASE b # 0
    <3>1. b \in Nat /\ Parent[b] \in Nat /\ Parent[b] \in Tree /\ Parent[b] < b
      BY <2>2, <2>4, TreeFacts
    <3>2. OK(Parent[b])
      BY SMT, <2>2, <3>1
    <3>3. Height[b] = Height[Parent[b]] + 1 /\ Chain[b] = Chain[Parent[b]] \cup {b}
      BY <2>2, <2>4, HeightChain DEF Defined
    <3>4. \A c \in Chain[Parent[b]] : Height[c] < Height[b]
      BY SMT, <1>1, <3>1, <3>2, <3>3
    <3>5. \A c \in Chain[b] : Height[c] <= Height[b]
      BY SMT, <1>1, <2>2, <3>3, <3>4
    <3>6. \A c, d \in Chain[b] : Height[c] = Height[d] => c = d
      BY SMT, <1>1, <2>2, <3>1, <3>2, <3>3, <3>4
    <3> QED
      BY <2>2, <3>5, <3>6
  <2> QED
    BY <2>3, <2>4
<1> QED
  BY <1>1, <1>2

\* Every non-empty set of blocks of one branch has a lowest block.
LEMMA LowestBlock ==
    ASSUME NEW top \in Tree, NEW S \in SUBSET (Blocks \cap Chain[top]), S # {}
    PROVE  \E b \in S : \A c \in S : Height[b] <= Height[c]
<1>1. {Height[b] : b \in S} \in SUBSET Nat /\ {Height[b] : b \in S} # {}
  BY SMT, OneBranch
<1>2. PICK n \in {Height[b] : b \in S} : \A m \in {Height[b] : b \in S} : n <= m
  BY <1>1, LeastNumber
<1> QED
  BY <1>2

\* Of the blocks of one branch, no more than k have fewer than k blocks below them.
LEMMA FirstFew ==
    ASSUME NEW top \in Tree, NEW S \in SUBSET (Blocks \cap Chain[top]), NEW k \in Nat
    PROVE  Cardinality({c \in S : Cardinality({d \in S : Height[d] < Height[c]}) < k}) <= k
<1> DEFINE Below(c) == {d \in S : Height[d] < Height[c]}
           T == {c \in S : Cardinality(Below(c)) < k}
<1>1. /\ \A c \in S : Height[c] \in Nat /\ Cardinality(Below(c)) \in Nat /\ IsFiniteSet(Below(c))
      /\ \A c, d \in S : Height[c] = Height[d] => c = d
      /\ IsFiniteSet(T) /\ Cardinality(T) \in Nat
  <2>1. /\ \A c \in S : Height[c] \in Nat
        /\ \A c, d \in S : Height[c] = Height[d] => c = d
    BY OneBranch
  <2>2. T \in SUBSET Blocks /\ \A c \in S : Below(c) \in SUBSET Blocks
    OBVIOUS
  <2> HIDE DEF T, Below
  <2> QED
    BY <2>1, <2>2, Finite
<1>2. CASE T = {}
  <2>1. Cardinality(T) = 0
    BY <1>2, FS_EmptySet
  <2> HIDE DEF T
  <2>2. Cardinality(T) <= k
    BY SMT, <2>1
  <2> QED
    BY <2>2 DEF T
<1>3. CASE T # {}
  <2> DEFINE N == {k - Cardinality(Below(c)) : c \in T}
  <2>1. N \in SUBSET Nat /\ N # {}
    <3>1. \A c \in T : Cardinality(Below(c)) \in Nat /\ Cardinality(Below(c)) < k
      BY <1>1
    <3> HIDE DEF T, Below
    <3> QED
      BY SMT, <1>3, <3>1
  <2>2. PICK n \in N : \A m \in N : n <= m
    BY <2>1, LeastNumber
  <2>3. PICK c \in T : n = k - Cardinality(Below(c))
    BY <2>2
  <2>4. \A d \in T : Cardinality(Below(d)) <= Cardinality(Below(c))
    <3> SUFFICES ASSUME NEW d \in T PROVE Cardinality(Below(d)) <= Cardinality(Below(c))
      OBVIOUS
    <3>1. k - Cardinality(Below(d)) \in N /\ c \in S /\ d \in S
      OBVIOUS
    <3>2. Cardinality(Below(c)) \in Nat /\ Cardinality(Below(d)) \in Nat
      BY <1>1, <3>1
    <3>3. n <= k - Cardinality(Below(d))
      BY <2>2, <3>1
    <3> HIDE DEF Below
    <3> QED
      BY SMT, <2>3, <3>2, <3>3
  <2>5. ASSUME NEW d \in T \ {c}, d \notin Below(c) PROVE FALSE
    <3>0. c \in S /\ d \in S /\ ~(Height[d] < Height[c]) /\ d # c
      BY <2>5
    <3> HIDE DEF T, N
    <3>1. Height[c] \in Nat /\ Height[d] \in Nat /\ Height[c] # Height[d]
      BY <1>1, <3>0
    <3>2. Below(c) \subseteq Below(d) /\ c \in Below(d) /\ c \notin Below(c)
      <4>1. \A x \in S : Height[x] \in Nat
        BY <1>1
      <4>2. \A x \in S : Height[x] < Height[c] => Height[x] < Height[d]
        BY SMT, <3>0, <3>1, <4>1
      <4> QED
        BY SMT, <3>0, <3>1, <4>2
    <3>3. IsFiniteSet(Below(d)) /\ Cardinality(Below(d)) \in Nat /\ Cardinality(Below(c)) \in Nat
      BY <1>1, <3>0
    <3>4. Cardinality(Below(d)) <= Cardinality(Below(c))
      BY <2>4
    <3> HIDE DEF Below
    <3>5. Cardinality(Below(c)) <= Cardinality(Below(d)) /\ Cardinality(Below(c)) # Cardinality(Below(d))
      BY <3>2, <3>3, FS_Subset
    <3> QED
      BY SMT, <3>3, <3>4, <3>5
  <2>6. T \ {c} \subseteq Below(c) /\ IsFiniteSet(Below(c)) /\ Cardinality(Below(c)) < k
    BY <1>1, <2>5
  <2>7. c \in T /\ Cardinality(Below(c)) \in Nat
    BY <1>1
  <2> HIDE DEF T, Below
  <2>8. Cardinality(T \ {c}) <= Cardinality(Below(c))
    BY <2>6, FS_Subset
  <2>9. Cardinality(T \ {c}) = Cardinality(T) - 1
    BY <1>1, <2>7, FS_RemoveElement
  <2>10. Cardinality(T) <= k
    BY SMT, <1>1, <2>6, <2>7, <2>8, <2>9
  <2> QED
    BY <2>10 DEF T, Below
<1> QED
  BY <1>2, <1>3
-----------------------------------------------------------------------------
(* The operations on the bookkeeping                                       *)

\* MarkBlockAsReceived keeps the records in agreement and takes blocks away only.
LEMMA Received ==
    ASSUME NEW f, FlightOK(f), NEW b \in Blocks
    PROVE  /\ FlightOK(MarkBlockAsReceived(f, b))
           /\ \A q \in Peers : MarkBlockAsReceived(f, b).vBlocksInFlight[q]
                                   \subseteq f.vBlocksInFlight[q]
<1>1. CASE f.mapBlocksInFlight[b] = NoPeer
  BY <1>1 DEF MarkBlockAsReceived
<1>2. CASE f.mapBlocksInFlight[b] # NoPeer
  <2> DEFINE p == f.mapBlocksInFlight[b]
             left == f.nBlocksInFlightValidHeaders[p] - 1
             g == MarkBlockAsReceived(f, b)
  <2>1. f \in Flights /\ p \in Peers
    BY <1>2 DEF FlightOK, Flights
  <2>2. /\ g \in Flights
        /\ g.vBlocksInFlight = [f.vBlocksInFlight EXCEPT ![p] = @ \ {b}]
        /\ g.partialBlock = [f.partialBlock EXCEPT ![p] = @ \ {b}]
        /\ g.nBlocksInFlight = [f.nBlocksInFlight EXCEPT ![p] = @ - 1]
        /\ g.nBlocksInFlightValidHeaders = [f.nBlocksInFlightValidHeaders EXCEPT ![p] = left]
        /\ g.mapBlocksInFlight = [f.mapBlocksInFlight EXCEPT ![b] = NoPeer]
        /\ g.nStallingSince = [f.nStallingSince EXCEPT ![p] = FALSE]
        /\ g.nPeersWithValidatedDownloads
             = IF left = 0 THEN f.nPeersWithValidatedDownloads - 1
                           ELSE f.nPeersWithValidatedDownloads
    <3>1. g = [f EXCEPT !.nBlocksInFlightValidHeaders[p] = left,
                        !.nPeersWithValidatedDownloads = IF left = 0 THEN @ - 1 ELSE @,
                        !.vBlocksInFlight[p] = @ \ {b},
                        !.partialBlock[p] = @ \ {b},
                        !.nBlocksInFlight[p] = @ - 1,
                        !.nStallingSince[p] = FALSE,
                        !.mapBlocksInFlight[b] = NoPeer]
      BY <1>2 DEF MarkBlockAsReceived
    <3> HIDE DEF g, left
    <3>2. left \in Int
      BY SMT, <2>1 DEF left, Flights
    <3>3. g.vBlocksInFlight = [f.vBlocksInFlight EXCEPT ![p] = @ \ {b}]
      BY <2>1, <3>1 DEF Flights
    <3>4. g.partialBlock = [f.partialBlock EXCEPT ![p] = @ \ {b}]
      BY <2>1, <3>1 DEF Flights
    <3>5. g.nBlocksInFlight = [f.nBlocksInFlight EXCEPT ![p] = @ - 1]
      BY <2>1, <3>1 DEF Flights
    <3>6. g.nBlocksInFlightValidHeaders = [f.nBlocksInFlightValidHeaders EXCEPT ![p] = left]
      BY <2>1, <3>1 DEF Flights
    <3>7. g.mapBlocksInFlight = [f.mapBlocksInFlight EXCEPT ![b] = NoPeer]
      BY <2>1, <3>1 DEF Flights
    <3>8. g.nPeersWithValidatedDownloads
             = IF left = 0 THEN f.nPeersWithValidatedDownloads - 1
                           ELSE f.nPeersWithValidatedDownloads
      BY <2>1, <3>1 DEF Flights
    <3>9. g.nStallingSince = [f.nStallingSince EXCEPT ![p] = FALSE]
      BY <2>1, <3>1 DEF Flights
    <3>10. g \in Flights
      <4>1. g.nStallingSince \in [Peers -> BOOLEAN] /\ g.vBlocksInFlight \in [Peers -> SUBSET Blocks]
        BY SMT, <2>1, <3>3, <3>9 DEF Flights
      <4>2. /\ g.nBlocksInFlight \in [Peers -> Int]
            /\ g.nBlocksInFlightValidHeaders \in [Peers -> Int]
        BY SMT, <2>1, <3>2, <3>5, <3>6 DEF Flights
      <4>3. /\ g.partialBlock \in [Peers -> SUBSET Blocks]
            /\ g.mapBlocksInFlight \in [Blocks -> Peers \cup {NoPeer}]
            /\ g.nPeersWithValidatedDownloads \in Int
        BY SMT, <2>1, <3>4, <3>7, <3>8 DEF Flights
      <4>4. g = [nStallingSince |-> g.nStallingSince, vBlocksInFlight |-> g.vBlocksInFlight,
                 nBlocksInFlight |-> g.nBlocksInFlight,
                 nBlocksInFlightValidHeaders |-> g.nBlocksInFlightValidHeaders,
                 partialBlock |-> g.partialBlock, mapBlocksInFlight |-> g.mapBlocksInFlight,
                 nPeersWithValidatedDownloads |-> g.nPeersWithValidatedDownloads]
        BY <2>1, <3>1 DEF Flights
      <4> QED
        BY <4>1, <4>2, <4>3, <4>4 DEF Flights
    <3> QED
      BY <3>3, <3>4, <3>5, <3>6, <3>7, <3>8, <3>9, <3>10
  <2>3. PeerOK(f, p)
    BY <2>1 DEF FlightOK
  <2>4. b \in f.vBlocksInFlight[p]
    BY <2>3 DEF PeerOK
  <2>5. Cardinality(f.vBlocksInFlight[p] \ {b}) = Cardinality(f.vBlocksInFlight[p]) - 1
    <3>1. IsFiniteSet(f.vBlocksInFlight[p])
      BY <2>1, Finite, InFlightFrom
    <3> QED
      BY <2>4, <3>1, FS_RemoveElement
  <2>6. left \in Nat /\ f.nBlocksInFlightValidHeaders[p] = left + 1
    <3>1. f.nBlocksInFlight[p] \in Nat /\ f.nBlocksInFlight[p] # 0
      BY <2>1, <2>4, InFlightFrom
    <3> QED
      BY SMT, <2>1, <3>1, InFlightFrom
  <2> HIDE DEF g, left
  <2>7. ASSUME NEW q \in Peers PROVE PeerOK(g, q)
    <3>1. PeerOK(f, q)
      BY DEF FlightOK
    <3>2. CASE q = p
      <4>1. g.vBlocksInFlight[p] = f.vBlocksInFlight[p] \ {b}
        BY <2>1, <2>2 DEF Flights
      <4>2. g.vBlocksInFlight[p] = {c \in Blocks : g.mapBlocksInFlight[c] = p}
        BY <1>2, <2>1, <2>2, <2>3, <4>1 DEF PeerOK, Flights
      <4>3. g.nBlocksInFlight[p] = Cardinality(g.vBlocksInFlight[p])
        BY SMT, <2>1, <2>2, <2>3, <2>5, <4>1 DEF PeerOK, Flights
      <4>4. g.nBlocksInFlightValidHeaders[p] = g.nBlocksInFlight[p]
        BY SMT, <2>1, <2>2, <2>3, <2>6 DEF PeerOK, Flights
      <4>5. g.partialBlock[p] \subseteq g.vBlocksInFlight[p]
        BY SMT, <2>1, <2>2, <2>3, <4>1 DEF PeerOK, Flights
      <4>6. g.nBlocksInFlight[p] <= MaxInTransit
        BY SMT, <2>1, <2>2, <2>3, DownloadAssumption DEF PeerOK, Flights
      <4>7. ~g.nStallingSince[p]
        BY SMT, <2>1, <2>2 DEF Flights
      <4> QED
        BY <3>2, <4>2, <4>3, <4>4, <4>5, <4>6, <4>7 DEF PeerOK
    <3>3. CASE q # p
      <4>1. g.vBlocksInFlight[q] = {c \in Blocks : g.mapBlocksInFlight[c] = q}
        BY SMT, <2>1, <2>2, <3>1, <3>3, DownloadAssumption DEF PeerOK, Flights
      <4>2. /\ g.vBlocksInFlight[q] = f.vBlocksInFlight[q]
            /\ g.partialBlock[q] = f.partialBlock[q]
            /\ g.nBlocksInFlight[q] = f.nBlocksInFlight[q]
            /\ g.nBlocksInFlightValidHeaders[q] = f.nBlocksInFlightValidHeaders[q]
            /\ g.nStallingSince[q] = f.nStallingSince[q]
        BY SMT, <2>1, <2>2, <3>3 DEF Flights
      <4> QED
        BY <3>1, <4>1, <4>2 DEF PeerOK
    <3> QED
      BY <3>2, <3>3
  <2>8. g.nPeersWithValidatedDownloads = Cardinality(Sources(g))
    <3>1. \A q \in Peers \ {p} : q \in Sources(f) <=> q \in Sources(g)
      BY <2>1, <2>2 DEF Sources, Flights
    <3>2. p \in Sources(f) /\ (p \in Sources(g) <=> left # 0)
      BY SMT, <2>1, <2>2, <2>6 DEF Sources, Flights
    <3>3. Sources(f) \in SUBSET Peers /\ Sources(g) \in SUBSET Peers
      BY DEF Sources
    <3>4. Cardinality(Sources(g)) = Cardinality(Sources(f)) - (IF left = 0 THEN 1 ELSE 0)
      <4> HIDE DEF p
      <4> QED  BY SMT, <2>1, <3>1, <3>2, <3>3, CountOne, Finite
    <3> QED
      BY SMT, <2>2, <3>3, <3>4, Finite DEF FlightOK
  <2>9. \A q \in Peers : g.vBlocksInFlight[q] \subseteq f.vBlocksInFlight[q]
    BY SMT, <2>1, <2>2 DEF Flights
  <2> QED
    BY <2>2, <2>7, <2>8, <2>9 DEF FlightOK, g
<1> QED
  BY <1>1, <1>2

\* MarkBlockAsInFlight of blocks that are not in flight, no more than fit, keeps the
\* records in agreement; only p has more to deliver, and it has these blocks.
LEMMA Requested ==
    ASSUME NEW f, FlightOK(f), NEW p \in Peers, NEW S \in SUBSET Blocks,
           \A b \in S : f.mapBlocksInFlight[b] = NoPeer,
           f.nBlocksInFlight[p] + Cardinality(S) <= MaxInTransit
    PROVE  /\ FlightOK(MarkBlocksAsInFlight(f, p, S))
           /\ \A q \in Peers \ {p} : MarkBlocksAsInFlight(f, p, S).vBlocksInFlight[q]
                                         = f.vBlocksInFlight[q]
           /\ S \subseteq MarkBlocksAsInFlight(f, p, S).vBlocksInFlight[p]
<1> DEFINE n == Cardinality(S)
           old == f.nBlocksInFlightValidHeaders[p]
           g == MarkBlocksAsInFlight(f, p, S)
<1>1. f \in Flights /\ n \in Nat /\ old \in Nat /\ (n = 0 <=> S = {})
  BY Finite, InFlightFrom, FS_EmptySet DEF FlightOK
<1>2. g = [f EXCEPT !.vBlocksInFlight[p] = @ \cup S,
                    !.nBlocksInFlight[p] = @ + n,
                    !.nBlocksInFlightValidHeaders[p] = @ + n,
                    !.nPeersWithValidatedDownloads =
                        IF S # {} /\ old = 0 THEN @ + 1 ELSE @,
                    !.mapBlocksInFlight = [b \in Blocks |-> IF b \in S THEN p ELSE @[b]]]
  BY DEF MarkBlocksAsInFlight
<1> HIDE DEF g, n
<1>3. g.vBlocksInFlight = [f.vBlocksInFlight EXCEPT ![p] = @ \cup S]
  BY <1>1, <1>2 DEF Flights
<1>4. g.nBlocksInFlight = [f.nBlocksInFlight EXCEPT ![p] = @ + n]
  BY <1>1, <1>2 DEF Flights
<1>5. g.nBlocksInFlightValidHeaders = [f.nBlocksInFlightValidHeaders EXCEPT ![p] = old + n]
  BY <1>1, <1>2 DEF Flights
<1>6. g.nPeersWithValidatedDownloads
        = IF S # {} /\ old = 0 THEN f.nPeersWithValidatedDownloads + 1
                               ELSE f.nPeersWithValidatedDownloads
  BY <1>1, <1>2 DEF Flights
<1>7. g.mapBlocksInFlight = [b \in Blocks |-> IF b \in S THEN p ELSE f.mapBlocksInFlight[b]]
  BY <1>1, <1>2 DEF Flights
<1>8. g.partialBlock = f.partialBlock /\ g.nStallingSince = f.nStallingSince
  BY <1>1, <1>2 DEF Flights
<1>9. g \in Flights
  <2>1. /\ g.nStallingSince \in [Peers -> BOOLEAN]
        /\ g.vBlocksInFlight \in [Peers -> SUBSET Blocks]
        /\ g.partialBlock \in [Peers -> SUBSET Blocks]
    BY SMT, <1>1, <1>3, <1>8 DEF Flights
  <2>2. /\ g.nBlocksInFlight \in [Peers -> Int]
        /\ g.nBlocksInFlightValidHeaders \in [Peers -> Int]
        /\ g.nPeersWithValidatedDownloads \in Int
    BY SMT, <1>1, <1>4, <1>5, <1>6 DEF Flights
  <2>3. g.mapBlocksInFlight \in [Blocks -> Peers \cup {NoPeer}]
    BY <1>1, <1>7 DEF Flights
  <2>4. g = [nStallingSince |-> g.nStallingSince, vBlocksInFlight |-> g.vBlocksInFlight,
               nBlocksInFlight |-> g.nBlocksInFlight,
               nBlocksInFlightValidHeaders |-> g.nBlocksInFlightValidHeaders,
               partialBlock |-> g.partialBlock, mapBlocksInFlight |-> g.mapBlocksInFlight,
               nPeersWithValidatedDownloads |-> g.nPeersWithValidatedDownloads]
    BY <1>1, <1>2 DEF Flights
  <2> QED
    BY <2>1, <2>2, <2>3, <2>4 DEF Flights
<1>10. PeerOK(f, p) /\ f.vBlocksInFlight[p] \cap S = {}
  <2>1. PeerOK(f, p)
    BY DEF FlightOK
  <2>2. \A b \in f.vBlocksInFlight[p] : f.mapBlocksInFlight[b] # NoPeer
    BY <2>1, DownloadAssumption DEF PeerOK
  <2> QED
    BY <2>1, <2>2
<1>11. Cardinality(f.vBlocksInFlight[p] \cup S) = Cardinality(f.vBlocksInFlight[p]) + n
  <2>1. IsFiniteSet(f.vBlocksInFlight[p]) /\ IsFiniteSet(S)
    BY Finite, InFlightFrom
  <2>2. Cardinality(f.vBlocksInFlight[p]) \in Nat
    BY <2>1, FS_CardinalityType
  <2>3. Cardinality(f.vBlocksInFlight[p] \cap S) = 0
    BY <1>10, FS_EmptySet
  <2>4. Cardinality(f.vBlocksInFlight[p] \cup S)
          = Cardinality(f.vBlocksInFlight[p]) + n - Cardinality(f.vBlocksInFlight[p] \cap S)
    BY <2>1, FS_Union DEF n
  <2> QED
    BY SMT, <1>1, <2>2, <2>3, <2>4
<1>12. ASSUME NEW q \in Peers PROVE PeerOK(g, q)
  <2>1. PeerOK(f, q)
    BY DEF FlightOK
  <2>2. CASE q = p
    <3>1. g.vBlocksInFlight[p] = f.vBlocksInFlight[p] \cup S
      BY <1>1, <1>3 DEF Flights
    <3>2. g.vBlocksInFlight[p] = {c \in Blocks : g.mapBlocksInFlight[c] = p}
      BY <1>7, <1>10, <3>1 DEF PeerOK
    <3>3. g.nBlocksInFlight[p] = Cardinality(g.vBlocksInFlight[p])
      BY <1>1, <1>4, <1>10, <1>11, <3>1 DEF PeerOK, Flights
    <3>4. g.nBlocksInFlightValidHeaders[p] = g.nBlocksInFlight[p]
      BY SMT, <1>1, <1>4, <1>5, <1>10 DEF PeerOK, Flights
    <3>5. g.partialBlock[p] \subseteq g.vBlocksInFlight[p]
      BY <1>8, <1>10, <3>1 DEF PeerOK
    <3>6. g.nBlocksInFlight[p] <= MaxInTransit
      BY <1>1, <1>4 DEF Flights, n
    <3>7. g.nStallingSince[p] => g.vBlocksInFlight[p] # {}
      BY <1>8, <1>10, <3>1 DEF PeerOK
    <3> QED
      BY <2>2, <3>2, <3>3, <3>4, <3>5, <3>6, <3>7 DEF PeerOK
  <2>3. CASE q # p
    <3>1. g.vBlocksInFlight[q] = {c \in Blocks : g.mapBlocksInFlight[c] = q}
      <4>1. \A c \in Blocks : g.mapBlocksInFlight[c] = q <=> f.mapBlocksInFlight[c] = q
        BY <1>7, <2>3, DownloadAssumption
      <4>2. g.vBlocksInFlight[q] = f.vBlocksInFlight[q]
        BY <1>1, <1>3, <2>3 DEF Flights
      <4> QED
        BY <2>1, <4>1, <4>2 DEF PeerOK
    <3>2. /\ g.vBlocksInFlight[q] = f.vBlocksInFlight[q]
          /\ g.partialBlock[q] = f.partialBlock[q]
          /\ g.nBlocksInFlight[q] = f.nBlocksInFlight[q]
          /\ g.nBlocksInFlightValidHeaders[q] = f.nBlocksInFlightValidHeaders[q]
          /\ g.nStallingSince[q] = f.nStallingSince[q]
      BY <1>1, <1>3, <1>4, <1>5, <1>8, <2>3 DEF Flights
    <3> QED
      BY <2>1, <3>1, <3>2 DEF PeerOK
  <2> QED
    BY <2>2, <2>3
<1>13. g.nPeersWithValidatedDownloads = Cardinality(Sources(g))
  <2>1. \A q \in Peers \ {p} : q \in Sources(f) <=> q \in Sources(g)
    BY <1>1, <1>5 DEF Sources, Flights
  <2>2. g.nBlocksInFlightValidHeaders[p] = old + n
    BY <1>1, <1>5 DEF Flights
  <2>3. (p \in Sources(f) <=> old > 0) /\ (p \in Sources(g) <=> old + n > 0)
    BY <2>2 DEF Sources
  <2>4. Sources(f) \in SUBSET Peers /\ Sources(g) \in SUBSET Peers
    BY DEF Sources
  <2>5. Cardinality(Sources(f)) \in Nat
    BY <2>4, Finite
  <2> HIDE DEF old
  <2>6. Cardinality(Sources(g)) = Cardinality(Sources(f)) + (IF S # {} /\ old = 0 THEN 1 ELSE 0)
    BY SMT, <1>1, <2>1, <2>3, <2>4, <2>5, CountOne
  <2> QED
    BY SMT, <1>6, <2>5, <2>6 DEF FlightOK
<1>14. /\ \A q \in Peers \ {p} : g.vBlocksInFlight[q] = f.vBlocksInFlight[q]
       /\ S \subseteq g.vBlocksInFlight[p]
  BY SMT, <1>1, <1>3 DEF Flights
<1> QED
  BY <1>9, <1>12, <1>13, <1>14 DEF FlightOK, g

\* FinalizeNode keeps the records in agreement, and nothing is in flight from p any more.
LEMMA Forgotten ==
    ASSUME NEW f, FlightOK(f), NEW p \in Peers
    PROVE  /\ FlightOK(ForgetFlight(f, p))
           /\ ForgetFlight(f, p).vBlocksInFlight[p] = {}
           /\ \A q \in Peers \ {p} : ForgetFlight(f, p).vBlocksInFlight[q]
                                         = f.vBlocksInFlight[q]
<1> DEFINE old == f.nBlocksInFlightValidHeaders[p]
           g == ForgetFlight(f, p)
<1>1. f \in Flights /\ old \in Nat
  BY InFlightFrom DEF FlightOK
<1>2. g = [f EXCEPT !.mapBlocksInFlight =
                        [b \in Blocks |-> IF b \in f.vBlocksInFlight[p] THEN NoPeer ELSE @[b]],
                    !.nPeersWithValidatedDownloads = IF old # 0 THEN @ - 1 ELSE @,
                    !.vBlocksInFlight[p] = {},
                    !.nBlocksInFlight[p] = 0,
                    !.nBlocksInFlightValidHeaders[p] = 0,
                    !.nStallingSince[p] = FALSE,
                    !.partialBlock[p] = {}]
  BY DEF ForgetFlight
<1> HIDE DEF g
<1>3. g.vBlocksInFlight = [f.vBlocksInFlight EXCEPT ![p] = {}]
  BY <1>1, <1>2 DEF Flights
<1>4. g.nBlocksInFlight = [f.nBlocksInFlight EXCEPT ![p] = 0]
  BY <1>1, <1>2 DEF Flights
<1>5. g.nBlocksInFlightValidHeaders = [f.nBlocksInFlightValidHeaders EXCEPT ![p] = 0]
  BY <1>1, <1>2 DEF Flights
<1>6. g.nPeersWithValidatedDownloads
        = IF old # 0 THEN f.nPeersWithValidatedDownloads - 1 ELSE f.nPeersWithValidatedDownloads
  BY <1>1, <1>2 DEF Flights
<1>7. g.mapBlocksInFlight
        = [b \in Blocks |-> IF b \in f.vBlocksInFlight[p] THEN NoPeer
                                                          ELSE f.mapBlocksInFlight[b]]
  BY <1>1, <1>2 DEF Flights
<1>8. /\ g.partialBlock = [f.partialBlock EXCEPT ![p] = {}]
      /\ g.nStallingSince = [f.nStallingSince EXCEPT ![p] = FALSE]
  BY <1>1, <1>2 DEF Flights
<1>9. g \in Flights
  <2>1. /\ g.nStallingSince \in [Peers -> BOOLEAN]
        /\ g.vBlocksInFlight \in [Peers -> SUBSET Blocks]
        /\ g.partialBlock \in [Peers -> SUBSET Blocks]
    BY SMT, <1>1, <1>3, <1>8 DEF Flights
  <2>2. /\ g.nBlocksInFlight \in [Peers -> Int]
        /\ g.nBlocksInFlightValidHeaders \in [Peers -> Int]
        /\ g.nPeersWithValidatedDownloads \in Int
    BY SMT, <1>1, <1>4, <1>5, <1>6 DEF Flights
  <2>3. g.mapBlocksInFlight \in [Blocks -> Peers \cup {NoPeer}]
    BY <1>1, <1>7 DEF Flights
  <2>4. g = [nStallingSince |-> g.nStallingSince, vBlocksInFlight |-> g.vBlocksInFlight,
               nBlocksInFlight |-> g.nBlocksInFlight,
               nBlocksInFlightValidHeaders |-> g.nBlocksInFlightValidHeaders,
               partialBlock |-> g.partialBlock, mapBlocksInFlight |-> g.mapBlocksInFlight,
               nPeersWithValidatedDownloads |-> g.nPeersWithValidatedDownloads]
    BY <1>1, <1>2 DEF Flights
  <2> QED
    BY <2>1, <2>2, <2>3, <2>4 DEF Flights
<1>10. PeerOK(f, p)
  BY DEF FlightOK
<1>11. /\ g.vBlocksInFlight[p] = {}
       /\ \A q \in Peers \ {p} : g.vBlocksInFlight[q] = f.vBlocksInFlight[q]
  BY <1>1, <1>3 DEF Flights
<1>12. ASSUME NEW q \in Peers PROVE PeerOK(g, q)
  <2>1. PeerOK(f, q)
    BY DEF FlightOK
  <2>2. CASE q = p
    <3>1. g.vBlocksInFlight[p] = {c \in Blocks : g.mapBlocksInFlight[c] = p}
      BY SMT, <1>7, <1>10, <1>11, DownloadAssumption DEF PeerOK
    <3>2. /\ g.nBlocksInFlight[p] = 0 /\ g.nBlocksInFlightValidHeaders[p] = 0
          /\ g.partialBlock[p] = {} /\ ~g.nStallingSince[p]
      BY <1>1, <1>4, <1>5, <1>8 DEF Flights
    <3>3. g.nBlocksInFlight[p] <= MaxInTransit
      BY SMT, <3>2, DownloadAssumption
    <3> QED
      BY <1>11, <2>2, <3>1, <3>2, <3>3, FS_EmptySet DEF PeerOK
  <2>3. CASE q # p
    <3>1. \A c \in Blocks : g.mapBlocksInFlight[c] = q <=> f.mapBlocksInFlight[c] = q
      BY SMT, <1>7, <1>10, <2>3, DownloadAssumption DEF PeerOK
    <3>2. /\ g.vBlocksInFlight[q] = f.vBlocksInFlight[q]
          /\ g.partialBlock[q] = f.partialBlock[q]
          /\ g.nBlocksInFlight[q] = f.nBlocksInFlight[q]
          /\ g.nBlocksInFlightValidHeaders[q] = f.nBlocksInFlightValidHeaders[q]
          /\ g.nStallingSince[q] = f.nStallingSince[q]
      BY <1>1, <1>3, <1>4, <1>5, <1>8, <2>3 DEF Flights
    <3> QED
      BY <2>1, <3>1, <3>2 DEF PeerOK
  <2> QED
    BY <2>2, <2>3
<1>13. g.nPeersWithValidatedDownloads = Cardinality(Sources(g))
  <2>1. \A q \in Peers \ {p} : q \in Sources(f) <=> q \in Sources(g)
    BY <1>1, <1>5 DEF Sources, Flights
  <2>2. g.nBlocksInFlightValidHeaders[p] = 0
    BY <1>1, <1>5 DEF Flights
  <2>3. (p \in Sources(f) <=> old > 0) /\ p \notin Sources(g)
    BY SMT, <2>2 DEF Sources
  <2>4. Sources(f) \in SUBSET Peers /\ Sources(g) \in SUBSET Peers
    BY DEF Sources
  <2>5. Cardinality(Sources(f)) \in Nat
    BY <2>4, Finite
  <2> HIDE DEF old
  <2>6. Cardinality(Sources(g)) = Cardinality(Sources(f)) - (IF old # 0 THEN 1 ELSE 0)
    BY SMT, <1>1, <2>1, <2>3, <2>4, <2>5, CountOne
  <2> QED
    BY SMT, <1>6, <2>5, <2>6 DEF FlightOK
<1> QED
  BY <1>9, <1>11, <1>12, <1>13 DEF FlightOK, g

\* A partial block belongs to a block in flight.
LEMMA Partial ==
    ASSUME NEW f, FlightOK(f), NEW p \in Peers, NEW b \in f.vBlocksInFlight[p]
    PROVE  LET g == [f EXCEPT !.partialBlock[p] = @ \cup {b}]
           IN  FlightOK(g) /\ g.vBlocksInFlight = f.vBlocksInFlight
<1> DEFINE g == [f EXCEPT !.partialBlock[p] = @ \cup {b}]
<1>1. f \in Flights /\ b \in Blocks
  BY InFlightFrom DEF FlightOK
<1>2. /\ g.vBlocksInFlight = f.vBlocksInFlight
      /\ g.nBlocksInFlight = f.nBlocksInFlight
      /\ g.nBlocksInFlightValidHeaders = f.nBlocksInFlightValidHeaders
      /\ g.mapBlocksInFlight = f.mapBlocksInFlight
      /\ g.nPeersWithValidatedDownloads = f.nPeersWithValidatedDownloads
      /\ g.partialBlock = [f.partialBlock EXCEPT ![p] = @ \cup {b}]
      /\ g.nStallingSince = f.nStallingSince
      /\ g \in Flights
  BY <1>1 DEF Flights
<1> HIDE DEF g
<1>3. Sources(g) = Sources(f)
  BY <1>2 DEF Sources
<1>4. ASSUME NEW q \in Peers PROVE PeerOK(g, q)
  <2>1. PeerOK(f, q)
    BY DEF FlightOK
  <2>2. g.partialBlock[q] \subseteq g.vBlocksInFlight[q]
    BY SMT, <1>1, <1>2, <2>1 DEF PeerOK, Flights
  <2> QED
    BY <1>2, <2>1, <2>2 DEF PeerOK
<1> QED
  BY <1>2, <1>3, <1>4 DEF FlightOK, g

\* Noting a staller that owes a block touches none of the records.
LEMMA Stalling ==
    ASSUME NEW f, FlightOK(f), NEW p \in Peers, f.vBlocksInFlight[p] # {}
    PROVE  LET g == [f EXCEPT !.nStallingSince[p] = TRUE]
           IN  FlightOK(g) /\ g.vBlocksInFlight = f.vBlocksInFlight
<1> DEFINE g == [f EXCEPT !.nStallingSince[p] = TRUE]
<1>1. f \in Flights
  BY DEF FlightOK
<1>2. /\ g.vBlocksInFlight = f.vBlocksInFlight
      /\ g.nBlocksInFlight = f.nBlocksInFlight
      /\ g.nBlocksInFlightValidHeaders = f.nBlocksInFlightValidHeaders
      /\ g.mapBlocksInFlight = f.mapBlocksInFlight
      /\ g.nPeersWithValidatedDownloads = f.nPeersWithValidatedDownloads
      /\ g.partialBlock = f.partialBlock
      /\ \A q \in Peers \ {p} : g.nStallingSince[q] = f.nStallingSince[q]
      /\ g \in Flights
  BY <1>1 DEF Flights
<1> HIDE DEF g
<1>3. Sources(g) = Sources(f)
  BY <1>2 DEF Sources
<1>4. ASSUME NEW q \in Peers PROVE PeerOK(g, q)
  <2>1. PeerOK(f, q)
    BY DEF FlightOK
  <2>2. g.nStallingSince[q] => g.vBlocksInFlight[q] # {}
    BY <1>2, <2>1 DEF PeerOK
  <2> QED
    BY <1>2, <2>1, <2>2 DEF PeerOK
<1> QED
  BY <1>2, <1>3, <1>4 DEF FlightOK, g

-----------------------------------------------------------------------------
(* The inductive invariant                                                 *)

\* The counters of the nodes; only a node that is ready is counted or owes a block.
CountsOK ==
    /\ node \in [Peers -> {"new", "init", "ready", "gone"}]
    /\ fSyncStarted \in [Peers -> BOOLEAN] /\ fPreferredDownload \in [Peers -> BOOLEAN]
    /\ nPreferredDownload = Cardinality({p \in Peers : fPreferredDownload[p]})
    /\ nSyncStarted = Cardinality({p \in Peers : fSyncStarted[p]})
    /\ \A p \in Peers : node[p] # "ready" => ~fSyncStarted[p] /\ ~fPreferredDownload[p]

OnlyReadyOwe == \A p \in Peers : node[p] # "ready" => flight.vBlocksInFlight[p] = {}

MsgOK == msg = NoMsg \/ msg.block \in Blocks

IInv == FlightOK(flight) /\ CountsOK /\ OnlyReadyOwe /\ MsgOK

\* It is stronger than the properties.
LEMMA Implies == IInv => InFlightConsistent /\ TransitBounded /\ StallerOwes
<1> SUFFICES ASSUME IInv PROVE InFlightConsistent /\ TransitBounded /\ StallerOwes
  OBVIOUS
<1>1. \A p \in Peers : PeerOK(flight, p)
  BY DEF IInv, FlightOK
<1>2. (\A p \in Peers : node[p] \in {"new", "gone"}) => nPreferredDownload = 0 /\ nSyncStarted = 0
  <2> SUFFICES ASSUME \A p \in Peers : node[p] \in {"new", "gone"}
               PROVE  nPreferredDownload = 0 /\ nSyncStarted = 0
    OBVIOUS
  <2>1. \A p \in Peers : ~fSyncStarted[p] /\ ~fPreferredDownload[p]
    BY DEF IInv, CountsOK
  <2>2. {p \in Peers : fPreferredDownload[p]} = {} /\ {p \in Peers : fSyncStarted[p]} = {}
    BY <2>1
  <2> QED
    BY <2>2, FS_EmptySet DEF IInv, CountsOK
<1>3. InFlightConsistent
  BY <1>1, <1>2 DEF IInv, FlightOK, CountsOK, OnlyReadyOwe, PeerOK, Sources, InFlightConsistent
<1>4. TransitBounded /\ StallerOwes
  BY <1>1 DEF PeerOK, TransitBounded, StallerOwes
<1> QED
  BY <1>3, <1>4

\* Nothing is in flight at the start.
LEMMA InitHolds == Init => IInv
<1> SUFFICES ASSUME Init PROVE IInv
  OBVIOUS
<1>1. flight = NoFlight
  BY DEF Init
<1>2. NoFlight \in Flights
  BY SMT DEF NoFlight, Flights
<1>3. ASSUME NEW p \in Peers PROVE PeerOK(NoFlight, p)
  BY SMT, DownloadAssumption, FS_EmptySet DEF PeerOK, NoFlight
<1>4. Sources(NoFlight) = {} /\ NoFlight.nPeersWithValidatedDownloads = 0
  BY SMT DEF Sources, NoFlight
<1>5. FlightOK(flight)
  BY <1>1, <1>2, <1>3, <1>4, FS_EmptySet DEF FlightOK
<1>6. CountsOK
  <2>1. \A p \in Peers : node[p] = "new" /\ ~fSyncStarted[p] /\ ~fPreferredDownload[p]
    BY DEF Init
  <2>2. {p \in Peers : fPreferredDownload[p]} = {} /\ {p \in Peers : fSyncStarted[p]} = {}
    BY <2>1
  <2>3. /\ node \in [Peers -> {"new", "init", "ready", "gone"}]
        /\ fSyncStarted \in [Peers -> BOOLEAN] /\ fPreferredDownload \in [Peers -> BOOLEAN]
        /\ nPreferredDownload = 0 /\ nSyncStarted = 0
    BY DEF Init
  <2> QED
    BY <2>1, <2>2, <2>3, FS_EmptySet DEF CountsOK
<1>7. OnlyReadyOwe /\ MsgOK
  BY DEF Init, NoFlight, OnlyReadyOwe, MsgOK
<1> QED
  BY <1>5, <1>6, <1>7 DEF IInv

\* The counters stay right when one node p is counted, or not any more.
LEMMA CountsStep ==
    ASSUME CountsOK, NEW p \in Peers,
           NEW s \in BOOLEAN, NEW r \in BOOLEAN, NEW n \in {"new", "init", "ready", "gone"},
           n # "ready" => ~s /\ ~r,
           node' = [node EXCEPT ![p] = n],
           fSyncStarted' = [fSyncStarted EXCEPT ![p] = s],
           fPreferredDownload' = [fPreferredDownload EXCEPT ![p] = r],
           nSyncStarted' = nSyncStarted + (IF s /\ ~fSyncStarted[p] THEN 1 ELSE 0)
                                        - (IF fSyncStarted[p] /\ ~s THEN 1 ELSE 0),
           nPreferredDownload' = nPreferredDownload + (IF r /\ ~fPreferredDownload[p] THEN 1 ELSE 0)
                                        - (IF fPreferredDownload[p] /\ ~r THEN 1 ELSE 0)
    PROVE  CountsOK'
<1> DEFINE S == {q \in Peers : fSyncStarted[q]}
           T == {q \in Peers : fPreferredDownload[q]}
<1>1. /\ \A q \in Peers \ {p} : q \in S <=> q \in S'
      /\ \A q \in Peers \ {p} : q \in T <=> q \in T'
      /\ (p \in S <=> fSyncStarted[p]) /\ (p \in S' <=> s)
      /\ (p \in T <=> fPreferredDownload[p]) /\ (p \in T' <=> r)
  BY DEF CountsOK
<1>2. S \in SUBSET Peers /\ T \in SUBSET Peers /\ S' \in SUBSET Peers /\ T' \in SUBSET Peers
  OBVIOUS
<1>3. /\ nSyncStarted = Cardinality(S) /\ nPreferredDownload = Cardinality(T)
      /\ Cardinality(S) \in Nat /\ Cardinality(T) \in Nat
  BY <1>2, Finite DEF CountsOK
<1>4. nSyncStarted' = Cardinality(S')
  <2> HIDE DEF S
  <2> QED  BY <1>1, <1>2, <1>3, CountOne
<1>5. nPreferredDownload' = Cardinality(T')
  <2> HIDE DEF T
  <2> QED  BY <1>1, <1>2, <1>3, CountOne
<1>6. /\ node' \in [Peers -> {"new", "init", "ready", "gone"}]
      /\ fSyncStarted' \in [Peers -> BOOLEAN] /\ fPreferredDownload' \in [Peers -> BOOLEAN]
  BY DEF CountsOK
<1>7. \A q \in Peers : node'[q] # "ready" => ~fSyncStarted'[q] /\ ~fPreferredDownload'[q]
  BY DEF CountsOK
<1> QED
  BY <1>4, <1>5, <1>6, <1>7 DEF CountsOK

-----------------------------------------------------------------------------
(* Every step keeps it                                                     *)

\* Connections come, are ready and go.
LEMMA NodeSteps ==
    ASSUME IInv, NEW p \in Peers,
           InitializeNode(p) \/ UpdatePreferredDownload(p) \/ Close(p) \/ FinalizeNode(p)
    PROVE  IInv'
<1> USE DEF chainVars, knownVars, countVars
<1>1. CASE InitializeNode(p)
  <2>1. ~fSyncStarted[p] /\ ~fPreferredDownload[p]
    BY <1>1 DEF InitializeNode, IInv, CountsOK
  <2>2. fSyncStarted[p] \in BOOLEAN /\ fPreferredDownload[p] \in BOOLEAN
    BY DEF IInv, CountsOK
  <2>3. CountsOK'
    BY <1>1, <2>1 DEF InitializeNode, IInv, CountsOK
  <2> QED
    BY <1>1, <2>3 DEF InitializeNode, IInv, OnlyReadyOwe, MsgOK, CountsOK
<1>2. CASE UpdatePreferredDownload(p)
  <2>1. ~fSyncStarted[p] /\ ~fPreferredDownload[p]
    BY <1>2 DEF UpdatePreferredDownload, IInv, CountsOK
  <2>2. CountsOK'
    <3>1. /\ node' = [node EXCEPT ![p] = "ready"]
          /\ fPreferredDownload' = [fPreferredDownload EXCEPT ![p] = (p \in Preferred)]
          /\ fSyncStarted' = [fSyncStarted EXCEPT ![p] = FALSE]
      BY <1>2, <2>1 DEF UpdatePreferredDownload, IInv, CountsOK
    <3>2. nSyncStarted \in Nat /\ nPreferredDownload \in Nat
      BY Finite DEF IInv, CountsOK
    <3>3. /\ nSyncStarted' = nSyncStarted
          /\ nPreferredDownload' = nPreferredDownload + (IF p \in Preferred THEN 1 ELSE 0)
      BY <1>2 DEF UpdatePreferredDownload
    <3>4. /\ nSyncStarted' = nSyncStarted + (IF FALSE /\ ~fSyncStarted[p] THEN 1 ELSE 0)
                                           - (IF fSyncStarted[p] /\ ~FALSE THEN 1 ELSE 0)
          /\ nPreferredDownload' = nPreferredDownload
                 + (IF p \in Preferred /\ ~fPreferredDownload[p] THEN 1 ELSE 0)
                 - (IF fPreferredDownload[p] /\ ~(p \in Preferred) THEN 1 ELSE 0)
      BY SMT, <2>1, <3>2, <3>3
    <3>5. CountsOK /\ (p \in Preferred) \in BOOLEAN
      BY SMT DEF IInv
    <3> QED
      BY <3>1, <3>4, <3>5, CountsStep
  <2> QED
    BY <1>2, <2>2 DEF UpdatePreferredDownload, IInv, OnlyReadyOwe, MsgOK, CountsOK
<1>3. CASE Close(p)
  BY <1>3 DEF Close, IInv, OnlyReadyOwe, MsgOK, CountsOK
<1>4. CASE FinalizeNode(p)
  <2>1. CountsOK'
    <3>1. /\ node' = [node EXCEPT ![p] = "gone"]
          /\ fPreferredDownload' = [fPreferredDownload EXCEPT ![p] = FALSE]
          /\ fSyncStarted' = [fSyncStarted EXCEPT ![p] = FALSE]
          /\ nSyncStarted' = nSyncStarted - (IF fSyncStarted[p] THEN 1 ELSE 0)
          /\ nPreferredDownload' = nPreferredDownload - (IF fPreferredDownload[p] THEN 1 ELSE 0)
      BY <1>4 DEF FinalizeNode
    <3>2. nSyncStarted \in Nat /\ nPreferredDownload \in Nat
      BY Finite DEF IInv, CountsOK
    <3>3. /\ nSyncStarted' = nSyncStarted + (IF FALSE /\ ~fSyncStarted[p] THEN 1 ELSE 0)
                                           - (IF fSyncStarted[p] /\ ~FALSE THEN 1 ELSE 0)
          /\ nPreferredDownload' = nPreferredDownload
                 + (IF FALSE /\ ~fPreferredDownload[p] THEN 1 ELSE 0)
                 - (IF fPreferredDownload[p] /\ ~FALSE THEN 1 ELSE 0)
      BY SMT, <3>1, <3>2
    <3>4. CountsOK
      BY DEF IInv
    <3> QED
      BY <3>1, <3>3, <3>4, CountsStep
  <2>2. flight' = ForgetFlight(flight, p) /\ node' = [node EXCEPT ![p] = "gone"] /\ msg' = msg
    BY <1>4 DEF FinalizeNode
  <2>3. FlightOK(flight')
    BY <2>2, Forgotten DEF IInv
  <2>4. OnlyReadyOwe'
    <3>1. /\ flight'.vBlocksInFlight[p] = {}
          /\ \A q \in Peers \ {p} : flight'.vBlocksInFlight[q] = flight.vBlocksInFlight[q]
      BY SMT, <2>2, Forgotten DEF IInv
    <3>2. \A q \in Peers \ {p} : node'[q] = node[q]
      BY <2>2 DEF IInv, CountsOK
    <3> QED
      BY <3>1, <3>2 DEF IInv, OnlyReadyOwe
  <2> QED
    BY <2>1, <2>2, <2>3, <2>4 DEF IInv, MsgOK
<1> QED
  BY <1>1, <1>2, <1>3, <1>4

\* The block a peer is known to have exists, whatever it announces.
KnownOK ==
    /\ best \in [Peers -> Tree \cup {NoBlock}]
    /\ unknown \in [Peers -> Tree \cup {NoBlock}]

\* Nothing is known of a node at the start.
LEMMA InitKnown == Init => KnownOK
  BY DEF Init, KnownOK

\* ProcessBlockAvailability and UpdateBlockAvailability find blocks.
LEMMA Availability ==
    ASSUME KnownOK, NEW p \in Peers, NEW H
    PROVE  /\ ProcessBlockAvailability(p, H).best \in Tree \cup {NoBlock}
           /\ ProcessBlockAvailability(p, H).unknown \in Tree \cup {NoBlock}
           /\ \A b \in Blocks :
                 /\ UpdateBlockAvailability(p, b, H).best \in Tree \cup {NoBlock}
                 /\ UpdateBlockAvailability(p, b, H).unknown \in Tree \cup {NoBlock}
<1>1. best[p] \in Tree \cup {NoBlock} /\ unknown[p] \in Tree \cup {NoBlock}
  BY DEF KnownOK
<1>2. \A a, b \in Tree \cup {NoBlock} : Better(a, b) \in Tree \cup {NoBlock}
  BY DEF Better
<1>3. \E x, y \in Tree \cup {NoBlock} : ProcessBlockAvailability(p, H) = [best |-> x, unknown |-> y]
  BY <1>1, <1>2 DEF ProcessBlockAvailability
<1>4. ASSUME NEW b \in Blocks
      PROVE  /\ UpdateBlockAvailability(p, b, H).best \in Tree \cup {NoBlock}
             /\ UpdateBlockAvailability(p, b, H).unknown \in Tree \cup {NoBlock}
  BY SMT, <1>2, <1>3 DEF UpdateBlockAvailability, Tree
<1> QED
  BY SMT, <1>3, <1>4

\* Every step keeps that.
LEMMA KnownHolds == KnownOK /\ [Next]_vars => KnownOK'
<1> SUFFICES ASSUME KnownOK, [Next]_vars PROVE KnownOK'
  OBVIOUS
<1> USE DEF vars, chainVars, knownVars, countVars
<1>1. ASSUME NEW p \in Peers, NEW k, SetKnown(p, k),
             k.best \in Tree \cup {NoBlock}, k.unknown \in Tree \cup {NoBlock}
      PROVE  KnownOK'
  BY <1>1 DEF SetKnown, KnownOK
<1>2. CASE UNCHANGED <<best, unknown>>
  BY <1>2 DEF KnownOK
<1>3. ASSUME NEW p \in Peers, FinalizeNode(p) PROVE KnownOK'
  BY <1>3 DEF FinalizeNode, KnownOK
<1>4. ASSUME NEW p \in Peers, SendMessages(p) PROVE KnownOK'
  BY <1>1, <1>2, <1>4, Availability DEF SendMessages
<1>5. ASSUME NEW p \in Peers, NEW b \in Blocks,
             Inv(p, b) \/ Headers(p, b) \/ UnconnectingHeaders(p, b) \/ CmpctBlock(p, b)
      PROVE  KnownOK'
  <2>1. SetKnown(p, UpdateBlockAvailability(p, b, headers))
          \/ SetKnown(p, UpdateBlockAvailability(p, b, headers'))
    BY <1>5 DEF Inv, Headers, UnconnectingHeaders, CmpctBlock
  <2> QED
    BY <1>1, <2>1, Availability
<1>6. ASSUME NEW p \in Peers,
             InitializeNode(p) \/ UpdatePreferredDownload(p) \/ Close(p) \/ Timeout(p)
      PROVE  KnownOK'
  BY <1>2, <1>6 DEF InitializeNode, UpdatePreferredDownload, Close, Timeout
<1>7. ASSUME NEW b \in Blocks,
             SubmitBlock(b)
               \/ \E p \in Peers : Block(p, b) \/ BlockTxn(p, b) \/ CmpctUnconnecting(p, b)
      PROVE  KnownOK'
  BY <1>2, <1>7 DEF SubmitBlock, Block, BlockTxn, CmpctUnconnecting
<1>8. CASE ProcessNewBlock
  BY <1>2, <1>8 DEF ProcessNewBlock
<1> QED
  BY <1>2, <1>3, <1>4, <1>5, <1>6, <1>7, <1>8 DEF Next

\* When no block is requested but from a node that is ready, only nodes that are ready owe.
LEMMA OweStep ==
    ASSUME IInv, NEW p \in Peers, node[p] = "ready", node' = node,
           \A q \in Peers \ {p} : flight'.vBlocksInFlight[q] \subseteq flight.vBlocksInFlight[q]
    PROVE  OnlyReadyOwe'
  BY DEF IInv, OnlyReadyOwe

\* What direct fetch asks for is not in flight.
LEMMA FetchHeadersOK ==
    ASSUME NEW f, FlightOK(f), NEW p \in Peers, NEW b \in Blocks
    PROVE  /\ FlightOK(FetchHeaders(f, p, b))
           /\ \A q \in Peers \ {p} : FetchHeaders(f, p, b).vBlocksInFlight[q]
                                         = f.vBlocksInFlight[q]
<1>1. /\ DirectFetch(f, p, b) \in SUBSET Blocks
      /\ \A c \in DirectFetch(f, p, b) : f.mapBlocksInFlight[c] = NoPeer
  BY DEF DirectFetch
<1>2. f.nBlocksInFlight[p] + Cardinality(DirectFetch(f, p, b)) <= MaxInTransit
  <2> DEFINE off == (Blocks \cap Chain[b]) \ Chain[tip]
             missing == {c \in off : c \notin have /\ f.mapBlocksInFlight[c] = NoPeer}
             room == MaxInTransit - f.nBlocksInFlight[p]
             few == {c \in missing : Cardinality({d \in missing : Height[d] < Height[c]}) < room}
  <2>1. PeerOK(f, p)
    BY DEF FlightOK
  <2>2. room \in Nat /\ f.nBlocksInFlight[p] \in Nat /\ MaxInTransit \in Nat
    BY SMT, <2>1, InFlightFrom, DownloadAssumption DEF PeerOK
  <2>3. missing \in SUBSET (Blocks \cap Chain[b]) /\ b \in Tree
    BY DEF Tree
  <2>4. DirectFetch(f, p, b) \in {few, {}}
    BY DEF DirectFetch
  <2> HIDE DEF missing
  <2>5. Cardinality(few) <= room /\ Cardinality({}) <= room
    <3> HIDE DEF room
    <3> QED  BY <2>2, <2>3, FirstFew, FS_EmptySet
  <2> HIDE DEF few
  <2>6. Cardinality(DirectFetch(f, p, b)) \in Nat /\ Cardinality(DirectFetch(f, p, b)) <= room
    BY <1>1, <2>4, <2>5, Finite
  <2> QED
    BY SMT, <2>2, <2>6
<1> QED
  BY <1>1, <1>2, Requested DEF FetchHeaders

\* Messages block, inv and headers, and the end of ProcessNewBlock.
LEMMA BlockSteps ==
    ASSUME IInv, NEW p \in Peers, NEW b \in Blocks,
           Block(p, b) \/ Inv(p, b) \/ Headers(p, b) \/ UnconnectingHeaders(p, b)
             \/ CmpctUnconnecting(p, b)
    PROVE  IInv'
<1> USE DEF chainVars, knownVars, countVars
<1>1. CASE Block(p, b)
  <2>1. flight' = MarkBlockAsReceived(flight, b) /\ node' = node /\ node[p] = "ready"
    BY <1>1 DEF Block, Connected
  <2>2. FlightOK(flight') /\ OnlyReadyOwe'
    BY <2>1, Received, OweStep DEF IInv
  <2>3. MsgOK' /\ CountsOK'
    BY <1>1 DEF Block, IInv, MsgOK, CountsOK
  <2> QED
    BY <2>2, <2>3 DEF IInv
<1>2. CASE Inv(p, b)
  BY <1>2 DEF Inv, IInv, OnlyReadyOwe, MsgOK, CountsOK
<1>3. CASE Headers(p, b)
  <2>1. flight' = FetchHeaders(flight, p, b) /\ node' = node /\ node[p] = "ready"
    BY <1>3 DEF Headers, Connected
  <2>2. FlightOK(flight') /\ OnlyReadyOwe'
    BY SMT, <2>1, FetchHeadersOK, OweStep DEF IInv
  <2>3. MsgOK' /\ CountsOK'
    BY <1>3 DEF Headers, IInv, MsgOK, CountsOK
  <2> QED
    BY <2>2, <2>3 DEF IInv
<1>4. CASE UnconnectingHeaders(p, b)
  BY <1>4 DEF UnconnectingHeaders, IInv, OnlyReadyOwe, MsgOK, CountsOK
<1>5. CASE CmpctUnconnecting(p, b)
  BY <1>5 DEF CmpctUnconnecting, IInv, OnlyReadyOwe, MsgOK, CountsOK
<1> QED
  BY <1>1, <1>2, <1>3, <1>4, <1>5

\* The three outcomes of a compact block that is asked from p; f is the bookkeeping with it.
LEMMA ReconstructOK ==
    ASSUME IInv, NEW f, FlightOK(f), NEW p \in Peers, NEW b \in Blocks, node[p] = "ready",
           \A q \in Peers \ {p} : f.vBlocksInFlight[q] \subseteq flight.vBlocksInFlight[q],
           Reconstruct(p, b, f), UNCHANGED <<countVars, node>>
    PROVE  IInv'
<1>1. flight' = f \/ flight' = MarkBlockAsReceived(f, b)
  BY DEF Reconstruct
<1>2. /\ FlightOK(flight')
      /\ \A q \in Peers : flight'.vBlocksInFlight[q] \subseteq f.vBlocksInFlight[q]
  BY <1>1, Received
<1>3. \A q \in Peers \ {p} : flight'.vBlocksInFlight[q] \subseteq flight.vBlocksInFlight[q]
  BY <1>2
<1>4. OnlyReadyOwe'
  BY <1>3, OweStep
<1>5. MsgOK'
  BY SMT DEF Reconstruct, IInv, MsgOK
<1>6. CountsOK'
  BY DEF countVars, IInv, CountsOK
<1> QED
  BY <1>2, <1>4, <1>5, <1>6 DEF IInv

\* Messages cmpctblock and blocktxn.
LEMMA CompactSteps ==
    ASSUME IInv, NEW p \in Peers, NEW b \in Blocks, CmpctBlock(p, b) \/ BlockTxn(p, b)
    PROVE  IInv'
<1>0. FlightOK(flight)
  BY DEF IInv
<1>1. CASE CmpctBlock(p, b)
  <2> DEFINE marked == IF InFlight(b) THEN flight ELSE MarkBlocksAsInFlight(flight, p, {b})
             f == [marked EXCEPT !.partialBlock[p] = @ \cup {b}]
  <2>1. node[p] = "ready" /\ UNCHANGED <<countVars, node>>
    BY <1>1 DEF CmpctBlock, Connected
  <2>2. CountsOK'
    BY <2>1 DEF countVars, IInv, CountsOK
  <2>3. CASE /\ flight' = flight \/ flight' = FetchHeaders(flight, p, b)
             /\ msg' = msg \/ msg'.block = b
    <3>1. /\ FlightOK(flight')
          /\ \A q \in Peers \ {p} : flight'.vBlocksInFlight[q] = flight.vBlocksInFlight[q]
      BY SMT, <1>0, <2>3, FetchHeadersOK
    <3>2. OnlyReadyOwe'
      BY <2>1, <3>1, OweStep
    <3>3. MsgOK'
      BY <2>3 DEF IInv, MsgOK
    <3> QED
      BY <2>2, <3>1, <3>2, <3>3 DEF IInv
  <2>4. CASE CmpctFromPeer(p, b) /\ Reconstruct(p, b, f)
    <3>1. /\ FlightOK(marked) /\ b \in marked.vBlocksInFlight[p]
          /\ \A q \in Peers \ {p} : marked.vBlocksInFlight[q] = flight.vBlocksInFlight[q]
      <4>1. CASE InFlight(b)
        <5>1. flight.mapBlocksInFlight[b] = p /\ PeerOK(flight, p)
          BY <1>0, <2>4, <4>1 DEF CmpctFromPeer, FlightOK
        <5> QED
          BY <1>0, <4>1, <5>1 DEF PeerOK
      <4>2. CASE ~InFlight(b)
        <5>1. {b} \in SUBSET Blocks /\ \A c \in {b} : flight.mapBlocksInFlight[c] = NoPeer
          BY <4>2 DEF InFlight
        <5>2. flight.nBlocksInFlight[p] \in Nat /\ flight.nBlocksInFlight[p] < MaxInTransit
          BY SMT, <1>0, <2>4, <4>2, InFlightFrom, DownloadAssumption DEF CmpctFromPeer, InFlight
        <5>3. flight.nBlocksInFlight[p] + Cardinality({b}) <= MaxInTransit
          <6>1. Cardinality({b}) = 1
            BY FS_Singleton
          <6>2. MaxInTransit \in Nat
            BY DownloadAssumption
          <6> QED
            BY SMT, <5>2, <6>1, <6>2
        <5>4. marked = MarkBlocksAsInFlight(flight, p, {b})
          BY <4>2
        <5> HIDE DEF marked
        <5>5. /\ FlightOK(marked)
              /\ \A q \in Peers \ {p} : marked.vBlocksInFlight[q] = flight.vBlocksInFlight[q]
              /\ {b} \subseteq marked.vBlocksInFlight[p]
          BY <1>0, <5>1, <5>3, <5>4, Requested
        <5> QED
          BY <5>5
      <4> QED
        BY <4>1, <4>2
    <3> HIDE DEF marked
    <3>2. FlightOK(f) /\ f.vBlocksInFlight = marked.vBlocksInFlight
      BY <3>1, Partial
    <3> HIDE DEF f
    <3>3. \A q \in Peers \ {p} : f.vBlocksInFlight[q] \subseteq flight.vBlocksInFlight[q]
      BY <3>1, <3>2
    <3> QED
      BY <2>1, <2>4, <3>2, <3>3, ReconstructOK
  <2> QED
    BY SMT, <1>1, <2>3, <2>4 DEF CmpctBlock
<1>2. CASE BlockTxn(p, b)
  <2>1. node[p] = "ready" /\ UNCHANGED <<countVars, node>> /\ Reconstruct(p, b, flight)
    BY <1>2 DEF BlockTxn, Connected
  <2> QED
    BY <1>0, <2>1, ReconstructOK
<1> QED
  BY <1>1, <1>2

\* SendMessages, and SendMessages when a timeout has passed.
LEMMA SendSteps ==
    ASSUME IInv, KnownOK, NEW p \in Peers, SendMessages(p) \/ Timeout(p)
    PROVE  IInv'
<1>1. /\ node[p] = "ready" /\ node' = node /\ msg' = msg /\ StartSync(p)
      /\ UNCHANGED <<fPreferredDownload, nPreferredDownload>>
  BY DEF SendMessages, Timeout, Connected
<1>2. CountsOK'
  <2> DEFINE start == /\ ~fSyncStarted[p]
                      /\ \/ nSyncStarted = 0 /\ Fetch(p)
                         \/ Height[Highest(headers)] >= DayHeight
             r == fPreferredDownload[p]
             s == fSyncStarted[p] \/ start
  <2>1. /\ fSyncStarted' = [fSyncStarted EXCEPT ![p] = s]
        /\ nSyncStarted' = nSyncStarted + (IF start THEN 1 ELSE 0)
    BY <1>1 DEF StartSync
  <2>2. /\ node' = [node EXCEPT ![p] = "ready"]
        /\ fPreferredDownload' = [fPreferredDownload EXCEPT ![p] = r]
        /\ r \in BOOLEAN /\ s \in BOOLEAN
    BY <1>1 DEF IInv, CountsOK
  <2>3. nSyncStarted \in Nat /\ nPreferredDownload \in Nat
    BY Finite DEF IInv, CountsOK
  <2>4. /\ nSyncStarted' = nSyncStarted + (IF s /\ ~fSyncStarted[p] THEN 1 ELSE 0)
                                        - (IF fSyncStarted[p] /\ ~s THEN 1 ELSE 0)
        /\ nPreferredDownload' = nPreferredDownload
               + (IF r /\ ~fPreferredDownload[p] THEN 1 ELSE 0)
               - (IF fPreferredDownload[p] /\ ~r THEN 1 ELSE 0)
    BY SMT, <1>1, <2>1, <2>3
  <2>5. CountsOK
    BY DEF IInv
  <2> HIDE DEF s, r
  <2> QED
    BY <2>1, <2>2, <2>4, <2>5, CountsStep
<1>3. CASE flight' = flight
  BY <1>1, <1>2, <1>3 DEF IInv, OnlyReadyOwe, MsgOK
<1>4. ASSUME NEW top \in Tree, Request(p, top) PROVE IInv'
  <2> DEFINE start == WalkFrom(p, top)
             count == MaxInTransit - flight.nBlocksInFlight[p]
             staller == Staller(p, start, top, count)
             S == ToDownload(start, top, count)
             asked == MarkBlocksAsInFlight(flight, p, S)
  <2>1. S \in SUBSET Blocks /\ \A b \in S : flight.mapBlocksInFlight[b] = NoPeer
    BY DEF ToDownload, Walk, InFlight
  <2>2. \/ flight' = asked
        \/ staller # NoPeer /\ flight' = [asked EXCEPT !.nStallingSince[staller] = TRUE]
    BY <1>4 DEF Request
  <2>3. flight.nBlocksInFlight[p] + Cardinality(S) <= MaxInTransit
    <3> DEFINE wanted == {b \in Walk(start, top) : /\ b \notin have /\ ~InFlight(b)
                                                   /\ Height[b] <= Height[start] + Window}
    <3>1. PeerOK(flight, p)
      BY DEF IInv, FlightOK
    <3>2. count \in Nat /\ flight.nBlocksInFlight[p] \in Nat /\ MaxInTransit \in Nat
      BY SMT, <3>1, InFlightFrom, DownloadAssumption DEF PeerOK, IInv
    <3>3. wanted \in SUBSET (Blocks \cap Chain[top])
      BY DEF Walk
    <3>4. S = {b \in wanted : Cardinality({c \in wanted : Height[c] < Height[b]}) < count}
      BY DEF ToDownload
    <3> HIDE DEF wanted, S
    <3>5. Cardinality(S) <= count
      <4> HIDE DEF count
      <4> QED  BY <3>2, <3>3, <3>4, FirstFew
    <3>6. Cardinality(S) \in Nat
      BY <2>1, Finite
    <3> QED
      BY SMT, <3>2, <3>5, <3>6
  <2>4. staller # NoPeer => /\ staller \in Peers \ {p}
                            /\ flight.vBlocksInFlight[staller] # {}
    <3> SUFFICES ASSUME staller # NoPeer
                 PROVE  staller \in Peers \ {p} /\ flight.vBlocksInFlight[staller] # {}
      OBVIOUS
    <3> DEFINE flying == {b \in Walk(start, top) : b \notin have /\ InFlight(b)}
               first == CHOOSE b \in flying : \A c \in flying : Height[b] <= Height[c]
    <3>1. flying # {} /\ staller = flight.mapBlocksInFlight[first] /\ staller # p
      BY DEF Staller
    <3>2. flying \in SUBSET (Blocks \cap Chain[top])
      BY DEF Walk
    <3>3. first \in flying
      BY <3>1, <3>2, LowestBlock
    <3>4. first \in Blocks
      BY <3>2, <3>3
    <3> HIDE DEF flying, first, staller
    <3>5. staller \in Peers
      BY <3>1, <3>4 DEF IInv, FlightOK, Flights
    <3>6. PeerOK(flight, staller)
      BY <3>5 DEF IInv, FlightOK
    <3>7. first \in flight.vBlocksInFlight[staller]
      BY <3>1, <3>4, <3>6 DEF PeerOK
    <3> QED
      BY <3>1, <3>5, <3>7
  <2> HIDE DEF S, staller
  <2>5. /\ FlightOK(asked)
        /\ \A q \in Peers \ {p} : asked.vBlocksInFlight[q] = flight.vBlocksInFlight[q]
    BY <2>1, <2>3, Requested DEF IInv
  <2> HIDE DEF asked
  <2>6. FlightOK(flight') /\ flight'.vBlocksInFlight = asked.vBlocksInFlight
    <3> DEFINE noted == [asked EXCEPT !.nStallingSince[staller] = TRUE]
    <3>1. CASE staller # NoPeer /\ flight' = noted
      <4>1. staller \in Peers /\ asked.vBlocksInFlight[staller] # {}
        BY <2>5, <2>4, <3>1
      <4>2. FlightOK(noted) /\ noted.vBlocksInFlight = asked.vBlocksInFlight
        BY <2>5, <4>1, Stalling
      <4> HIDE DEF noted
      <4> QED
        BY <3>1, <4>2
    <3> QED
      BY <2>2, <2>5, <3>1
  <2>7. OnlyReadyOwe'
    BY <1>1, <2>5, <2>6, OweStep
  <2> QED
    BY <1>1, <1>2, <2>6, <2>7 DEF IInv, MsgOK
<1>5. CASE SendMessages(p) /\ flight' # flight
  <2> DEFINE k == ProcessBlockAvailability(p, headers)
  <2>1. k.best # NoBlock /\ Request(p, k.best)
    BY <1>5 DEF SendMessages
  <2>2. k.best \in Tree
    BY <2>1, Availability
  <2> QED
    BY <1>4, <2>1, <2>2
<1> QED
  BY <1>3, <1>5 DEF Timeout

\* The end of ProcessNewBlock, and submitblock.
LEMMA ProcessSteps ==
    ASSUME IInv, ProcessNewBlock \/ \E b \in Blocks : SubmitBlock(b)
    PROVE  IInv'
<1> USE DEF chainVars, knownVars, countVars
<1>1. CASE ProcessNewBlock
  <2>1. msg.block \in Blocks
    BY <1>1 DEF ProcessNewBlock, Free, IInv, MsgOK
  <2>2. /\ flight' = flight \/ flight' = MarkBlockAsReceived(flight, msg.block)
        /\ msg' = NoMsg /\ UNCHANGED <<node, countVars>>
    BY <1>1 DEF ProcessNewBlock
  <2>3. /\ FlightOK(flight')
        /\ \A q \in Peers : flight'.vBlocksInFlight[q] \subseteq flight.vBlocksInFlight[q]
    BY <2>1, <2>2, Received DEF IInv
  <2>4. OnlyReadyOwe'
    BY <2>2, <2>3 DEF IInv, OnlyReadyOwe
  <2> QED
    BY <2>2, <2>3, <2>4 DEF IInv, MsgOK, CountsOK
<1>2. CASE \E b \in Blocks : SubmitBlock(b)
  BY <1>2 DEF SubmitBlock, IInv, OnlyReadyOwe, MsgOK, CountsOK
<1> QED
  BY <1>1, <1>2

\* Every step of a thread or a peer keeps the inductive invariant.
LEMMA StepHolds == IInv /\ KnownOK /\ [Next]_vars => IInv'
<1> SUFFICES ASSUME IInv, KnownOK, [Next]_vars PROVE IInv'
  OBVIOUS
<1>1. CASE UNCHANGED vars
  BY <1>1 DEF vars, chainVars, knownVars, countVars, IInv, OnlyReadyOwe, MsgOK, CountsOK
<1>2. CASE Next
  BY <1>2, NodeSteps, SendSteps, BlockSteps, CompactSteps, ProcessSteps DEF Next
<1> QED
  BY <1>1, <1>2

\* However messages, timeouts and disconnections interleave, mapBlocksInFlight, the lists
\* of the nodes and the counters agree; the asserts at the end of FinalizeNode hold.
THEOREM InFlightAgree == Spec => []InFlightConsistent
  BY InitHolds, InitKnown, StepHolds, KnownHolds, Implies, PTL DEF Spec

\* No peer ever owes more than MAX_BLOCKS_IN_TRANSIT_PER_PEER blocks: SendMessages, the
\* direct fetch of announced headers and compact blocks share one limit.
THEOREM TransitLimited == Spec => []TransitBounded
  BY InitHolds, InitKnown, StepHolds, KnownHolds, Implies, PTL DEF Spec

\* Whoever is disconnected for holding up the download window has a block to deliver.
THEOREM StallersOwe == Spec => []StallerOwes
  BY InitHolds, InitKnown, StepHolds, KnownHolds, Implies, PTL DEF Spec

=============================================================================
