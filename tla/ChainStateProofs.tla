--------------------------- MODULE ChainStateProofs ---------------------------
(***************************************************************************)
(* For any finite tree of blocks, any invalid and damaged blocks and any   *)
(* number of threads: the coins on disk never get ahead of the block index *)
(* on disk, whatever the RPC commands, pruning and crashes do; and while   *)
(* reconsiderblock is not called, marks have a cause, linked blocks are    *)
(* those that were received with their ancestors, and no block that waits  *)
(* is lost.                                                                *)
(***************************************************************************)
EXTENDS ChainState, FiniteSetTheorems, WellFoundedInduction, TLAPS

\* Nearly all leaves are first-order; the ones with arithmetic cite SMT.
USE Zenon

-----------------------------------------------------------------------------
(* The tree of blocks.  Induction along a chain is an argument about the   *)
(* least work at which the fact would fail.                                *)

\* Every non-empty set of natural numbers has a least member.
LEMMA LeastNumber ==
    ASSUME NEW S \in SUBSET Nat, S # {}
    PROVE  \E n \in S : \A m \in S : n <= m
<1> DEFINE R == {ss \in Nat \X Nat : ss[1] < ss[2]}
<1>1. IsWellFoundedOn(R, Nat)
  BY NatLessThanWellFounded DEF OpToRel
<1>2. \A m, n \in Nat : m < n => <<m, n>> \in R
  OBVIOUS
<1> HIDE DEF R
<1>3. PICK n \in S : \A m \in S : <<m, n>> \notin R
  BY <1>1, WFMin
<1>4. \A m \in S : m \in Nat /\ n \in Nat /\ ~(m < n)
  BY <1>2, <1>3
<1>5. \A m \in S : n <= m
  BY SMT, <1>4
<1> QED
  BY <1>5

\* Every non-empty set of blocks has a member with the least work.
LEMMA LeastWork ==
    ASSUME NEW S \in SUBSET Blocks, S # {}
    PROVE  \E b \in S : \A x \in S : Work[b] <= Work[x]
<1> DEFINE W == {Work[b] : b \in S}
<1>1. W \in SUBSET Nat /\ W # {}
  BY SMT, TreeAssumption
<1>2. PICK n \in W : \A m \in W : n <= m
  BY <1>1, LeastNumber
<1> QED
  BY <1>2

\* Lowest, where ActivateBestChainStep ends, is a member of its argument with the
\* least work.
LEMMA LowestIs ==
    ASSUME NEW S \in SUBSET Blocks, S # {}
    PROVE  Lowest(S) \in S /\ \A x \in S : Work[Lowest(S)] <= Work[x]
  BY LeastWork DEF Lowest

\* A chain holds its block, the genesis block and only blocks, and with a block the
\* chain of it; all the others have less work.
ChainOK(b) ==
    /\ b \in Chain[b]
    /\ Genesis \in Chain[b]
    /\ Chain[b] \subseteq Blocks
    /\ \A x \in Chain[b] : Chain[x] \subseteq Chain[b]
    /\ \A x \in Chain[b] : x # b => Work[x] < Work[b]
    /\ \A x, y \in Chain[b] : x \in Chain[y] \/ y \in Chain[x]

\* pprev leads from every block to the genesis block.
LEMMA Chains == \A b \in Blocks : ChainOK(b)
<1> DEFINE Wrong == {b \in Blocks : ~ChainOK(b)}
<1> SUFFICES ASSUME Wrong # {} PROVE FALSE
  OBVIOUS
<1>1. Wrong \in SUBSET Blocks
  OBVIOUS
<1>2. PICK b \in Wrong : \A x \in Wrong : Work[b] <= Work[x]
  BY <1>1, LeastWork
<1>3. b # Genesis
  BY SMT, <1>2, TreeAssumption DEF ChainOK
<1>4. /\ Parent[b] \in Blocks /\ Chain[b] = {b} \cup Chain[Parent[b]]
      /\ Work[Parent[b]] < Work[b] /\ Work[b] \in Nat /\ Work[Parent[b]] \in Nat
  BY <1>2, <1>3, TreeAssumption
<1>5. ChainOK(Parent[b])
  BY SMT, <1>2, <1>4
<1>6. \A x \in Chain[Parent[b]] : Work[x] < Work[b] /\ x # b
  BY SMT, <1>4, <1>5, TreeAssumption DEF ChainOK
<1>7. /\ b \in Chain[b] /\ Genesis \in Chain[b] /\ Chain[b] \subseteq Blocks
      /\ \A x \in Chain[b] : Chain[x] \subseteq Chain[b]
  BY <1>2, <1>4, <1>5 DEF ChainOK
<1>8. \A x \in Chain[b] : x # b => Work[x] < Work[b]
  BY <1>4, <1>6
<1>9. \A x, y \in Chain[b] : x \in Chain[y] \/ y \in Chain[x]
  BY <1>4, <1>5, <1>7 DEF ChainOK
<1> QED
  BY <1>2, <1>7, <1>8, <1>9 DEF ChainOK

\* A block that is not the genesis block is above its parent.
LEMMA Parents ==
    ASSUME NEW b \in Blocks, b # Genesis
    PROVE  /\ Parent[b] \in Blocks
           /\ Parent[b] \in Chain[b]
           /\ Chain[b] = {b} \cup Chain[Parent[b]]
           /\ Work[Parent[b]] < Work[b]
  BY SMT, Chains, TreeAssumption DEF ChainOK

-----------------------------------------------------------------------------
(* CBlockIndexWorkComparator                                               *)

\* For given sequence numbers the comparator is a linear order: nothing is less than
\* itself, and "not less than" is transitive.
LEMMA OrderFacts ==
    ASSUME NEW s \in [Blocks -> Int], NEW a \in Blocks, NEW b \in Blocks, NEW c \in Blocks
    PROVE  /\ ~LessBy(s, a, a)
           /\ LessBy(s, a, b) => ~LessBy(s, b, a)
           /\ ~LessBy(s, a, b) /\ ~LessBy(s, b, c) => ~LessBy(s, a, c)
           /\ ~LessBy(s, a, b) => Work[a] >= Work[b]
           /\ Work[a] > Work[b] => ~LessBy(s, a, b)
<1>1. /\ Work[a] \in Nat /\ Work[b] \in Nat /\ Work[c] \in Nat
      /\ Addr[a] \in Nat /\ Addr[b] \in Nat /\ Addr[c] \in Nat
      /\ s[a] \in Int /\ s[b] \in Int /\ s[c] \in Int
  BY TreeAssumption
<1> QED
  BY SMT, <1>1 DEF LessBy

\* FindMostWorkChain finds a block when a candidate is usable: a non-empty set of
\* blocks has one that is not less than any other.
LEMMA Greatest ==
    ASSUME NEW s \in [Blocks -> Int], NEW S \in SUBSET Blocks, S # {}
    PROVE  \E c \in S : \A u \in S : ~LessBy(s, c, u)
<1> DEFINE Over(c) == {u \in S : LessBy(s, c, u)}
           N == {Cardinality(Over(c)) : c \in S}
<1>1. IsFiniteSet(S)
  BY FS_Subset, TreeAssumption
<1>2. \A c \in S : IsFiniteSet(Over(c)) /\ Cardinality(Over(c)) \in Nat
  BY <1>1, FS_Subset, FS_CardinalityType
<1>3. N \in SUBSET Nat /\ N # {}
  BY <1>2
<1>4. PICK n \in N : \A m \in N : n <= m
  BY <1>3, LeastNumber
<1>5. PICK c \in S : n = Cardinality(Over(c))
  BY <1>4
<1>6. ASSUME NEW u \in S, LessBy(s, c, u) PROVE FALSE
  <2>1. Over(u) \subseteq Over(c)
    <3> SUFFICES ASSUME NEW v \in S, LessBy(s, u, v) PROVE LessBy(s, c, v)
      OBVIOUS
    <3>1. ~LessBy(s, v, u) /\ ~LessBy(s, u, c)
      BY <1>6, OrderFacts
    <3>2. ~LessBy(s, v, c)
      BY <3>1, OrderFacts
    <3>3. ~LessBy(s, c, v) => ~LessBy(s, u, v)
      BY <3>1, OrderFacts
    <3> QED
      BY <3>3
  <2>2. u \in Over(c) /\ u \notin Over(u)
    BY <1>6, OrderFacts
  <2>3. Over(u) \in SUBSET Over(c) /\ Over(u) # Over(c) /\ IsFiniteSet(Over(c))
    BY <1>2, <2>1, <2>2
  <2> HIDE DEF Over
  <2>4. Cardinality(Over(u)) <= Cardinality(Over(c)) /\ Cardinality(Over(u)) # Cardinality(Over(c))
    BY <2>3, FS_Subset
  <2>5. Cardinality(Over(c)) <= Cardinality(Over(u))
    BY <1>4, <1>5
  <2> QED
    BY SMT, <1>2, <2>4, <2>5
<1> QED
  BY <1>6

-----------------------------------------------------------------------------
(* The inductive invariant                                                 *)

\* The sets hold blocks, and the disk has the shape of the two databases.
DiskType == [index : SUBSET Blocks, tx : SUBSET Blocks, data : SUBSET Blocks,
             failedValid : SUBSET Blocks, failedChild : SUBSET Blocks, tip : Blocks]

ShapeOK ==
    /\ index \in SUBSET Blocks /\ tx \in SUBSET Blocks /\ data \in SUBSET Blocks
    /\ failedValid \in SUBSET Blocks /\ failedChild \in SUBSET Blocks
    /\ seq \in [Blocks -> Int] /\ nextSeq \in Int /\ reverseSeq \in Int
    /\ disk \in DiskType

\* Linked blocks are received and so are their ancestors; the candidates, the tip and
\* the targets of the threads are linked.
LinkedOK ==
    /\ linked \subseteq tx
    /\ \A b \in linked : Chain[b] \subseteq linked
    /\ candidates \subseteq linked
    /\ tip \in linked
    /\ mostWork \in [Threads -> linked \cup {None}]
    /\ unlinked \subseteq tx

\* What is not dirty is on disk, nothing else is, and the chain of the coins is there.
StoredOK ==
    /\ disk.tx \subseteq tx
    /\ tx \ dirty \subseteq disk.tx
    /\ DiskOrdered

IInv == ShapeOK /\ LinkedOK /\ StoredOK

-----------------------------------------------------------------------------
(* What the operators return                                               *)

\* Highest is a member of its argument with the most work.
LEMMA HighestIs ==
    ASSUME NEW S \in SUBSET Blocks, S # {}
    PROVE  Highest(S) \in S /\ \A x \in S : Work[x] <= Work[Highest(S)]
<1> DEFINE zero == [b \in Blocks |-> 0]
<1>1. zero \in [Blocks -> Int]
  BY SMT
<1> HIDE DEF zero
<1>2. PICK c \in S : \A u \in S : ~LessBy(zero, c, u)
  BY <1>1, Greatest
<1>3. \A u \in S : Work[u] <= Work[c]
  BY <1>1, <1>2, OrderFacts, TreeAssumption
<1> QED
  BY <1>3 DEF Highest

\* What FindMostWorkChain discards lies on the chains of candidates, and what it finds
\* is a usable candidate.
LEMMA FindIs ==
    ASSUME ShapeOK, LinkedOK
    PROVE  /\ FindMostWorkChain \in Usable \cup {None}
           /\ \A c \in Discarded : /\ c \in candidates
                                   /\ Obstacle(c) \in Obstacles(c)
                                   /\ Above(c) \subseteq Chain[c]
           /\ FailedByFind \subseteq linked
           /\ UnlinkedByFind \subseteq linked
<1>1. \A c \in candidates : c \in Blocks /\ Chain[c] \subseteq linked /\ Chain[c] \subseteq Blocks
  BY DEF ShapeOK, LinkedOK
<1>2. FindMostWorkChain \in Usable \cup {None}
  <2>1. CASE Usable = {}
    BY <2>1 DEF FindMostWorkChain
  <2>2. CASE Usable # {}
    <3>1. Usable \in SUBSET Blocks /\ seq \in [Blocks -> Int]
      BY <1>1 DEF Usable, ShapeOK
    <3>2. \E c \in Usable : \A u \in Usable : ~LessBy(seq, c, u)
      BY <2>2, <3>1, Greatest
    <3>3. (CHOOSE c \in Usable : \A u \in Usable : ~Less(c, u)) \in Usable
      BY <3>2 DEF Less
    <3> QED
      BY <2>2, <3>3 DEF FindMostWorkChain
  <2> QED
    BY <2>1, <2>2
<1>3. ASSUME NEW c \in Discarded
      PROVE  c \in candidates /\ Obstacle(c) \in Obstacles(c) /\ Above(c) \subseteq Chain[c]
  <2>1. c \in candidates /\ Obstacles(c) # {}
    BY DEF Discarded, Usable
  <2>2. Obstacles(c) \in SUBSET Blocks
    BY <1>1, <2>1 DEF Obstacles, Path
  <2>3. Obstacle(c) \in Obstacles(c)
    BY <2>1, <2>2, HighestIs DEF Obstacle
  <2> QED
    BY <2>1, <2>3 DEF Above, Path
<1>4. FailedByFind \subseteq linked /\ UnlinkedByFind \subseteq linked
  BY <1>1, <1>3 DEF FailedByFind, UnlinkedByFind
<1> QED
  BY <1>2, <1>3, <1>4

\* The target of a round is linked.
LEMMA TargetIs ==
    ASSUME ShapeOK, LinkedOK, NEW p \in Threads
    PROVE  Target(p) \in linked \cup {None}
  BY FindIs DEF Target, LinkedOK, Usable

\* A step towards a linked target ends on its chain, before the first block refused.
LEMMA StepEnds ==
    ASSUME ShapeOK, LinkedOK, NEW p \in Threads, NEW target \in linked
    PROVE  /\ Last(p, target) \in Chain[target]
           /\ NewTip(p, target) \in Chain[target]
           /\ Chain[NewTip(p, target)] \cap Refused(p, target) = {}
<1> DEFINE last == Last(p, target)
           new == NewTip(p, target)
           S == {target} \cup Refused(p, target) \cup {x \in Path(target) : Work[x] > Work[tip]}
<1>1. target \in Blocks /\ tip \in Blocks /\ Genesis \in Chain[tip]
  BY Chains DEF ShapeOK, LinkedOK, ChainOK
<1>2. ChainOK(target)
  BY <1>1, Chains
<1>3. S \subseteq Chain[target] /\ S \in SUBSET Blocks /\ target \in S /\ Refused(p, target) \subseteq S
  BY <1>1, <1>2 DEF Refused, Path, ChainOK
<1>4. last = Lowest(S)
  BY DEF Last
<1> HIDE DEF S
<1>5. last \in S /\ \A x \in S : Work[last] <= Work[x]
  BY <1>3, <1>4, LowestIs
<1>6. last \in Chain[target] /\ last \in Blocks /\ Work[last] \in Nat
  BY <1>3, <1>5, TreeAssumption
<1>7. ChainOK(last)
  BY <1>6, Chains
<1>8. CASE last \in Refused(p, target)
  <2>1. new = Parent[last]
    BY <1>8 DEF NewTip
  <2>2. last # Genesis
    BY <1>1, <1>8 DEF Refused, Path
  <2>3. new \in Blocks /\ new \in Chain[last] /\ Work[new] < Work[last] /\ Work[new] \in Nat
    BY SMT, <1>6, <2>1, <2>2, Parents, TreeAssumption
  <2>4. new \in Chain[target]
    BY <1>2, <1>6, <2>3 DEF ChainOK
  <2>5. ASSUME NEW x \in Chain[new], x \in Refused(p, target) PROVE FALSE
    <3>1. x \in Blocks /\ Work[x] \in Nat /\ (x = new \/ Work[x] < Work[new])
      BY <2>3, Chains, TreeAssumption DEF ChainOK
    <3>2. Work[last] <= Work[x]
      BY <1>3, <1>5, <2>5
    <3> QED
      BY SMT, <1>6, <2>3, <3>1, <3>2
  <2> QED
    BY <1>6, <2>4, <2>5
<1>9. CASE last \notin Refused(p, target)
  <2>1. new = last
    BY <1>9 DEF NewTip
  <2>2. ASSUME NEW x \in Chain[last], x \in Refused(p, target) PROVE FALSE
    <3>1. x \in Blocks /\ Work[x] \in Nat /\ Work[x] < Work[last]
      BY <1>7, <1>9, <2>2, TreeAssumption DEF ChainOK
    <3>2. Work[last] <= Work[x]
      BY <1>3, <1>5, <2>2
    <3> QED
      BY SMT, <1>6, <3>1, <3>2
  <2> HIDE DEF new, last
  <2>3. Chain[new] \cap Refused(p, target) = {}
    BY <2>1, <2>2
  <2> QED
    BY <1>6, <2>1, <2>3 DEF new, last
<1> QED
  BY <1>8, <1>9

\* The blocks linked together with b are received, and their ancestors are linked too.
LEMMA JustLinkedIs ==
    ASSUME ShapeOK, LinkedOK, NEW b \in Blocks, b = Genesis \/ Parent[b] \in linked
    PROVE  /\ JustLinked(b) \subseteq tx \cup {b}
           /\ \A x \in linked \cup JustLinked(b) : Chain[x] \subseteq linked \cup JustLinked(b)
<1>1. JustLinked(b) \subseteq tx \cup {b}
  BY DEF JustLinked, LinkedOK
<1>2. Chain[b] \subseteq linked \cup {b}
  BY SMT, Parents, TreeAssumption DEF LinkedOK
<1>3. b \in JustLinked(b)
  BY Chains DEF JustLinked, ChainOK
<1>4. ASSUME NEW x \in JustLinked(b), NEW y \in Chain[x] \ Chain[b]
      PROVE  y \in JustLinked(b)
  <2>1. x \in Blocks /\ b \in Chain[x] /\ Chain[x] \ Chain[b] \subseteq unlinked
    BY DEF JustLinked, ShapeOK, LinkedOK
  <2>2. ChainOK(x)
    BY <2>1, Chains
  <2>3. b \in Chain[y] /\ Chain[y] \subseteq Chain[x]
    BY <2>1, <2>2 DEF ChainOK
  <2> QED
    BY <2>1, <2>3 DEF JustLinked
<1>5. \A x \in JustLinked(b) : Chain[x] \subseteq linked \cup JustLinked(b)
  BY <1>2, <1>3, <1>4
<1> QED
  BY <1>1, <1>5 DEF LinkedOK

\* WriteBatchSync brings the number of transactions on disk up to date, and keeps the
\* best block of the coins.
LEMMA WrittenIs ==
    ASSUME ShapeOK, StoredOK, NEW P, NEW child \in SUBSET Blocks
    PROVE  /\ IndexWritten(P, child) \in DiskType
           /\ IndexWritten(P, child).tx = tx
           /\ IndexWritten(P, child).tip = disk.tip
           /\ IndexWritten(P, child).data \subseteq disk.data \cup data
           /\ IndexWritten(P, child).failedValid \subseteq disk.failedValid \cup failedValid
           /\ IndexWritten(P, child).failedChild \subseteq disk.failedChild \cup child
           /\ P = {} /\ data = tx /\ disk.data = disk.tx => IndexWritten(P, child).data = tx
<1> DEFINE d == dirty \cup P
           W(old, new) == (old \ d) \cup (new \cap d)
           r == IndexWritten(P, child)
<1>1. disk \in DiskType
  BY DEF ShapeOK
<1>2. r.index = W(disk.index, index) /\ r.tx = W(disk.tx, tx)
  BY <1>1 DEF IndexWritten, DiskType
<1>3. r.data = W(disk.data, data \ P) /\ r.tip = disk.tip
  BY <1>1 DEF IndexWritten, DiskType
<1>4. r.failedValid = W(disk.failedValid, failedValid) /\ r.failedChild = W(disk.failedChild, child)
  BY <1>1 DEF IndexWritten, DiskType
<1>5. r \in DiskType
  BY <1>1 DEF IndexWritten, DiskType, ShapeOK
<1>6. r.tx = tx
  BY <1>2 DEF StoredOK
<1> HIDE DEF r
<1>7. /\ r.data \subseteq disk.data \cup data
      /\ r.failedValid \subseteq disk.failedValid \cup failedValid
      /\ r.failedChild \subseteq disk.failedChild \cup child
  BY <1>3, <1>4
<1>8. P = {} /\ data = tx /\ disk.data = disk.tx => r.data = tx
  BY <1>3 DEF StoredOK
<1> QED
  BY <1>3, <1>5, <1>6, <1>7, <1>8 DEF r

-----------------------------------------------------------------------------
(* The disk                                                                *)

\* InitBlockIndex writes the genesis block.
LEMMA InitHolds == Init => IInv
<1> SUFFICES ASSUME Init PROVE IInv
  OBVIOUS
<1>1. ShapeOK
  BY SMT, TreeAssumption DEF Init, ShapeOK, DiskType
<1>2. LinkedOK
  BY TreeAssumption DEF Init, LinkedOK
<1>3. StoredOK
  BY TreeAssumption DEF Init, StoredOK, DiskOrdered
<1> QED
  BY <1>1, <1>2, <1>3 DEF IInv

\* LoadBlockIndexDB builds a consistent index from a disk on which the chain of the
\* coins is complete.
LEMMA RestartHolds ==
    ASSUME NEW d \in DiskType, Chain[d.tip] \subseteq d.tx, Restart(d)
    PROVE  IInv'
<1>1. d.tip \in Blocks /\ d.tx \subseteq Blocks
  BY DEF DiskType
<1>2. /\ Joined(d) \subseteq d.tx
      /\ \A b \in Joined(d) : Chain[b] \subseteq Joined(d)
      /\ d.tip \in Joined(d)
  BY <1>1, Chains DEF Joined, ChainOK
<1>3. ShapeOK'
  BY SMT DEF Restart, ShapeOK, DiskType
<1>4. LinkedOK'
  <2>1. candidates' \subseteq Joined(d)
    BY DEF Restart, NotWorse
  <2>2. /\ linked' = Joined(d) /\ tx' = d.tx /\ tip' = d.tip /\ unlinked' = d.tx \ Joined(d)
        /\ mostWork' = [p \in Threads |-> None]
    BY DEF Restart
  <2> QED
    BY <1>2, <2>1, <2>2 DEF LinkedOK
<1>5. StoredOK'
  BY DEF Restart, StoredOK, DiskOrdered
<1> QED
  BY <1>3, <1>4, <1>5 DEF IInv

\* A block that arrives is linked when its parent is, with the blocks that waited, and
\* its entry is dirty.
LEMMA ReceivedHolds ==
    ASSUME IInv, NEW p \in Threads, NEW b \in Blocks, NEW fRequested \in BOOLEAN,
           ProcessNewBlock(p, b, fRequested)
    PROVE  IInv'
<1> USE DEF IInv
<1>1. CASE Wanted(b, fRequested) /\ b \notin ContextBad
  <2>1. /\ ReceivedBlockTransactions(b)
        /\ index' = index \cup {b} /\ dirty' = dirty \cup {b}
        /\ UNCHANGED <<failedValid, failedChild, reverseSeq, tip, disk, mostWork>>
    BY <1>1 DEF ProcessNewBlock
  <2>2. tx' = tx \cup {b} /\ data' = data \cup {b}
    BY <2>1 DEF ReceivedBlockTransactions
  <2>3. StoredOK'
    BY <2>1, <2>2 DEF StoredOK, DiskOrdered
  <2>4. CASE b = Genesis \/ Parent[b] \in linked
    <3> DEFINE L == JustLinked(b)
    <3>1. /\ nextSeq' = nextSeq + Cardinality(L)
          /\ \E s \in Numberings(L) : seq' = [x \in Blocks |-> IF x \in L THEN s[x] ELSE seq[x]]
          /\ linked' = linked \cup L
          /\ candidates' = candidates \cup NotWorse(L, seq', tip)
          /\ unlinked' = unlinked \ (L \ {b})
      BY <2>1, <2>4 DEF ReceivedBlockTransactions
    <3>2. L \subseteq tx \cup {b} /\ \A x \in linked \cup L : Chain[x] \subseteq linked \cup L
      BY <2>4, JustLinkedIs
    <3> HIDE DEF L
    <3>3. IsFiniteSet(L) /\ Cardinality(L) \in Nat
      BY SMT, <3>2, FS_Subset, FS_CardinalityType, TreeAssumption DEF ShapeOK
    <3>4. seq' \in [Blocks -> Int]
      BY SMT, <3>1, <3>3 DEF ShapeOK, Numberings
    <3>5. ShapeOK'
      BY SMT, <2>1, <2>2, <3>1, <3>3, <3>4 DEF ShapeOK
    <3>6. LinkedOK'
      BY <2>1, <2>2, <3>1, <3>2 DEF LinkedOK, NotWorse
    <3> QED
      BY <2>3, <3>5, <3>6
  <2>5. CASE ~(b = Genesis \/ Parent[b] \in linked)
    <3>1. /\ linked' = linked \ {b}
          /\ unlinked' \subseteq unlinked \cup {b}
          /\ UNCHANGED <<seq, nextSeq, candidates>>
      BY <2>1, <2>5 DEF ReceivedBlockTransactions
    <3>2. linked' = linked
      BY SMT, <2>5, <3>1, Parents DEF LinkedOK
    <3>3. ShapeOK'
      BY <2>1, <2>2, <3>1 DEF ShapeOK
    <3>4. LinkedOK'
      BY <2>1, <2>2, <3>1, <3>2 DEF LinkedOK
    <3> QED
      BY <2>3, <3>3, <3>4
  <2> QED
    BY <2>4, <2>5
<1>2. CASE ~(Wanted(b, fRequested) /\ b \notin ContextBad)
  <2>1. /\ index' = index \cup {b} /\ dirty \subseteq dirty'
        /\ failedValid' \subseteq failedValid \cup {b}
        /\ UNCHANGED <<tx, data, linked, failedChild, seq, nextSeq, reverseSeq, candidates,
                       unlinked, tip, disk, mostWork>>
    BY <1>2 DEF ProcessNewBlock
  <2>2. ShapeOK'
    BY <2>1 DEF ShapeOK
  <2>3. LinkedOK'
    BY <2>1 DEF LinkedOK
  <2>4. StoredOK'
    BY <2>1 DEF StoredOK, DiskOrdered
  <2> QED
    BY <2>2, <2>3, <2>4
<1> QED
  BY <1>1, <1>2

\* What a round of ActivateBestChain does to the index, the candidates and the tip.
LEMMA RoundIs ==
    ASSUME ShapeOK, LinkedOK, NEW p \in Threads, ActivateBestChain(p)
    PROVE  /\ tip' \in linked
           /\ candidates' \subseteq candidates
           /\ failedValid' \in SUBSET Blocks /\ failedChild' \in SUBSET Blocks
           /\ mostWork' \in [Threads -> linked \cup {None}]
           /\ unlinked' \subseteq unlinked \cup linked
           /\ dirty \subseteq dirty'
           /\ UNCHANGED <<index, tx, data, linked, orderVars, disk>>
<1> DEFINE target == Target(p)
           find == mostWork[p] = None
           cands == IF find THEN candidates \ ErasedByFind ELSE candidates
<1>1. /\ failedChild' \subseteq failedChild \cup FailedByFind
      /\ unlinked' \subseteq unlinked \cup UnlinkedByFind
      /\ UNCHANGED <<index, tx, data, linked, orderVars, disk>>
  BY DEF ActivateBestChain
<1>2. failedChild' \in SUBSET Blocks /\ unlinked' \subseteq unlinked \cup linked
  BY <1>1, FindIs DEF ShapeOK, LinkedOK
<1>3. target \in linked \cup {None}
  BY TargetIs
<1>4. CASE target \in {None, tip}
  <2>1. /\ candidates' = cands
        /\ mostWork' = [mostWork EXCEPT ![p] = None]
        /\ UNCHANGED <<tip, failedValid, dirty>>
    BY <1>4 DEF ActivateBestChain
  <2> QED
    BY <1>1, <1>2, <2>1 DEF ShapeOK, LinkedOK
<1>5. CASE target \notin {None, tip}
  <2>1. ActivateBestChainStep(p, target, cands)
    BY <1>5 DEF ActivateBestChain
  <2>2. target \in linked /\ Chain[target] \subseteq linked /\ Chain[tip] \subseteq linked
    BY <1>3, <1>5 DEF LinkedOK
  <2> HIDE DEF target, cands
  <2>3. cands \subseteq candidates
    BY DEF cands
  <2>4. CASE Lost(target) # {}
    <3>1. Lost(target) \in SUBSET Blocks /\ Lost(target) \subseteq linked
      BY <2>2 DEF Lost, Leaving, ShapeOK, LinkedOK
    <3>2. Highest(Lost(target)) \in linked
      BY <2>4, <3>1, HighestIs
    <3>3. /\ tip' = Highest(Lost(target))
          /\ candidates' = cands
          /\ UNCHANGED <<failedValid, dirty, mostWork>>
      BY <2>1, <2>4 DEF ActivateBestChainStep
    <3> QED
      BY <1>1, <1>2, <2>3, <3>2, <3>3 DEF ShapeOK, LinkedOK
  <2>5. CASE Lost(target) = {}
    <3>1. Last(p, target) \in linked /\ NewTip(p, target) \in linked
      BY <2>2, StepEnds
    <3>2. /\ tip' = NewTip(p, target)
          /\ candidates' \subseteq cands
          /\ failedValid' \subseteq failedValid \cup {Last(p, target)}
          /\ dirty \subseteq dirty'
      BY <2>1, <2>5 DEF ActivateBestChainStep, NotWorse
    <3>3. \E t \in {None, target} : mostWork' = [mostWork EXCEPT ![p] = t]
      BY <2>1, <2>5 DEF ActivateBestChainStep, Cached
    <3>4. mostWork' \in [Threads -> linked \cup {None}]
      BY <2>2, <3>3 DEF LinkedOK
    <3> QED
      BY <1>1, <1>2, <2>3, <3>1, <3>2, <3>4 DEF ShapeOK, LinkedOK
  <2> QED
    BY <2>4, <2>5
<1> QED
  BY <1>4, <1>5

\* A flush, of any kind, writes the index and then the coins; a crash between the two
\* leaves the older best block.
LEMMA FlushHolds ==
    ASSUME IInv, NEW P, NEW full \in BOOLEAN,
           FlushStateToDisk(P, full) \/ CrashInFlush(P)
    PROVE  IInv'
<1> DEFINE r == IndexWritten(P, failedChild)
<1>1. r \in DiskType /\ r.tx = tx /\ r.tip = disk.tip
  BY WrittenIs DEF IInv, ShapeOK
<1>2. Chain[disk.tip] \subseteq tx /\ Chain[tip] \subseteq tx /\ tip \in Blocks
  BY DEF IInv, ShapeOK, LinkedOK, StoredOK, DiskOrdered
<1> HIDE DEF r
<1>3. CASE CrashInFlush(P)
  <2>1. Restart(r)
    BY <1>3 DEF CrashInFlush, r
  <2> QED
    BY <1>1, <1>2, <2>1, RestartHolds
<1>4. CASE FlushStateToDisk(P, full)
  <2>1. /\ data' = data \ P
        /\ unlinked' = unlinked \ P
        /\ dirty' = {}
        /\ disk' = [r EXCEPT !.tip = IF full THEN tip ELSE @]
        /\ UNCHANGED <<index, tx, linked, failedValid, failedChild, seq, nextSeq, reverseSeq,
                       candidates, tip, mostWork>>
    BY <1>4 DEF FlushStateToDisk, orderVars, threadVars, r
  <2>2. disk' \in DiskType /\ disk'.tx = tx /\ disk'.tip \in {tip, disk.tip}
    BY <1>1, <1>2, <2>1 DEF DiskType
  <2>3. ShapeOK'
    BY <2>1, <2>2 DEF IInv, ShapeOK
  <2>4. LinkedOK'
    BY <2>1 DEF IInv, LinkedOK
  <2>5. StoredOK'
    BY <1>2, <2>1, <2>2 DEF StoredOK, DiskOrdered
  <2> QED
    BY <2>3, <2>4, <2>5 DEF IInv
<1> QED
  BY <1>3, <1>4

\* A crash in the middle of a step leaves the coins at a block on the way, with the
\* index written before them.
LEMMA CrashInStepIs ==
    ASSUME IInv, NEW p \in Threads, CrashInStep(p)
    PROVE  \E x \in linked, child \in SUBSET Blocks :
              /\ x \in Chain[tip] \/ x \in Chain[NewTip(p, Target(p))] \cap Path(Target(p))
              /\ child \subseteq failedChild \cup FailedByFind
              /\ Target(p) \in linked
              /\ [IndexWritten({}, child) EXCEPT !.tip = x] \in DiskType
              /\ Restart([IndexWritten({}, child) EXCEPT !.tip = x])
<1> DEFINE target == Target(p)
           child == failedChild \cup (IF mostWork[p] = None THEN FailedByFind ELSE {})
<1>1. target \in linked
  BY TargetIs DEF CrashInStep, IInv
<1>2. PICK x \in {Parent[y] : y \in Leaving(target)} \cup (Path(target) \cap Chain[NewTip(p, target)]) :
         Restart([IndexWritten({}, child) EXCEPT !.tip = x])
  BY DEF CrashInStep
<1>3. child \in SUBSET Blocks /\ child \subseteq failedChild \cup FailedByFind
  BY FindIs DEF IInv, ShapeOK, LinkedOK
<1> HIDE DEF child, target
<1>4. Genesis \in Chain[target] /\ Chain[target] \subseteq linked
  BY <1>1, Chains DEF IInv, ShapeOK, LinkedOK, ChainOK
<1>5. Chain[tip] \subseteq linked /\ tip \in Blocks /\ ChainOK(tip)
  BY Chains DEF IInv, ShapeOK, LinkedOK
<1>6. ASSUME NEW y \in Leaving(target) PROVE Parent[y] \in Chain[tip]
  <2>1. y \in Chain[tip] /\ y \in Blocks /\ y # Genesis
    BY <1>4, <1>5 DEF Leaving, ChainOK
  <2> QED
    BY <1>5, <2>1, Parents DEF ChainOK
<1>7. /\ x \in linked
      /\ x \in Chain[tip] \/ x \in Chain[NewTip(p, target)] \cap Path(target)
  BY <1>2, <1>4, <1>5, <1>6 DEF Path
<1>8. IndexWritten({}, child) \in DiskType
  BY <1>3, WrittenIs DEF IInv
<1>9. [IndexWritten({}, child) EXCEPT !.tip = x] \in DiskType
  BY <1>7, <1>8 DEF DiskType, IInv, ShapeOK, LinkedOK
<1> QED
  BY <1>1, <1>2, <1>3, <1>7, <1>9 DEF child, target

\* Whatever the threads, the RPC commands, pruning and crashes do, a step keeps the
\* index and the disk consistent.
LEMMA StepHolds == IInv /\ [Next]_vars => IInv'
<1> SUFFICES ASSUME IInv, [Next]_vars PROVE IInv'
  OBVIOUS
<1>1. ASSUME NEW b \in Blocks, AcceptBlockHeader(b) PROVE IInv'
  BY <1>1 DEF AcceptBlockHeader, orderVars, threadVars, IInv, ShapeOK, LinkedOK, StoredOK, DiskOrdered
<1>2. ASSUME NEW p \in Threads, NEW b \in Blocks, NEW f \in BOOLEAN, ProcessNewBlock(p, b, f)
      PROVE  IInv'
  BY <1>2, ReceivedHolds
<1>3. ASSUME NEW p \in Threads, ActivateBestChain(p) PROVE IInv'
  <2>1. /\ tip' \in linked /\ candidates' \subseteq candidates
        /\ failedValid' \in SUBSET Blocks /\ failedChild' \in SUBSET Blocks
        /\ mostWork' \in [Threads -> linked \cup {None}]
        /\ unlinked' \subseteq unlinked \cup linked
        /\ dirty \subseteq dirty'
        /\ UNCHANGED <<index, tx, data, linked, seq, nextSeq, reverseSeq, disk>>
    BY <1>3, RoundIs DEF IInv, orderVars
  <2>2. ShapeOK'
    BY <2>1 DEF IInv, ShapeOK
  <2>3. LinkedOK'
    BY <2>1 DEF IInv, LinkedOK
  <2>4. StoredOK'
    BY <2>1 DEF IInv, StoredOK, DiskOrdered
  <2> QED
    BY <2>2, <2>3, <2>4 DEF IInv
<1>4. ASSUME NEW p \in Threads, CallActivate(p) PROVE IInv'
  BY <1>4 DEF CallActivate, indexVars, orderVars, IInv, ShapeOK, LinkedOK, StoredOK, DiskOrdered
<1>5. ASSUME NEW p \in Threads, CrashInStep(p) PROVE IInv'
  <2>1. PICK x \in linked, child \in SUBSET Blocks :
           /\ [IndexWritten({}, child) EXCEPT !.tip = x] \in DiskType
           /\ Restart([IndexWritten({}, child) EXCEPT !.tip = x])
    BY <1>5, CrashInStepIs
  <2>2. IndexWritten({}, child) \in DiskType /\ IndexWritten({}, child).tx = tx
    BY WrittenIs DEF IInv
  <2> DEFINE d == [IndexWritten({}, child) EXCEPT !.tip = x]
  <2>3. d.tx = tx /\ d.tip = x
    BY <2>2 DEF DiskType
  <2>4. Chain[d.tip] \subseteq d.tx
    BY <2>3 DEF IInv, LinkedOK
  <2> QED
    BY <2>1, <2>4, RestartHolds
<1>6. ASSUME NEW p \in Threads, NEW b \in Blocks, PreciousBlock(p, b) PROVE IInv'
  <2>1. /\ candidates' \subseteq candidates \cup linked
        /\ \E r \in {-1, reverseSeq} : seq' = [seq EXCEPT ![b] = r] /\ reverseSeq' = r - 1
        /\ UNCHANGED <<index, tx, data, linked, failedValid, failedChild, nextSeq, unlinked, tip,
                       dirty, disk, mostWork>>
    BY <1>6 DEF PreciousBlock, Preferred, Better, NotWorse, indexVars
  <2>2. ShapeOK'
    BY SMT, <2>1 DEF IInv, ShapeOK
  <2>3. LinkedOK' /\ StoredOK'
    BY <2>1 DEF IInv, LinkedOK, StoredOK, DiskOrdered
  <2> QED
    BY <2>2, <2>3 DEF IInv
<1>7. ASSUME NEW p \in Threads, NEW b \in Blocks, InvalidateBlock(p, b) PROVE IInv'
  <2> DEFINE lost == Walked(b) \ data
             back == IF Walked(b) = {} THEN tip ELSE IF lost = {} THEN Parent[b] ELSE Highest(lost)
  <2>1. b # Genesis /\ Walked(b) \subseteq Chain[tip] /\ (Walked(b) # {} => b \in Chain[tip])
    BY <1>7 DEF InvalidateBlock, Walked
  <2>2. Chain[tip] \subseteq linked /\ linked \subseteq Blocks
    BY DEF IInv, ShapeOK, LinkedOK
  <2>3. lost # {} => Highest(lost) \in lost
    BY <2>1, <2>2, HighestIs
  <2>4. back \in linked
    BY <2>1, <2>2, <2>3, Parents DEF IInv, LinkedOK
  <2>5. /\ tip' = back
        /\ failedValid' = failedValid \cup {b}
        /\ failedChild' \subseteq failedChild \cup Walked(b)
        /\ dirty \subseteq dirty'
        /\ candidates' \subseteq candidates \cup linked
        /\ UNCHANGED <<index, tx, data, linked, seq, nextSeq, reverseSeq, unlinked, disk, mostWork>>
    BY <1>7 DEF InvalidateBlock, Again, NotWorse, orderVars
  <2> HIDE DEF back
  <2>6. ShapeOK'
    BY <2>1, <2>2, <2>5 DEF IInv, ShapeOK
  <2>7. LinkedOK' /\ StoredOK'
    BY <2>4, <2>5 DEF IInv, LinkedOK, StoredOK, DiskOrdered
  <2> QED
    BY <2>6, <2>7 DEF IInv
<1>8. ASSUME NEW p \in Threads, NEW b \in Blocks, ResetBlockFailureFlags(p, b) PROVE IInv'
  <2>1. /\ failedValid' \subseteq failedValid /\ failedChild' \subseteq failedChild
        /\ dirty \subseteq dirty'
        /\ candidates' \subseteq candidates \cup linked
        /\ UNCHANGED <<index, tx, data, linked, seq, nextSeq, reverseSeq, unlinked, tip, disk,
                       mostWork>>
    BY <1>8 DEF ResetBlockFailureFlags, orderVars
  <2>2. ShapeOK'
    BY <2>1 DEF IInv, ShapeOK
  <2>3. LinkedOK' /\ StoredOK'
    BY <2>1 DEF IInv, LinkedOK, StoredOK, DiskOrdered
  <2> QED
    BY <2>2, <2>3 DEF IInv
<1>9. ASSUME NEW P \in PruneSets, NEW full \in BOOLEAN, FlushStateToDisk(P, full) PROVE IInv'
  BY <1>9, FlushHolds
<1>10. ASSUME NEW P \in PruneSets, CrashInFlush(P) PROVE IInv'
  BY <1>10, FlushHolds
<1>11. CASE Crash
  BY <1>11, RestartHolds DEF Crash, IInv, ShapeOK, StoredOK, DiskOrdered
<1>12. CASE UNCHANGED vars
  BY <1>12 DEF vars, indexVars, orderVars, threadVars, IInv, ShapeOK, LinkedOK, StoredOK, DiskOrdered
<1> QED
  BY <1>1, <1>2, <1>3, <1>4, <1>5, <1>6, <1>7, <1>8, <1>9, <1>10, <1>11, <1>12 DEF Next

\* FlushStateToDisk writes the index first: for any tree, any number of threads and all
\* the operations together, the best block of the coins on disk always has its whole
\* chain in the block index on disk.
THEOREM DiskAlwaysOrdered == Spec => []DiskOrdered
<1>1. IInv => DiskOrdered
  BY DEF IInv, StoredOK
<1> QED
  BY <1>1, InitHolds, StepHolds, PTL DEF Spec

-----------------------------------------------------------------------------
(* Marks and waiting blocks                                                *)

\* A mark has its cause in memory and on disk, and what is not dirty is on disk.
CauseOK ==
    /\ FailedHasCause
    /\ \A b \in disk.failedValid \cup disk.failedChild : Chain[b] \cap disk.failedValid # {}
    /\ disk.failedValid \subseteq failedValid
    /\ failedValid \ dirty \subseteq disk.failedValid

\* A block on disk that is not linked waits, unless it is above a failed one; no block
\* waits for the linking of a parent that is linked; and below a block that waits the
\* blocks on disk wait as well.
WaitOK ==
    /\ data \subseteq tx /\ disk.data \subseteq disk.tx
    /\ Genesis \notin unlinked
    /\ \A b \in data \ linked : Chain[b] \cap Failed = {} => b \in unlinked
    /\ \A b \in unlinked \ linked : Parent[b] \notin linked
    /\ \A b \in unlinked : Parent[b] \in data /\ Chain[b] \cap Failed = {} => Parent[b] \in unlinked

WInv == IInv /\ CauseOK /\ WaitOK

\* What FindMostWorkChain marks is above a block that failed; what it lets wait is above
\* one that is missing, with all the blocks between.
LEMMA FindMarks ==
    ASSUME IInv, CauseOK
    PROVE  /\ \A b \in FailedByFind : Chain[b] \cap failedValid # {}
           /\ Genesis \notin UnlinkedByFind
           /\ \A b \in UnlinkedByFind : Parent[b] \in data => Parent[b] \in UnlinkedByFind
<1>1. ASSUME NEW c \in Discarded, NEW b \in Above(c)
      PROVE  /\ Obstacle(c) \in Chain[b] /\ b # Genesis /\ b \in Blocks
             /\ Parent[b] = Obstacle(c) \/ Parent[b] \in Above(c)
             /\ Obstacle(c) \in Obstacles(c)
             /\ Chain[Obstacle(c)] \subseteq Chain[b]
  <2>1. c \in candidates /\ Obstacle(c) \in Obstacles(c)
    BY FindIs DEF IInv
  <2>2. c \in Blocks /\ tip \in Blocks /\ ChainOK(c) /\ ChainOK(tip)
    BY <2>1, Chains DEF IInv, ShapeOK, LinkedOK
  <2>3. /\ Obstacle(c) \in Chain[c] /\ Obstacle(c) \notin Chain[tip] /\ Obstacle(c) \in Blocks
        /\ b \in Chain[c] /\ b \notin Chain[tip] /\ b \in Blocks /\ b # Genesis
        /\ Work[b] > Work[Obstacle(c)]
    BY <2>1, <2>2 DEF Obstacles, Path, Above, ChainOK
  <2>4. ChainOK(b) /\ ChainOK(Obstacle(c)) /\ Work[b] \in Nat /\ Work[Obstacle(c)] \in Nat
    BY <2>3, Chains, TreeAssumption
  <2>5. b \notin Chain[Obstacle(c)] /\ b # Obstacle(c)
    BY SMT, <2>3, <2>4 DEF ChainOK
  <2>6. Obstacle(c) \in Chain[b]
    BY <2>2, <2>3, <2>5 DEF ChainOK
  <2>7. Parent[b] \in Blocks /\ Parent[b] \in Chain[b] /\ Chain[b] = {b} \cup Chain[Parent[b]]
    BY <2>3, Parents
  <2>8. Obstacle(c) \in Chain[Parent[b]] /\ Parent[b] \in Chain[c]
    BY <2>2, <2>3, <2>5, <2>6, <2>7 DEF ChainOK
  <2>9. Parent[b] \notin Chain[tip]
    BY <2>2, <2>3, <2>8 DEF ChainOK
  <2>10. Parent[b] # Obstacle(c) => Work[Parent[b]] > Work[Obstacle(c)]
    <3>1. ChainOK(Parent[b]) /\ Work[Parent[b]] \in Nat
      BY <2>7, Chains, TreeAssumption
    <3> QED
      BY <2>4, <2>8, <3>1 DEF ChainOK
  <2>11. Parent[b] # Obstacle(c) => Parent[b] \in Above(c)
    BY <2>8, <2>9, <2>10 DEF Above, Path
  <2> QED
    BY <2>1, <2>3, <2>4, <2>6, <2>11 DEF ChainOK
<1>2. \A b \in FailedByFind : Chain[b] \cap failedValid # {}
  <2> SUFFICES ASSUME NEW c \in Discarded, Obstacle(c) \in Failed, NEW b \in Above(c)
               PROVE  Chain[b] \cap failedValid # {}
    BY DEF FailedByFind
  <2>1. Chain[Obstacle(c)] \cap failedValid # {}
    BY DEF CauseOK, FailedHasCause
  <2> QED
    BY <1>1, <2>1
<1>3. ASSUME NEW b \in UnlinkedByFind
      PROVE  b # Genesis /\ (Parent[b] \in data => Parent[b] \in UnlinkedByFind)
  <2>1. PICK c \in Discarded : Obstacle(c) \notin Failed /\ b \in Above(c)
    BY DEF UnlinkedByFind
  <2>2. Obstacle(c) \notin data
    BY <1>1, <2>1 DEF Obstacles
  <2>3. Above(c) \subseteq UnlinkedByFind
    BY <2>1 DEF UnlinkedByFind
  <2> QED
    BY <1>1, <2>1, <2>2, <2>3
<1> QED
  BY <1>2, <1>3

\* The disk that a flush leaves, or a crash in one, has all the failed blocks that the
\* node knows of.
LEMMA WrittenCause ==
    ASSUME IInv, CauseOK, WaitOK, NEW P, NEW child \in SUBSET Blocks,
           \A b \in child : Chain[b] \cap failedValid # {}
    PROVE  /\ IndexWritten(P, child).failedValid = failedValid
           /\ \A b \in IndexWritten(P, child).failedChild : Chain[b] \cap failedValid # {}
           /\ IndexWritten(P, child).data \subseteq tx
<1> DEFINE d == dirty \cup P
           W(old, new) == (old \ d) \cup (new \cap d)
           r == IndexWritten(P, child)
<1>1. disk \in DiskType
  BY DEF IInv, ShapeOK
<1>2. r.failedValid = W(disk.failedValid, failedValid)
  BY <1>1 DEF IndexWritten, DiskType
<1>3. r.failedValid = failedValid
  BY <1>2 DEF CauseOK
<1>4. r.failedChild \subseteq disk.failedChild \cup child /\ r.data \subseteq disk.data \cup data
  BY WrittenIs DEF IInv
<1> HIDE DEF r
<1>5. \A b \in r.failedChild : Chain[b] \cap failedValid # {}
  BY <1>4 DEF CauseOK
<1>6. r.data \subseteq tx
  BY <1>4 DEF WaitOK, IInv, StoredOK
<1> QED
  BY <1>3, <1>5, <1>6 DEF r

\* LoadBlockIndexDB lets every block wait that it cannot link.
LEMMA RestartLinks ==
    ASSUME NEW d \in DiskType, Chain[d.tip] \subseteq d.tx, Restart(d), d.data \subseteq d.tx,
           \A b \in d.failedValid \cup d.failedChild : Chain[b] \cap d.failedValid # {}
    PROVE  WInv'
<1>1. IInv'
  BY RestartHolds
<1>2. /\ tx' = d.tx /\ data' = d.data /\ linked' = Joined(d) /\ unlinked' = d.tx \ Joined(d)
      /\ failedValid' = d.failedValid /\ failedChild' = d.failedChild /\ disk' = d /\ dirty' = {}
  BY DEF Restart
<1>3. CauseOK'
  BY <1>2 DEF CauseOK, FailedHasCause, Failed
<1>4. d.tip \in Blocks /\ Genesis \in Chain[d.tip] /\ Chain[Genesis] = {Genesis} /\ d.tx \subseteq Blocks
  BY Chains, TreeAssumption DEF DiskType, ChainOK
<1>5. Genesis \in Joined(d)
  BY <1>4 DEF Joined
<1>6. ASSUME NEW b \in d.tx \ Joined(d) PROVE Parent[b] \notin Joined(d)
  BY <1>4, <1>5, Parents DEF Joined
<1>7. WaitOK'
  BY <1>2, <1>5, <1>6 DEF WaitOK
<1> QED
  BY <1>1, <1>3, <1>7 DEF WInv

\* More marks and fewer blocks on disk let fewer blocks wait.
LEMMA WaitKept ==
    ASSUME WaitOK, data' \subseteq data, UNCHANGED <<tx, linked>>,
           disk'.data \subseteq disk'.tx, unlinked \cap data' \subseteq unlinked', unlinked' \subseteq unlinked,
           failedValid \subseteq failedValid', failedChild \subseteq failedChild'
    PROVE  WaitOK'
<1>1. Failed \subseteq Failed'
  BY DEF Failed
<1>2. ASSUME NEW b \in data' \ linked, Chain[b] \cap Failed' = {} PROVE b \in unlinked'
  BY <1>1, <1>2 DEF WaitOK
<1>3. ASSUME NEW b \in unlinked', Parent[b] \in data', Chain[b] \cap Failed' = {}
      PROVE  Parent[b] \in unlinked'
  BY <1>1, <1>3 DEF WaitOK
<1>4. /\ data' \subseteq tx' /\ disk'.data \subseteq disk'.tx /\ Genesis \notin unlinked'
      /\ \A b \in unlinked' \ linked : Parent[b] \notin linked
  BY DEF WaitOK
<1> QED
  BY <1>2, <1>3, <1>4 DEF WaitOK

\* A block that is newly marked invalid is its own cause, and dirty.
LEMMA CauseKept ==
    ASSUME CauseOK, ShapeOK', UNCHANGED disk, failedValid \subseteq failedValid',
           failedValid' \subseteq failedValid \cup dirty', dirty \subseteq dirty',
           \A b \in failedChild' : Chain[b] \cap failedValid' # {}
    PROVE  CauseOK'
<1>1. \A b \in failedValid' : b \in Chain[b]
  BY Chains DEF ShapeOK, ChainOK
<1>2. \A b \in Failed' : Chain[b] \cap failedValid' # {}
  BY <1>1 DEF Failed
<1> QED
  BY <1>2 DEF CauseOK, FailedHasCause

\* ReceivedBlockTransactions links every block that waited for b alone.
LEMMA LinksAbove ==
    ASSUME ShapeOK, LinkedOK, NEW b \in Blocks, NEW y \in unlinked, y # Genesis,
           Parent[y] \in JustLinked(b)
    PROVE  y \in JustLinked(b)
<1>1. /\ b \in Chain[Parent[y]] /\ Chain[Parent[y]] \ Chain[b] \subseteq unlinked
  BY DEF JustLinked
<1>2. y \in Blocks /\ Chain[y] = {y} \cup Chain[Parent[y]]
  BY Parents DEF ShapeOK, LinkedOK
<1> QED
  BY <1>1, <1>2 DEF JustLinked

\* A block that arrives is linked with those that waited for it, or waits itself.
LEMMA ReceivedLinks ==
    ASSUME WInv, NEW p \in Threads, NEW b \in Blocks, NEW fRequested \in BOOLEAN,
           ProcessNewBlock(p, b, fRequested), IInv'
    PROVE  WInv'
<1>1. /\ ShapeOK /\ LinkedOK /\ ShapeOK' /\ UNCHANGED <<failedChild, disk>>
  BY DEF ProcessNewBlock, WInv, IInv
<1>2. /\ failedValid \subseteq failedValid' /\ dirty \subseteq dirty'
      /\ failedValid' \subseteq failedValid \cup dirty'
  BY DEF ProcessNewBlock
<1>3. CauseOK'
  <2>1. \A x \in failedChild' : Chain[x] \cap failedValid' # {}
    BY <1>1, <1>2 DEF WInv, CauseOK, FailedHasCause, Failed
  <2> QED
    BY <1>1, <1>2, <2>1, CauseKept DEF WInv
<1>4. CASE Wanted(b, fRequested) /\ b \notin ContextBad
  <2>1. /\ ReceivedBlockTransactions(b) /\ Failed' = Failed /\ b \notin data
    BY <1>1, <1>4 DEF ProcessNewBlock, Failed, Wanted
  <2>2. tx' = tx \cup {b} /\ data' = data \cup {b}
    BY <2>1 DEF ReceivedBlockTransactions
  <2>3. data' \subseteq tx' /\ disk'.data \subseteq disk'.tx
    BY <1>1, <2>2 DEF WInv, WaitOK
  <2>4. CASE b = Genesis \/ Parent[b] \in linked
    <3> DEFINE L == JustLinked(b)
    <3>1. linked' = linked \cup L /\ unlinked' = unlinked \ (L \ {b})
      BY <2>1, <2>4 DEF ReceivedBlockTransactions
    <3>2. b \in L /\ L \subseteq unlinked \cup {b}
      BY Chains DEF JustLinked, ChainOK
    <3>3. \A y \in unlinked : y # Genesis /\ (Parent[y] \in L => y \in L)
      BY <1>1, LinksAbove DEF WInv, WaitOK
    <3>4. b # Genesis => Parent[b] \notin L
      <4> SUFFICES ASSUME b # Genesis, Parent[b] \in L PROVE FALSE
        OBVIOUS
      <4>1. b \in Chain[Parent[b]]
        BY DEF JustLinked
      <4>2. Parent[b] \in Blocks /\ Work[Parent[b]] < Work[b]
        BY Parents
      <4>3. Work[b] \in Nat /\ Work[Parent[b]] \in Nat /\ ChainOK(Parent[b])
        BY <4>2, Chains, TreeAssumption
      <4> QED
        BY SMT, <4>1, <4>2, <4>3 DEF ChainOK
    <3> HIDE DEF L
    <3>5. ASSUME NEW x \in data' \ linked', Chain[x] \cap Failed' = {} PROVE x \in unlinked'
      BY <2>1, <2>2, <3>1, <3>2, <3>5 DEF WInv, WaitOK
    <3>6. ASSUME NEW y \in unlinked' \ linked' PROVE Parent[y] \notin linked'
      BY <3>1, <3>2, <3>3 DEF WInv, WaitOK
    <3>7. ASSUME NEW y \in unlinked', Parent[y] \in data', Chain[y] \cap Failed' = {}
          PROVE  Parent[y] \in unlinked'
      <4>1. y \in unlinked /\ y # Genesis
        BY <3>1, <3>3
      <4>2. Parent[y] \notin L
        BY <3>1, <3>3, <3>4, <4>1
      <4>3. Parent[y] \in data
        BY <2>2, <3>2, <3>7, <4>2
      <4> QED
        BY <2>1, <3>1, <3>7, <4>1, <4>2, <4>3 DEF WInv, WaitOK
    <3>8. Genesis \notin unlinked'
      BY <3>1 DEF WInv, WaitOK
    <3> QED
      BY <1>3, <2>3, <3>5, <3>6, <3>7, <3>8 DEF WInv, WaitOK
  <2>5. CASE ~(b = Genesis \/ Parent[b] \in linked)
    <3>1. linked' = linked \ {b} /\ unlinked' = unlinked \cup {x \in {b} : Waits(x)}
      BY <2>1, <2>5 DEF ReceivedBlockTransactions
    <3>2. /\ Parent[b] \in Blocks /\ Parent[b] \in Chain[b] /\ Chain[b] = {b} \cup Chain[Parent[b]]
          /\ Parent[b] # b
      <4>1. /\ Parent[b] \in Blocks /\ Parent[b] \in Chain[b]
            /\ Chain[b] = {b} \cup Chain[Parent[b]] /\ Work[Parent[b]] < Work[b]
        BY <2>5, Parents
      <4>2. Work[b] \in Nat
        BY TreeAssumption
      <4> QED
        BY SMT, <4>1, <4>2
    <3>3. linked' = linked
      BY <2>5, <3>1, <3>2 DEF WInv, IInv, LinkedOK
    <3>4. Chain[b] \cap Failed = {} => b \in unlinked'
      BY <3>1, <3>2 DEF Waits
    <3>5. ASSUME NEW x \in data' \ linked', Chain[x] \cap Failed' = {} PROVE x \in unlinked'
      BY <2>1, <2>2, <3>1, <3>3, <3>4, <3>5 DEF WInv, WaitOK
    <3>6. ASSUME NEW y \in unlinked' \ linked' PROVE Parent[y] \notin linked'
      BY <2>5, <3>1, <3>3 DEF WInv, WaitOK
    <3>7. ASSUME NEW y \in unlinked', Parent[y] \in data', Chain[y] \cap Failed' = {}
          PROVE  Parent[y] \in unlinked'
      <4>1. CASE y = b
        BY <2>1, <2>2, <2>5, <3>1, <3>2, <3>7, <4>1 DEF WInv, WaitOK
      <4>2. CASE y # b
        <5>1. y \in unlinked /\ y \in Blocks /\ y # Genesis
          BY <1>1, <3>1, <4>2 DEF WInv, WaitOK, ShapeOK, LinkedOK
        <5>2. Chain[y] = {y} \cup Chain[Parent[y]]
          BY <5>1, Parents
        <5>3. CASE Parent[y] = b
          BY <2>1, <3>4, <3>7, <5>2, <5>3
        <5>4. CASE Parent[y] # b
          BY <2>1, <2>2, <3>1, <3>7, <5>1, <5>4 DEF WInv, WaitOK
        <5> QED
          BY <5>3, <5>4
      <4> QED
        BY <4>1, <4>2
    <3>8. Genesis \notin unlinked'
      BY <2>5, <3>1 DEF WInv, WaitOK
    <3> QED
      BY <1>3, <2>3, <3>5, <3>6, <3>7, <3>8 DEF WInv, WaitOK
  <2> QED
    BY <2>4, <2>5
<1>5. CASE ~(Wanted(b, fRequested) /\ b \notin ContextBad)
  <2>1. UNCHANGED <<tx, data, linked, unlinked>>
    BY <1>5 DEF ProcessNewBlock
  <2>2. WaitOK'
    BY <1>1, <1>2, <2>1, WaitKept DEF WInv, WaitOK
  <2> QED
    BY <1>3, <2>2 DEF WInv
<1> QED
  BY <1>4, <1>5

\* A round of ActivateBestChain marks blocks above a failed one, and lets the blocks
\* above a missing one wait.
LEMMA RoundLinks ==
    ASSUME WInv, NEW p \in Threads, ActivateBestChain(p), IInv'
    PROVE  WInv'
<1>1. /\ failedChild \subseteq failedChild' /\ failedChild' \subseteq failedChild \cup FailedByFind
      /\ unlinked' \in {unlinked, unlinked \cup UnlinkedByFind}
      /\ UNCHANGED <<tx, data, linked, disk>>
  BY DEF ActivateBestChain
<1>2. /\ failedValid \subseteq failedValid' /\ dirty \subseteq dirty'
      /\ failedValid' \subseteq failedValid \cup dirty'
  BY SMT DEF ActivateBestChain, ActivateBestChainStep
<1>3. /\ \A b \in FailedByFind : Chain[b] \cap failedValid # {}
      /\ Genesis \notin UnlinkedByFind /\ UnlinkedByFind \subseteq linked
      /\ \A b \in UnlinkedByFind : Parent[b] \in data => Parent[b] \in UnlinkedByFind
  BY FindMarks, FindIs DEF WInv, IInv
<1>4. CauseOK'
  <2>1. \A b \in failedChild' : Chain[b] \cap failedValid' # {}
    BY <1>1, <1>2, <1>3 DEF WInv, CauseOK, FailedHasCause, Failed
  <2> QED
    BY <1>1, <1>2, <2>1, CauseKept DEF WInv, IInv
<1>5. WaitOK'
  <2>1. Failed \subseteq Failed'
    BY <1>1, <1>2 DEF Failed
  <2>2. ASSUME NEW b \in data \ linked, Chain[b] \cap Failed' = {} PROVE b \in unlinked'
    BY <1>1, <2>1, <2>2 DEF WInv, WaitOK
  <2>3. ASSUME NEW b \in unlinked' \ linked PROVE Parent[b] \notin linked
    BY <1>1, <1>3 DEF WInv, WaitOK
  <2>4. ASSUME NEW b \in unlinked', Parent[b] \in data, Chain[b] \cap Failed' = {}
        PROVE  Parent[b] \in unlinked'
    BY <1>1, <1>3, <2>1, <2>4 DEF WInv, WaitOK
  <2>5. data \subseteq tx /\ disk.data \subseteq disk.tx /\ Genesis \notin unlinked'
    BY <1>1, <1>3 DEF WInv, WaitOK
  <2> QED
    BY <1>1, <2>2, <2>3, <2>4, <2>5 DEF WaitOK
<1> QED
  BY <1>4, <1>5 DEF WInv

\* The blocks that invalidateblock marks with b are above it.
LEMMA InvalidateLinks ==
    ASSUME WInv, NEW p \in Threads, NEW b \in Blocks, InvalidateBlock(p, b), IInv'
    PROVE  WInv'
<1>1. /\ failedValid' = failedValid \cup {b} /\ b # Genesis
      /\ failedChild \subseteq failedChild' /\ failedChild' \subseteq failedChild \cup Walked(b)
      /\ dirty \subseteq dirty' /\ b \in dirty'
      /\ UNCHANGED <<tx, data, linked, unlinked, disk>>
  BY DEF InvalidateBlock
<1>2. ASSUME NEW x \in Walked(b) PROVE b \in Chain[x]
  <2>1. x \in Chain[tip] /\ x \notin Chain[Parent[b]] /\ b \in Chain[tip]
    BY DEF Walked
  <2>2. ChainOK(tip) /\ ChainOK(b) /\ Chain[b] = {b} \cup Chain[Parent[b]]
    BY <1>1, Chains, Parents DEF WInv, IInv, ShapeOK, LinkedOK
  <2> QED
    BY <2>1, <2>2 DEF ChainOK
<1>3. CauseOK'
  <2>1. \A x \in failedChild' : Chain[x] \cap failedValid' # {}
    BY <1>1, <1>2 DEF WInv, CauseOK, FailedHasCause, Failed
  <2> QED
    BY <1>1, <2>1, CauseKept DEF WInv, IInv
<1>4. WaitOK'
  BY <1>1, WaitKept DEF WInv, WaitOK
<1> QED
  BY <1>3, <1>4 DEF WInv

\* A flush brings the marks on disk up to date; pruned blocks no longer wait.
LEMMA FlushLinks ==
    ASSUME WInv, NEW P, NEW full \in BOOLEAN,
           FlushStateToDisk(P, full) \/ CrashInFlush(P), IInv'
    PROVE  WInv'
<1> DEFINE r == IndexWritten(P, failedChild)
<1>1. /\ r \in DiskType /\ r.tx = tx /\ r.tip = disk.tip
  BY WrittenIs DEF WInv, IInv, ShapeOK
<1>2. \A b \in failedChild : Chain[b] \cap failedValid # {}
  BY DEF WInv, CauseOK, FailedHasCause, Failed
<1>3. /\ r.failedValid = failedValid /\ r.data \subseteq tx
      /\ \A b \in r.failedChild : Chain[b] \cap failedValid # {}
  BY <1>2, WrittenCause DEF WInv, IInv, ShapeOK
<1>4. \A b \in failedValid : Chain[b] \cap failedValid # {}
  BY DEF WInv, CauseOK, FailedHasCause, Failed
<1> HIDE DEF r
<1>5. CASE CrashInFlush(P)
  <2>1. Restart(r) /\ Chain[r.tip] \subseteq r.tx
    BY <1>1, <1>5 DEF CrashInFlush, r, WInv, IInv, StoredOK, DiskOrdered
  <2> QED
    BY <1>1, <1>3, <1>4, <2>1, RestartLinks
<1>6. CASE FlushStateToDisk(P, full)
  <2>1. /\ data' = data \ P /\ unlinked' = unlinked \ P /\ dirty' = {}
        /\ disk' = [r EXCEPT !.tip = IF full THEN tip ELSE @]
        /\ UNCHANGED <<tx, linked, failedValid, failedChild>>
    BY <1>6 DEF FlushStateToDisk, r
  <2>2. /\ disk'.tx = tx /\ disk'.data = r.data /\ disk'.failedValid = failedValid
        /\ disk'.failedChild = r.failedChild
    BY <1>1, <1>3, <2>1 DEF DiskType
  <2>3. CauseOK'
    BY <1>3, <1>4, <2>1, <2>2 DEF WInv, CauseOK, FailedHasCause, Failed
  <2>4. WaitOK'
    BY <1>3, <2>1, <2>2, WaitKept DEF WInv
  <2> QED
    BY <2>3, <2>4 DEF WInv
<1> QED
  BY <1>5, <1>6

\* Arrivals, rounds, invalidateblock, preciousblock, pruning, flushes and crashes keep
\* the marks and the waiting blocks in order.
LEMMA StepLinks ==
    ASSUME "reconsider" \notin Features
    PROVE  WInv /\ [Next]_vars => WInv'
<1> SUFFICES ASSUME WInv, [Next]_vars PROVE WInv'
  OBVIOUS
<1>0. IInv'
  BY StepHolds DEF WInv
<1>1. CASE /\ UNCHANGED <<tx, data, linked, unlinked, failedValid, failedChild, disk>>
           /\ dirty \subseteq dirty'
  <2>1. WaitOK'
    BY <1>1, WaitKept DEF WInv, WaitOK
  <2>2. CauseOK'
    BY <1>1 DEF WInv, CauseOK, FailedHasCause, Failed
  <2> QED
    BY <1>0, <2>1, <2>2 DEF WInv
<1>2. ASSUME NEW b \in Blocks, AcceptBlockHeader(b) PROVE WInv'
  BY <1>1, <1>2 DEF AcceptBlockHeader
<1>3. ASSUME NEW p \in Threads, NEW b \in Blocks, NEW f \in BOOLEAN, ProcessNewBlock(p, b, f)
      PROVE  WInv'
  BY <1>0, <1>3, ReceivedLinks
<1>4. ASSUME NEW p \in Threads, ActivateBestChain(p) PROVE WInv'
  BY <1>0, <1>4, RoundLinks
<1>5. ASSUME NEW p \in Threads, CallActivate(p) PROVE WInv'
  BY <1>1, <1>5 DEF CallActivate, indexVars
<1>6. ASSUME NEW p \in Threads, CrashInStep(p) PROVE WInv'
  <2>1. PICK x \in linked, child \in SUBSET Blocks :
           /\ child \subseteq failedChild \cup FailedByFind
           /\ [IndexWritten({}, child) EXCEPT !.tip = x] \in DiskType
           /\ Restart([IndexWritten({}, child) EXCEPT !.tip = x])
    BY <1>6, CrashInStepIs DEF WInv
  <2> DEFINE r == IndexWritten({}, child)
             d == [r EXCEPT !.tip = x]
  <2>2. \A b \in child : Chain[b] \cap failedValid # {}
    BY <2>1, FindMarks DEF WInv, CauseOK, FailedHasCause, Failed
  <2>3. r \in DiskType /\ r.tx = tx
    BY WrittenIs DEF WInv, IInv
  <2>4. /\ r.failedValid = failedValid /\ r.data \subseteq tx
        /\ \A b \in r.failedChild : Chain[b] \cap failedValid # {}
    BY <2>2, WrittenCause DEF WInv
  <2>5. d \in DiskType /\ Restart(d)
    BY <2>1
  <2> HIDE DEF r
  <2>6. /\ d.tx = tx /\ d.data = r.data /\ d.tip = x /\ d.failedValid = failedValid
        /\ d.failedChild = r.failedChild
    BY <2>3, <2>4 DEF DiskType
  <2>7. Chain[x] \subseteq tx /\ \A b \in failedValid : Chain[b] \cap failedValid # {}
    BY DEF WInv, IInv, LinkedOK, CauseOK, FailedHasCause, Failed
  <2> HIDE DEF d
  <2> QED
    BY <2>4, <2>5, <2>6, <2>7, RestartLinks
<1>7. ASSUME NEW p \in Threads, NEW b \in Blocks, PreciousBlock(p, b) PROVE WInv'
  BY <1>1, <1>7 DEF PreciousBlock, indexVars
<1>8. ASSUME NEW p \in Threads, NEW b \in Blocks, InvalidateBlock(p, b) PROVE WInv'
  BY <1>0, <1>8, InvalidateLinks
<1>9. ASSUME NEW p \in Threads, NEW b \in Blocks, ResetBlockFailureFlags(p, b) PROVE WInv'
  BY <1>9 DEF ResetBlockFailureFlags
<1>10. ASSUME NEW P \in PruneSets, NEW full \in BOOLEAN, FlushStateToDisk(P, full) \/ CrashInFlush(P)
       PROVE  WInv'
  BY <1>0, <1>10, FlushLinks
<1>11. CASE Crash
  BY <1>11, RestartLinks DEF Crash, WInv, IInv, ShapeOK, StoredOK, DiskOrdered, CauseOK, WaitOK
<1>12. CASE UNCHANGED vars
  BY <1>1, <1>12 DEF vars, indexVars
<1> QED
  BY <1>2, <1>3, <1>4, <1>5, <1>6, <1>7, <1>8, <1>9, <1>10, <1>11, <1>12 DEF Next

\* At the start nothing is marked and nothing waits.
LEMMA InitLinks == Init => WInv
<1> SUFFICES ASSUME Init PROVE WInv
  OBVIOUS
<1>1. CauseOK
  BY DEF Init, CauseOK, FailedHasCause, Failed
<1>2. WaitOK
  BY DEF Init, WaitOK
<1> QED
  BY <1>1, <1>2, InitHolds DEF WInv

\* CheckBlockIndex on the marks: without reconsiderblock, for any tree, any threads and
\* with pruning, crashes and the other RPC commands, a block is only marked as failed at
\* or above one that failed itself.
THEOREM FailuresHaveCause ==
    ASSUME "reconsider" \notin Features
    PROVE  Spec => []FailedHasCause
<1>1. WInv => FailedHasCause
  BY DEF WInv, CauseOK
<1>2. WInv /\ [Next]_vars => WInv'
  BY StepLinks
<1> QED
  BY <1>1, <1>2, InitLinks, PTL DEF Spec

\* A chain without a block that failed by itself has no marked block.
LEMMA ValidIsUnmarked ==
    ASSUME WInv, NEW b \in Blocks, Chain[b] \cap failedValid = {}
    PROVE  Chain[b] \cap Failed = {}
<1> SUFFICES ASSUME NEW x \in Chain[b], x \in Failed PROVE FALSE
  OBVIOUS
<1>1. Chain[x] \cap failedValid # {} /\ Chain[x] \subseteq Chain[b]
  BY Chains DEF WInv, CauseOK, FailedHasCause, ChainOK
<1> QED
  BY <1>1

\* A block is linked when its chain is on disk and none of it is marked.
LEMMA CompleteIsLinked ==
    ASSUME WInv, NEW b \in Blocks, Chain[b] \subseteq data \ Failed
    PROVE  b \in linked
<1>1. ChainOK(b) /\ Genesis \in linked
  BY Chains DEF WInv, IInv, ShapeOK, LinkedOK, ChainOK
<1> SUFFICES ASSUME b \notin linked PROVE FALSE
  OBVIOUS
<1>2. (Chain[b] \ linked) \in SUBSET Blocks /\ Chain[b] \ linked # {}
  BY <1>1 DEF ChainOK
<1>3. PICK x \in Chain[b] \ linked : \A y \in Chain[b] \ linked : Work[x] <= Work[y]
  BY <1>2, LeastWork
<1>4. x \in Blocks /\ x # Genesis /\ Chain[x] \subseteq Chain[b]
  BY <1>1, <1>2, <1>3 DEF ChainOK
<1>5. Parent[x] \in Chain[b] /\ Work[Parent[x]] < Work[x] /\ Parent[x] \in Blocks
  BY <1>4, Parents
<1>6. Work[x] \in Nat /\ Work[Parent[x]] \in Nat
  BY <1>4, <1>5, TreeAssumption
<1>7. Parent[x] \in linked
  BY SMT, <1>3, <1>5, <1>6
<1> QED
  BY <1>3, <1>4, <1>7 DEF WInv, WaitOK

\* nChainTx: under the same conditions only blocks with a received chain are linked, and
\* every block is whose chain is on disk and valid, however often parts of it were
\* pruned, fetched again and reloaded.
THEOREM LinkedAreReceived ==
    ASSUME "reconsider" \notin Features
    PROVE  Spec => []LinkedMeansReceived
<1>1. WInv => LinkedMeansReceived
  BY CompleteIsLinked DEF WInv, IInv, ShapeOK, LinkedOK, LinkedMeansReceived
<1>2. WInv /\ [Next]_vars => WInv'
  BY StepLinks
<1> QED
  BY <1>1, <1>2, InitLinks, PTL DEF Spec

\* CheckBlockIndex on mapBlocksUnlinked: under the same conditions a block on disk that
\* misses an ancestor waits, and a valid block that waits misses one.
THEOREM UnlinkedIsComplete ==
    ASSUME "reconsider" \notin Features
    PROVE  Spec => []UnlinkedComplete
<1>1. WInv => UnlinkedComplete
  <2> SUFFICES ASSUME WInv PROVE UnlinkedComplete
    OBVIOUS
  <2>1. \A b \in Blocks : Chain[b] \cap failedValid = {} => Chain[b] \cap Failed = {}
    BY ValidIsUnmarked
  <2>2. data \subseteq Blocks /\ unlinked \subseteq Blocks
    BY DEF WInv, IInv, ShapeOK, LinkedOK
  <2>3. ASSUME NEW b \in data, ~(Chain[b] \subseteq tx), Chain[b] \cap failedValid = {}
        PROVE  b \in unlinked
    BY <2>1, <2>2, <2>3 DEF WInv, IInv, LinkedOK, WaitOK
  <2>4. ASSUME NEW b \in unlinked, Chain[b] \cap failedValid = {}, Chain[b] \subseteq data
        PROVE  FALSE
    <3>1. ChainOK(b) /\ Chain[b] \cap Failed = {}
      BY <2>1, <2>2, <2>4, Chains
    <3>2. (Chain[b] \cap unlinked) \in SUBSET Blocks /\ Chain[b] \cap unlinked # {}
      BY <3>1 DEF ChainOK
    <3>3. PICK x \in Chain[b] \cap unlinked : \A y \in Chain[b] \cap unlinked : Work[x] <= Work[y]
      BY <3>2, LeastWork
    <3>4. x \in Blocks /\ x # Genesis /\ Chain[x] \subseteq Chain[b]
      BY <3>1, <3>2, <3>3 DEF ChainOK, WInv, WaitOK
    <3>5. Parent[x] \in Chain[b] /\ Work[Parent[x]] < Work[x] /\ Parent[x] \in Blocks
      BY <3>4, Parents
    <3>6. Work[x] \in Nat /\ Work[Parent[x]] \in Nat
      BY <3>4, <3>5, TreeAssumption
    <3>7. Parent[x] \in unlinked
      BY <2>4, <3>1, <3>3, <3>4, <3>5 DEF WInv, WaitOK
    <3> QED
      BY SMT, <3>3, <3>5, <3>6, <3>7
  <2> QED
    BY <2>3, <2>4 DEF UnlinkedComplete
<1>2. WInv /\ [Next]_vars => WInv'
  BY StepLinks
<1> QED
  BY <1>1, <1>2, InitLinks, PTL DEF Spec
==============================================================================
