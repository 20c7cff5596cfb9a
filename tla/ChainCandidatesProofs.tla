------------------------ MODULE ChainCandidatesProofs ------------------------
(***************************************************************************)
(* The choice of the active chain, for any finite tree of blocks.          *)
(*                                                                         *)
(* While nothing is pruned, with any invalid and damaged blocks: with any  *)
(* number of threads, while nobody overrules the choice, no assertion on   *)
(* the candidates fails, and no better valid block is forgotten; with one  *)
(* thread, which may also invalidate blocks, or make blocks precious and   *)
(* crash, the active chain is the best one when ActivateBestChain has      *)
(* returned, and the candidates are exactly the blocks that could replace  *)
(* the tip.  With pruning and crashes, one thread and no block that cannot *)
(* be connected: no better block is forgotten, and the ones that miss an   *)
(* ancestor wait for it.                                                   *)
(***************************************************************************)
EXTENDS ChainStateProofs

\* Nearly all leaves are first-order; the ones with arithmetic cite SMT.
USE Zenon

\* b can be connected, and b can fail.
Sound(b) == Chain[b] \cap ConnectBad = {}
Blamed(b) == Chain[b] \cap (ConnectBad \cup ContextBad) # {}

\* While nothing is pruned, what was received is on disk, only blocks that are not
\* linked wait, and neither the tip nor the coins on disk are above a block that cannot be
\* connected.
CleanOK ==
    /\ data = tx /\ disk.data = disk.tx
    /\ tx \cap ContextBad = {}
    /\ unlinked \cap linked = {}
    /\ Sound(tip) /\ Sound(disk.tip)

\* While no RPC command invalidates a block, only blocks above a bad one are marked.
BlamedOK ==
    /\ \A b \in Failed : Blamed(b)
    /\ \A b \in disk.failedValid \cup disk.failedChild : Blamed(b)

\* The same of a disk from which the index is loaded.
CleanDisk(d) ==
    /\ d \in DiskType /\ Chain[d.tip] \subseteq d.tx
    /\ d.data = d.tx /\ d.tx \cap ContextBad = {} /\ Sound(d.tip)
BlamedDisk(d) == \A b \in d.failedValid \cup d.failedChild : Blamed(b)

-----------------------------------------------------------------------------
(* Received blocks, marks and the disk                                     *)

\* A sound block whose chain was received is not marked, and neither are its ancestors.
LEMMA SoundNotFailed ==
    ASSUME NEW t, NEW b \in Blocks, Chain[b] \subseteq t, t \cap ContextBad = {}, Sound(b),
           NEW x \in Chain[b]
    PROVE  ~Blamed(x)
  BY Chains DEF Sound, Blamed, ChainOK

\* FindMostWorkChain only meets obstacles that are marked, so that it erases and marks
\* blocks at or above a marked one, and lets nothing wait.
LEMMA FindErases ==
    ASSUME IInv, CleanOK
    PROVE  /\ UnlinkedByFind = {}
           /\ ErasedByFind \subseteq Failed \cup FailedByFind
           /\ \A b \in FailedByFind \cup ErasedByFind : b \in Blocks /\ Chain[b] \cap Failed # {}
<1>1. ASSUME NEW c \in Discarded
      PROVE  /\ Obstacle(c) \in Failed
             /\ \A x \in Above(c) \cup {Obstacle(c)} : x \in Blocks /\ Obstacle(c) \in Chain[x]
  <2>1. c \in candidates /\ Obstacle(c) \in Obstacles(c) /\ Above(c) \subseteq Chain[c]
    BY FindIs DEF IInv
  <2>2. c \in Blocks /\ Chain[c] \subseteq linked /\ ChainOK(c)
    BY <2>1, Chains DEF IInv, ShapeOK, LinkedOK
  <2>3. Obstacle(c) \in Failed /\ Obstacle(c) \in Chain[c] /\ Obstacle(c) \in Blocks
    BY <2>1, <2>2 DEF Obstacles, Path, CleanOK, IInv, LinkedOK, ChainOK
  <2>4. Obstacle(c) \in Chain[Obstacle(c)]
    BY <2>3, Chains DEF ChainOK
  <2>5. ASSUME NEW x \in Above(c) PROVE x \in Blocks /\ Obstacle(c) \in Chain[x]
    <3>1. x \in Chain[c] /\ Work[x] > Work[Obstacle(c)]
      BY <2>1 DEF Above
    <3>2. x \in Blocks /\ Work[x] \in Nat /\ Work[Obstacle(c)] \in Nat
      BY <2>2, <2>3, <3>1, TreeAssumption DEF ChainOK
    <3>3. x \notin Chain[Obstacle(c)]
      BY SMT, <2>3, <3>1, <3>2, Chains DEF ChainOK
    <3> QED
      BY <2>2, <2>3, <3>1, <3>2, <3>3 DEF ChainOK
  <2> QED
    BY <2>3, <2>4, <2>5
<1>2. UnlinkedByFind = {}
  BY <1>1 DEF UnlinkedByFind
<1>3. ErasedByFind \subseteq Failed \cup FailedByFind
  BY <1>1 DEF ErasedByFind, FailedByFind
<1>4. \A b \in FailedByFind \cup ErasedByFind : b \in Blocks /\ Chain[b] \cap Failed # {}
  BY <1>1 DEF ErasedByFind, FailedByFind
<1> QED
  BY <1>2, <1>3, <1>4

\* What it erases and marks is above a bad block, when that is so of what was marked.
LEMMA FindKeepsSound ==
    ASSUME IInv, CleanOK, BlamedOK
    PROVE  /\ \A b \in FailedByFind : Blamed(b)
           /\ \A c \in candidates \cap ErasedByFind : ~Sound(c)
<1>1. ASSUME NEW b \in FailedByFind \cup ErasedByFind PROVE Blamed(b)
  <2>1. b \in Blocks /\ Chain[b] \cap Failed # {}
    BY FindErases
  <2>2. PICK x \in Chain[b] : x \in Failed
    BY <2>1
  <2>3. Blamed(x) /\ Chain[x] \subseteq Chain[b]
    BY <2>1, <2>2, Chains DEF BlamedOK, ChainOK
  <2> QED
    BY <2>3 DEF Blamed
<1>2. ASSUME NEW c \in candidates \cap ErasedByFind PROVE ~Sound(c)
  <2>1. Chain[c] \subseteq tx /\ Blamed(c)
    BY <1>1 DEF IInv, LinkedOK
  <2> QED
    BY <2>1 DEF Blamed, Sound, CleanOK
<1> QED
  BY <1>1, <1>2

\* The block at which a step ends is sound, and it refuses only bad or damaged blocks.
LEMMA StepEndsSound ==
    ASSUME IInv, CleanOK, NEW p \in Threads, NEW target \in linked
    PROVE  /\ Lost(target) = {}
           /\ NewTip(p, target) \in linked /\ Last(p, target) \in linked
           /\ Sound(NewTip(p, target))
<1>1. Chain[target] \subseteq linked /\ Chain[tip] \subseteq linked /\ linked \subseteq data
  BY DEF IInv, LinkedOK, CleanOK
<1>2. Lost(target) = {}
  BY <1>1 DEF Lost, Leaving
<1>3. /\ Last(p, target) \in Chain[target] /\ NewTip(p, target) \in Chain[target]
      /\ Chain[NewTip(p, target)] \cap Refused(p, target) = {}
  BY StepEnds DEF IInv
<1>4. Chain[NewTip(p, target)] \subseteq Chain[target]
  BY <1>3, Chains DEF IInv, ShapeOK, LinkedOK, ChainOK
<1>5. Sound(NewTip(p, target))
  BY <1>3, <1>4 DEF CleanOK, Sound, Refused, Path
<1> QED
  BY <1>1, <1>2, <1>3, <1>5

\* A flush writes what was received.
LEMMA CleanWritten ==
    ASSUME IInv, CleanOK, NEW child \in SUBSET Blocks
    PROVE  /\ IndexWritten({}, child) \in DiskType
           /\ IndexWritten({}, child).tx = tx /\ IndexWritten({}, child).data = tx
           /\ IndexWritten({}, child).tip = disk.tip
           /\ BlamedOK /\ (\A b \in child : Blamed(b)) =>
                 \A b \in IndexWritten({}, child).failedValid \cup IndexWritten({}, child).failedChild :
                    Blamed(b)
<1> DEFINE r == IndexWritten({}, child)
<1>1. /\ r \in DiskType /\ r.tx = tx /\ r.data = tx /\ r.tip = disk.tip
      /\ r.failedValid \subseteq disk.failedValid \cup failedValid
      /\ r.failedChild \subseteq disk.failedChild \cup child
  <2>1. ShapeOK /\ StoredOK /\ data = tx /\ disk.data = disk.tx
    BY DEF IInv, CleanOK
  <2> QED
    BY SMT, <2>1, WrittenIs
<1> HIDE DEF r
<1>2. BlamedOK /\ (\A b \in child : Blamed(b)) => \A b \in r.failedValid \cup r.failedChild : Blamed(b)
  BY <1>1 DEF BlamedOK, Failed
<1> QED
  BY <1>1, <1>2 DEF r

\* So does a crash, wherever it comes; the coins are left at a sound block.
LEMMA CrashLeaves ==
    ASSUME "prune" \notin Features, IInv, CleanOK,
           \/ Crash
           \/ \E P \in PruneSets : CrashInFlush(P)
           \/ \E p \in Threads : CrashInStep(p)
    PROVE  \E d \in DiskType : CleanDisk(d) /\ Restart(d) /\ (BlamedOK => BlamedDisk(d))
<1>1. CASE Crash
  <2>1. disk \in DiskType /\ Chain[disk.tip] \subseteq disk.tx /\ disk.tx \subseteq tx
    BY DEF IInv, ShapeOK, StoredOK, DiskOrdered
  <2>2. CleanDisk(disk) /\ (BlamedOK => BlamedDisk(disk))
    BY <2>1 DEF CleanDisk, BlamedDisk, CleanOK, BlamedOK
  <2> QED
    BY <1>1, <2>1, <2>2 DEF Crash
<1>2. ASSUME NEW P \in PruneSets, CrashInFlush(P)
      PROVE  \E d \in DiskType : CleanDisk(d) /\ Restart(d) /\ (BlamedOK => BlamedDisk(d))
  <2> DEFINE r == IndexWritten({}, failedChild)
  <2>1. Restart(r)
    BY <1>2 DEF CrashInFlush, PruneSets
  <2>2. /\ r \in DiskType /\ r.tx = tx /\ r.data = tx /\ r.tip = disk.tip
        /\ BlamedOK /\ (\A b \in failedChild : Blamed(b)) =>
             \A b \in r.failedValid \cup r.failedChild : Blamed(b)
    BY CleanWritten DEF IInv, ShapeOK
  <2> HIDE DEF r
  <2>3. BlamedOK => \A b \in failedChild : Blamed(b)
    BY DEF BlamedOK, Failed
  <2>4. Chain[disk.tip] \subseteq tx
    BY DEF IInv, StoredOK, DiskOrdered
  <2>5. CleanDisk(r)
    BY <2>2, <2>4 DEF CleanDisk, CleanOK
  <2>6. BlamedOK => BlamedDisk(r)
    BY <2>2, <2>3 DEF BlamedDisk
  <2> QED
    BY <2>1, <2>2, <2>5, <2>6
<1>3. ASSUME NEW p \in Threads, CrashInStep(p)
      PROVE  \E d \in DiskType : CleanDisk(d) /\ Restart(d) /\ (BlamedOK => BlamedDisk(d))
  <2>1. PICK x \in linked, child \in SUBSET Blocks :
           /\ x \in Chain[tip] \/ x \in Chain[NewTip(p, Target(p))] \cap Path(Target(p))
           /\ child \subseteq failedChild \cup FailedByFind
           /\ Target(p) \in linked
           /\ [IndexWritten({}, child) EXCEPT !.tip = x] \in DiskType
           /\ Restart([IndexWritten({}, child) EXCEPT !.tip = x])
    BY <1>3, CrashInStepIs
  <2> DEFINE r == IndexWritten({}, child)
             d == [r EXCEPT !.tip = x]
  <2>2. /\ r \in DiskType /\ r.tx = tx /\ r.data = tx
        /\ BlamedOK /\ (\A b \in child : Blamed(b)) =>
             \A b \in r.failedValid \cup r.failedChild : Blamed(b)
    BY CleanWritten
  <2>3. d \in DiskType /\ Restart(d)
    BY <2>1
  <2> HIDE DEF r
  <2>4. /\ d.tx = tx /\ d.data = tx /\ d.tip = x
        /\ d.failedValid = r.failedValid /\ d.failedChild = r.failedChild
    BY <2>2 DEF DiskType
  <2>5. BlamedOK => \A b \in child : Blamed(b)
    BY <2>1, FindKeepsSound DEF BlamedOK, Failed
  <2>6. Sound(x)
    <3>1. Sound(tip) /\ Sound(NewTip(p, Target(p))) /\ NewTip(p, Target(p)) \in linked /\ tip \in linked
      BY <2>1, StepEndsSound DEF CleanOK, IInv, LinkedOK
    <3>2. \A t \in linked : x \in Chain[t] => Chain[x] \subseteq Chain[t]
      BY Chains DEF IInv, ShapeOK, LinkedOK, ChainOK
    <3> QED
      BY <2>1, <3>1, <3>2 DEF Sound
  <2>7. Chain[x] \subseteq tx /\ tx \cap ContextBad = {}
    BY DEF IInv, LinkedOK, CleanOK
  <2> HIDE DEF d
  <2>8. CleanDisk(d)
    BY <2>3, <2>4, <2>6, <2>7 DEF CleanDisk
  <2>9. BlamedOK => BlamedDisk(d)
    BY <2>2, <2>4, <2>5 DEF BlamedDisk
  <2> QED
    BY <2>3, <2>8, <2>9
<1> QED
  BY <1>1, <1>2, <1>3

\* What a round leaves of the index.
LEMMA RoundClean ==
    ASSUME IInv, CleanOK, NEW p \in Threads, ActivateBestChain(p)
    PROVE  /\ CleanOK'
           /\ unlinked' \subseteq unlinked
           /\ failedChild' \subseteq failedChild \cup FailedByFind
           /\ failedValid' \subseteq failedValid \cup (ConnectBad \cap linked)
<1> DEFINE target == Target(p)
<1>1. /\ failedChild' \subseteq failedChild \cup FailedByFind
      /\ unlinked' \subseteq unlinked \cup UnlinkedByFind
      /\ UNCHANGED <<tx, data, linked, seq, disk>>
  BY DEF ActivateBestChain, orderVars
<1>2. unlinked' \subseteq unlinked
  BY <1>1, FindErases
<1>3. target \in linked \cup {None}
  BY TargetIs DEF IInv
<1>4. Sound(tip') /\ failedValid' \subseteq failedValid \cup (ConnectBad \cap linked)
  <2>1. CASE target \in {None, tip}
    BY <2>1 DEF ActivateBestChain, CleanOK
  <2>2. CASE target \notin {None, tip}
    <3>1. PICK cands : ActivateBestChainStep(p, target, cands)
      BY <2>2 DEF ActivateBestChain
    <3>2. /\ Lost(target) = {} /\ Sound(NewTip(p, target)) /\ Last(p, target) \in linked
      BY <1>3, <2>2, StepEndsSound
    <3> HIDE DEF target
    <3>3. tip' = NewTip(p, target)
      BY <3>1, <3>2 DEF ActivateBestChainStep
    <3>4. failedValid' \subseteq failedValid \cup (ConnectBad \cap {Last(p, target)})
      BY <3>1, <3>2 DEF ActivateBestChainStep
    <3> QED
      BY <3>2, <3>3, <3>4
  <2> QED
    BY <2>1, <2>2
<1>5. CleanOK'
  BY <1>1, <1>2, <1>4 DEF CleanOK, Sound
<1> QED
  BY <1>1, <1>2, <1>4, <1>5

\* What a flush leaves on disk.
LEMMA FlushClean ==
    ASSUME "prune" \notin Features, IInv, CleanOK, NEW P \in PruneSets, NEW full \in BOOLEAN,
           FlushStateToDisk(P, full)
    PROVE  /\ CleanOK'
           /\ UNCHANGED <<tx, data, linked, failedValid, failedChild, seq, candidates, unlinked, tip,
                          threadVars, failure>>
           /\ BlamedOK => BlamedDisk(disk')
<1> DEFINE r == IndexWritten({}, failedChild)
<1>1. P = {}
  BY DEF PruneSets
<1>2. /\ r \in DiskType /\ r.tx = tx /\ r.data = tx /\ r.tip = disk.tip
      /\ BlamedOK /\ (\A b \in failedChild : Blamed(b)) =>
           \A b \in r.failedValid \cup r.failedChild : Blamed(b)
  BY CleanWritten DEF IInv, ShapeOK
<1>3. /\ disk' = [r EXCEPT !.tip = IF full THEN tip ELSE @]
      /\ UNCHANGED <<tx, data, linked, failedValid, failedChild, seq, candidates, unlinked, tip,
                     threadVars, failure>>
  BY <1>1 DEF FlushStateToDisk, orderVars
<1> HIDE DEF r
<1>4. /\ disk'.data = tx /\ disk'.tx = tx /\ disk'.tip \in {tip, disk.tip}
      /\ disk'.failedValid = r.failedValid /\ disk'.failedChild = r.failedChild
  BY <1>2, <1>3 DEF DiskType
<1>5. CleanOK'
  BY <1>3, <1>4 DEF CleanOK, Sound
<1>6. BlamedOK => \A b \in failedChild : Blamed(b)
  BY DEF BlamedOK, Failed
<1>7. BlamedOK => BlamedDisk(disk')
  BY <1>2, <1>4, <1>6 DEF BlamedDisk
<1> QED
  BY <1>3, <1>5, <1>7

\* Arrivals, rounds, the RPC commands, flushes and crashes keep the index clean.
LEMMA CleanStep ==
    ASSUME "prune" \notin Features
    PROVE  IInv /\ CleanOK /\ [Next]_vars => CleanOK'
<1> SUFFICES ASSUME IInv, CleanOK, [Next]_vars PROVE CleanOK'
  OBVIOUS
<1>1. CASE UNCHANGED <<tx, data, linked, unlinked, tip, disk>>
  BY <1>1 DEF CleanOK, Sound
<1>2. ASSUME NEW b \in Blocks, AcceptBlockHeader(b) PROVE CleanOK'
  BY <1>1, <1>2 DEF AcceptBlockHeader
<1>3. ASSUME NEW p \in Threads, NEW b \in Blocks, NEW f \in BOOLEAN, ProcessNewBlock(p, b, f)
      PROVE  CleanOK'
  <2>1. UNCHANGED <<tip, disk>>
    BY <1>3 DEF ProcessNewBlock
  <2>2. CASE Wanted(b, f) /\ b \notin ContextBad
    <3>1. ReceivedBlockTransactions(b)
      BY <1>3, <2>2 DEF ProcessNewBlock
    <3>2. tx' = tx \cup {b} /\ data' = data \cup {b}
      BY <3>1 DEF ReceivedBlockTransactions
    <3>3. b \notin tx /\ b \notin linked /\ b \notin unlinked
      BY <2>2 DEF Wanted, CleanOK, IInv, LinkedOK
    <3>4. unlinked' \cap linked' = {}
      <4>1. CASE b = Genesis \/ Parent[b] \in linked
        BY SMT, <3>1, <3>3, <4>1 DEF ReceivedBlockTransactions, JustLinked, CleanOK
      <4>2. CASE ~(b = Genesis \/ Parent[b] \in linked)
        BY <3>1, <3>3, <4>2 DEF ReceivedBlockTransactions, CleanOK
      <4> QED
        BY <4>1, <4>2
    <3> QED
      BY <2>1, <2>2, <3>2, <3>4 DEF CleanOK, Sound
  <2>3. CASE ~(Wanted(b, f) /\ b \notin ContextBad)
    BY <1>1, <1>3, <2>1, <2>3 DEF ProcessNewBlock
  <2> QED
    BY <2>2, <2>3
<1>4. ASSUME NEW p \in Threads, ActivateBestChain(p) PROVE CleanOK'
  BY <1>4, RoundClean
<1>5. ASSUME NEW p \in Threads, CallActivate(p) PROVE CleanOK'
  BY <1>1, <1>5 DEF CallActivate, indexVars
<1>6. ASSUME NEW d \in DiskType, CleanDisk(d), Restart(d) PROVE CleanOK'
  <2>1. /\ tx' = d.tx /\ data' = d.data /\ linked' = Joined(d) /\ tip' = d.tip /\ disk' = d
        /\ unlinked' = d.tx \ Joined(d)
    BY <1>6 DEF Restart
  <2> QED
    BY <1>6, <2>1 DEF CleanDisk, CleanOK, Sound
<1>7. CASE \/ Crash
           \/ \E P \in PruneSets : CrashInFlush(P)
           \/ \E p \in Threads : CrashInStep(p)
  BY <1>6, <1>7, CrashLeaves
<1>8. ASSUME NEW p \in Threads, NEW b \in Blocks, PreciousBlock(p, b) PROVE CleanOK'
  BY <1>1, <1>8 DEF PreciousBlock, indexVars
<1>9. ASSUME NEW p \in Threads, NEW b \in Blocks, InvalidateBlock(p, b) PROVE CleanOK'
  <2>1. Walked(b) \subseteq Chain[tip] /\ Chain[tip] \subseteq data /\ b # Genesis /\ ChainOK(tip)
    BY <1>9, Chains DEF InvalidateBlock, Walked, IInv, ShapeOK, LinkedOK, CleanOK
  <2>2. Walked(b) \ data = {}
    BY <2>1
  <2>3. tip' = tip \/ (tip' = Parent[b] /\ b \in Chain[tip])
    BY <1>9, <2>2 DEF InvalidateBlock, Walked
  <2>4. tip' = Parent[b] /\ b \in Chain[tip] => Chain[tip'] \subseteq Chain[tip]
    BY <2>1, Parents DEF ChainOK
  <2>5. Sound(tip')
    BY <2>3, <2>4 DEF CleanOK, Sound
  <2>6. UNCHANGED <<tx, data, linked, unlinked, disk>>
    BY <1>9 DEF InvalidateBlock
  <2> QED
    BY <2>5, <2>6 DEF CleanOK, Sound
<1>10. ASSUME NEW p \in Threads, NEW b \in Blocks, ResetBlockFailureFlags(p, b) PROVE CleanOK'
  BY <1>1, <1>10 DEF ResetBlockFailureFlags
<1>11. ASSUME NEW P \in PruneSets, NEW full \in BOOLEAN, FlushStateToDisk(P, full) PROVE CleanOK'
  BY <1>11, FlushClean
<1>12. CASE UNCHANGED vars
  BY <1>1, <1>12 DEF vars, indexVars
<1> QED
  BY <1>2, <1>3, <1>4, <1>5, <1>7, <1>8, <1>9, <1>10, <1>11, <1>12 DEF Next

\* Without invalidateblock, only ConnectBlock, ContextualCheckBlock and
\* FindMostWorkChain mark blocks, and reconsiderblock clears marks.
LEMMA BlamedStep ==
    ASSUME Features \cap {"prune", "invalidate"} = {}
    PROVE  IInv /\ CleanOK /\ BlamedOK /\ [Next]_vars => BlamedOK'
<1> SUFFICES ASSUME IInv, CleanOK, BlamedOK, [Next]_vars PROVE BlamedOK'
  OBVIOUS
<1>0. "prune" \notin Features /\ \A b \in Blocks : b \in Chain[b]
  BY Chains DEF ChainOK
<1>1. CASE /\ UNCHANGED disk /\ failedChild' \subseteq failedChild \cup FailedByFind
           /\ failedValid' \subseteq failedValid \cup (Blocks \cap (ConnectBad \cup ContextBad))
  BY <1>0, <1>1, FindKeepsSound DEF BlamedOK, Failed, Blamed
<1>2. ASSUME NEW b \in Blocks, AcceptBlockHeader(b) PROVE BlamedOK'
  BY <1>1, <1>2 DEF AcceptBlockHeader
<1>3. ASSUME NEW p \in Threads, NEW b \in Blocks, NEW f \in BOOLEAN, ProcessNewBlock(p, b, f)
      PROVE  BlamedOK'
  BY <1>1, <1>3 DEF ProcessNewBlock
<1>4. ASSUME NEW p \in Threads, ActivateBestChain(p) PROVE BlamedOK'
  <2>1. UNCHANGED disk /\ linked \subseteq Blocks
    BY <1>4 DEF ActivateBestChain, IInv, ShapeOK, LinkedOK
  <2> QED
    BY <1>1, <1>4, <2>1, RoundClean
<1>5. ASSUME NEW p \in Threads, CallActivate(p) PROVE BlamedOK'
  BY <1>1, <1>5 DEF CallActivate, indexVars
<1>6. ASSUME NEW d \in DiskType, BlamedDisk(d), Restart(d) PROVE BlamedOK'
  <2>1. failedValid' = d.failedValid /\ failedChild' = d.failedChild /\ disk' = d
    BY <1>6 DEF Restart
  <2> QED
    BY <1>6, <2>1 DEF BlamedDisk, BlamedOK, Failed, Blamed
<1>7. CASE \/ Crash
           \/ \E P \in PruneSets : CrashInFlush(P)
           \/ \E p \in Threads : CrashInStep(p)
  BY <1>0, <1>6, <1>7, CrashLeaves
<1>8. ASSUME NEW p \in Threads, NEW b \in Blocks, PreciousBlock(p, b) PROVE BlamedOK'
  BY <1>1, <1>8 DEF PreciousBlock, indexVars
<1>9. ASSUME NEW p \in Threads, NEW b \in Blocks, InvalidateBlock(p, b) PROVE BlamedOK'
  BY <1>9 DEF InvalidateBlock
<1>10. ASSUME NEW p \in Threads, NEW b \in Blocks, ResetBlockFailureFlags(p, b) PROVE BlamedOK'
  BY <1>1, <1>10 DEF ResetBlockFailureFlags
<1>11. ASSUME NEW P \in PruneSets, NEW full \in BOOLEAN, FlushStateToDisk(P, full) PROVE BlamedOK'
  <2>1. BlamedDisk(disk') /\ UNCHANGED <<failedValid, failedChild>>
    BY <1>0, <1>11, FlushClean
  <2> QED
    BY <2>1 DEF BlamedDisk, BlamedOK, Failed, Blamed
<1>12. CASE UNCHANGED vars
  BY <1>1, <1>12 DEF vars, indexVars
<1> QED
  BY <1>2, <1>3, <1>4, <1>5, <1>7, <1>8, <1>9, <1>10, <1>11, <1>12 DEF Next

-----------------------------------------------------------------------------
(* Any number of threads, while nobody overrules the choice of the chain   *)

\* The blocks are judged by ConnectBlock and ContextualCheckBlock alone.
Undisturbed == Features \cap {"invalidate", "precious", "prune"} = {}

\* No sound linked block is better than all the sound candidates.
CoveredOK ==
    /\ failure = "none"
    /\ \A b \in linked : Sound(b) => \E c \in candidates : Sound(c) /\ ~Less(c, b)

JInv == IInv /\ CleanOK /\ BlamedOK /\ CoveredOK

\* The blocks are as well covered by what the next state holds.
LEMMA CoveredNext ==
    ASSUME failure' = "none",
           \A b \in linked' : Sound(b) => \E c \in candidates' : Sound(c) /\ ~LessBy(seq', c, b)
    PROVE  CoveredOK'
  BY DEF CoveredOK, Less, Sound

\* More candidates cover as much.
LEMMA CoveredStays ==
    ASSUME CoveredOK, UNCHANGED <<linked, seq, failure>>, candidates \subseteq candidates'
    PROVE  CoveredOK'
<1>1. failure' = "none" /\ linked' = linked /\ seq' = seq
  BY DEF CoveredOK
<1>2. \A b \in linked : Sound(b) => \E c \in candidates : Sound(c) /\ ~LessBy(seq, c, b)
  BY DEF CoveredOK, Less
<1>3. \A b \in linked' : Sound(b) => \E c \in candidates' : Sound(c) /\ ~LessBy(seq', c, b)
  BY <1>1, <1>2
<1> QED
  BY <1>1, <1>3, CoveredNext

\* Every block of the candidates that PruneBlockIndexCandidates deletes for a sound new
\* tip is worse than one that it keeps.
LEMMA NotWorseCovers ==
    ASSUME IInv, NEW cands \in SUBSET linked, NEW new \in linked, Sound(new),
           \A b \in linked : Sound(b) => \E c \in cands : Sound(c) /\ ~Less(c, b)
    PROVE  \A b \in linked : Sound(b) => \E c \in NotWorse(cands, seq, new) : Sound(c) /\ ~Less(c, b)
<1> SUFFICES ASSUME NEW b \in linked, Sound(b)
             PROVE  \E c \in NotWorse(cands, seq, new) : Sound(c) /\ ~Less(c, b)
  OBVIOUS
<1>1. linked \subseteq Blocks /\ seq \in [Blocks -> Int]
  BY DEF IInv, ShapeOK, LinkedOK
<1>2. PICK c \in cands : Sound(c) /\ ~LessBy(seq, c, b)
  BY DEF Less
<1>3. PICK k \in cands : Sound(k) /\ ~LessBy(seq, k, new)
  BY DEF Less
<1>4. CASE ~LessBy(seq, c, new)
  BY <1>2, <1>4 DEF NotWorse, Less
<1>5. CASE LessBy(seq, c, new)
  <2>1. c \in Blocks /\ k \in Blocks /\ new \in Blocks /\ b \in Blocks
    BY <1>1, <1>2, <1>3
  <2>2. ~LessBy(seq, new, c)
    BY <1>1, <1>5, <2>1, OrderFacts
  <2>3. ~LessBy(seq, k, c)
    BY <1>1, <1>3, <2>1, <2>2, OrderFacts
  <2>4. ~LessBy(seq, k, b)
    BY <1>1, <1>2, <2>1, <2>3, OrderFacts
  <2> QED
    BY <1>3, <2>4 DEF NotWorse, Less
<1> QED
  BY <1>4, <1>5

\* LoadBlockIndexDB makes every sound block that is not worse than the tip a candidate,
\* the tip among them.
LEMMA RestartCovers ==
    ASSUME NEW d \in DiskType, CleanDisk(d), BlamedDisk(d), Restart(d)
    PROVE  CoveredOK'
<1> DEFINE zero == [b \in Blocks |-> 0]
           joined == Joined(d)
           usable == joined \ (d.failedValid \cup d.failedChild)
           kept == NotWorse(usable, zero, d.tip)
<1>1. /\ Chain[d.tip] \subseteq d.tx /\ d.tx \cap ContextBad = {} /\ Sound(d.tip)
      /\ \A b \in d.failedValid \cup d.failedChild : Blamed(b)
  BY DEF CleanDisk, BlamedDisk
<1>2. /\ linked' = joined /\ seq' = zero /\ candidates' = kept
      /\ failure' = IF kept = {} THEN "assert" ELSE "none"
  BY DEF Restart
<1>4. d.tip \in Blocks /\ d.tip \in joined /\ joined \subseteq Blocks
  BY <1>1, Chains DEF DiskType, Joined, ChainOK
<1>5. \A b \in joined : Sound(b) => b \in usable
  <2> SUFFICES ASSUME NEW b \in joined, Sound(b), b \in d.failedValid \cup d.failedChild
               PROVE  FALSE
    OBVIOUS
  <2>1. b \in Chain[b] /\ Chain[b] \subseteq d.tx
    BY <1>4, Chains DEF Joined, ChainOK
  <2>2. ~Blamed(b)
    BY <1>1, <1>4, <2>1, SoundNotFailed
  <2> QED
    BY <1>1, <2>2
<1>6. zero \in [Blocks -> Int]
  BY SMT
<1> HIDE DEF zero, joined, usable
<1>7. d.tip \in kept
  BY <1>1, <1>4, <1>5, <1>6, OrderFacts DEF NotWorse
<1>8. ASSUME NEW b \in joined, Sound(b) PROVE \E c \in kept : Sound(c) /\ ~LessBy(zero, c, b)
  <2>1. CASE LessBy(zero, b, d.tip)
    <3>1. ~LessBy(zero, d.tip, b)
      BY <1>4, <1>6, <2>1, OrderFacts
    <3> QED
      BY <1>1, <1>7, <3>1
  <2>2. CASE ~LessBy(zero, b, d.tip)
    <3>1. b \in kept
      BY <1>5, <1>8, <2>2 DEF NotWorse
    <3>2. ~LessBy(zero, b, b)
      BY <1>4, <1>6, OrderFacts
    <3> QED
      BY <1>8, <3>1, <3>2
  <2> QED
    BY <2>1, <2>2
<1> HIDE DEF kept
<1> QED
  BY <1>2, <1>7, <1>8, CoveredNext

\* A block that arrives was never linked before, so that the sequence numbers of the
\* others, and with them the order of the others, stay.
LEMMA ReceivedOrder ==
    ASSUME IInv, IInv', CleanOK, NEW b \in Blocks, NEW fRequested \in BOOLEAN,
           Wanted(b, fRequested), ReceivedBlockTransactions(b)
    PROVE  /\ linked \subseteq linked'
           /\ \A x, y \in linked : LessBy(seq', x, y) <=> LessBy(seq, x, y)
           /\ candidates' = candidates \cup NotWorse(linked' \ linked, seq', tip)
<1>1. b \notin tx /\ b \notin linked /\ b \notin unlinked /\ linked \subseteq Blocks
  BY DEF Wanted, CleanOK, IInv, ShapeOK, LinkedOK
<1>2. CASE b = Genesis \/ Parent[b] \in linked
  <2> DEFINE L == JustLinked(b)
  <2>1. /\ \E s \in Numberings(L) : seq' = [x \in Blocks |-> IF x \in L THEN s[x] ELSE seq[x]]
        /\ linked' = linked \cup L
        /\ candidates' = candidates \cup NotWorse(L, seq', tip)
    BY <1>2 DEF ReceivedBlockTransactions
  <2>2. L \subseteq unlinked \cup {b}
    BY DEF JustLinked
  <2> HIDE DEF L
  <2>3. L \cap linked = {}
    BY <1>1, <2>2 DEF CleanOK
  <2>4. linked' \ linked = L /\ \A x \in linked : seq'[x] = seq[x]
    BY <1>1, <2>1, <2>3
  <2>5. \A x, y \in linked : LessBy(seq', x, y) <=> LessBy(seq, x, y)
    BY <2>4 DEF LessBy
  <2> QED
    BY <2>1, <2>4, <2>5
<1>3. CASE ~(b = Genesis \/ Parent[b] \in linked)
  <2>1. linked' = linked /\ UNCHANGED <<seq, candidates>>
    BY <1>1, <1>3 DEF ReceivedBlockTransactions
  <2> QED
    BY <2>1 DEF NotWorse, LessBy
<1> QED
  BY <1>2, <1>3

\* It becomes a candidate unless it is worse than the tip.
LEMMA ReceivedCovers ==
    ASSUME IInv, IInv', CleanOK, CoveredOK, NEW p \in Threads, NEW b \in Blocks,
           NEW fRequested \in BOOLEAN, ProcessNewBlock(p, b, fRequested)
    PROVE  CoveredOK'
<1>1. UNCHANGED <<tip, failure>>
  BY DEF ProcessNewBlock
<1>2. CASE Wanted(b, fRequested) /\ b \notin ContextBad
  <2>1. /\ linked \subseteq linked'
        /\ \A x, y \in linked : LessBy(seq', x, y) <=> LessBy(seq, x, y)
        /\ candidates' = candidates \cup NotWorse(linked' \ linked, seq', tip)
    BY <1>2, ReceivedOrder DEF ProcessNewBlock
  <2>2. /\ seq' \in [Blocks -> Int] /\ linked' \subseteq Blocks /\ linked \subseteq Blocks
        /\ candidates \subseteq linked /\ tip \in linked
    BY DEF IInv, ShapeOK, LinkedOK
  <2>3. ASSUME NEW x \in linked, Sound(x) PROVE \E c \in candidates : Sound(c) /\ ~LessBy(seq', c, x)
    BY <2>1, <2>2, <2>3 DEF CoveredOK, Less
  <2>4. ASSUME NEW x \in linked' \ linked, Sound(x)
        PROVE  \E c \in candidates' : Sound(c) /\ ~LessBy(seq', c, x)
    <3>1. x \in Blocks /\ tip \in Blocks
      BY <2>2
    <3>2. CASE ~LessBy(seq', x, tip)
      <4>1. x \in candidates'
        BY <2>1, <3>2 DEF NotWorse
      <4>2. ~LessBy(seq', x, x)
        BY <2>2, <3>1, OrderFacts
      <4> QED
        BY <2>4, <4>1, <4>2
    <3>3. CASE LessBy(seq', x, tip)
      <4>1. PICK c \in candidates : Sound(c) /\ ~LessBy(seq', c, tip)
        BY <2>2, <2>3 DEF CleanOK
      <4>2. ~LessBy(seq', tip, x)
        BY <2>2, <3>1, <3>3, OrderFacts
      <4>3. ~LessBy(seq', c, x)
        BY <2>2, <3>1, <4>1, <4>2, OrderFacts
      <4> QED
        BY <2>1, <4>1, <4>3
    <3> QED
      BY <3>2, <3>3
  <2>5. failure' = "none"
    BY <1>1 DEF CoveredOK
  <2>6. \A x \in linked' : Sound(x) => \E c \in candidates' : Sound(c) /\ ~LessBy(seq', c, x)
    BY <2>1, <2>3, <2>4
  <2> QED
    BY <2>5, <2>6, CoveredNext
<1>3. CASE ~(Wanted(b, fRequested) /\ b \notin ContextBad)
  <2>1. UNCHANGED <<linked, seq, candidates>>
    BY <1>3 DEF ProcessNewBlock
  <2> QED
    BY <1>1, <2>1, CoveredStays
<1> QED
  BY <1>2, <1>3

\* A round of ActivateBestChain, towards a fresh or an old target, leaves a sound
\* candidate as good as any sound block.
LEMMA RoundCovers ==
    ASSUME IInv, CleanOK, BlamedOK, CoveredOK, NEW p \in Threads, ActivateBestChain(p)
    PROVE  CoveredOK'
<1> DEFINE target == Target(p)
           find == mostWork[p] = None
           cands == IF find THEN candidates \ ErasedByFind ELSE candidates
<1>1. UNCHANGED <<linked, seq>>
  BY DEF ActivateBestChain, orderVars
<1>2. \A b \in linked : Sound(b) => \E c \in cands : Sound(c) /\ ~Less(c, b)
  BY FindKeepsSound DEF CoveredOK
<1>3. target \in linked \cup {None}
  BY TargetIs DEF IInv
<1>4. CASE target \in {None, tip}
  <2>1. candidates' = cands /\ UNCHANGED failure
    BY <1>4 DEF ActivateBestChain
  <2>2. failure' = "none"
    BY <2>1 DEF CoveredOK
  <2>3. \A b \in linked : Sound(b) => \E c \in candidates' : Sound(c) /\ ~LessBy(seq, c, b)
    BY <1>2, <2>1 DEF Less
  <2> QED
    BY <1>1, <2>2, <2>3, CoveredNext
<1>5. CASE target \notin {None, tip}
  <2>1. ActivateBestChainStep(p, target, cands) /\ target \in linked
    BY <1>3, <1>5 DEF ActivateBestChain
  <2>2. cands \in SUBSET linked
    BY DEF IInv, LinkedOK
  <2> HIDE DEF target, cands
  <2> DEFINE last == Last(p, target)
             new == NewTip(p, target)
             refused == last \in Refused(p, target)
             invalid == refused /\ last \in data
             marked == IF invalid /\ last \in ConnectBad THEN {last} ELSE {}
             pruned == IF new \in Path(target) THEN NotWorse(cands, seq, new) ELSE cands
  <2>3. Lost(target) = {} /\ new \in linked /\ last \in linked /\ Sound(new)
    BY <2>1, StepEndsSound
  <2>4. /\ candidates' = pruned \ marked
        /\ failure' = IF new \in Path(target) /\ pruned = {} THEN "assert"
                      ELSE IF refused /\ ~invalid THEN "abort" ELSE "none"
    BY SMT, <2>1, <2>3 DEF ActivateBestChainStep
  <2>5. last \in Blocks /\ last \in Chain[last] /\ last \in data
    BY <2>3, Chains DEF IInv, ShapeOK, LinkedOK, CleanOK, ChainOK
  <2>6. \A b \in marked : ~Sound(b)
    BY <2>5 DEF Sound
  <2>7. \A b \in linked : Sound(b) => \E c \in pruned : Sound(c) /\ ~Less(c, b)
    <3>1. \A b \in linked : Sound(b) => \E c \in NotWorse(cands, seq, new) : Sound(c) /\ ~Less(c, b)
      BY <1>2, <2>2, <2>3, NotWorseCovers DEF cands
    <3> QED
      BY <1>2, <3>1 DEF cands
  <2>8. pruned # {}
    BY <2>3, <2>7
  <2> HIDE DEF marked, pruned, new, last
  <2>9. failure' = "none"
    BY <2>4, <2>5, <2>8
  <2>10. \A b \in linked : Sound(b) => \E c \in candidates' : Sound(c) /\ ~LessBy(seq, c, b)
    BY <2>4, <2>6, <2>7 DEF Less
  <2> QED
    BY <1>1, <2>9, <2>10, CoveredNext
<1> QED
  BY <1>4, <1>5

\* The genesis block is sound, and the only candidate.
LEMMA InitClean == Init => CleanOK /\ BlamedOK
<1>1. Chain[Genesis] = {Genesis} /\ Genesis \notin ConnectBad \cup ContextBad
  BY TreeAssumption, ValidityAssumption
<1> QED
  BY SMT, <1>1 DEF Init, CleanOK, BlamedOK, Failed, Sound

\* So the sound blocks are covered at the start.
LEMMA InitCovers == Init => JInv
<1> SUFFICES ASSUME Init PROVE JInv
  OBVIOUS
<1>1. IInv /\ CleanOK /\ BlamedOK
  BY InitHolds, InitClean
<1>2. ~Less(Genesis, Genesis) /\ Sound(Genesis)
  <2>1. seq \in [Blocks -> Int] /\ Genesis \in Blocks /\ tip = Genesis
    BY <1>1, TreeAssumption DEF IInv, ShapeOK, Init
  <2> QED
    BY <1>1, <2>1, OrderFacts DEF Less, CleanOK
<1>3. CoveredOK
  BY <1>2 DEF Init, CoveredOK
<1> QED
  BY <1>1, <1>3 DEF JInv

\* Arrivals, rounds of several threads, reconsiderblock, flushes and crashes keep the
\* sound blocks covered.
LEMMA StepCovers ==
    ASSUME Undisturbed
    PROVE  JInv /\ [Next]_vars => JInv'
<1> SUFFICES ASSUME JInv, [Next]_vars PROVE JInv'
  OBVIOUS
<1>1. IInv /\ CleanOK /\ BlamedOK /\ CoveredOK
  BY DEF JInv
<1>2. "prune" \notin Features /\ Features \cap {"prune", "invalidate"} = {}
  BY DEF Undisturbed
<1>3. IInv' /\ CleanOK' /\ BlamedOK'
  BY <1>1, <1>2, StepHolds, CleanStep, BlamedStep
<1> SUFFICES CoveredOK'
  BY <1>3 DEF JInv
<1>4. CASE UNCHANGED <<linked, seq, failure>> /\ candidates \subseteq candidates'
  BY <1>1, <1>4, CoveredStays
<1>5. ASSUME NEW b \in Blocks, AcceptBlockHeader(b) PROVE CoveredOK'
  BY <1>4, <1>5 DEF AcceptBlockHeader, orderVars
<1>6. ASSUME NEW p \in Threads, NEW b \in Blocks, NEW f \in BOOLEAN, ProcessNewBlock(p, b, f)
      PROVE  CoveredOK'
  BY <1>1, <1>3, <1>6, ReceivedCovers
<1>7. ASSUME NEW p \in Threads, ActivateBestChain(p) PROVE CoveredOK'
  BY <1>1, <1>7, RoundCovers
<1>8. ASSUME NEW p \in Threads, CallActivate(p) PROVE CoveredOK'
  BY <1>4, <1>8 DEF CallActivate, indexVars, orderVars
<1>9. CASE \/ Crash
           \/ \E P \in PruneSets : CrashInFlush(P)
           \/ \E p \in Threads : CrashInStep(p)
  BY <1>1, <1>2, <1>9, CrashLeaves, RestartCovers
<1>10. ASSUME NEW p \in Threads, NEW b \in Blocks, PreciousBlock(p, b) \/ InvalidateBlock(p, b)
       PROVE  CoveredOK'
  BY <1>10 DEF PreciousBlock, InvalidateBlock, Undisturbed
<1>11. ASSUME NEW p \in Threads, NEW b \in Blocks, ResetBlockFailureFlags(p, b) PROVE CoveredOK'
  BY <1>4, <1>11 DEF ResetBlockFailureFlags, orderVars
<1>12. ASSUME NEW P \in PruneSets, NEW full \in BOOLEAN, FlushStateToDisk(P, full) PROVE CoveredOK'
  BY <1>4, <1>12 DEF FlushStateToDisk, orderVars
<1>13. CASE UNCHANGED vars
  BY <1>4, <1>13 DEF vars, indexVars, orderVars
<1> QED
  BY <1>5, <1>6, <1>7, <1>8, <1>9, <1>10, <1>11, <1>12, <1>13 DEF Next

\* For any tree, any bad or damaged blocks and any number of threads, with
\* reconsiderblock, flushes and crashes anywhere: the assertions of
\* PruneBlockIndexCandidates and FindMostWorkChain hold, although threads go on towards
\* targets that are no longer the best.
THEOREM AssertsHold ==
    ASSUME Undisturbed
    PROVE  Spec => []NoAssertFails
<1>1. JInv => NoAssertFails
  BY DEF JInv, IInv, LinkedOK, CoveredOK, NoAssertFails
<1>2. JInv /\ [Next]_vars => JInv'
  BY StepCovers
<1> QED
  BY <1>1, <1>2, InitCovers, PTL DEF Spec

\* Under the same conditions the active chain is linked and no block of it is marked as
\* failed, between the rounds of several threads and after every crash.
THEOREM ActiveChainIsValid ==
    ASSUME Undisturbed
    PROVE  Spec => []ActiveChainValid
<1>1. JInv => ActiveChainValid
  <2> SUFFICES ASSUME JInv, NEW x \in Chain[tip] PROVE x \in linked \ Failed
    BY DEF ActiveChainValid
  <2>1. /\ tip \in Blocks /\ Chain[tip] \subseteq linked /\ linked \subseteq tx
        /\ tx \cap ContextBad = {} /\ Sound(tip)
    BY DEF JInv, IInv, ShapeOK, LinkedOK, CleanOK
  <2>2. ~Blamed(x)
    BY <2>1, SoundNotFailed
  <2> QED
    BY <2>1, <2>2 DEF JInv, BlamedOK
<1>2. JInv /\ [Next]_vars => JInv'
  BY StepCovers
<1> QED
  BY <1>1, <1>2, InitCovers, PTL DEF Spec

\* Under the same conditions setBlockIndexCandidates always holds a block that can be
\* connected and has as much work as any valid linked block that is better than the tip.
THEOREM NothingForgotten ==
    ASSUME Undisturbed
    PROVE  Spec => []NothingBetterForgotten
<1>1. JInv => NothingBetterForgotten
  <2> SUFFICES ASSUME JInv, NEW b \in linked, Sound(b)
               PROVE  \E c \in Usable : Work[c] >= Work[b]
    BY DEF NothingBetterForgotten, Sound
  <2>1. PICK c \in candidates : Sound(c) /\ ~LessBy(seq, c, b)
    BY DEF JInv, CoveredOK, Less
  <2>2. /\ b \in Blocks /\ c \in Blocks /\ seq \in [Blocks -> Int]
        /\ Chain[c] \subseteq tx /\ data = tx /\ tx \cap ContextBad = {}
    BY DEF JInv, IInv, ShapeOK, LinkedOK, CleanOK
  <2>3. Work[c] >= Work[b]
    BY <2>1, <2>2, OrderFacts
  <2>4. \A x \in Chain[c] : ~Blamed(x)
    BY <2>1, <2>2, SoundNotFailed
  <2>5. Obstacles(c) = {}
    BY <2>2, <2>4 DEF Obstacles, Path, JInv, BlamedOK
  <2> QED
    BY <2>3, <2>5 DEF Usable
<1>2. JInv /\ [Next]_vars => JInv'
  BY StepCovers
<1> QED
  BY <1>1, <1>2, InitCovers, PTL DEF Spec

-----------------------------------------------------------------------------
(* One thread, with invalidateblock or with preciousblock and crashes      *)

\* One thread calls into validation, and what it may do beside delivering blocks.
OneThread == \E p : Threads = {p}
Settled == Features \subseteq {"invalidate"} \/ Features \subseteq {"precious", "crash"}

\* Nothing on the chain of b is marked; and no such linked block is better than t.
Open(b) == Chain[b] \cap Failed = {}
Best(t) == \A b \in linked : Open(b) => ~Less(t, b)

\* t is a candidate that can be connected, and so is every open block that is as good.
Anchor(t) ==
    /\ t \in candidates /\ Open(t) /\ Sound(t)
    /\ \A b \in linked : Open(b) /\ ~Less(b, t) => b \in candidates

\* The candidates hold the open blocks from some block on, and nothing worse than the tip.
ChoiceOK ==
    /\ failure = "none"
    /\ Open(tip)
    /\ \A c \in candidates : ~Less(c, tip)
    /\ \E t \in candidates : Anchor(t)

\* A target that is kept between two rounds is the best block; so is the tip when the
\* loop has ended.
RoundsOK ==
    /\ pc \in [Threads -> {"idle", "activate"}]
    /\ \A p \in Threads :
          /\ mostWork[p] # None => Open(mostWork[p]) /\ Best(mostWork[p])
          /\ pc[p] = "idle" => mostWork[p] = None /\ Best(tip)

\* The number that preciousblock gives next is smaller than those of the open blocks with
\* as much work as the tip had then, and some sound block still has that work.
PreciousOK ==
    /\ nextSeq \in Nat /\ reverseSeq < 0 /\ lastPrecious \in Nat
    /\ \E s \in linked : Sound(s) /\ Work[s] >= lastPrecious
    /\ \A x \in linked : Open(x) =>
          /\ Work[x] > lastPrecious => seq[x] >= 0
          /\ Work[x] = lastPrecious => seq[x] > reverseSeq

BInv ==
    /\ IInv /\ CleanOK /\ ChoiceOK /\ RoundsOK
    /\ "invalidate" \notin Features => BlamedOK /\ PreciousOK

\* Two blocks neither of which is less are the same: addresses differ.
LEMMA OrderLinear ==
    ASSUME NEW s \in [Blocks -> Int], NEW a \in Blocks, NEW b \in Blocks,
           ~LessBy(s, a, b), ~LessBy(s, b, a)
    PROVE  a = b
<1>1. /\ Work[a] \in Nat /\ Work[b] \in Nat /\ Addr[a] \in Nat /\ Addr[b] \in Nat
      /\ s[a] \in Int /\ s[b] \in Int
  BY TreeAssumption
<1>2. Addr[a] = Addr[b]
  BY SMT, <1>1 DEF LessBy
<1> QED
  BY <1>2, TreeAssumption

\* The ancestors of an open block are open, and it is not marked itself.
LEMMA OpenChain ==
    ASSUME NEW b \in Blocks, Open(b)
    PROVE  b \notin Failed /\ \A x \in Chain[b] : Open(x)
  BY Chains DEF Open, ChainOK

\* While nothing is pruned, an obstacle is a marked block.
LEMMA ObstaclesOpen ==
    ASSUME IInv, CleanOK, Open(tip), NEW b \in linked
    PROVE  Obstacles(b) = {} <=> Open(b)
<1>1. Chain[b] \subseteq data
  BY DEF IInv, LinkedOK, CleanOK
<1> QED
  BY <1>1 DEF Obstacles, Path, Open

\* FindMostWorkChain finds the best of the open blocks.
LEMMA FindBest ==
    ASSUME IInv, CleanOK, ChoiceOK
    PROVE  FindMostWorkChain \in candidates /\ Open(FindMostWorkChain) /\ Best(FindMostWorkChain)
<1>1. PICK t \in candidates : Anchor(t)
  BY DEF ChoiceOK
<1>2. /\ seq \in [Blocks -> Int] /\ candidates \subseteq linked /\ linked \subseteq Blocks
      /\ Open(tip)
  BY DEF IInv, ShapeOK, LinkedOK, ChoiceOK
<1>3. \A c \in candidates : c \in Usable <=> Open(c)
  BY <1>2, ObstaclesOpen DEF Usable
<1>4. t \in Usable /\ Usable \in SUBSET Blocks /\ Usable \subseteq candidates
  BY <1>1, <1>2, <1>3 DEF Anchor, Usable
<1>5. \E c \in Usable : \A u \in Usable : ~LessBy(seq, c, u)
  BY <1>2, <1>4, Greatest
<1> DEFINE c == FindMostWorkChain
<1>6. c \in Usable /\ \A u \in Usable : ~LessBy(seq, c, u)
  BY <1>4, <1>5 DEF FindMostWorkChain, Less
<1> HIDE DEF c
<1>7. ASSUME NEW b \in linked, Open(b) PROVE ~LessBy(seq, c, b)
  <2>1. b \in Blocks /\ t \in Blocks /\ c \in Blocks /\ ~LessBy(seq, c, t)
    BY <1>2, <1>4, <1>6
  <2>2. CASE LessBy(seq, b, t)
    <3>1. ~LessBy(seq, t, b)
      BY <1>2, <2>1, <2>2, OrderFacts
    <3> QED
      BY <1>2, <2>1, <3>1, OrderFacts
  <2>3. CASE ~LessBy(seq, b, t)
    <3>1. b \in Usable
      BY <1>1, <1>3, <1>7, <2>3 DEF Anchor, Less
    <3> QED
      BY <1>6, <3>1
  <2> QED
    BY <2>2, <2>3
<1>8. c \in candidates /\ Open(c) /\ Best(c)
  BY <1>3, <1>4, <1>6, <1>7 DEF Best, Less
<1> QED
  BY <1>8 DEF c

\* When the loop has ended, the tip is the candidate from which the others are kept.
LEMMA IdleTip ==
    ASSUME IInv, ChoiceOK, RoundsOK, NEW p \in Threads, pc[p] = "idle"
    PROVE  /\ Anchor(tip) /\ Best(tip) /\ mostWork[p] = None
           /\ \A b \in linked : Open(b) /\ ~Less(b, tip) => b = tip
<1>1. Best(tip) /\ mostWork[p] = None
  BY DEF RoundsOK
<1>2. /\ seq \in [Blocks -> Int] /\ candidates \subseteq linked /\ linked \subseteq Blocks
      /\ tip \in linked
  BY DEF IInv, ShapeOK, LinkedOK
<1>3. \A b \in linked : Open(b) /\ ~Less(b, tip) => b = tip
  BY <1>1, <1>2, OrderLinear DEF Best, Less
<1>4. PICK t \in candidates : Anchor(t)
  BY DEF ChoiceOK
<1>5. t = tip
  BY <1>2, <1>3, <1>4 DEF ChoiceOK, Anchor
<1> QED
  BY <1>1, <1>3, <1>4, <1>5

\* The block t is the anchor of the next state.
LEMMA ChoiceNext ==
    ASSUME NEW F, F = failedValid' \cup failedChild', NEW t,
           failure' = "none",
           Chain[tip'] \cap F = {},
           \A c \in candidates' : ~LessBy(seq', c, tip'),
           t \in candidates', Chain[t] \cap F = {}, Sound(t),
           \A b \in linked' : Chain[b] \cap F = {} /\ ~LessBy(seq', b, t) => b \in candidates'
    PROVE  ChoiceOK'
<1>1. Anchor(t)'
  BY DEF Anchor, Open, Sound, Failed, Less
<1>2. Open(tip)' /\ \A c \in candidates' : ~Less(c, tip)'
  BY DEF Open, Failed, Less
<1> QED
  BY <1>1, <1>2 DEF ChoiceOK

\* The thread is in the loop again, without a target.
LEMMA RoundsBegin ==
    ASSUME OneThread, NEW p \in Threads, mostWork'[p] = None, pc'[p] = "activate",
           pc' \in [Threads -> {"idle", "activate"}]
    PROVE  RoundsOK'
<1>1. \A q \in Threads : q = p
  BY DEF OneThread
<1> QED
  BY <1>1 DEF RoundsOK

\* More marks, in the same order, leave the numbers of preciousblock as they are.
LEMMA PreciousStays ==
    ASSUME PreciousOK, UNCHANGED <<linked, orderVars>>,
           failedValid \subseteq failedValid', failedChild \subseteq failedChild'
    PROVE  PreciousOK'
<1>1. \A x : Open(x)' => Open(x)
  BY DEF Open, Failed
<1> QED
  BY <1>1 DEF PreciousOK, orderVars, Sound

\* The choice depends on the marks, the order and the candidates alone.
LEMMA ChoiceStays ==
    ASSUME ChoiceOK, RoundsOK,
           UNCHANGED <<linked, seq, failedValid, failedChild, candidates, tip, failure, mostWork>>
    PROVE  ChoiceOK' /\ (pc' = pc => RoundsOK')
<1>1. \A b : Open(b)' <=> Open(b)
  BY DEF Open, Failed
<1>2. \A a, b : Less(a, b)' <=> Less(a, b)
  BY DEF Less
<1>3. \A t : Anchor(t)' <=> Anchor(t)
  BY <1>1, <1>2 DEF Anchor, Sound
<1>4. \A t : Best(t)' <=> Best(t)
  BY <1>1, <1>2 DEF Best
<1>5. ChoiceOK'
  <2>1. Open(tip)' <=> Open(tip)
    BY DEF Open, Failed
  <2>2. \A c : Less(c, tip)' <=> Less(c, tip)
    BY DEF Less
  <2> QED
    BY <1>3, <2>1, <2>2 DEF ChoiceOK
<1>6. ASSUME pc' = pc, NEW p \in Threads
      PROVE  /\ mostWork'[p] # None => Open(mostWork[p])' /\ Best(mostWork[p])'
             /\ pc'[p] = "idle" => mostWork'[p] = None /\ Best(tip)'
  <2>1. Open(mostWork[p])' <=> Open(mostWork[p])
    BY DEF Open, Failed
  <2>2. Best(mostWork[p])' <=> Best(mostWork[p])
    BY <1>1 DEF Best, Less
  <2>3. Best(tip)' <=> Best(tip)
    BY <1>1 DEF Best, Less
  <2> QED
    BY <1>6, <2>1, <2>2, <2>3 DEF RoundsOK
<1> QED
  BY <1>5, <1>6 DEF RoundsOK

\* LoadBlockIndexDB makes the tip and every open block as good as it candidates; all have
\* the same sequence number.
LEMMA RestartWatch ==
    ASSUME OneThread, NEW d \in DiskType, CleanDisk(d), BlamedDisk(d), Restart(d)
    PROVE  ChoiceOK' /\ RoundsOK' /\ PreciousOK'
<1> DEFINE zero == [b \in Blocks |-> 0]
           joined == Joined(d)
           F == d.failedValid \cup d.failedChild
           kept == NotWorse(joined \ F, zero, d.tip)
<1>1. /\ Chain[d.tip] \subseteq d.tx /\ d.tx \cap ContextBad = {} /\ Sound(d.tip)
      /\ \A b \in F : Blamed(b)
  BY DEF CleanDisk, BlamedDisk
<1>2. /\ linked' = joined /\ seq' = zero /\ candidates' = kept /\ tip' = d.tip
      /\ failedValid' \cup failedChild' = F
      /\ failure' = IF kept = {} THEN "assert" ELSE "none"
      /\ nextSeq' = 1 /\ reverseSeq' = -1 /\ lastPrecious' = 0
  BY DEF Restart
<1>3. d.tip \in Blocks /\ d.tip \in joined /\ joined \subseteq Blocks /\ d.tip \in Chain[d.tip]
  BY <1>1, Chains DEF DiskType, Joined, ChainOK
<1>4. zero \in [Blocks -> Int] /\ \A b \in joined : zero[b] = 0 /\ b \in Chain[b] /\ Work[b] \in Nat
  BY SMT, <1>3, Chains, TreeAssumption DEF ChainOK
<1>5. Chain[d.tip] \cap F = {}
  <2> SUFFICES ASSUME NEW x \in Chain[d.tip], x \in F PROVE FALSE
    OBVIOUS
  <2> HIDE DEF F
  <2>1. ~Blamed(x)
    BY <1>1, <1>3, SoundNotFailed
  <2> QED
    BY <1>1, <2>1
<1> HIDE DEF zero, joined, F
<1>6. d.tip \in kept
  BY <1>3, <1>4, <1>5, OrderFacts DEF NotWorse
<1>7. \A c \in kept : ~LessBy(zero, c, d.tip)
  BY DEF NotWorse
<1>8. \A b \in joined : Chain[b] \cap F = {} /\ ~LessBy(zero, b, d.tip) => b \in kept
  BY <1>4 DEF NotWorse
<1> HIDE DEF kept
<1>9. failure' = "none"
  BY <1>2, <1>6
<1>10. ChoiceOK'
  BY <1>1, <1>2, <1>5, <1>6, <1>7, <1>8, <1>9, ChoiceNext
<1>11. RoundsOK'
  <2>1. PICK q \in Threads : pc' = [p \in Threads |-> IF p = q THEN "activate" ELSE "idle"]
    BY DEF Restart
  <2>2. /\ pc' \in [Threads -> {"idle", "activate"}]
        /\ pc'[q] = "activate" /\ mostWork'[q] = None
    BY <2>1 DEF Restart
  <2> QED
    BY <2>2, RoundsBegin
<1>12. PreciousOK'
  <2>1. Sound(d.tip)' /\ Work[d.tip] >= 0
    BY SMT, <1>1, <1>3, <1>4 DEF Sound
  <2>2. \E s \in linked' : Sound(s)' /\ Work[s] >= lastPrecious'
    BY <1>2, <1>3, <2>1
  <2>3. \A x \in linked' : seq'[x] >= 0 /\ seq'[x] > reverseSeq'
    BY SMT, <1>2, <1>4
  <2> QED
    BY SMT, <1>2, <2>2, <2>3 DEF PreciousOK
<1> QED
  BY <1>10, <1>11, <1>12

\* A block that arrives is a candidate if it is as good as the tip; a block refused by
\* ContextualCheckBlock is on no linked chain.
LEMMA ReceivedWatch ==
    ASSUME OneThread, IInv, IInv', CleanOK, ChoiceOK, RoundsOK,
           NEW p \in Threads, NEW b \in Blocks, NEW fRequested \in BOOLEAN,
           ProcessNewBlock(p, b, fRequested)
    PROVE  ChoiceOK' /\ RoundsOK' /\ (PreciousOK => PreciousOK')
<1> DEFINE F == failedValid' \cup failedChild'
<1>1. PICK t \in candidates : Anchor(t)
  BY DEF ChoiceOK
<1>2. /\ pc[p] = "idle" /\ mostWork[p] = None /\ failure = "none" /\ Best(tip)
      /\ UNCHANGED <<failedChild, tip, failure, mostWork, reverseSeq, lastPrecious>>
      /\ failedValid \subseteq failedValid'
  BY DEF ProcessNewBlock, RoundsOK, ChoiceOK
<1>3. /\ seq \in [Blocks -> Int] /\ seq' \in [Blocks -> Int]
      /\ linked \subseteq Blocks /\ linked' \subseteq Blocks
      /\ candidates \subseteq linked /\ tip \in linked
      /\ pc \in [Threads -> {"idle", "activate"}]
  BY DEF IInv, ShapeOK, LinkedOK, RoundsOK
<1>4. CASE Wanted(b, fRequested) /\ b \notin ContextBad
  <2>1. ReceivedBlockTransactions(b) /\ failedValid' = failedValid /\ pc' = [pc EXCEPT ![p] = "activate"]
    BY <1>4 DEF ProcessNewBlock
  <2>2. /\ linked \subseteq linked'
        /\ \A x, y \in linked : LessBy(seq', x, y) <=> LessBy(seq, x, y)
        /\ candidates' = candidates \cup NotWorse(linked' \ linked, seq', tip)
    BY <1>4, <2>1, ReceivedOrder
  <2>3. RoundsOK'
    BY <1>2, <1>3, <2>1, RoundsBegin
  <2>4. F = Failed
    BY <1>2, <2>1 DEF Failed
  <2> HIDE DEF F
  <2>5. \A c \in candidates' : ~LessBy(seq', c, tip)
    BY <1>3, <2>2 DEF ChoiceOK, Less, NotWorse
  <2>6. ASSUME NEW x \in linked', Chain[x] \cap F = {}, ~LessBy(seq', x, t)
        PROVE  x \in candidates'
    <3>1. CASE x \in linked
      <4>1. Open(x) /\ ~Less(x, t)
        BY <1>3, <2>2, <2>4, <2>6, <3>1 DEF Open, Less
      <4> QED
        BY <1>1, <2>2, <3>1, <4>1 DEF Anchor
    <3>2. CASE x \notin linked
      <4>1. x \in Blocks /\ t \in Blocks /\ tip \in Blocks /\ ~LessBy(seq', t, tip)
        BY <1>3, <2>2, <2>5
      <4>2. ~LessBy(seq', x, tip)
        BY <1>3, <2>6, <4>1, OrderFacts
      <4> QED
        BY <2>2, <3>2, <4>2 DEF NotWorse
    <3> QED
      BY <3>1, <3>2
  <2>7. /\ Chain[tip] \cap F = {} /\ Chain[t] \cap F = {} /\ Sound(t) /\ t \in candidates'
        /\ failure' = "none" /\ tip' = tip
    BY <1>1, <1>2, <2>2, <2>4 DEF ChoiceOK, Anchor, Open
  <2>8. ChoiceOK'
    BY <2>5, <2>6, <2>7, ChoiceNext DEF F
  <2>9. ASSUME PreciousOK PROVE PreciousOK'
    <3>1. /\ nextSeq' \in Nat
          /\ \A x \in linked' : seq'[x] >= 0 \/ (x \in linked /\ seq'[x] = seq[x])
      <4>1. CASE b = Genesis \/ Parent[b] \in linked
        <5> DEFINE L == JustLinked(b)
        <5>1. L \in SUBSET Blocks
          BY DEF JustLinked, IInv, ShapeOK, LinkedOK
        <5>2. IsFiniteSet(L) /\ Cardinality(L) \in Nat
          BY <5>1, FS_Subset, FS_CardinalityType, TreeAssumption
        <5>3. PICK s \in Numberings(L) : seq' = [x \in Blocks |-> IF x \in L THEN s[x] ELSE seq[x]]
          BY <2>1, <4>1 DEF ReceivedBlockTransactions
        <5>4. nextSeq' = nextSeq + Cardinality(L) /\ linked' = linked \cup L
          BY <2>1, <4>1 DEF ReceivedBlockTransactions
        <5> HIDE DEF L
        <5>5. nextSeq \in Nat
          BY <2>9 DEF PreciousOK
        <5>6. s \in [L -> nextSeq..(nextSeq + Cardinality(L) - 1)]
          BY <5>3 DEF Numberings
        <5>7. \A x \in L : s[x] \in Int /\ s[x] >= nextSeq
          BY SMT, <5>2, <5>5, <5>6
        <5>8. \A x \in L : s[x] >= 0
          BY SMT, <5>5, <5>7
        <5>9. \A x \in linked' : x \in Blocks /\ seq'[x] = IF x \in L THEN s[x] ELSE seq[x]
          BY <1>3, <5>3
        <5> QED
          BY SMT, <5>2, <5>4, <5>5, <5>8, <5>9
      <4>2. CASE ~(b = Genesis \/ Parent[b] \in linked)
        BY <2>1, <2>9, <4>2 DEF ReceivedBlockTransactions, PreciousOK
      <4> QED
        BY <4>1, <4>2
    <3>2. \A x : Open(x)' <=> Open(x)
      BY <1>2, <2>1 DEF Open, Failed
    <3>3. \A x \in linked' : seq'[x] \in Int
      BY <1>3
    <3>4. \E s \in linked' : Sound(s)' /\ Work[s] >= lastPrecious'
      BY <1>2, <2>2, <2>9 DEF PreciousOK, Sound
    <3>5. reverseSeq \in Int /\ reverseSeq < 0 /\ lastPrecious \in Nat
      BY <2>9 DEF PreciousOK, IInv, ShapeOK
    <3>6. ASSUME NEW x \in linked', Open(x)'
          PROVE  /\ Work[x] > lastPrecious => seq'[x] >= 0
                 /\ Work[x] = lastPrecious => seq'[x] > reverseSeq
      <4>1. CASE seq'[x] >= 0
        BY SMT, <3>3, <3>5, <4>1
      <4>2. CASE x \in linked /\ seq'[x] = seq[x]
        BY <2>9, <3>2, <3>6, <4>2 DEF PreciousOK
      <4> QED
        BY <3>1, <4>1, <4>2
    <3> QED
      BY <1>2, <3>1, <3>4, <3>5, <3>6 DEF PreciousOK
  <2> QED
    BY <2>3, <2>8, <2>9
<1>5. CASE ~(Wanted(b, fRequested) /\ b \notin ContextBad)
  <2>1. /\ UNCHANGED <<linked, seq, nextSeq, candidates>>
        /\ F \subseteq Failed \cup ({b} \ data) /\ Failed \subseteq F
        /\ pc' \in {pc, [pc EXCEPT ![p] = "activate"]}
    BY <1>2, <1>5 DEF ProcessNewBlock, Wanted, Failed
  <2>2. \A x \in linked : Chain[x] \subseteq data
    BY DEF IInv, LinkedOK, CleanOK
  <2> HIDE DEF F
  <2>3. \A x \in linked : Chain[x] \cap F = {} <=> Open(x)
    BY <2>1, <2>2 DEF Open
  <2>4. /\ Chain[tip] \cap F = {} /\ Chain[t] \cap F = {} /\ Sound(t) /\ t \in candidates'
        /\ failure' = "none" /\ tip' = tip
    BY <1>1, <1>2, <1>3, <2>1, <2>3 DEF ChoiceOK, Anchor
  <2>5. \A x \in linked' : Chain[x] \cap F = {} /\ ~LessBy(seq', x, t) => x \in candidates'
    BY <1>1, <2>1, <2>3 DEF Anchor, Less
  <2>6. \A c \in candidates' : ~LessBy(seq', c, tip')
    BY <2>1, <2>4 DEF ChoiceOK, Less
  <2>7. ChoiceOK'
    BY <2>4, <2>5, <2>6, ChoiceNext DEF F
  <2>8. RoundsOK'
    <3>1. CASE pc' = [pc EXCEPT ![p] = "activate"]
      BY <1>2, <1>3, <3>1, RoundsBegin
    <3>2. CASE pc' = pc
      <4>1. \A x \in linked : Open(x)' => Open(x)
        BY <2>1, <2>3 DEF Open, Failed, F
      <4>2. Best(tip)'
        BY <1>2, <2>1, <4>1 DEF Best, Less
      <4>3. \A q \in Threads : q = p
        BY DEF OneThread
      <4> QED
        BY <1>2, <1>3, <3>2, <4>2, <4>3 DEF RoundsOK
    <3> QED
      BY <2>1, <3>1, <3>2
  <2>9. PreciousOK => PreciousOK'
    BY <1>2, <2>1, PreciousStays DEF orderVars
  <2> QED
    BY <2>7, <2>8, <2>9
<1> QED
  BY <1>4, <1>5

\* A candidate is not worse than a block of the active chain.
LEMMA NotWorseBelow ==
    ASSUME IInv, NEW c \in linked, ~Less(c, tip), NEW n \in Chain[tip]
    PROVE  ~Less(c, n)
<1>1. seq \in [Blocks -> Int] /\ c \in Blocks /\ tip \in Blocks /\ n \in Blocks
  BY Chains DEF IInv, ShapeOK, LinkedOK, ChainOK
<1>2. CASE n = tip
  BY <1>2
<1>3. CASE n # tip
  <2>1. Work[n] < Work[tip] /\ Work[n] \in Nat /\ Work[tip] \in Nat /\ Work[c] \in Nat
    BY <1>1, <1>3, Chains, TreeAssumption DEF ChainOK
  <2>2. Work[c] >= Work[tip]
    BY <1>1, OrderFacts DEF Less
  <2>3. Work[c] > Work[n]
    BY SMT, <2>1, <2>2
  <2> QED
    BY <1>1, <2>3, OrderFacts DEF Less
<1> QED
  BY <1>2, <1>3

\* A round goes towards the best open block; where it ends, the open blocks as good as
\* the new tip are candidates, and it is the last round when the new tip is the target.
LEMMA RoundWatch ==
    ASSUME OneThread, IInv, CleanOK, ChoiceOK, RoundsOK, NEW p \in Threads, ActivateBestChain(p)
    PROVE  ChoiceOK' /\ RoundsOK' /\ (PreciousOK => PreciousOK')
<1> DEFINE target == Target(p)
           find == mostWork[p] = None
           cands == IF find THEN candidates \ ErasedByFind ELSE candidates
           found == IF find THEN FailedByFind ELSE {}
           F == failedValid' \cup failedChild'
<1>1. /\ failedChild' = failedChild \cup found
      /\ failure = "none" /\ pc[p] = "activate"
      /\ UNCHANGED <<linked, orderVars, seq>>
  BY DEF ActivateBestChain, orderVars
<1>2. target \in linked /\ Open(target) /\ Best(target) /\ target # None
  <2>1. None \notin linked /\ candidates \subseteq linked /\ mostWork[p] \in linked \cup {None}
    BY ValidityAssumption DEF IInv, ShapeOK, LinkedOK
  <2>2. CASE find
    BY <2>1, <2>2, FindBest DEF Target
  <2>3. CASE ~find
    BY <2>1, <2>3 DEF Target, RoundsOK
  <2> QED
    BY <2>2, <2>3
<1>3. /\ seq \in [Blocks -> Int] /\ linked \subseteq Blocks /\ candidates \subseteq linked
      /\ tip \in linked /\ pc \in [Threads -> {"idle", "activate"}]
      /\ mostWork \in [Threads -> linked \cup {None}] /\ \A q \in Threads : q = p
  BY DEF IInv, ShapeOK, LinkedOK, RoundsOK, OneThread
<1>4. PICK t \in candidates : Anchor(t)
  BY DEF ChoiceOK
<1>5. \A b \in linked : Open(b) => Chain[b] \cap (Failed \cup found) = {}
  <2> SUFFICES ASSUME NEW b \in linked, Open(b), NEW x \in Chain[b], x \in found PROVE FALSE
    BY DEF Open
  <2>1. Chain[x] \cap Failed # {}
    BY FindErases
  <2>2. Open(x)
    BY <1>3, OpenChain
  <2> QED
    BY <2>1, <2>2 DEF Open
<1>6. \A b \in candidates : Open(b) => b \in cands
  BY FindErases DEF Open
<1>7. Failed \cup found \subseteq F /\ failedValid \subseteq failedValid'
  <2>1. failedValid \subseteq failedValid'
    BY SMT DEF ActivateBestChain, ActivateBestChainStep
  <2> QED
    BY <1>1, <2>1 DEF Failed
<1>8. \A b \in linked : Chain[b] \cap F = {} => Open(b)
  BY <1>7 DEF Open
<1>9. \A b \in linked : Open(b)' <=> Chain[b] \cap F = {}
  BY DEF Open, Failed
<1>10. PreciousOK => PreciousOK'
  BY <1>1, <1>7, PreciousStays
<1>11. CASE target = tip
  <2>1. /\ candidates' = cands /\ pc' = [pc EXCEPT ![p] = "idle"]
        /\ mostWork' = [mostWork EXCEPT ![p] = None]
        /\ UNCHANGED <<tip, failedValid, failure>>
    BY <1>11 DEF ActivateBestChain
  <2>2. F = Failed \cup found
    BY <1>1, <2>1 DEF Failed
  <2>3. ChoiceOK'
    <3>1. Chain[tip'] \cap F = {} /\ Chain[t] \cap F = {} /\ t \in candidates' /\ Sound(t)
      BY <1>3, <1>4, <1>5, <1>6, <2>1, <2>2 DEF Anchor, ChoiceOK
    <3>2. \A b \in linked' : Chain[b] \cap F = {} /\ ~LessBy(seq', b, t) => b \in candidates'
      BY <1>1, <1>4, <1>6, <1>8, <2>1 DEF Anchor, Less
    <3>3. \A c \in candidates' : ~LessBy(seq', c, tip')
      BY <1>1, <2>1 DEF ChoiceOK, Less
    <3>4. failure' = "none"
      BY <1>1, <2>1
    <3> QED
      BY <3>1, <3>2, <3>3, <3>4, ChoiceNext
  <2>4. Best(tip)'
    <3>1. tip' = tip /\ Best(tip)
      BY <1>2, <1>11, <2>1
    <3>2. \A b \in linked : Open(b)' => Open(b)
      BY <1>8, <1>9
    <3> QED
      BY <1>1, <3>1, <3>2 DEF Best, Less
  <2>5. RoundsOK'
    <3>1. /\ pc' \in [Threads -> {"idle", "activate"}] /\ mostWork'[p] = None
      BY <1>3, <2>1
    <3> QED
      BY <1>3, <2>4, <3>1 DEF RoundsOK
  <2> QED
    BY <1>10, <2>3, <2>5
<1>12. CASE target # tip
  <2>1. ActivateBestChainStep(p, target, cands)
    BY <1>2, <1>12 DEF ActivateBestChain
  <2> HIDE DEF target, cands, found, F
  <2> DEFINE last == Last(p, target)
             new == NewTip(p, target)
             refused == last \in Refused(p, target)
             invalid == refused /\ last \in data
             marked == IF invalid /\ last \in ConnectBad THEN {last} ELSE {}
             pruned == IF new \in Path(target) THEN NotWorse(cands, seq, new) ELSE cands
  <2>2. Lost(target) = {} /\ new \in linked /\ last \in linked /\ Sound(new)
    BY <1>2, StepEndsSound
  <2>3. /\ tip' = new
        /\ candidates' = pruned \ marked
        /\ failedValid' = failedValid \cup marked
        /\ failure' = IF new \in Path(target) /\ pruned = {} THEN "assert"
                      ELSE IF refused /\ ~invalid THEN "abort" ELSE "none"
        /\ mostWork' = [mostWork EXCEPT ![p] = IF new = target THEN None
                                               ELSE IF invalid THEN None ELSE target]
        /\ pc' = [pc EXCEPT ![p] = IF new = target THEN "idle" ELSE "activate"]
    BY SMT, <2>1, <2>2 DEF ActivateBestChainStep, LoopEnds, Cached
  <2>4. last \in data /\ new \in Chain[target]
    BY <1>2, <2>2, StepEnds DEF IInv, LinkedOK, CleanOK
  <2>5. marked \subseteq ConnectBad /\ (~invalid => marked = {})
    OBVIOUS
  <2> HIDE DEF marked, new, last, invalid
  <2>6. F = Failed \cup found \cup marked
    BY <1>1, <2>3 DEF Failed, F
  <2>7. \A b \in linked : Open(b) /\ Sound(b) => Chain[b] \cap F = {}
    BY <1>5, <2>5, <2>6 DEF Sound
  <2>8. Chain[new] \cap F = {}
    <3>1. Open(new)
      BY <1>2, <1>3, <2>4, OpenChain
    <3> QED
      BY <2>2, <2>7, <3>1
  <2>9. \A c \in cands : c \in linked /\ c \in candidates /\ ~Less(c, tip)
    BY <1>3 DEF cands, ChoiceOK
  <2>10. ~(new \in Path(target)) => \A c \in cands : ~LessBy(seq, c, new)
    <3>1. ~(new \in Path(target)) => new \in Chain[tip]
      BY <2>4 DEF Path
    <3> QED
      BY <2>9, <3>1, NotWorseBelow DEF Less
  <2>11. \A c \in pruned : ~LessBy(seq, c, new) /\ c \in cands
    BY <2>10 DEF NotWorse
  <2>12. \A c \in cands : ~LessBy(seq, c, new) => c \in pruned
    BY DEF NotWorse
  <2>13. pruned = {} => candidates' = {}
    BY <2>3
  <2> HIDE DEF pruned
  <2>14. \A b \in linked : Chain[b] \cap F = {} => b \notin marked
    BY <1>3, <2>6, Chains DEF ChainOK
  <2>15. \E a \in candidates' : /\ Chain[a] \cap F = {} /\ Sound(a)
                                /\ \A b \in linked : Chain[b] \cap F = {} /\ ~LessBy(seq, b, a) => b \in candidates'
    <3>1. t \in linked /\ t \in cands /\ Chain[t] \cap F = {} /\ Sound(t)
      BY <1>3, <1>4, <1>6, <2>7 DEF Anchor
    <3>2. \A b \in linked : Chain[b] \cap F = {} /\ ~LessBy(seq, b, t) => b \in cands
      BY <1>4, <1>6, <1>8 DEF Anchor, Less
    <3>3. t \in Blocks /\ new \in Blocks /\ \A b \in linked : b \in Blocks
      BY <1>3, <2>2, <3>1
    <3>4. CASE ~LessBy(seq, t, new)
      <4>1. t \in candidates'
        BY <2>3, <2>12, <2>14, <3>1, <3>4
      <4>2. ASSUME NEW b \in linked, Chain[b] \cap F = {}, ~LessBy(seq, b, t) PROVE b \in candidates'
        <5>1. ~LessBy(seq, b, new)
          BY <1>3, <3>3, <3>4, <4>2, OrderFacts
        <5> QED
          BY <2>3, <2>12, <2>14, <3>2, <4>2, <5>1
      <4> QED
        BY <3>1, <4>1, <4>2
    <3>5. CASE LessBy(seq, t, new)
      <4>1. ~LessBy(seq, new, t) /\ ~LessBy(seq, new, new)
        BY <1>3, <3>3, <3>5, OrderFacts
      <4>2. new \in cands
        BY <2>2, <2>8, <3>2, <4>1
      <4>3. new \in candidates'
        BY <2>2, <2>3, <2>8, <2>12, <2>14, <4>1, <4>2
      <4>4. ASSUME NEW b \in linked, Chain[b] \cap F = {}, ~LessBy(seq, b, new) PROVE b \in candidates'
        <5>1. ~LessBy(seq, b, t)
          BY <1>3, <3>3, <4>1, <4>4, OrderFacts
        <5> QED
          BY <2>3, <2>12, <2>14, <3>2, <4>4, <5>1
      <4> QED
        BY <2>2, <2>8, <4>3, <4>4
    <3> QED
      BY <3>4, <3>5
  <2>16. failure' = "none"
    BY <2>3, <2>4, <2>13, <2>15 DEF invalid
  <2>17. ChoiceOK'
    <3>1. PICK a \in candidates' : /\ Chain[a] \cap F = {} /\ Sound(a)
                                   /\ \A b \in linked : Chain[b] \cap F = {} /\ ~LessBy(seq, b, a) => b \in candidates'
      BY <2>15
    <3>2. \A c \in candidates' : ~LessBy(seq', c, tip')
      BY <1>1, <2>3, <2>11
    <3> QED
      BY <1>1, <2>3, <2>8, <2>16, <3>1, <3>2, ChoiceNext DEF F
  <2>18. RoundsOK'
    <3>1. pc' \in [Threads -> {"idle", "activate"}]
      BY <1>3, <2>3
    <3>2. CASE new = target
      <4>1. mostWork'[p] = None /\ tip' = target
        BY <1>3, <2>3, <3>2
      <4>2. Best(tip)'
        BY <1>1, <1>2, <1>8, <1>9, <4>1 DEF Best, Less
      <4> QED
        BY <1>3, <3>1, <4>1, <4>2 DEF RoundsOK
    <3>3. CASE new # target
      <4>1. pc'[p] = "activate" /\ mostWork'[p] = IF invalid THEN None ELSE target
        BY <1>3, <2>3, <3>3
      <4>2. CASE invalid
        BY <3>1, <4>1, <4>2, RoundsBegin
      <4>3. CASE ~invalid
        <5>1. Chain[target] \cap F = {}
          BY <1>2, <1>5, <2>5, <2>6, <4>3
        <5>2. mostWork'[p] = target
          BY <4>1, <4>3
        <5>3. Open(mostWork[p])'
          BY <5>1, <5>2 DEF Open, Failed, F
        <5>4. Best(mostWork[p])'
          BY <1>1, <1>2, <1>8, <1>9, <5>2 DEF Best, Less
        <5> QED
          BY <1>3, <3>1, <4>1, <5>3, <5>4 DEF RoundsOK
      <4> QED
        BY <4>2, <4>3
    <3> QED
      BY <3>2, <3>3
  <2> QED
    BY <1>10, <2>17, <2>18
<1> QED
  BY <1>11, <1>12

\* preciousblock is called when the tip is the best block.  Its new number makes the block
\* better, also when the block is the tip, so that no block overtakes the tip unseen.
LEMMA PreciousWatch ==
    ASSUME OneThread, IInv, CleanOK, ChoiceOK, RoundsOK, BlamedOK, PreciousOK,
           NEW p \in Threads, NEW b \in Blocks, PreciousBlock(p, b)
    PROVE  ChoiceOK' /\ RoundsOK' /\ PreciousOK'
<1> DEFINE reverse == IF Work[tip] > lastPrecious THEN -1 ELSE reverseSeq
           renamed == [seq EXCEPT ![b] = reverse]
<1>1. /\ pc[p] = "idle" /\ Work[b] >= Work[tip]
      /\ lastPrecious' = Work[tip] /\ seq' = renamed /\ reverseSeq' = reverse - 1
      /\ candidates' = Preferred(b, renamed)
      /\ failure' = IF Better(b) /\ candidates' = {} THEN "assert" ELSE "none"
      /\ pc' = [pc EXCEPT ![p] = "activate"]
      /\ UNCHANGED <<tx, linked, failedValid, failedChild, nextSeq, tip, mostWork>>
  BY DEF PreciousBlock, indexVars
<1>2. /\ Anchor(tip) /\ Best(tip) /\ mostWork[p] = None
      /\ \A x \in linked : Open(x) /\ ~Less(x, tip) => x = tip
  BY <1>1, IdleTip
<1>3. /\ seq \in [Blocks -> Int] /\ linked \subseteq Blocks /\ candidates \subseteq linked
      /\ tip \in linked /\ linked \subseteq tx /\ pc \in [Threads -> {"idle", "activate"}]
      /\ reverseSeq \in Int /\ reverseSeq < 0 /\ lastPrecious \in Nat /\ nextSeq \in Nat
      /\ \A x \in Blocks : Work[x] \in Nat
  BY TreeAssumption DEF IInv, ShapeOK, LinkedOK, RoundsOK, PreciousOK
<1>4. Work[tip] >= lastPrecious
  <2>1. PICK s \in linked : Sound(s) /\ Work[s] >= lastPrecious
    BY DEF PreciousOK
  <2>2. Open(s)
    <3> SUFFICES ASSUME NEW x \in Chain[s], x \in Failed PROVE FALSE
      BY DEF Open
    <3>1. Chain[s] \subseteq tx /\ tx \cap ContextBad = {} /\ s \in Blocks
      BY <1>3 DEF IInv, LinkedOK, CleanOK
    <3>2. ~Blamed(x)
      BY <2>1, <3>1, SoundNotFailed
    <3> QED
      BY <3>2 DEF BlamedOK
  <2>3. s \in Blocks /\ tip \in Blocks /\ ~LessBy(seq, tip, s)
    BY <1>2, <1>3, <2>2 DEF Best, Less
  <2>4. Work[tip] >= Work[s]
    BY <1>3, <2>3, OrderFacts
  <2> QED
    BY SMT, <1>3, <2>1, <2>3, <2>4
<1>5. reverse \in Int /\ reverse < 0
  BY SMT, <1>3
<1>6. \A x \in linked : Open(x) /\ Work[x] >= Work[tip] => seq[x] > reverse /\ Work[x] = Work[tip]
  <2> SUFFICES ASSUME NEW x \in linked, Open(x), Work[x] >= Work[tip]
               PROVE  seq[x] > reverse /\ Work[x] = Work[tip]
    OBVIOUS
  <2>1. x \in Blocks /\ tip \in Blocks /\ ~LessBy(seq, tip, x)
    BY <1>2, <1>3 DEF Best, Less
  <2>2. Work[x] = Work[tip] /\ seq[x] \in Int
    BY SMT, <1>3, <2>1, OrderFacts
  <2>3. /\ Work[x] > lastPrecious => seq[x] >= 0
        /\ Work[x] = lastPrecious => seq[x] > reverseSeq
    BY DEF PreciousOK
  <2> QED
    BY SMT, <1>3, <1>4, <2>1, <2>2, <2>3
<1> HIDE DEF reverse
<1>7. /\ renamed \in [Blocks -> Int] /\ renamed[b] = reverse
      /\ \A x \in Blocks : x # b => renamed[x] = seq[x]
  BY <1>3, <1>5
<1> HIDE DEF renamed
<1>8. \A x, y \in Blocks : x # b /\ y # b => (LessBy(renamed, x, y) <=> LessBy(seq, x, y))
  BY <1>7 DEF LessBy
<1>9. Failed = failedValid' \cup failedChild' /\ Open(tip) /\ tip \notin Failed /\ tip \in Blocks
  BY <1>1, <1>3, OpenChain DEF Failed, ChoiceOK
<1>10. /\ tip \in candidates'
       /\ \A c \in candidates' : ~LessBy(renamed, c, tip)
       /\ \A x \in linked : Open(x) /\ ~LessBy(renamed, x, tip) => x \in candidates'
  <2>1. CASE Better(b)
    <3>1. candidates' = NotWorse(candidates \cup {b}, renamed, tip)
      BY <1>1, <2>1 DEF Preferred
    <3>2. tip \in candidates'
      BY <1>2, <1>7, <1>9, <3>1, OrderFacts DEF NotWorse, Anchor
    <3>3. ASSUME NEW x \in linked, Open(x), ~LessBy(renamed, x, tip) PROVE x \in candidates'
      <4> SUFFICES ASSUME x # b, x # tip PROVE x \in candidates \cup {b}
        BY <1>2, <3>1, <3>3 DEF NotWorse, Anchor
      <4>1. x \in Blocks /\ LessBy(seq, x, tip)
        BY <1>2, <1>3, <3>3 DEF Less
      <4>2. CASE tip # b
        BY <1>8, <1>9, <3>3, <4>1, <4>2
      <4>3. CASE tip = b
        <5>1. Work[x] >= Work[tip]
          BY <1>7, <1>9, <3>3, <4>1, OrderFacts
        <5>2. Work[x] = Work[tip] /\ seq[x] > reverse
          BY <1>6, <3>3, <5>1
        <5>3. renamed[x] = seq[x] /\ renamed[tip] = reverse /\ seq[x] \in Int
          BY <1>3, <1>7, <4>1, <4>3
        <5> QED
          BY <1>5, <3>3, <5>2, <5>3 DEF LessBy
      <4> QED
        BY <4>2, <4>3
    <3> QED
      BY <3>1, <3>2, <3>3 DEF NotWorse
  <2>2. CASE ~Better(b)
    <3>1. candidates' = candidates \ {b}
      BY <1>1, <2>2 DEF Preferred
    <3>2. \A x \in linked : Open(x) => x # b
      BY <1>3, <2>2, OpenChain DEF Better, IsValid
    <3>3. tip # b
      BY <1>3, <1>9, <3>2
    <3>4. tip \in candidates' /\ \A c \in candidates' : ~LessBy(renamed, c, tip)
      BY <1>2, <1>3, <1>8, <1>9, <3>1, <3>3 DEF Anchor, ChoiceOK, Less
    <3>5. \A x \in linked : Open(x) /\ ~LessBy(renamed, x, tip) => x \in candidates'
      BY <1>2, <1>3, <1>8, <1>9, <3>1, <3>2, <3>3 DEF Anchor, Less
    <3> QED
      BY <3>4, <3>5
  <2> QED
    BY <2>1, <2>2
<1>11. failure' = "none"
  BY <1>1, <1>10
<1>12. ChoiceOK'
  <2>1. Chain[tip'] \cap Failed = {} /\ Sound(tip)
    BY <1>1, <1>9 DEF Open, CleanOK
  <2>2. \A x \in linked' : Chain[x] \cap Failed = {} /\ ~LessBy(seq', x, tip) => x \in candidates'
    BY <1>1, <1>10 DEF Open
  <2>3. \A c \in candidates' : ~LessBy(seq', c, tip')
    BY <1>1, <1>10
  <2>4. tip' = tip
    BY <1>1
  <2> QED
    BY <1>9, <1>10, <1>11, <2>1, <2>2, <2>3, <2>4, ChoiceNext
<1>13. RoundsOK'
  <2>1. /\ mostWork'[p] = None /\ pc'[p] = "activate"
        /\ pc' \in [Threads -> {"idle", "activate"}]
    BY <1>1, <1>2, <1>3
  <2> QED
    BY <2>1, RoundsBegin
<1>14. PreciousOK'
  <2>1. \A x \in linked' : Open(x)' => /\ ~(Work[x] > lastPrecious')
                                       /\ Work[x] = lastPrecious' => seq'[x] > reverseSeq'
    <3> SUFFICES ASSUME NEW x \in linked, Open(x)
                 PROVE  /\ ~(Work[x] > Work[tip])
                        /\ Work[x] = Work[tip] => renamed[x] > reverse - 1
      BY <1>1 DEF Open, Failed
    <3>1. x \in Blocks /\ Work[x] \in Nat /\ Work[tip] \in Nat /\ renamed[x] \in Int
      BY <1>3, <1>7, <1>9
    <3>2. ~(Work[x] > Work[tip])
      BY SMT, <1>6, <3>1
    <3>3. Work[x] = Work[tip] => renamed[x] > reverse - 1
      BY SMT, <1>5, <1>6, <1>7, <3>1
    <3> QED
      BY <3>2, <3>3
  <2>2. \E s \in linked' : Sound(s)' /\ Work[s] >= lastPrecious'
    <3>1. tip \in linked' /\ lastPrecious' = Work[tip] /\ Work[tip] \in Nat
      BY <1>1, <1>3, <1>9
    <3>2. Sound(tip)
      BY DEF CleanOK
    <3>3. Work[tip] >= lastPrecious'
      BY <3>1, SMT
    <3> QED
      BY <3>1, <3>2, <3>3 DEF Sound
  <2>3. nextSeq' \in Nat /\ reverseSeq' < 0 /\ lastPrecious' \in Nat
    BY SMT, <1>1, <1>3, <1>5, <1>9
  <2> QED
    BY <2>1, <2>2, <2>3 DEF PreciousOK
<1> QED
  BY <1>12, <1>13, <1>14

\* invalidateblock takes the tip back to the parent of the block if it is active, and makes
\* every open block as good as that a candidate.
LEMMA InvalidateWatch ==
    ASSUME OneThread, IInv, CleanOK, CleanOK', ChoiceOK, RoundsOK,
           NEW p \in Threads, NEW b \in Blocks, InvalidateBlock(p, b)
    PROVE  ChoiceOK' /\ RoundsOK'
<1> DEFINE back == IF b \in Chain[tip] THEN Parent[b] ELSE tip
           marked == {x \in Walked(b) : Height[x] >= Height[back]}
<1>1. /\ tip \in Blocks /\ ChainOK(tip) /\ Chain[tip] \subseteq data /\ b # Genesis
      /\ tip \in linked /\ linked \subseteq Blocks /\ linked \subseteq tx /\ seq \in [Blocks -> Int]
      /\ candidates \subseteq linked /\ pc \in [Threads -> {"idle", "activate"}]
      /\ mostWork[p] = None /\ pc[p] = "idle"
  BY Chains DEF InvalidateBlock, IInv, ShapeOK, LinkedOK, CleanOK, RoundsOK
<1>2. b \in Chain[tip] => b \in Walked(b)
  <2>1. Parent[b] \in Blocks /\ Work[Parent[b]] < Work[b] /\ Work[b] \in Nat
    BY <1>1, Parents, TreeAssumption
  <2>2. b \notin Chain[Parent[b]]
    BY SMT, <2>1, Chains, TreeAssumption DEF ChainOK
  <2> QED
    BY <2>2 DEF Walked
<1>3. Walked(b) \ data = {} /\ (Walked(b) = {} <=> b \notin Chain[tip])
  BY <1>1, <1>2 DEF Walked
<1>4. /\ tip' = back /\ failure' = "none"
      /\ failedValid' = failedValid \cup {b} /\ failedChild' = failedChild \cup marked
      /\ candidates' = (candidates \ (marked \cup {b})) \cup Again(marked \cup {b}, back)
      /\ pc' = [pc EXCEPT ![p] = "activate"]
      /\ UNCHANGED <<linked, seq, mostWork>>
  BY <1>3 DEF InvalidateBlock, orderVars
<1>5. back \in Chain[tip] /\ back \in linked /\ Sound(back)
  <2>1. back \in Chain[tip]
    BY <1>1, Parents DEF ChainOK
  <2>2. Sound(back)
    BY <1>4 DEF CleanOK, Sound
  <2> QED
    BY <1>1, <2>1, <2>2 DEF IInv, LinkedOK
<1>6. marked \subseteq Walked(b) /\ Walked(b) \cap Chain[back] = {} /\ b \notin Chain[back]
  BY <1>2 DEF Walked
<1> DEFINE F == failedValid' \cup failedChild'
<1>7. F = Failed \cup marked \cup {b}
  BY <1>4 DEF Failed
<1> HIDE DEF F, back, marked
<1>8. Chain[back] \cap F = {}
  <2>1. Open(back)
    BY <1>1, <1>5, OpenChain DEF ChoiceOK
  <2> QED
    BY <1>6, <1>7, <2>1 DEF Open
<1>9. \A x \in linked : Chain[x] \cap F = {} => x \notin F
  BY <1>1, Chains DEF ChainOK
<1>10. \A x \in linked : Chain[x] \cap F = {} /\ ~LessBy(seq, x, back) => x \in candidates'
  BY <1>1, <1>4, <1>7, <1>9 DEF Again, NotWorse
<1>11. back \in candidates'
  <2>1. ~LessBy(seq, back, back)
    BY <1>1, <1>5, OrderFacts
  <2> QED
    BY <1>5, <1>8, <1>10, <2>1
<1>12. \A c \in candidates' : ~LessBy(seq, c, back)
  <2>1. \A c \in candidates : ~LessBy(seq, c, back)
    BY <1>1, <1>5, NotWorseBelow DEF ChoiceOK, Less
  <2> QED
    BY <1>4, <2>1 DEF Again, NotWorse
<1>13. ChoiceOK'
  BY <1>4, <1>5, <1>8, <1>10, <1>11, <1>12, ChoiceNext DEF F
<1>14. RoundsOK'
  <2>1. /\ mostWork'[p] = None /\ pc'[p] = "activate"
        /\ pc' \in [Threads -> {"idle", "activate"}]
    BY <1>1, <1>4
  <2> QED
    BY <2>1, RoundsBegin
<1> QED
  BY <1>13, <1>14

\* At the start the genesis block is the tip, the only candidate and the best block.
LEMMA InitWatch == Init => BInv
<1> SUFFICES ASSUME Init PROVE BInv
  OBVIOUS
<1>1. IInv /\ CleanOK /\ BlamedOK
  BY InitHolds, InitClean
<1>2. ~Less(Genesis, Genesis) /\ Sound(Genesis) /\ Work[Genesis] \in Nat /\ seq[Genesis] = 0
  <2>1. seq \in [Blocks -> Int] /\ Genesis \in Blocks /\ tip = Genesis
    BY <1>1, TreeAssumption DEF IInv, ShapeOK, Init
  <2> QED
    BY <1>1, <2>1, TreeAssumption, OrderFacts DEF Less, CleanOK, Init
<1>3. Open(Genesis)
  BY DEF Init, Open, Failed
<1>4. ChoiceOK
  BY <1>2, <1>3 DEF Init, ChoiceOK, Anchor
<1>5. RoundsOK
  BY <1>2 DEF Init, RoundsOK, Best
<1>6. PreciousOK
  BY SMT, <1>2 DEF Init, PreciousOK
<1> QED
  BY <1>1, <1>4, <1>5, <1>6 DEF BInv

\* With one thread every step keeps the choice.
LEMMA StepWatch ==
    ASSUME OneThread, Settled
    PROVE  BInv /\ [Next]_vars => BInv'
<1> SUFFICES ASSUME BInv, [Next]_vars PROVE BInv'
  OBVIOUS
<1>1. IInv /\ CleanOK /\ ChoiceOK /\ RoundsOK
  BY DEF BInv
<1>2. /\ "prune" \notin Features /\ "reconsider" \notin Features
      /\ {"precious", "crash"} \cap Features # {} => "invalidate" \notin Features
  BY DEF Settled
<1>3. IInv' /\ CleanOK'
  BY <1>1, <1>2, StepHolds, CleanStep
<1>4. "invalidate" \notin Features => BlamedOK /\ BlamedOK' /\ PreciousOK
  BY <1>1, <1>2, BlamedStep DEF BInv
<1> SUFFICES ChoiceOK' /\ RoundsOK' /\ ("invalidate" \notin Features => PreciousOK')
  BY <1>3, <1>4 DEF BInv
<1>5. CASE UNCHANGED <<linked, orderVars, failedValid, failedChild, candidates, tip, failure, threadVars>>
  <2>1. UNCHANGED <<linked, seq, failedValid, failedChild, candidates, tip, failure, mostWork, pc>>
    BY <1>5 DEF orderVars, threadVars
  <2>2. ChoiceOK' /\ RoundsOK'
    BY <1>1, <2>1, ChoiceStays
  <2>3. PreciousOK => PreciousOK'
    BY <1>5, PreciousStays
  <2> QED
    BY <1>4, <2>2, <2>3
<1>6. ASSUME NEW b \in Blocks, AcceptBlockHeader(b)
      PROVE  ChoiceOK' /\ RoundsOK' /\ ("invalidate" \notin Features => PreciousOK')
  BY <1>5, <1>6 DEF AcceptBlockHeader
<1>7. ASSUME NEW p \in Threads, NEW b \in Blocks, NEW f \in BOOLEAN, ProcessNewBlock(p, b, f)
      PROVE  ChoiceOK' /\ RoundsOK' /\ ("invalidate" \notin Features => PreciousOK')
  BY <1>1, <1>3, <1>4, <1>7, ReceivedWatch
<1>8. ASSUME NEW p \in Threads, ActivateBestChain(p)
      PROVE  ChoiceOK' /\ RoundsOK' /\ ("invalidate" \notin Features => PreciousOK')
  BY <1>1, <1>4, <1>8, RoundWatch
<1>9. ASSUME NEW p \in Threads, CallActivate(p)
      PROVE  ChoiceOK' /\ RoundsOK' /\ ("invalidate" \notin Features => PreciousOK')
  <2>1. /\ UNCHANGED <<linked, orderVars, seq, failedValid, failedChild, candidates, tip, failure, mostWork>>
        /\ pc[p] = "idle" /\ pc' = [pc EXCEPT ![p] = "activate"]
    BY <1>9 DEF CallActivate, indexVars, orderVars
  <2>2. /\ pc'[p] = "activate" /\ mostWork'[p] = None
        /\ pc' \in [Threads -> {"idle", "activate"}]
    BY <1>1, <2>1 DEF RoundsOK
  <2>3. ChoiceOK' /\ RoundsOK'
    BY <1>1, <2>1, <2>2, ChoiceStays, RoundsBegin
  <2>4. PreciousOK => PreciousOK'
    BY <2>1, PreciousStays
  <2> QED
    BY <1>4, <2>3, <2>4
<1>10. CASE \/ Crash
            \/ \E P \in PruneSets : CrashInFlush(P)
            \/ \E p \in Threads : CrashInStep(p)
  <2>1. "crash" \in Features
    BY <1>10 DEF Crash, CrashInFlush, CrashInStep
  <2>2. BlamedOK
    BY <1>2, <1>4, <2>1
  <2>3. PICK d \in DiskType : CleanDisk(d) /\ Restart(d) /\ BlamedDisk(d)
    BY <1>1, <1>2, <1>10, <2>2, CrashLeaves
  <2> QED
    BY <2>3, RestartWatch
<1>11. ASSUME NEW p \in Threads, NEW b \in Blocks, PreciousBlock(p, b)
       PROVE  ChoiceOK' /\ RoundsOK' /\ ("invalidate" \notin Features => PreciousOK')
  <2>1. "precious" \in Features
    BY <1>11 DEF PreciousBlock
  <2> QED
    BY <1>1, <1>2, <1>4, <1>11, <2>1, PreciousWatch
<1>12. ASSUME NEW p \in Threads, NEW b \in Blocks, InvalidateBlock(p, b)
       PROVE  ChoiceOK' /\ RoundsOK' /\ ("invalidate" \notin Features => PreciousOK')
  <2>1. "invalidate" \in Features
    BY <1>12 DEF InvalidateBlock
  <2> QED
    BY <1>1, <1>3, <1>12, <2>1, InvalidateWatch
<1>13. ASSUME NEW p \in Threads, NEW b \in Blocks, ResetBlockFailureFlags(p, b)
       PROVE  FALSE
  BY <1>2, <1>13 DEF ResetBlockFailureFlags
<1>14. ASSUME NEW P \in PruneSets, NEW full \in BOOLEAN, FlushStateToDisk(P, full)
       PROVE  ChoiceOK' /\ RoundsOK' /\ ("invalidate" \notin Features => PreciousOK')
  BY <1>5, <1>14 DEF FlushStateToDisk
<1>15. CASE UNCHANGED vars
  BY <1>5, <1>15 DEF vars, indexVars
<1> QED
  BY <1>6, <1>7, <1>8, <1>9, <1>10, <1>11, <1>12, <1>13, <1>14, <1>15 DEF Next

\* "The result is either failure or an activated best chain": for any tree and any bad or
\* damaged blocks, with one thread that also invalidates blocks, or also makes blocks
\* precious and crashes anywhere, no block that could be connected is better than the tip
\* when ActivateBestChain has returned.
THEOREM BestChainIsActive ==
    ASSUME OneThread, Settled
    PROVE  Spec => []BestChainActive
<1>1. BInv => BestChainActive
  <2> SUFFICES ASSUME BInv, Quiescent, NEW b \in linked, Obstacles(b) = {}
               PROVE  ~Less(tip, b)
    BY DEF BestChainActive
  <2>1. PICK p \in Threads : pc[p] = "idle"
    BY DEF OneThread, Quiescent
  <2>2. Best(tip)
    BY <2>1, IdleTip DEF BInv
  <2>3. Open(b)
    BY ObstaclesOpen DEF BInv, ChoiceOK
  <2> QED
    BY <2>2, <2>3 DEF Best
<1>2. BInv /\ [Next]_vars => BInv'
  BY StepWatch
<1> QED
  BY <1>1, <1>2, InitWatch, PTL DEF Spec

\* CheckBlockIndex on setBlockIndexCandidates, under the same conditions: when
\* ActivateBestChain has returned, the candidates are the tip and the complete and valid
\* blocks that sort as good as it, and nothing else.
THEOREM CandidatesAreExact ==
    ASSUME OneThread, Settled
    PROVE  Spec => []CandidatesExact
<1>1. BInv /\ WInv => CandidatesExact
  <2> SUFFICES ASSUME BInv, WInv, Quiescent, NEW b \in index
               PROVE  IF ~Less(b, tip) /\ Chain[b] \subseteq tx
                      THEN (Chain[b] \cap failedValid = {} /\ (Chain[b] \subseteq data \/ b = tip))
                              => b \in candidates
                      ELSE b \notin candidates
    BY DEF CandidatesExact
  <2>1. PICK p \in Threads : pc[p] = "idle"
    BY DEF OneThread, Quiescent
  <2>2. Anchor(tip) /\ b \in Blocks
    BY <2>1, IdleTip DEF BInv, IInv, ShapeOK
  <2>3. b \in candidates => ~Less(b, tip) /\ Chain[b] \subseteq tx
    BY DEF BInv, ChoiceOK, IInv, LinkedOK
  <2>4. ASSUME ~Less(b, tip), Chain[b] \subseteq data, Chain[b] \cap failedValid = {}
        PROVE  b \in candidates
    <3>1. Chain[b] \cap Failed = {}
      BY <2>2, <2>4, ValidIsUnmarked
    <3>2. b \in linked
      BY <2>2, <2>4, <3>1, CompleteIsLinked
    <3> QED
      BY <2>2, <2>4, <3>1, <3>2 DEF Anchor, Open
  <2> QED
    BY <2>2, <2>3, <2>4 DEF Anchor
<1>2. BInv /\ [Next]_vars => BInv'
  BY StepWatch
<1>3. WInv /\ [Next]_vars => WInv'
  BY StepLinks DEF Settled
<1> QED
  BY <1>1, <1>2, <1>3, InitWatch, InitLinks, PTL DEF Spec

\* Under the same conditions the active chain is linked and no block of it is marked as
\* failed, also while blocks are invalidated.
THEOREM ActiveChainStaysValid ==
    ASSUME OneThread, Settled
    PROVE  Spec => []ActiveChainValid
<1>1. BInv => ActiveChainValid
  BY DEF BInv, IInv, LinkedOK, ChoiceOK, Open, ActiveChainValid
<1>2. BInv /\ [Next]_vars => BInv'
  BY StepWatch
<1> QED
  BY <1>1, <1>2, InitWatch, PTL DEF Spec

\* Under the same conditions the assertions on the candidates hold, the one that
\* PruneBlockIndexCandidates makes in preciousblock among them.
THEOREM AssertsHoldAlone ==
    ASSUME OneThread, Settled
    PROVE  Spec => []NoAssertFails
<1>1. BInv => NoAssertFails
  BY DEF BInv, IInv, LinkedOK, ChoiceOK, NoAssertFails
<1>2. BInv /\ [Next]_vars => BInv'
  BY StepWatch
<1> QED
  BY <1>1, <1>2, InitWatch, PTL DEF Spec

-----------------------------------------------------------------------------
(* One thread, with pruning and crashes                                    *)

\* Every block that AcceptBlock takes can be connected, and beside the arrival of blocks
\* there is pruning, and there are crashes.
Harmless == ConnectBad = {} /\ Corrupt = {} /\ Features \subseteq {"prune", "crash"}

\* Only blocks that AcceptBlock refuses are marked, and what is above them.
MarksOK ==
    /\ tx \cap ContextBad = {}
    /\ \A b \in Failed \cup disk.failedValid \cup disk.failedChild : Chain[b] \cap ContextBad # {}

\* With the sequence numbers s, b is as good as the tip t.  After a crash the tip may be
\* fetched again and get a new number, so that only the work counts.
Ahead(s, t, b) == IF "crash" \in Features THEN Work[b] > Work[t] ELSE ~LessBy(s, b, t)

\* For the tip t, the sequence numbers s, the blocks d on disk and the linked blocks l: a
\* linked block on disk that is as good as the tip waits or is a candidate; one that waits
\* cannot be reached from the tip; nothing worse than the tip is a candidate, and the tip
\* is one.
Kept(s, t, d, l, waiting, cands) ==
    /\ \A b \in d \cap l : Ahead(s, t, b) => b \in waiting \cup cands
    /\ \A x \in waiting \cap l : x \in d /\ ~(Chain[x] \ Chain[t] \subseteq d)
    /\ \A c \in cands : ~LessBy(s, c, t)
    /\ t \in cands
    /\ "crash" \notin Features => t \in d

\* The block m is the best of the candidates, and can be reached from the tip t.
BestReached(s, t, d, m, cands) ==
    m \in cands /\ Chain[m] \ Chain[t] \subseteq d /\ \A c \in cands : ~LessBy(s, m, c)

\* Between two rounds the thread goes on to the best candidate, above the tip; when the
\* loop has ended the tip is the one candidate.
TurnsOK ==
    \A p \in Threads :
       /\ mostWork[p] # None =>
             tip \in Chain[mostWork[p]] /\ BestReached(seq, tip, data, mostWork[p], candidates)
       /\ pc[p] = "idle" => candidates = {tip} /\ mostWork[p] = None

\* No assertion fails, no thread is inside an RPC command, and while the process runs the
\* candidates are kept and the targets of the rounds are the best that can be reached.
KeepOK ==
    /\ failure # "assert"
    /\ pc \in [Threads -> {"idle", "activate"}]
    /\ failure = "none" => Kept(seq, tip, data, linked, unlinked, candidates) /\ TurnsOK

\* The inductive invariant with pruning.
PInv == WInv /\ MarksOK /\ KeepOK

\* Heights grow along a chain.
LEMMA Heights ==
    ASSUME NEW b \in Blocks, NEW a \in Chain[b], a # b
    PROVE  Height[a] < Height[b]
<1> DEFINE Wrong == {x \in Chain[b] : a \in Chain[x] /\ x # a /\ ~(Height[a] < Height[x])}
<1>1. ChainOK(b)
  BY Chains
<1> SUFFICES ASSUME Wrong # {} PROVE FALSE
  BY <1>1 DEF ChainOK
<1>2. Wrong \in SUBSET Blocks
  BY <1>1 DEF ChainOK
<1>3. PICK x \in Wrong : \A y \in Wrong : Work[x] <= Work[y]
  BY <1>2, LeastWork
<1>4. x \in Blocks /\ x \in Chain[b] /\ a \in Chain[x] /\ x # a /\ ~(Height[a] < Height[x])
  BY <1>2, <1>3
<1>5. a \in Blocks /\ Chain[Genesis] = {Genesis}
  BY <1>1, TreeAssumption DEF ChainOK
<1>6. x # Genesis
  BY <1>4, <1>5
<1>7. Parent[x] \in Blocks /\ Parent[x] \in Chain[x] /\ Chain[x] = {x} \cup Chain[Parent[x]]
      /\ Work[Parent[x]] < Work[x]
  BY <1>4, <1>6, Parents
<1>8. /\ Height[x] = Height[Parent[x]] + 1 /\ Height[Parent[x]] \in Nat /\ Height[a] \in Nat
      /\ Work[x] \in Nat /\ Work[Parent[x]] \in Nat
  BY <1>4, <1>5, <1>6, <1>7, TreeAssumption
<1>9. Parent[x] \in Chain[b] /\ a \in Chain[Parent[x]]
  BY <1>1, <1>4, <1>7 DEF ChainOK
<1>10. Parent[x] \notin Wrong
  BY SMT, <1>3, <1>7, <1>8
<1>11. Parent[x] = a \/ Height[a] < Height[Parent[x]]
  BY <1>9, <1>10
<1> QED
  BY SMT, <1>4, <1>8, <1>11

\* A linked block is not marked, and neither are its ancestors.
LEMMA LinkedUnmarked ==
    ASSUME IInv, MarksOK, NEW b \in linked
    PROVE  Chain[b] \cap Failed = {} /\ Obstacles(b) = Path(b) \ data
<1>1. b \in Blocks /\ Chain[b] \subseteq tx /\ ChainOK(b)
  BY Chains DEF IInv, ShapeOK, LinkedOK
<1>2. ASSUME NEW x \in Chain[b], x \in Failed PROVE FALSE
  <2>1. Chain[x] \subseteq tx
    BY <1>1 DEF ChainOK
  <2> QED
    BY <1>2, <2>1 DEF MarksOK
<1> QED
  BY <1>2 DEF Obstacles, Path

\* What is to be connected on the way to a block of a chain is to be connected on the way
\* to the end of it.
LEMMA PathBelow ==
    ASSUME NEW t \in Blocks, NEW x \in Chain[t]
    PROVE  Path(x) \subseteq Path(t)
  BY Chains DEF Path, ChainOK

\* FindMostWorkChain marks nothing and erases what cannot be reached; the blocks of it
\* that are on disk wait.
LEMMA FindLeaves ==
    ASSUME IInv, MarksOK
    PROVE  /\ FailedByFind = {}
           /\ \A x \in ErasedByFind : /\ x \in linked /\ ~(Path(x) \subseteq data)
                                      /\ x \in data => x \in UnlinkedByFind
           /\ UnlinkedByFind \subseteq ErasedByFind \cap data
           /\ Discarded \subseteq ErasedByFind
<1>1. ASSUME NEW c \in Discarded
      PROVE  /\ Obstacle(c) \notin Failed /\ Obstacle(c) \notin data
             /\ Obstacle(c) \in linked /\ Obstacle(c) \in Path(Obstacle(c))
             /\ \A x \in Above(c) : /\ x \in linked /\ x \in data
                                    /\ Obstacle(c) \in Path(x)
             /\ c \in Above(c) \cup {Obstacle(c)}
  <2>1. c \in candidates /\ Obstacle(c) \in Obstacles(c) /\ Above(c) \subseteq Chain[c]
    BY FindIs DEF IInv
  <2>2. c \in linked /\ c \in Blocks /\ Chain[c] \subseteq linked /\ ChainOK(c) /\ tip \in Blocks
    BY <2>1, Chains DEF IInv, ShapeOK, LinkedOK
  <2>3. Obstacles(c) = Path(c) \ data /\ Chain[c] \cap Failed = {}
    BY <2>2, LinkedUnmarked
  <2>4. /\ Obstacle(c) \in Chain[c] /\ Obstacle(c) \notin Chain[tip] /\ Obstacle(c) \notin data
        /\ Obstacle(c) \in Blocks
    BY <2>1, <2>2, <2>3 DEF Path, ChainOK
  <2>5. ChainOK(Obstacle(c)) /\ ChainOK(tip) /\ Work[Obstacle(c)] \in Nat
    BY <2>2, <2>4, Chains, TreeAssumption
  <2>6. \A x \in Obstacles(c) : Work[x] <= Work[Obstacle(c)]
    <3>1. Obstacles(c) \in SUBSET Blocks /\ Obstacles(c) # {}
      BY <2>1, <2>2 DEF Obstacles, Path, ChainOK
    <3> QED
      BY <3>1, HighestIs DEF Obstacle
  <2>7. ASSUME NEW x \in Above(c)
        PROVE  x \in linked /\ x \in data /\ Obstacle(c) \in Path(x)
    <3>1. x \in Path(c) /\ x \in Chain[c] /\ Work[x] > Work[Obstacle(c)]
      BY DEF Above, Path
    <3>2. x \in Blocks /\ x \in linked /\ Work[x] \in Nat
      BY <2>2, <3>1, TreeAssumption DEF ChainOK
    <3>3. x \notin Obstacles(c)
      BY SMT, <2>5, <2>6, <3>1, <3>2
    <3>4. x \notin Chain[Obstacle(c)]
      BY SMT, <2>5, <3>1, <3>2 DEF ChainOK
    <3>5. Obstacle(c) \in Chain[x]
      BY <2>2, <2>4, <3>1, <3>4 DEF ChainOK
    <3> QED
      BY <2>3, <2>4, <3>1, <3>2, <3>3, <3>5 DEF Path
  <2>8. c \in Above(c) \cup {Obstacle(c)}
    <3>1. c \notin Chain[tip]
      BY <2>4, <2>5 DEF ChainOK
    <3>2. c # Obstacle(c) => Work[Obstacle(c)] < Work[c]
      BY <2>2, <2>4 DEF ChainOK
    <3>3. c # Obstacle(c) => Work[c] > Work[Obstacle(c)]
      BY SMT, <2>2, <2>5, <3>2, TreeAssumption
    <3> QED
      BY <2>2, <3>1, <3>3 DEF Above, Path, ChainOK
  <2> QED
    BY <2>2, <2>3, <2>4, <2>5, <2>7, <2>8 DEF Path, ChainOK
<1>2. FailedByFind = {}
  BY <1>1 DEF FailedByFind
<1>3. ASSUME NEW x \in ErasedByFind
      PROVE  /\ x \in linked /\ ~(Path(x) \subseteq data)
             /\ x \in data => x \in UnlinkedByFind
  <2>1. PICK c \in Discarded : x \in Above(c) \cup {Obstacle(c)}
    BY DEF ErasedByFind
  <2>2. CASE x = Obstacle(c)
    BY <1>1, <2>2
  <2>3. CASE x \in Above(c)
    <3>1. Obstacle(c) \notin Failed /\ Obstacle(c) \notin data /\ x \in linked /\ Obstacle(c) \in Path(x)
      BY <1>1, <2>3
    <3>2. x \in UnlinkedByFind
      BY <2>3, <3>1 DEF UnlinkedByFind
    <3> QED
      BY <3>1, <3>2
  <2> QED
    BY <2>1, <2>2, <2>3
<1>4. ASSUME NEW x \in UnlinkedByFind PROVE x \in ErasedByFind \cap data
  <2>1. PICK c \in Discarded : x \in Above(c)
    BY DEF UnlinkedByFind
  <2>2. x \in data
    BY <1>1, <2>1
  <2> QED
    BY <2>1, <2>2 DEF ErasedByFind
<1>5. ASSUME NEW c \in Discarded PROVE c \in ErasedByFind
  <2>1. c \in Above(c) \cup {Obstacle(c)}
    BY <1>1
  <2> QED
    BY <2>1 DEF ErasedByFind
<1> QED
  BY <1>2, <1>3, <1>4, <1>5

\* FindMostWorkChain finds the best of the candidates that it leaves, and the blocks on
\* disk that it erases wait.
LEMMA FindKeeps ==
    ASSUME IInv, MarksOK, Kept(seq, tip, data, linked, unlinked, candidates)
    PROVE  /\ Kept(seq, tip, data, linked, unlinked \cup UnlinkedByFind, candidates \ ErasedByFind)
           /\ BestReached(seq, tip, data, FindMostWorkChain, candidates \ ErasedByFind)
<1> DEFINE cands == candidates \ ErasedByFind
           t == FindMostWorkChain
<1>1. /\ \A x \in ErasedByFind : /\ x \in linked /\ ~(Path(x) \subseteq data)
                                 /\ x \in data => x \in UnlinkedByFind
      /\ UnlinkedByFind \subseteq ErasedByFind \cap data
      /\ Discarded \subseteq ErasedByFind
  BY FindLeaves
<1>2. /\ seq \in [Blocks -> Int] /\ candidates \subseteq linked /\ linked \subseteq Blocks
      /\ tip \in candidates
  BY DEF IInv, ShapeOK, LinkedOK, Kept
<1>3. \A c \in candidates : c \in Usable <=> Path(c) \subseteq data
  <2> SUFFICES ASSUME NEW c \in candidates PROVE c \in Usable <=> Path(c) \subseteq data
    OBVIOUS
  <2>1. Obstacles(c) = Path(c) \ data
    BY <1>2, LinkedUnmarked
  <2> QED
    BY <2>1 DEF Usable
<1>4. tip \in Usable /\ Usable \in SUBSET Blocks /\ Usable \subseteq candidates
  BY <1>2, <1>3 DEF Path, Usable
<1>5. \E c \in Usable : \A u \in Usable : ~LessBy(seq, c, u)
  BY <1>2, <1>4, Greatest
<1>6. t \in Usable /\ \A u \in Usable : ~LessBy(seq, t, u)
  BY <1>4, <1>5 DEF FindMostWorkChain, Less
<1> HIDE DEF t
<1>7. tip \in cands /\ t \in cands /\ Path(t) \subseteq data
  BY <1>1, <1>3, <1>4, <1>6
<1>8. ASSUME NEW c \in cands PROVE ~LessBy(seq, t, c)
  <2>1. CASE c \in Usable
    BY <1>6, <2>1
  <2>2. CASE c \notin Usable
    <3>1. PICK u \in Usable : ~LessBy(seq, u, c)
      BY <1>1, <2>2 DEF Discarded, Less
    <3>2. t \in Blocks /\ u \in Blocks /\ c \in Blocks /\ ~LessBy(seq, t, u)
      BY <1>2, <1>4, <1>6, <3>1
    <3> QED
      BY <1>2, <3>1, <3>2, OrderFacts
  <2> QED
    BY <2>1, <2>2
<1>9. BestReached(seq, tip, data, t, cands)
  BY <1>7, <1>8 DEF BestReached, Path
<1>10. \A b \in data \cap linked : Ahead(seq, tip, b) => b \in (unlinked \cup UnlinkedByFind) \cup cands
  BY <1>1 DEF Kept
<1>11. \A x \in (unlinked \cup UnlinkedByFind) \cap linked :
          x \in data /\ ~(Chain[x] \ Chain[tip] \subseteq data)
  BY <1>1 DEF Kept, Path
<1>12. (\A c \in cands : ~LessBy(seq, c, tip)) /\ ("crash" \notin Features => tip \in data)
  BY DEF Kept
<1> HIDE DEF cands
<1>13. Kept(seq, tip, data, linked, unlinked \cup UnlinkedByFind, cands)
  BY <1>7, <1>10, <1>11, <1>12 DEF Kept
<1> QED
  BY <1>9, <1>13 DEF cands, t

\* A block that is not worse, or has more work, than one as good as the tip is as good as
\* the tip.
LEMMA AheadAbove ==
    ASSUME NEW s \in [Blocks -> Int], NEW t \in Blocks, NEW n \in Blocks, NEW b \in Blocks,
           ~LessBy(s, n, t), Ahead(s, n, b)
    PROVE  Ahead(s, t, b) /\ ~LessBy(s, b, n)
<1>1. CASE "crash" \in Features
  <2>1. Work[b] > Work[n] /\ Work[n] >= Work[t]
    BY <1>1, OrderFacts DEF Ahead
  <2>2. Work[b] > Work[t]
    BY SMT, <2>1, TreeAssumption
  <2> QED
    BY <1>1, <2>1, <2>2, OrderFacts DEF Ahead
<1>2. CASE "crash" \notin Features
  <2>1. ~LessBy(s, b, n)
    BY <1>2 DEF Ahead
  <2>2. ~LessBy(s, b, t)
    BY <2>1, OrderFacts
  <2> QED
    BY <1>2, <2>1, <2>2 DEF Ahead
<1> QED
  BY <1>1, <1>2

\* Where a step towards the best candidate t ends: nothing refuses to be connected, so
\* that it ends at t or at a block with more work than the tip, which is a candidate.
LEMMA StepReaches ==
    ASSUME Harmless, IInv, NEW p \in Threads, NEW w, NEW cands \in SUBSET linked, NEW t \in linked,
           Kept(seq, tip, data, linked, w, cands), BestReached(seq, tip, data, t, cands),
           t # tip
    PROVE  /\ Refused(p, t) = {} /\ NewTip(p, t) = Last(p, t)
           /\ Last(p, t) \in Path(t) /\ Last(p, t) \in cands
<1> DEFINE S == {t} \cup {x \in Path(t) : Work[x] > Work[tip]}
           new == Last(p, t)
<1>1. /\ seq \in [Blocks -> Int] /\ linked \subseteq Blocks /\ t \in Blocks /\ tip \in Blocks
      /\ ChainOK(t) /\ ChainOK(tip) /\ Chain[t] \subseteq linked
  BY Chains DEF IInv, ShapeOK, LinkedOK
<1>2. Path(t) \subseteq data /\ t \in cands /\ ~LessBy(seq, t, tip)
  BY DEF BestReached, Path, Kept
<1>3. Refused(p, t) = {}
  BY <1>2 DEF Refused, Damaged, Harmless
<1>4. new = Lowest(S) /\ NewTip(p, t) = new
  BY <1>3 DEF Last, NewTip
<1>5. t \in Path(t)
  <2>1. Work[t] >= Work[tip] /\ Work[t] \in Nat /\ Work[tip] \in Nat
    BY <1>1, <1>2, OrderFacts, TreeAssumption
  <2>2. t \notin Chain[tip]
    BY SMT, <1>1, <2>1 DEF ChainOK
  <2> QED
    BY <1>1, <2>2 DEF Path, ChainOK
<1>6. S \subseteq Path(t) /\ S \in SUBSET Blocks /\ S # {}
  BY <1>1, <1>5 DEF Path, ChainOK
<1> HIDE DEF S, new
<1>7. new \in S
  BY <1>4, <1>6, LowestIs
<1>8. CASE new = t
  BY <1>2, <1>3, <1>4, <1>5, <1>8 DEF new
<1>9. CASE new # t
  <2>1. new \in Path(t) /\ Work[new] > Work[tip]
    BY <1>7, <1>9 DEF S
  <2>2. new \in Blocks /\ new \in linked /\ new \in data /\ new \in Chain[t]
    BY <1>1, <1>2, <2>1 DEF Path
  <2>3. Ahead(seq, tip, new)
    BY <1>1, <2>1, <2>2, OrderFacts DEF Ahead
  <2>4. Path(new) \subseteq data
    BY <1>1, <1>2, <2>2, PathBelow
  <2>5. new \in cands
    BY <2>2, <2>3, <2>4 DEF Kept, Path
  <2> QED
    BY <1>3, <1>4, <2>1, <2>5 DEF new
<1> QED
  BY <1>8, <1>9

\* When the blocks on the way back are on disk, the tip moves to new and everything better
\* is kept for it.
LEMMA StepKeeps ==
    ASSUME IInv, NEW w, NEW cands \in SUBSET linked, NEW t \in linked, NEW new \in cands,
           Kept(seq, tip, data, linked, w, cands), BestReached(seq, tip, data, t, cands),
           Leaving(t) \subseteq data, new \in Path(t)
    PROVE  /\ Kept(seq, new, data, linked, w, NotWorse(cands, seq, new))
           /\ BestReached(seq, new, data, t, NotWorse(cands, seq, new))
<1> DEFINE kept == NotWorse(cands, seq, new)
<1>1. /\ seq \in [Blocks -> Int] /\ linked \subseteq Blocks /\ t \in Blocks /\ tip \in Blocks
      /\ new \in Blocks /\ ChainOK(t) /\ ChainOK(tip) /\ ChainOK(new)
  BY Chains DEF IInv, ShapeOK, LinkedOK
<1>2. /\ Path(t) \subseteq data /\ t \in cands /\ ~LessBy(seq, t, new) /\ ~LessBy(seq, new, tip)
      /\ new \in Chain[t] /\ new \notin Chain[tip]
  BY DEF BestReached, Path, Kept
<1>3. Chain[tip] \ Chain[new] \subseteq data /\ Chain[new] \ Chain[tip] \subseteq data
  <2>1. ASSUME NEW x \in Chain[tip] \ Chain[new] PROVE x \in data
    <3>1. x \in Chain[t] => new \in Chain[x]
      BY <1>1, <1>2 DEF ChainOK
    <3>2. x \notin Chain[t]
      BY <1>1, <1>2, <3>1 DEF ChainOK
    <3> QED
      BY <3>2 DEF Leaving
  <2>2. Path(new) \subseteq data
    BY <1>1, <1>2, PathBelow
  <2> QED
    BY <2>1, <2>2 DEF Path
<1>4. \A x : Chain[x] \ Chain[tip] \subseteq data <=> Chain[x] \ Chain[new] \subseteq data
  BY <1>3
<1>5. new \in data
  BY <1>1, <1>2, <1>3 DEF ChainOK
<1>6. new \in kept /\ t \in kept /\ kept \subseteq cands /\ \A c \in kept : ~LessBy(seq, c, new)
  BY <1>1, <1>2, OrderFacts DEF NotWorse
<1>7. ASSUME NEW b \in data \cap linked, Ahead(seq, new, b) PROVE b \in w \cup kept
  <2>1. Ahead(seq, tip, b) /\ ~LessBy(seq, b, new)
    BY <1>1, <1>2, <1>7, AheadAbove
  <2> QED
    BY <2>1 DEF Kept, NotWorse
<1>8. \A x \in w \cap linked : x \in data /\ ~(Chain[x] \ Chain[new] \subseteq data)
  BY <1>4 DEF Kept
<1> HIDE DEF kept
<1>9. Kept(seq, new, data, linked, w, kept)
  BY <1>5, <1>6, <1>7, <1>8 DEF Kept
<1>10. BestReached(seq, new, data, t, kept)
  BY <1>2, <1>4, <1>6 DEF BestReached, Path
<1> QED
  BY <1>9, <1>10 DEF kept

\* The best candidate is the only one when it is the tip.
LEMMA BestAlone ==
    ASSUME IInv, NEW t \in Blocks, NEW w, NEW cands \in SUBSET linked,
           Kept(seq, t, data, linked, w, cands), BestReached(seq, t, data, t, cands)
    PROVE  cands = {t}
<1>1. seq \in [Blocks -> Int] /\ linked \subseteq Blocks
  BY DEF IInv, ShapeOK, LinkedOK
<1>2. ASSUME NEW c \in cands PROVE c = t
  <2>1. ~LessBy(seq, c, t) /\ ~LessBy(seq, t, c) /\ c \in Blocks
    BY <1>1 DEF Kept, BestReached
  <2> QED
    BY <1>1, <2>1, OrderLinear
<1> QED
  BY <1>2 DEF Kept

\* What the next state keeps.
LEMMA KeepNext ==
    ASSUME OneThread, NEW p \in Threads, pc' \in [Threads -> {"idle", "activate"}],
           failure' # "assert",
           failure' = "none" => Kept(seq', tip', data', linked', unlinked', candidates'),
           failure' = "none" /\ mostWork'[p] # None =>
              tip' \in Chain[mostWork'[p]] /\ BestReached(seq', tip', data', mostWork'[p], candidates'),
           failure' = "none" /\ pc'[p] = "idle" => candidates' = {tip'} /\ mostWork'[p] = None
    PROVE  KeepOK'
<1>1. \A q \in Threads : q = p
  BY DEF OneThread
<1>2. Kept(seq, tip, data, linked, unlinked, candidates)'
      <=> Kept(seq', tip', data', linked', unlinked', candidates')
  BY DEF Kept, Ahead, LessBy
<1>3. ASSUME failure' = "none" PROVE TurnsOK'
  BY <1>1, <1>3 DEF TurnsOK, BestReached, LessBy
<1> QED
  BY <1>2, <1>3 DEF KeepOK

\* A round of ActivateBestChain starts with the candidates that can be used, and with the
\* best of them as its target.
LEMMA RoundStarts ==
    ASSUME WInv, MarksOK, KeepOK, NEW p \in Threads, ActivateBestChain(p)
    PROVE  \E cands \in SUBSET linked :
              /\ cands = IF mostWork[p] = None THEN candidates \ ErasedByFind ELSE candidates
              /\ Kept(seq, tip, data, linked, unlinked', cands)
              /\ BestReached(seq, tip, data, Target(p), cands)
              /\ Target(p) \in linked
<1> DEFINE cands == IF mostWork[p] = None THEN candidates \ ErasedByFind ELSE candidates
<1>1. /\ IInv /\ failure = "none" /\ Kept(seq, tip, data, linked, unlinked, candidates) /\ TurnsOK
      /\ candidates \subseteq linked
  BY DEF WInv, IInv, LinkedOK, KeepOK, ActivateBestChain
<1>2. CASE mostWork[p] = None
  <2>1. unlinked' = unlinked \cup UnlinkedByFind /\ Target(p) = FindMostWorkChain
    BY <1>2 DEF ActivateBestChain, Target
  <2>2. /\ Kept(seq, tip, data, linked, unlinked \cup UnlinkedByFind, candidates \ ErasedByFind)
        /\ BestReached(seq, tip, data, FindMostWorkChain, candidates \ ErasedByFind)
    BY <1>1, FindKeeps
  <2>3. FindMostWorkChain \in linked
    BY <1>1, <2>2 DEF BestReached
  <2> QED
    BY <1>1, <1>2, <2>1, <2>2, <2>3
<1>3. CASE mostWork[p] # None
  <2>1. unlinked' = unlinked /\ Target(p) = mostWork[p]
    BY <1>3 DEF ActivateBestChain, Target
  <2>2. BestReached(seq, tip, data, mostWork[p], candidates)
    BY <1>1, <1>3 DEF TurnsOK
  <2>3. mostWork[p] \in linked
    BY <1>1, <2>2 DEF BestReached
  <2> QED
    BY <1>1, <1>3, <2>1, <2>2, <2>3
<1> QED
  BY <1>2, <1>3

\* A round loses nothing that is better than the new tip, and the last one ends with the
\* tip as the only candidate.
LEMMA RoundKeeps ==
    ASSUME OneThread, Harmless, WInv, MarksOK, KeepOK, NEW p \in Threads, ActivateBestChain(p)
    PROVE  KeepOK' /\ UNCHANGED <<failedValid, failedChild, tx, disk>>
<1> DEFINE t == Target(p)
<1>1. PICK cands \in SUBSET linked :
         /\ cands = IF mostWork[p] = None THEN candidates \ ErasedByFind ELSE candidates
         /\ Kept(seq, tip, data, linked, unlinked', cands)
         /\ BestReached(seq, tip, data, t, cands)
         /\ t \in linked
  BY RoundStarts
<1>2. /\ failure = "none" /\ UNCHANGED <<tx, data, linked, seq, disk>> /\ UNCHANGED failedChild
      /\ IInv /\ FailedByFind = {}
  BY FindLeaves DEF ActivateBestChain, orderVars, WInv
<1>3. /\ linked \subseteq Blocks /\ tip \in Blocks /\ t \in Blocks /\ t # None
      /\ pc \in [Threads -> {"idle", "activate"}] /\ mostWork \in [Threads -> linked \cup {None}]
  BY <1>1, <1>2, ValidityAssumption DEF IInv, ShapeOK, LinkedOK, KeepOK
<1>4. CASE t = tip
  <2>1. /\ candidates' = cands /\ pc' = [pc EXCEPT ![p] = "idle"]
        /\ mostWork' = [mostWork EXCEPT ![p] = None]
        /\ UNCHANGED <<tip, failedValid, failure>>
    BY <1>1, <1>4 DEF ActivateBestChain
  <2>2. cands = {tip}
    BY <1>1, <1>2, <1>3, <1>4, BestAlone
  <2>3. /\ pc' \in [Threads -> {"idle", "activate"}] /\ mostWork'[p] = None
        /\ failure' = "none"
    BY <1>2, <1>3, <2>1
  <2>4. Kept(seq', tip', data', linked', unlinked', candidates')
    BY <1>1, <1>2, <2>1
  <2> QED
    BY <1>2, <2>1, <2>2, <2>3, <2>4, KeepNext
<1>5. CASE t # tip
  <2>1. ActivateBestChainStep(p, t, cands)
    BY <1>1, <1>3, <1>5 DEF ActivateBestChain
  <2> HIDE DEF t
  <2>2. CASE Lost(t) # {}
    <3>1. failure' = "abort" /\ UNCHANGED <<failedValid, pc>>
      BY <2>1, <2>2 DEF ActivateBestChainStep
    <3> QED
      BY <1>2, <1>3, <3>1 DEF KeepOK
  <2>3. CASE Lost(t) = {}
    <3> DEFINE new == Last(p, t)
               kept == NotWorse(cands, seq, new)
    <3>1. Refused(p, t) = {} /\ NewTip(p, t) = new /\ new \in Path(t) /\ new \in cands
      BY <1>1, <1>2, <1>5, StepReaches
    <3>2. /\ tip' = new /\ candidates' = kept /\ failedValid' = failedValid
          /\ failure' = IF kept = {} THEN "assert" ELSE "none"
          /\ mostWork' = [mostWork EXCEPT ![p] = IF new = t THEN None ELSE t]
          /\ pc' = [pc EXCEPT ![p] = IF new = t THEN "idle" ELSE "activate"]
      <4>1. \E last \in {new}, n \in {new} :
               /\ tip' = n
               /\ candidates' = NotWorse(cands, seq, n) \ {}
               /\ failedValid' = failedValid \cup {}
               /\ failure' = IF NotWorse(cands, seq, n) = {} THEN "assert" ELSE "none"
               /\ mostWork' = [mostWork EXCEPT ![p] = IF n = t THEN None ELSE t]
               /\ pc' = [pc EXCEPT ![p] = IF n = t THEN "idle" ELSE "activate"]
        <5> HIDE DEF new
        <5> QED
          BY <2>1, <2>3, <3>1 DEF ActivateBestChainStep, LoopEnds, Cached
      <4> QED
        BY <4>1
    <3>3. Leaving(t) \subseteq data
      BY <2>3 DEF Lost
    <3> HIDE DEF new
    <3>4. Kept(seq, new, data, linked, unlinked', kept) /\ BestReached(seq, new, data, t, kept)
      BY <1>1, <1>2, <3>1, <3>3, StepKeeps
    <3>5. kept \in SUBSET linked /\ new \in kept /\ new \in Chain[t] /\ new \in Blocks
      BY <1>1, <1>3, <3>1, <3>4 DEF NotWorse, Kept, Path
    <3> HIDE DEF kept
    <3>6. failure' = "none" /\ pc' \in [Threads -> {"idle", "activate"}]
      BY <1>3, <3>2, <3>5
    <3>7. Kept(seq', tip', data', linked', unlinked', candidates')
      BY <1>2, <3>2, <3>4
    <3>8. CASE new = t
      <4>1. pc'[p] = "idle" /\ mostWork'[p] = None
        BY <1>3, <3>2, <3>8
      <4>2. candidates' = {tip'}
        BY <1>2, <3>2, <3>4, <3>5, <3>8, BestAlone
      <4> QED
        BY <1>2, <3>2, <3>6, <3>7, <4>1, <4>2, KeepNext
    <3>9. CASE new # t
      <4>1. pc'[p] = "activate" /\ mostWork'[p] = t
        BY <1>3, <3>2, <3>9
      <4>2. tip' \in Chain[t] /\ BestReached(seq', tip', data', t, candidates')
        BY <1>2, <3>2, <3>4, <3>5
      <4> QED
        BY <1>2, <3>2, <3>6, <3>7, <4>1, <4>2, KeepNext
    <3> QED
      BY <3>8, <3>9
  <2> QED
    BY <2>2, <2>3
<1> QED
  BY <1>4, <1>5

\* A block that can be reached once b has arrived, and waited, has only waited for b: all
\* the blocks between wait too.
LEMMA WaitedForOne ==
    ASSUME WInv, MarksOK, NEW b \in Blocks, b \notin data, NEW x \in unlinked \cap linked,
           x \in data, ~(Path(x) \subseteq data), Path(x) \subseteq data \cup {b}
    PROVE  x \in JustLinked(b)
<1>1. /\ x \in Blocks /\ tip \in Blocks /\ ChainOK(x) /\ ChainOK(tip) /\ ChainOK(b)
      /\ Chain[x] \cap Failed = {}
  BY Chains, LinkedUnmarked DEF WInv, IInv, ShapeOK, LinkedOK
<1>2. b \in Chain[x] /\ b \notin Chain[tip] /\ x # b
  BY DEF Path
<1>3. ASSUME NEW y \in Chain[x] \ Chain[b] PROVE b \in Chain[y] /\ y \in data /\ y \in Blocks
  <2>1. y \in Blocks /\ b \in Chain[y] /\ y # b
    BY <1>1, <1>2 DEF ChainOK
  <2>2. y \notin Chain[tip]
    BY <1>1, <1>2, <2>1 DEF ChainOK
  <2> QED
    BY <2>1, <2>2 DEF Path
<1> DEFINE G == {z \in Chain[x] \ Chain[b] : z \in unlinked /\ Chain[x] \ Chain[z] \subseteq unlinked}
<1>4. x \in Chain[x] \ Chain[b]
  <2>1. Work[b] < Work[x]
    BY <1>1, <1>2 DEF ChainOK
  <2>2. x \notin Chain[b]
    BY SMT, <1>1, <2>1, TreeAssumption DEF ChainOK
  <2> QED
    BY <1>1, <2>2 DEF ChainOK
<1>5. x \in G /\ G \in SUBSET Blocks
  BY <1>3, <1>4
<1>6. PICK z \in G : \A y \in G : Work[z] <= Work[y]
  BY <1>5, LeastWork
<1>7. /\ z \in Chain[x] /\ z \notin Chain[b] /\ z \in unlinked /\ Chain[x] \ Chain[z] \subseteq unlinked
      /\ z \in Blocks /\ ChainOK(z) /\ z # Genesis
  BY <1>1, <1>5, <1>6, Chains DEF ChainOK, WInv, WaitOK
<1>8. /\ Parent[z] \in Blocks /\ Parent[z] \in Chain[z] /\ Chain[z] = {z} \cup Chain[Parent[z]]
      /\ Work[Parent[z]] < Work[z] /\ Work[z] \in Nat /\ Work[Parent[z]] \in Nat
  BY <1>7, Parents, TreeAssumption
<1>9. Parent[z] \in Chain[x] /\ Chain[x] \ Chain[Parent[z]] \subseteq unlinked /\ Chain[z] \subseteq Chain[x]
  BY <1>1, <1>7, <1>8 DEF ChainOK
<1>10. Parent[z] \notin G
  BY SMT, <1>6, <1>8
<1>11. Parent[z] \in Chain[b]
  <2> SUFFICES ASSUME Parent[z] \notin Chain[b] PROVE FALSE
    OBVIOUS
  <2>1. Parent[z] \in data
    BY <1>3, <1>9
  <2>2. Parent[z] \in unlinked
    BY <1>1, <1>7, <1>9, <2>1 DEF WInv, WaitOK
  <2> QED
    BY <1>9, <1>10, <2>2
<1>12. Chain[x] \ Chain[b] \subseteq unlinked
  BY <1>1, <1>9, <1>11 DEF ChainOK
<1> QED
  BY <1>2, <1>12 DEF JustLinked

\* A block that arrives, or arrives again, takes the blocks with it that waited for it
\* alone; the others cannot be reached yet.
LEMMA ReceivedKeeps ==
    ASSUME OneThread, WInv, IInv', MarksOK, KeepOK, NEW p \in Threads, NEW b \in Blocks,
           NEW fRequested \in BOOLEAN, ProcessNewBlock(p, b, fRequested)
    PROVE  KeepOK'
<1>1. /\ failure = "none" /\ failure' = "none" /\ pc[p] = "idle" /\ UNCHANGED <<tip, mostWork>>
      /\ pc \in [Threads -> {"idle", "activate"}]
      /\ Kept(seq, tip, data, linked, unlinked, candidates)
      /\ candidates = {tip} /\ mostWork[p] = None
  BY DEF ProcessNewBlock, KeepOK, TurnsOK
<1>2. CASE ~(Wanted(b, fRequested) /\ b \notin ContextBad)
  <2>1. /\ UNCHANGED <<data, linked, seq, candidates, unlinked>>
        /\ pc' \in {pc, [pc EXCEPT ![p] = "activate"]}
    BY <1>2 DEF ProcessNewBlock
  <2>2. pc' \in [Threads -> {"idle", "activate"}]
    BY <1>1, <2>1
  <2>3. Kept(seq', tip', data', linked', unlinked', candidates')
    BY <1>1, <2>1
  <2> QED
    BY <1>1, <2>1, <2>2, <2>3, KeepNext
<1>3. CASE Wanted(b, fRequested) /\ b \notin ContextBad
  <2>1. ReceivedBlockTransactions(b) /\ pc' = [pc EXCEPT ![p] = "activate"] /\ b \notin data
    BY <1>3 DEF ProcessNewBlock, Wanted
  <2>2. data' = data \cup {b} /\ pc' \in [Threads -> {"idle", "activate"}] /\ pc'[p] = "activate"
    BY <1>1, <2>1 DEF ReceivedBlockTransactions
  <2>3. /\ linked \subseteq Blocks /\ linked' \subseteq Blocks /\ tip \in linked
        /\ seq' \in [Blocks -> Int] /\ \A x \in linked : Chain[x] \subseteq linked
    BY DEF WInv, IInv, ShapeOK, LinkedOK
  <2>4. CASE b = Genesis \/ Parent[b] \in linked
    <3> DEFINE L == JustLinked(b)
    <3>1. PICK s \in Numberings(L) : seq' = [x \in Blocks |-> IF x \in L THEN s[x] ELSE seq[x]]
      BY <2>1, <2>4 DEF ReceivedBlockTransactions
    <3>2. /\ linked' = linked \cup L /\ candidates' = candidates \cup NotWorse(L, seq', tip)
          /\ unlinked' = unlinked \ (L \ {b})
      BY <2>1, <2>4 DEF ReceivedBlockTransactions
    <3>3. b \in L /\ L \subseteq unlinked \cup {b}
      BY Chains DEF JustLinked, ChainOK
    <3>4. b \notin unlinked
      BY <1>1, <2>1, <2>4 DEF WInv, WaitOK, Kept
    <3>5. \A x \in unlinked \cap linked : x \in data => ~(Path(x) \subseteq data \cup {b}) \/ x \in L
      BY <1>1, <2>1, WaitedForOne DEF Kept, Path
    <3>6. tip \in L => tip = b
      BY <1>1, <2>3, <3>3 DEF Kept
    <3> HIDE DEF L
    <3>7. ~LessBy(seq', tip, tip)
      BY <2>3, OrderFacts
    <3>8. ASSUME NEW x \in data' \cap linked', Ahead(seq', tip, x) PROVE x \in unlinked' \cup candidates'
      <4>1. CASE x \in L
        <5>1. ~LessBy(seq', x, tip)
          BY <2>3, <3>8, OrderFacts DEF Ahead
        <5> QED
          BY <3>2, <4>1, <5>1 DEF NotWorse
      <4>2. CASE x \notin L
        <5>1. x \in data \cap linked /\ x \in Blocks
          BY <2>2, <2>3, <3>2, <3>3, <4>2
        <5>2. Ahead(seq, tip, x)
          <6>1. CASE "crash" \in Features
            BY <3>8, <6>1 DEF Ahead
          <6>2. CASE "crash" \notin Features
            <7>1. tip \notin L /\ tip \in Blocks
              BY <1>1, <2>1, <2>3, <3>6, <6>2 DEF Kept
            <7>2. seq'[x] = seq[x] /\ seq'[tip] = seq[tip]
              BY <3>1, <4>2, <5>1, <7>1
            <7> QED
              BY <3>8, <6>2, <7>2 DEF Ahead, LessBy
          <6> QED
            BY <6>1, <6>2
        <5> QED
          BY <1>1, <3>2, <4>2, <5>1, <5>2 DEF Kept
      <4> QED
        BY <4>1, <4>2
    <3>9. ASSUME NEW x \in unlinked' \cap linked'
          PROVE  x \in data' /\ ~(Chain[x] \ Chain[tip] \subseteq data')
      <4>1. x \in unlinked \cap linked /\ x \notin L
        BY <3>2, <3>3, <3>4
      <4>2. x \in data
        BY <1>1, <4>1 DEF Kept
      <4> QED
        BY <2>2, <3>5, <4>1, <4>2 DEF Path
    <3>10. \A c \in candidates' : ~LessBy(seq', c, tip)
      BY <1>1, <3>2, <3>7 DEF NotWorse
    <3>11. tip \in candidates' /\ ("crash" \notin Features => tip \in data')
      BY <1>1, <2>2, <3>2 DEF Kept
    <3>12. Kept(seq', tip, data', linked', unlinked', candidates')
      BY <3>8, <3>9, <3>10, <3>11 DEF Kept
    <3> QED
      BY <1>1, <2>2, <3>12, KeepNext
  <2>5. CASE ~(b = Genesis \/ Parent[b] \in linked)
    <3>1. /\ linked' = linked \ {b} /\ UNCHANGED <<seq, candidates>>
          /\ unlinked \subseteq unlinked' /\ unlinked' \subseteq unlinked \cup {b}
      BY <2>1, <2>5 DEF ReceivedBlockTransactions
    <3>2. b \notin linked
      BY <2>3, <2>5, Parents
    <3>3. \A x \in data' \cap linked' : Ahead(seq', tip, x) => x \in unlinked' \cup candidates'
      BY <1>1, <2>2, <3>1 DEF Kept
    <3>4. \A x \in unlinked' \cap linked' : x \in data' /\ ~(Chain[x] \ Chain[tip] \subseteq data')
      <4> SUFFICES ASSUME NEW x \in unlinked' \cap linked'
                   PROVE  x \in data' /\ ~(Chain[x] \ Chain[tip] \subseteq data')
        OBVIOUS
      <4>1. x \in unlinked /\ x \in linked /\ b \notin Chain[x]
        BY <2>3, <3>1, <3>2
      <4> QED
        BY <1>1, <2>2, <4>1 DEF Kept
    <3>5. /\ \A c \in candidates' : ~LessBy(seq', c, tip)
          /\ tip \in candidates' /\ ("crash" \notin Features => tip \in data')
      BY <1>1, <2>2, <3>1 DEF Kept
    <3>6. Kept(seq', tip, data', linked', unlinked', candidates')
      BY <3>3, <3>4, <3>5 DEF Kept
    <3> QED
      BY <1>1, <2>2, <3>6, KeepNext
  <2> QED
    BY <2>4, <2>5
<1> QED
  BY <1>2, <1>3

\* FindFilesToPrune leaves the tip, and what is above it: what could be reached still can.
LEMMA FlushKeeps ==
    ASSUME OneThread, WInv, KeepOK, NEW P \in PruneSets, NEW full \in BOOLEAN,
           FlushStateToDisk(P, full)
    PROVE  KeepOK'
<1>1. /\ data' = data \ P /\ unlinked' = unlinked \ P
      /\ UNCHANGED <<linked, seq, candidates, tip, pc, mostWork, failure>>
  BY DEF FlushStateToDisk, orderVars, threadVars
<1>2. PICK p \in Threads : TRUE
  BY DEF OneThread
<1>3. failure' # "assert" /\ pc' \in [Threads -> {"idle", "activate"}]
  BY <1>1 DEF KeepOK
<1>4. CASE failure # "none"
  BY <1>1, <1>2, <1>3, <1>4, KeepNext
<1>5. CASE failure = "none"
  <2>1. Kept(seq, tip, data, linked, unlinked, candidates) /\ TurnsOK
    BY <1>5 DEF KeepOK
  <2>2. /\ tip \in Blocks /\ Height[tip] \in Nat
        /\ mostWork[p] # None => mostWork[p] \in Blocks
    BY TreeAssumption DEF WInv, IInv, ShapeOK, LinkedOK
  <2>3. \A x \in P : x \in Blocks /\ Height[x] <= Height[tip] - MIN_BLOCKS_TO_KEEP
    BY DEF PruneSets, Prunable
  <2>4. \A x \in P : Height[x] \in Nat /\ Height[x] < Height[tip]
    BY SMT, <2>2, <2>3, TreeAssumption, KeepAssumption
  <2>5. tip \notin P
    BY SMT, <2>2, <2>4
  <2>6. Kept(seq', tip', data', linked', unlinked', candidates')
    <3>1. \A x \in data' \cap linked : Ahead(seq, tip, x) => x \in unlinked' \cup candidates
      BY <1>1, <2>1 DEF Kept
    <3>2. \A x \in unlinked' \cap linked : x \in data' /\ ~(Chain[x] \ Chain[tip] \subseteq data')
      BY <1>1, <2>1 DEF Kept
    <3>3. /\ \A c \in candidates : ~LessBy(seq, c, tip)
          /\ tip \in candidates /\ ("crash" \notin Features => tip \in data')
      BY <1>1, <2>1, <2>5 DEF Kept
    <3> QED
      BY <1>1, <3>1, <3>2, <3>3 DEF Kept
  <2>7. ASSUME mostWork[p] # None
        PROVE  tip \in Chain[mostWork[p]] /\ BestReached(seq, tip, data', mostWork[p], candidates)
    <3> DEFINE m == mostWork[p]
    <3>1. tip \in Chain[m] /\ BestReached(seq, tip, data, m, candidates) /\ ChainOK(m) /\ ChainOK(tip)
      BY <2>1, <2>2, <2>7, Chains DEF TurnsOK
    <3> HIDE DEF m
    <3>2. ASSUME NEW x \in Chain[m] \ Chain[tip] PROVE x \in data'
      <4>1. x \in Blocks /\ tip \in Chain[x] /\ x # tip
        BY <3>1 DEF ChainOK
      <4>2. Height[tip] < Height[x]
        BY <4>1, Heights
      <4>3. x \notin P
        BY SMT, <2>2, <2>4, <4>2
      <4> QED
        BY <1>1, <3>1, <4>3 DEF BestReached
    <3> QED
      BY <3>1, <3>2 DEF BestReached, m
  <2>8. pc[p] = "idle" => candidates = {tip} /\ mostWork[p] = None
    BY <2>1 DEF TurnsOK
  <2> QED
    BY <1>1, <1>2, <1>3, <2>6, <2>7, <2>8, KeepNext
<1> QED
  BY <1>4, <1>5

\* LoadBlockIndexDB makes every linked block that is as good as the tip a candidate, and
\* lets no linked block wait.
LEMMA RestartKeeps ==
    ASSUME OneThread, "crash" \in Features, NEW d \in DiskType, Chain[d.tip] \subseteq d.tx,
           d.tx \cap ContextBad = {},
           \A b \in d.failedValid \cup d.failedChild : Chain[b] \cap ContextBad # {}, Restart(d)
    PROVE  MarksOK' /\ KeepOK'
<1> DEFINE zero == [b \in Blocks |-> 0]
           joined == Joined(d)
           F == d.failedValid \cup d.failedChild
           kept == NotWorse(joined \ F, zero, d.tip)
<1>1. /\ linked' = joined /\ seq' = zero /\ candidates' = kept /\ tip' = d.tip /\ data' = d.data
      /\ tx' = d.tx /\ unlinked' = d.tx \ joined
      /\ failedValid' = d.failedValid /\ failedChild' = d.failedChild /\ disk' = d
      /\ failure' = IF kept = {} THEN "assert" ELSE "none"
  BY DEF Restart
<1>2. d.tip \in Blocks /\ d.tip \in joined /\ joined \subseteq Blocks
  BY Chains DEF DiskType, Joined, ChainOK
<1>3. MarksOK'
  BY <1>1 DEF MarksOK, Failed
<1>4. joined \cap F = {}
  BY DEF Joined
<1>5. zero \in [Blocks -> Int]
  BY SMT
<1> HIDE DEF zero, joined, F
<1>6. d.tip \in kept
  BY <1>2, <1>4, <1>5, OrderFacts DEF NotWorse
<1>7. ASSUME NEW b \in joined, Ahead(zero, d.tip, b) PROVE b \in kept
  <2>1. Work[b] > Work[d.tip] /\ b \in Blocks
    BY <1>2, <1>7 DEF Ahead
  <2>2. ~LessBy(zero, b, d.tip)
    BY <1>2, <1>5, <2>1, OrderFacts
  <2> QED
    BY <1>4, <2>2 DEF NotWorse
<1>8. \A c \in kept : ~LessBy(zero, c, d.tip)
  BY DEF NotWorse
<1> HIDE DEF kept
<1>9. Kept(zero, d.tip, d.data, joined, d.tx \ joined, kept)
  BY <1>6, <1>7, <1>8 DEF Kept
<1>10. PICK q \in Threads : pc' = [p \in Threads |-> IF p = q THEN "activate" ELSE "idle"]
  BY DEF Restart
<1>11. /\ pc' \in [Threads -> {"idle", "activate"}] /\ pc'[q] = "activate" /\ mostWork'[q] = None
       /\ failure' = "none"
  BY <1>1, <1>6, <1>10 DEF Restart
<1>12. KeepOK'
  BY <1>1, <1>9, <1>11, KeepNext
<1> QED
  BY <1>3, <1>12

\* A flush, or a crash in one, writes no other marks than the node has.
LEMMA MarksWritten ==
    ASSUME IInv, MarksOK, NEW P
    PROVE  \A b \in IndexWritten(P, failedChild).failedValid \cup IndexWritten(P, failedChild).failedChild :
              Chain[b] \cap ContextBad # {}
<1> DEFINE r == IndexWritten(P, failedChild)
<1>1. /\ r.failedValid \subseteq disk.failedValid \cup failedValid
      /\ r.failedChild \subseteq disk.failedChild \cup failedChild
  BY WrittenIs DEF IInv, ShapeOK
<1> HIDE DEF r
<1>2. \A b \in r.failedValid \cup r.failedChild : Chain[b] \cap ContextBad # {}
  BY <1>1 DEF MarksOK, Failed
<1> QED
  BY <1>2 DEF r

\* Wherever a crash comes, the index is loaded from a disk that has no other marks.
LEMMA CrashKeeps ==
    ASSUME OneThread, WInv, MarksOK,
           \/ Crash
           \/ \E P \in PruneSets : CrashInFlush(P)
           \/ \E p \in Threads : CrashInStep(p)
    PROVE  MarksOK' /\ KeepOK'
<1>1. IInv /\ "crash" \in Features /\ tx \cap ContextBad = {} /\ failedChild \in SUBSET Blocks
  BY DEF WInv, IInv, ShapeOK, MarksOK, Crash, CrashInFlush, CrashInStep
<1>2. CASE Crash
  <2>1. Restart(disk) /\ disk \in DiskType /\ Chain[disk.tip] \subseteq disk.tx /\ disk.tx \subseteq tx
    BY <1>1, <1>2 DEF Crash, IInv, ShapeOK, StoredOK, DiskOrdered
  <2>2. \A b \in disk.failedValid \cup disk.failedChild : Chain[b] \cap ContextBad # {}
    BY DEF MarksOK
  <2> QED
    BY <1>1, <2>1, <2>2, RestartKeeps
<1>3. ASSUME NEW P \in PruneSets, CrashInFlush(P) PROVE MarksOK' /\ KeepOK'
  <2> DEFINE r == IndexWritten(P, failedChild)
  <2>1. Restart(r) /\ r \in DiskType /\ r.tx = tx /\ r.tip = disk.tip
    BY <1>1, <1>3, WrittenIs DEF CrashInFlush, IInv
  <2>2. \A b \in r.failedValid \cup r.failedChild : Chain[b] \cap ContextBad # {}
    BY <1>1, MarksWritten
  <2> HIDE DEF r
  <2>3. Chain[r.tip] \subseteq r.tx
    BY <1>1, <2>1 DEF IInv, StoredOK, DiskOrdered
  <2> QED
    BY <1>1, <2>1, <2>2, <2>3, RestartKeeps
<1>4. ASSUME NEW p \in Threads, CrashInStep(p) PROVE MarksOK' /\ KeepOK'
  <2>1. PICK x \in linked, child \in SUBSET Blocks :
           /\ child \subseteq failedChild \cup FailedByFind
           /\ [IndexWritten({}, child) EXCEPT !.tip = x] \in DiskType
           /\ Restart([IndexWritten({}, child) EXCEPT !.tip = x])
    BY <1>1, <1>4, CrashInStepIs
  <2> DEFINE r == IndexWritten({}, child)
             d == [r EXCEPT !.tip = x]
  <2>2. child \subseteq failedChild
    BY <1>1, <2>1, FindLeaves
  <2>3. /\ r \in DiskType /\ r.tx = tx
        /\ r.failedValid \subseteq disk.failedValid \cup failedValid
        /\ r.failedChild \subseteq disk.failedChild \cup child
    <3>1. ShapeOK /\ StoredOK /\ child \in SUBSET Blocks
      BY <1>1, <2>1 DEF IInv
    <3> QED
      BY <3>1, WrittenIs
  <2>4. d \in DiskType /\ Restart(d)
    BY <2>1
  <2> HIDE DEF r
  <2>5. d.tx = tx /\ d.tip = x /\ d.failedValid = r.failedValid /\ d.failedChild = r.failedChild
    BY <2>3 DEF DiskType
  <2>6. Chain[x] \subseteq tx
    BY <1>1 DEF IInv, LinkedOK
  <2> HIDE DEF d
  <2>7. \A b \in d.failedValid \cup d.failedChild : Chain[b] \cap ContextBad # {}
    BY <2>2, <2>3, <2>5 DEF MarksOK, Failed
  <2> QED
    BY <1>1, <2>4, <2>5, <2>6, <2>7, RestartKeeps
<1> QED
  BY <1>2, <1>3, <1>4

\* At the start the genesis block is the tip and the one candidate.
LEMMA InitKeeps == Init => PInv
<1> SUFFICES ASSUME Init PROVE PInv
  OBVIOUS
<1>1. WInv
  BY InitLinks
<1>2. MarksOK
  BY ValidityAssumption DEF Init, MarksOK, Failed
<1>3. ~LessBy(seq, Genesis, Genesis)
  BY <1>1, TreeAssumption, OrderFacts DEF WInv, IInv, ShapeOK
<1>4. Kept(seq, tip, data, linked, unlinked, candidates)
  BY <1>3 DEF Init, Kept
<1>5. KeepOK
  BY <1>4 DEF Init, KeepOK, TurnsOK
<1> QED
  BY <1>1, <1>2, <1>5 DEF PInv

\* Arrivals, rounds, pruning and crashes keep what is better than the tip.
LEMMA StepKeepsAll ==
    ASSUME OneThread, Harmless
    PROVE  PInv /\ [Next]_vars => PInv'
<1> SUFFICES ASSUME PInv, [Next]_vars PROVE PInv'
  OBVIOUS
<1>1. WInv /\ IInv /\ MarksOK /\ KeepOK
  BY DEF PInv, WInv
<1>2. WInv' /\ IInv'
  <2>1. "reconsider" \notin Features
    BY SMT DEF Harmless
  <2>2. WInv'
    BY <1>1, <2>1, StepLinks
  <2> QED
    BY <2>2 DEF WInv
<1> SUFFICES MarksOK' /\ KeepOK'
  BY <1>2 DEF PInv
<1>3. CASE /\ UNCHANGED <<tx, data, linked, failedValid, failedChild, seq, candidates, unlinked, tip>>
           /\ UNCHANGED <<disk, failure, pc, mostWork>>
  BY <1>1, <1>3 DEF MarksOK, Failed, KeepOK, TurnsOK, Kept, BestReached, Ahead, LessBy
<1>4. ASSUME NEW b \in Blocks, AcceptBlockHeader(b) PROVE MarksOK' /\ KeepOK'
  BY <1>3, <1>4 DEF AcceptBlockHeader, orderVars, threadVars
<1>5. ASSUME NEW p \in Threads, NEW b \in Blocks, NEW f \in BOOLEAN, ProcessNewBlock(p, b, f)
      PROVE  MarksOK' /\ KeepOK'
  <2>1. KeepOK'
    BY <1>1, <1>2, <1>5, ReceivedKeeps
  <2>2. /\ UNCHANGED <<failedChild, disk>>
        /\ failedValid' \subseteq failedValid \cup ({b} \cap ContextBad)
        /\ tx' \subseteq tx \cup ({b} \ ContextBad)
    BY <1>5 DEF ProcessNewBlock, ReceivedBlockTransactions
  <2>3. b \in Chain[b]
    BY Chains DEF ChainOK
  <2>4. MarksOK'
    BY <1>1, <2>2, <2>3 DEF MarksOK, Failed
  <2> QED
    BY <2>1, <2>4
<1>6. ASSUME NEW p \in Threads, ActivateBestChain(p) PROVE MarksOK' /\ KeepOK'
  BY <1>1, <1>6, RoundKeeps DEF MarksOK, Failed
<1>7. ASSUME NEW p \in Threads, CallActivate(p) PROVE MarksOK' /\ KeepOK'
  <2>1. /\ pc[p] = "idle" /\ failure = "none" /\ pc' = [pc EXCEPT ![p] = "activate"]
        /\ UNCHANGED <<tx, data, linked, failedValid, failedChild, seq, candidates, unlinked, tip>>
        /\ UNCHANGED <<disk, failure, mostWork>>
    BY <1>7 DEF CallActivate, indexVars, orderVars
  <2>2. /\ Kept(seq, tip, data, linked, unlinked, candidates) /\ mostWork[p] = None
        /\ pc' \in [Threads -> {"idle", "activate"}] /\ pc'[p] = "activate"
    BY <1>1, <2>1 DEF KeepOK, TurnsOK
  <2>3. KeepOK'
    BY <2>1, <2>2, KeepNext
  <2> QED
    BY <1>1, <2>1, <2>3 DEF MarksOK, Failed
<1>8. CASE \/ Crash
           \/ \E P \in PruneSets : CrashInFlush(P)
           \/ \E p \in Threads : CrashInStep(p)
  BY <1>1, <1>8, CrashKeeps
<1>9. ASSUME NEW p \in Threads, NEW b \in Blocks,
             PreciousBlock(p, b) \/ InvalidateBlock(p, b) \/ ResetBlockFailureFlags(p, b)
      PROVE  MarksOK' /\ KeepOK'
  <2>1. Features \cap {"precious", "invalidate", "reconsider"} = {}
    BY SMT DEF Harmless
  <2> QED
    BY <1>9, <2>1 DEF PreciousBlock, InvalidateBlock, ResetBlockFailureFlags
<1>10. ASSUME NEW P \in PruneSets, NEW full \in BOOLEAN, FlushStateToDisk(P, full)
       PROVE  MarksOK' /\ KeepOK'
  <2> DEFINE r == IndexWritten(P, failedChild)
  <2>1. KeepOK'
    BY <1>1, <1>10, FlushKeeps
  <2>2. /\ disk' = [r EXCEPT !.tip = IF full THEN tip ELSE @]
        /\ UNCHANGED <<tx, failedValid, failedChild>>
    BY <1>10 DEF FlushStateToDisk
  <2>3. r \in DiskType
    BY <1>1, WrittenIs DEF IInv, ShapeOK
  <2>4. \A b \in r.failedValid \cup r.failedChild : Chain[b] \cap ContextBad # {}
    BY <1>1, MarksWritten
  <2> HIDE DEF r
  <2>5. disk'.failedValid = r.failedValid /\ disk'.failedChild = r.failedChild
    BY <2>2, <2>3 DEF DiskType
  <2>6. MarksOK'
    BY <1>1, <2>2, <2>4, <2>5 DEF MarksOK, Failed
  <2> QED
    BY <2>1, <2>6
<1>11. CASE UNCHANGED vars
  BY <1>3, <1>11 DEF vars, indexVars, orderVars, threadVars
<1> QED
  BY <1>4, <1>5, <1>6, <1>7, <1>8, <1>9, <1>10, <1>11 DEF Next

\* A received chain that is complete is linked.
LEMMA ReceivedIsLinked ==
    ASSUME PInv, NEW b \in data, Chain[b] \subseteq tx, Chain[b] \cap failedValid = {},
           b \notin unlinked
    PROVE  b \in linked
<1>1. b \in Blocks /\ Chain[b] \cap Failed = {}
  BY ValidIsUnmarked DEF PInv, WInv, IInv, ShapeOK
<1> QED
  BY <1>1 DEF PInv, WInv, WaitOK

\* CheckBlockIndex on mapBlocksUnlinked, for a pruned node with one thread whose blocks
\* can all be connected: for any tree, after any pruning, fetching again and crashes, a
\* block on disk with more work than the tip that misses an ancestor waits, so that it is
\* found when the ancestor is fetched again.
THEOREM BetterAreKept ==
    ASSUME OneThread, Harmless
    PROVE  Spec => []BetterAreUnlinked
<1>1. PInv => BetterAreUnlinked
  <2> SUFFICES ASSUME PInv, Quiescent, NEW b \in data, Chain[b] \subseteq tx,
                      Chain[b] \cap failedValid = {}, Work[b] > Work[tip], b \notin unlinked
               PROVE  b \in candidates
    BY DEF BetterAreUnlinked
  <2>1. b \in linked /\ b \in Blocks /\ tip \in Blocks /\ seq \in [Blocks -> Int]
    BY ReceivedIsLinked DEF PInv, WInv, IInv, ShapeOK, LinkedOK
  <2>2. Ahead(seq, tip, b)
    BY <2>1, OrderFacts DEF Ahead
  <2> QED
    BY <2>1, <2>2 DEF PInv, KeepOK, Quiescent, Kept
<1>2. PInv /\ [Next]_vars => PInv'
  BY StepKeepsAll
<1> QED
  BY <1>1, <1>2, InitKeeps, PTL DEF Spec

\* Under the same conditions and without crashes the assertion of CheckBlockIndex holds as
\* it is written, for the blocks that have as much work as the tip too.
THEOREM MissingAreKept ==
    ASSUME OneThread, Harmless, "crash" \notin Features
    PROVE  Spec => []MissingAreUnlinked
<1>1. PInv => MissingAreUnlinked
  <2> SUFFICES ASSUME PInv, Quiescent, NEW b \in data, Chain[b] \subseteq tx,
                      Chain[b] \cap failedValid = {}, ~Less(b, tip), b \notin unlinked
               PROVE  b \in candidates
    BY DEF MissingAreUnlinked
  <2>1. b \in linked /\ Ahead(seq, tip, b)
    BY ReceivedIsLinked DEF Ahead, Less
  <2> QED
    BY <2>1 DEF PInv, KeepOK, Quiescent, Kept
<1>2. PInv /\ [Next]_vars => PInv'
  BY StepKeepsAll
<1> QED
  BY <1>1, <1>2, InitKeeps, PTL DEF Spec

\* On a pruned node, under the same conditions, the assertions on the candidates hold.
THEOREM AssertsHoldPruned ==
    ASSUME OneThread, Harmless
    PROVE  Spec => []NoAssertFails
<1>1. PInv => NoAssertFails
  BY DEF PInv, WInv, IInv, LinkedOK, KeepOK, NoAssertFails
<1>2. PInv /\ [Next]_vars => PInv'
  BY StepKeepsAll
<1> QED
  BY <1>1, <1>2, InitKeeps, PTL DEF Spec

\* On a pruned node, under the same conditions, a block with more work than the tip that
\* can be reached is a candidate.
THEOREM NothingForgottenPruned ==
    ASSUME OneThread, Harmless
    PROVE  Spec => []NothingBetterForgotten
<1>1. PInv => NothingBetterForgotten
  <2> SUFFICES ASSUME PInv, failure = "none", NEW b \in linked, Obstacles(b) = {},
                      Work[b] > Work[tip]
               PROVE  \E c \in Usable : Work[c] >= Work[b]
    BY DEF NothingBetterForgotten
  <2>1. /\ b \in Blocks /\ tip \in Blocks /\ seq \in [Blocks -> Int] /\ IInv /\ MarksOK
        /\ Kept(seq, tip, data, linked, unlinked, candidates)
    BY DEF PInv, WInv, IInv, ShapeOK, LinkedOK, KeepOK
  <2>2. Path(b) \subseteq data /\ Ahead(seq, tip, b) /\ b \in Chain[b]
    BY <2>1, LinkedUnmarked, OrderFacts, Chains DEF Ahead, ChainOK
  <2>3. Work[b] \in Nat /\ Work[tip] \in Nat
    BY <2>1, TreeAssumption
  <2>4. b \notin Chain[tip]
    <3>1. b \in Chain[tip] /\ b # tip => Work[b] < Work[tip]
      BY <2>1, Chains DEF ChainOK
    <3> QED
      BY SMT, <2>3, <3>1
  <2>5. b \in candidates
    BY <2>1, <2>2, <2>4 DEF Kept, Path
  <2>6. b \in Usable /\ Work[b] >= Work[b]
    BY SMT, <2>3, <2>5 DEF Usable
  <2> QED
    BY <2>6
<1>2. PInv /\ [Next]_vars => PInv'
  BY StepKeepsAll
<1> QED
  BY <1>1, <1>2, InitKeeps, PTL DEF Spec

\* On a pruned node, without crashes, the active chain is the best one that can be reached
\* when ActivateBestChain has returned.
THEOREM BestChainIsActivePruned ==
    ASSUME OneThread, Harmless, "crash" \notin Features
    PROVE  Spec => []BestChainActive
<1>1. PInv => BestChainActive
  <2> SUFFICES ASSUME PInv, Quiescent, NEW b \in linked, Obstacles(b) = {}, Less(tip, b)
               PROVE  FALSE
    BY DEF BestChainActive
  <2>1. /\ b \in Blocks /\ tip \in Blocks /\ seq \in [Blocks -> Int] /\ IInv /\ MarksOK
        /\ Kept(seq, tip, data, linked, unlinked, candidates) /\ candidates = {tip}
    BY DEF PInv, WInv, IInv, ShapeOK, LinkedOK, KeepOK, TurnsOK, Quiescent, OneThread
  <2>2. Path(b) \subseteq data /\ ~Less(b, tip) /\ b # tip
    BY <2>1, LinkedUnmarked, OrderFacts DEF Less
  <2>3. b \notin Chain[tip]
    <3>1. b \in Chain[tip] => Work[b] < Work[tip]
      BY <2>1, <2>2, Chains DEF ChainOK
    <3>2. Work[b] >= Work[tip]
      BY <2>1, <2>2, OrderFacts DEF Less
    <3> QED
      BY SMT, <2>1, <3>1, <3>2, TreeAssumption
  <2>4. b \in data /\ Ahead(seq, tip, b)
    BY <2>1, <2>2, <2>3, Chains DEF Path, ChainOK, Ahead, Less
  <2> QED
    BY <2>1, <2>2, <2>4 DEF Kept, Path
<1>2. PInv /\ [Next]_vars => PInv'
  BY StepKeepsAll
<1> QED
  BY <1>1, <1>2, InitKeeps, PTL DEF Spec

\* On a pruned node, without crashes, setBlockIndexCandidates is what CheckBlockIndex
\* asks for: the blocks as good as the tip whose chain is on disk, and nothing worse.
THEOREM CandidatesAreExactPruned ==
    ASSUME OneThread, Harmless, "crash" \notin Features
    PROVE  Spec => []CandidatesExact
<1>1. PInv => CandidatesExact
  <2> SUFFICES ASSUME PInv, Quiescent PROVE CandidatesExact
    BY DEF CandidatesExact
  <2>1. /\ tip \in Blocks /\ seq \in [Blocks -> Int] /\ WInv /\ Chain[tip] \subseteq tx
        /\ index \subseteq Blocks
        /\ Kept(seq, tip, data, linked, unlinked, candidates) /\ candidates = {tip}
    BY DEF PInv, WInv, IInv, ShapeOK, LinkedOK, KeepOK, TurnsOK, Quiescent, OneThread
  <2>2. ASSUME NEW b \in index, ~Less(b, tip), Chain[b] \cap failedValid = {}, Chain[b] \subseteq data
        PROVE  b \in candidates
    <3>1. b \in Blocks /\ Chain[b] \cap Failed = {} /\ b \in Chain[b]
      BY <2>1, <2>2, ValidIsUnmarked, Chains DEF ChainOK
    <3>2. b \in linked
      BY <2>1, <2>2, <3>1, CompleteIsLinked
    <3>3. Ahead(seq, tip, b) /\ Chain[b] \ Chain[tip] \subseteq data
      BY <2>2 DEF Ahead, Less
    <3> QED
      BY <2>1, <2>2, <3>1, <3>2, <3>3 DEF Kept
  <2>3. ASSUME NEW b \in index, Less(b, tip) \/ ~(Chain[b] \subseteq tx)
        PROVE  b \notin candidates
    BY <2>1, <2>3, OrderFacts DEF Less
  <2> QED
    BY <2>1, <2>2, <2>3 DEF CandidatesExact
<1>2. PInv /\ [Next]_vars => PInv'
  BY StepKeepsAll
<1> QED
  BY <1>1, <1>2, InitKeeps, PTL DEF Spec
==============================================================================
