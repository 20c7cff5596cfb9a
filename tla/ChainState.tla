----------------------------- MODULE ChainState ------------------------------
(***************************************************************************)
(* The block index and the choice of the active chain (validation.cpp).    *)
(*                                                                         *)
(* Headers and blocks arrive in any order.  The index keeps, for each      *)
(* block, whether its transactions were received, whether they are still   *)
(* on disk, whether all its ancestors were received, and whether it is     *)
(* known to be invalid.  setBlockIndexCandidates holds the blocks that     *)
(* could replace the tip, mapBlocksUnlinked the blocks that wait for an    *)
(* ancestor.  ActivateBestChain moves the tip towards the best candidate   *)
(* and gives cs_main back after every improvement, so that other threads   *)
(* (messages, RPC, the miners) work on the same state between its steps.   *)
(*                                                                         *)
(* One action is what one thread does without releasing cs_main.  Blocks   *)
(* are nodes of a given tree with given chain work; ConnectBlock rejects   *)
(* the members of ConnectBad, ContextualCheckBlock those of ContextBad,    *)
(* and the files hold damaged bytes for those of Corrupt.                  *)
(***************************************************************************)
EXTENDS Integers, FiniteSets

CONSTANTS Blocks,     \* the blocks that may exist
          Genesis,    \* the first of them
          Parent,     \* Parent[b]: pprev
          Chain,      \* Chain[b]: b and its ancestors
          Height,     \* Height[b]: nHeight
          Work,       \* Work[b]: nChainWork
          Addr,       \* Addr[b]: the address of the CBlockIndex
          ConnectBad, ContextBad, Corrupt,
          None,       \* NULL
          Threads,    \* the threads that call into validation
          Features,   \* the operations beside the arrival of blocks
          MIN_BLOCKS_TO_KEEP,
          MaxSeq,     \* bound on nBlockSequenceId
          MaxPrecious \* bound on -nBlockReverseSequenceId

ASSUME TreeAssumption ==
    /\ IsFiniteSet(Blocks) /\ Genesis \in Blocks
    /\ Height \in [Blocks -> Nat] /\ Work \in [Blocks -> Nat] /\ Addr \in [Blocks -> Nat]
    /\ Chain[Genesis] = {Genesis}
    /\ \A b \in Blocks \ {Genesis} :
          /\ Parent[b] \in Blocks
          /\ Chain[b] = {b} \cup Chain[Parent[b]]
          /\ Height[b] = Height[Parent[b]] + 1
          /\ Work[b] > Work[Parent[b]]
    /\ \A a, b \in Blocks : Addr[a] = Addr[b] => a = b
ASSUME ValidityAssumption ==
    /\ ConnectBad \cup ContextBad \cup Corrupt \subseteq Blocks \ {Genesis}
    /\ None \notin Blocks
ASSUME KeepAssumption == MIN_BLOCKS_TO_KEEP \in Nat \ {0}
ASSUME FeaturesAssumption ==
    Features \subseteq {"invalidate", "reconsider", "precious", "prune", "crash"}

VARIABLES index,        \* mapBlockIndex
          tx,           \* the blocks with nTx > 0 (BLOCK_VALID_TRANSACTIONS)
          data,         \* the blocks with BLOCK_HAVE_DATA
          linked,       \* the blocks with nChainTx > 0
          failedValid,  \* the blocks with BLOCK_FAILED_VALID
          failedChild,  \* the blocks with BLOCK_FAILED_CHILD
          seq,          \* seq[b]: nSequenceId
          nextSeq,      \* nBlockSequenceId
          reverseSeq,   \* nBlockReverseSequenceId
          lastPrecious, \* nLastPreciousChainwork
          candidates,   \* setBlockIndexCandidates
          unlinked,     \* the second members of the pairs of mapBlocksUnlinked
          tip,          \* chainActive.Tip()
          dirty,        \* setDirtyBlockIndex
          disk,         \* the block index database and the coins' best block
          pc,           \* pc[p]: whether p is in the loop of ActivateBestChain
          mostWork,     \* mostWork[p]: its local pindexMostWork
          pblock,       \* pblock[p]: its argument pblock, where the file is damaged
          failure       \* "assert": an assertion failed; "abort": AbortNode

indexVars == <<index, tx, data, linked, failedValid, failedChild>>
orderVars == <<seq, nextSeq, reverseSeq, lastPrecious>>
threadVars == <<pc, mostWork, pblock>>
vars == <<indexVars, orderVars, candidates, unlinked, tip, dirty, disk, threadVars, failure>>

-----------------------------------------------------------------------------
(* Orders and paths                                                        *)

\* CBlockIndexWorkComparator, with the sequence numbers s
LessBy(s, a, b) ==
    \/ Work[a] < Work[b]
    \/ /\ Work[a] = Work[b]
       /\ \/ s[a] > s[b]
          \/ s[a] = s[b] /\ Addr[a] > Addr[b]

Less(a, b) == LessBy(seq, a, b)

Failed == failedValid \cup failedChild

\* CBlockIndex::IsValid(BLOCK_VALID_TRANSACTIONS)
IsValid(b) == b \in tx \ Failed

\* The highest and the lowest of a non-empty set of blocks of one chain
Highest(S) == CHOOSE b \in S : \A x \in S : Work[x] <= Work[b]
Lowest(S) == CHOOSE b \in S : \A x \in S : Work[b] <= Work[x]

Better(b) == IsValid(b) /\ b \in linked

\* Mutants: the tip itself is deleted too; only successors of the tip are kept.
NotWorseStrict(S, s, t) == {b \in S : LessBy(s, t, b)}
NotWorseSuccessors(S, s, t) == {b \in S : t \in Chain[b]}

\* The blocks of S that PruneBlockIndexCandidates keeps for the tip t, and the test
\* with which the other functions fill setBlockIndexCandidates
NotWorse(S, s, t) == {b \in S : ~LessBy(s, b, t)}

-----------------------------------------------------------------------------
(* Arrivals                                                                *)

\* AcceptBlockHeader accepts: the header is known and not marked invalid, or its
\* parent is.
HeaderAccepted(b) ==
    IF b \in index THEN b \notin Failed ELSE Parent[b] \in index \ Failed

\* ProcessNewBlockHeaders, for a header that is new
AcceptBlockHeader(b) ==
    /\ failure = "none"
    /\ b \notin index
    /\ HeaderAccepted(b)
    /\ index' = index \cup {b}
    /\ dirty' = dirty \cup {b}
    /\ UNCHANGED <<tx, data, linked, failedValid, failedChild, orderVars, candidates,
                   unlinked, tip, disk, threadVars, failure>>

\* The orders in which the queue of ReceivedBlockTransactions may number the
\* blocks L: a block comes after its ancestors.
Numberings(L) ==
    {s \in [L -> nextSeq..(nextSeq + Cardinality(L) - 1)] :
        \A x, y \in L : (x # y => s[x] # s[y]) /\ (x \in Chain[y] => s[x] <= s[y])}

\* b, whose parent is linked, and the blocks that only waited for b
JustLinked(b) ==
    {x \in unlinked \cup {b} : b \in Chain[x] /\ Chain[x] \ Chain[b] \subseteq unlinked}

\* Mutant: a block waits only for a parent that was received itself.
WaitsMutant(b) == Parent[b] \in data \ Failed

\* b is put into mapBlocksUnlinked: its parent is valid, and not linked
Waits(b) == Parent[b] \notin Failed

\* ReceivedBlockTransactions: b is received; when its parent is linked, so are b
\* and the blocks that only waited for b.
ReceivedBlockTransactions(b) ==
    /\ tx' = tx \cup {b}
    /\ data' = data \cup {b}
    /\ IF b = Genesis \/ Parent[b] \in linked
       THEN LET L == JustLinked(b)
            IN  /\ nextSeq + Cardinality(L) <= MaxSeq
                /\ nextSeq' = nextSeq + Cardinality(L)
                /\ \E s \in Numberings(L) :
                      seq' = [x \in Blocks |-> IF x \in L THEN s[x] ELSE seq[x]]
                /\ linked' = linked \cup L
                /\ candidates' = candidates \cup NotWorse(L, seq', tip)
                /\ unlinked' = unlinked \ (L \ {b})
       ELSE /\ linked' = linked \ {b}
            /\ unlinked' = unlinked \cup {x \in {b} : Waits(x)}
            /\ UNCHANGED <<seq, nextSeq, candidates>>

\* AcceptBlock goes on to store the block
Wanted(b, fRequested) ==
    /\ b \notin data
    /\ fRequested \/ /\ b \notin tx
                     /\ Work[b] > Work[tip]
                     /\ Height[b] <= Height[tip] + MIN_BLOCKS_TO_KEEP

\* ProcessNewBlock by thread p: AcceptBlock, and unless it fails ActivateBestChain
ProcessNewBlock(p, b, fRequested) ==
    /\ failure = "none"
    /\ pc[p] = "idle"
    /\ HeaderAccepted(b)
    /\ index' = index \cup {b}
    /\ dirty' = IF b \in index /\ ~Wanted(b, fRequested) THEN dirty ELSE dirty \cup {b}
    /\ \/ /\ ~Wanted(b, fRequested)
          /\ pc' = [pc EXCEPT ![p] = "activate"]
          /\ UNCHANGED <<tx, data, linked, failedValid, seq, nextSeq, candidates, unlinked>>
       \/ /\ Wanted(b, fRequested) /\ b \in ContextBad
          /\ failedValid' = failedValid \cup {b}
          /\ UNCHANGED <<tx, data, linked, seq, nextSeq, candidates, unlinked, pc>>
       \/ /\ Wanted(b, fRequested) /\ b \notin ContextBad
          /\ ReceivedBlockTransactions(b)
          /\ pc' = [pc EXCEPT ![p] = "activate"]
          /\ UNCHANGED failedValid
    /\ pblock' = [pblock EXCEPT ![p] = IF pc'[p] = "activate" /\ b \in Corrupt THEN b ELSE None]
    /\ UNCHANGED <<failedChild, reverseSeq, lastPrecious, tip, disk, mostWork, failure>>

-----------------------------------------------------------------------------
(* Activation                                                              *)

\* The blocks to connect on the way to c, and those that make c unusable (mutant:
\* BLOCK_FAILED_MASK is not tested)
Path(c) == Chain[c] \ Chain[tip]
ObstaclesMutant(c) == {x \in Path(c) : x \notin data}
Obstacles(c) == {x \in Path(c) : x \in Failed \/ x \notin data}

\* The candidates FindMostWorkChain meets before it finds a usable one, and the
\* one it finds.  For every candidate it discards it looks at the obstacle
\* nearest to it; what lies above the obstacle is discarded too.
Usable == {c \in candidates : Obstacles(c) = {}}
Discarded == {c \in candidates \ Usable : \A u \in Usable : Less(u, c)}
Obstacle(c) == Highest(Obstacles(c))
Above(c) == {x \in Path(c) : Work[x] > Work[Obstacle(c)]}
FindMostWorkChain ==
    IF Usable = {} THEN None ELSE CHOOSE c \in Usable : \A u \in Usable : ~Less(c, u)

\* What it marks BLOCK_FAILED_CHILD, puts into mapBlocksUnlinked (mutant: nothing)
\* and erases from the candidates
FailedByFind == UNION {Above(c) : c \in {d \in Discarded : Obstacle(d) \in Failed}}
UnlinkedByFindMutant == {}
UnlinkedByFind == UNION {Above(c) : c \in {d \in Discarded : Obstacle(d) \notin Failed}}
ErasedByFind == UNION {Above(c) \cup {Obstacle(c)} : c \in Discarded}

\* The target of the next round of p
Target(p) == IF mostWork[p] = None THEN FindMostWorkChain ELSE mostWork[p]

\* What a step towards target disconnects, and what of it cannot be read back
Leaving(target) == Chain[tip] \ Chain[target]
Lost(target) == Leaving(target) \ data

\* ConnectTip does not get the block x on the way to target: the file is gone, it
\* is damaged (and the block is not the one p holds), or the block is invalid.
Damaged(p, target, x) == x \in Corrupt /\ ~(x = target /\ pblock[p] = x)
Refused(p, target) ==
    {x \in Path(target) : x \notin data \/ x \in ConnectBad \/ Damaged(p, target, x)}

\* Where the step ends: at a refused block, at the first one with more work than
\* the tip had, or at the target.
Last(p, target) ==
    Lowest({target} \cup Refused(p, target) \cup {x \in Path(target) : Work[x] > Work[tip]})

\* The tip after the step
NewTip(p, target) ==
    IF Last(p, target) \in Refused(p, target) THEN Parent[Last(p, target)] ELSE Last(p, target)

\* Mutants: one step per call; a refused target is kept.
LoopEndsMutant(new, target) == TRUE
CachedMutant(target, invalid) == target

\* The loop ends with the tip new; an invalid block wipes the cached target.
LoopEnds(new, target) == new = target
Cached(target, invalid) == IF invalid THEN None ELSE target

\* ActivateBestChainStep towards target, with the candidates cands: blocks are
\* disconnected down to the fork, then connected until the tip has more work
\* than before or a block is refused; PruneBlockIndexCandidates runs after every
\* block connected.
ActivateBestChainStep(p, target, cands) ==
    IF Lost(target) # {}
    THEN /\ tip' = Highest(Lost(target))
         /\ candidates' = cands
         /\ failure' = "abort"
         /\ UNCHANGED <<failedValid, dirty, pc, mostWork>>
    ELSE \E last \in {Last(p, target)}, new \in {NewTip(p, target)} :
         LET refused == last \in Refused(p, target)
             invalid == refused /\ last \in data
             marked  == IF invalid /\ last \in ConnectBad THEN {last} ELSE {}
             pruned  == IF new \in Path(target) THEN NotWorse(cands, seq, new) ELSE cands
         IN  /\ tip' = new
             /\ candidates' = pruned \ marked
             /\ failedValid' = failedValid \cup marked
             /\ dirty' = dirty \cup marked
             /\ failure' = IF new \in Path(target) /\ pruned = {} THEN "assert"
                           ELSE IF refused /\ ~invalid THEN "abort" ELSE "none"
             /\ mostWork' = [mostWork EXCEPT ![p] = IF LoopEnds(new, target) THEN None
                                                    ELSE Cached(target, invalid)]
             /\ pc' = [pc EXCEPT ![p] = IF LoopEnds(new, target) THEN "idle" ELSE "activate"]

\* One round of the loop of ActivateBestChain by thread p
ActivateBestChain(p) ==
    /\ failure = "none"
    /\ pc[p] = "activate"
    /\ \E target \in {Target(p)} :
       LET find  == mostWork[p] = None
           cands == IF find THEN candidates \ ErasedByFind ELSE candidates
       IN  /\ failedChild' = IF find THEN failedChild \cup FailedByFind ELSE failedChild
           /\ unlinked' = IF find THEN unlinked \cup UnlinkedByFind ELSE unlinked
           /\ IF target \in {None, tip}
              THEN /\ candidates' = cands
                   /\ pc' = [pc EXCEPT ![p] = "idle"]
                   /\ mostWork' = [mostWork EXCEPT ![p] = None]
                   /\ UNCHANGED <<tip, failedValid, dirty, failure>>
              ELSE ActivateBestChainStep(p, target, cands)
    /\ pblock' = [pblock EXCEPT ![p] = IF pc'[p] = "idle" THEN None ELSE @]
    /\ UNCHANGED <<index, tx, data, linked, orderVars, disk>>

\* A thread calls ActivateBestChain without a block (ThreadImport, net_processing)
CallActivate(p) ==
    /\ failure = "none"
    /\ pc[p] = "idle"
    /\ pc' = [pc EXCEPT ![p] = "activate"]
    /\ UNCHANGED <<indexVars, orderVars, candidates, unlinked, tip, dirty, disk, mostWork,
                   pblock, failure>>

-----------------------------------------------------------------------------
(* The RPC commands that overrule the choice; each goes on to activate      *)

\* The candidates after preciousblock gave b the sequence number of renamed
Preferred(b, renamed) ==
    IF Better(b) THEN NotWorse(candidates \cup {b}, renamed, tip) ELSE candidates \ {b}

PreciousBlock(p, b) ==
    LET reverse == IF Work[tip] > lastPrecious THEN -1 ELSE reverseSeq
        renamed == [seq EXCEPT ![b] = reverse]
    IN  /\ "precious" \in Features
        /\ failure = "none" /\ pc[p] = "idle"
        /\ b \in index /\ Work[b] >= Work[tip]
        /\ -reverse <= MaxPrecious
        /\ lastPrecious' = Work[tip]
        /\ seq' = renamed
        /\ reverseSeq' = reverse - 1
        /\ candidates' = Preferred(b, renamed)
        /\ failure' = IF Better(b) /\ candidates' = {} THEN "assert" ELSE "none"
        /\ pc' = [pc EXCEPT ![p] = "activate"]
        /\ UNCHANGED <<indexVars, nextSeq, unlinked, tip, dirty, disk, mostWork, pblock>>

\* Mutants: one block too many is disconnected; nothing becomes a candidate again.
WalkedMutant(b) ==
    IF b \in Chain[tip] /\ Parent[b] # Genesis THEN Chain[tip] \ Chain[Parent[Parent[b]]] ELSE {}
AgainMutant(S, t) == {}

\* The active blocks to disconnect when b is invalidated
Walked(b) == IF b \in Chain[tip] THEN Chain[tip] \ Chain[Parent[b]] ELSE {}

\* The blocks that become candidates again when the tip is taken back to t and the
\* blocks S are invalid
Again(S, t) == NotWorse((tx \cap linked) \ (Failed \cup S), seq, t)

\* The active blocks from b on are disconnected and marked one by one; then every
\* block that could be the new tip becomes a candidate again.
InvalidateBlock(p, b) ==
    LET walked == Walked(b)
        lost   == walked \ data
        back   == IF walked = {} THEN tip
                  ELSE IF lost = {} THEN Parent[b] ELSE Highest(lost)
        marked == {x \in walked : Height[x] >= Height[back]}
    IN  /\ "invalidate" \in Features
        /\ failure = "none" /\ pc[p] = "idle"
        /\ b \in index \ {Genesis}
        /\ failedValid' = failedValid \cup {b}
        /\ failedChild' = failedChild \cup marked
        /\ dirty' = dirty \cup marked \cup {b}
        /\ tip' = back
        /\ candidates' = (candidates \ (marked \cup {b}))
                            \cup (IF lost = {} THEN Again(marked \cup {b}, back) ELSE {})
        /\ failure' = IF lost = {} THEN "none" ELSE "abort"
        /\ pc' = [pc EXCEPT ![p] = "activate"]
        /\ UNCHANGED <<index, tx, data, linked, orderVars, unlinked, disk, mostWork, pblock>>

\* reconsiderblock: the flags of b, its descendants and its ancestors are cleared;
\* the descendants may become candidates.
ResetBlockFailureFlags(p, b) ==
    LET descendants == {x \in index : ~IsValid(x) /\ b \in Chain[x]}
        cleared     == descendants \cup (Chain[b] \cap Failed)
    IN  /\ "reconsider" \in Features
        /\ failure = "none" /\ pc[p] = "idle"
        /\ b \in index
        /\ failedValid' = failedValid \ cleared
        /\ failedChild' = failedChild \ cleared
        /\ dirty' = dirty \cup cleared
        /\ candidates' = candidates \cup {x \in descendants : x \in tx \cap linked /\ Less(tip, x)}
        /\ pc' = [pc EXCEPT ![p] = "activate"]
        /\ UNCHANGED <<index, tx, data, linked, orderVars, unlinked, tip, disk, mostWork, pblock,
                       failure>>

-----------------------------------------------------------------------------
(* The disk                                                                *)

\* Mutant: the number of transactions is not written.
IndexWrittenMutant(P, child) ==
    LET d == dirty \cup P
        written(old, new) == (old \ d) \cup (new \cap d)
    IN  [disk EXCEPT !.index       = written(@, index),
                     !.data        = written(@, data \ P),
                     !.failedValid = written(@, failedValid),
                     !.failedChild = written(@, child)]

\* The block index database after the dirty entries and the pruned ones P were
\* written (WriteBatchSync), with the blocks child marked BLOCK_FAILED_CHILD
IndexWritten(P, child) ==
    LET d == dirty \cup P
        written(old, new) == (old \ d) \cup (new \cap d)
    IN  [disk EXCEPT !.index       = written(@, index),
                     !.tx          = written(@, tx),
                     !.data        = written(@, data \ P),
                     !.failedValid = written(@, failedValid),
                     !.failedChild = written(@, child)]

\* FindFilesToPrune may choose the file of b
Prunable(b) == b \in data /\ Height[b] <= Height[tip] - MIN_BLOCKS_TO_KEEP

PruneSets == {P \in SUBSET {b \in Blocks : Prunable(b)} : P = {} \/ "prune" \in Features}

\* FlushStateToDisk: the block index, and with full the coins as well.  Deleting
\* block files asks for a full flush.
FlushStateToDisk(P, full) ==
    /\ {"prune", "crash"} \cap Features # {}
    /\ failure # "assert"
    /\ P # {} => full
    /\ data' = data \ P
    /\ unlinked' = unlinked \ P
    /\ dirty' = {}
    /\ disk' = [IndexWritten(P, failedChild) EXCEPT !.tip = IF full THEN tip ELSE @]
    /\ UNCHANGED <<index, tx, linked, failedValid, failedChild, orderVars, candidates, tip,
                   threadVars, failure>>

\* Mutant: a block is linked without its parent.
JoinedMutant(d) == d.tx

\* The blocks of the disk d that LoadBlockIndexDB links
Joined(d) == {b \in d.tx : Chain[b] \subseteq d.tx}

\* The process is gone; it starts again, LoadBlockIndexDB reads the disk d, and
\* ThreadImport calls ActivateBestChain.
Restart(d) ==
    LET joined == Joined(d)
        usable == joined \ (d.failedValid \cup d.failedChild)
        zero   == [b \in Blocks |-> 0]
        kept   == NotWorse(usable, zero, d.tip)
    IN  /\ index' = d.index
        /\ tx' = d.tx
        /\ data' = d.data
        /\ linked' = joined
        /\ failedValid' = d.failedValid
        /\ failedChild' = d.failedChild
        /\ seq' = zero
        /\ nextSeq' = 1
        /\ reverseSeq' = -1
        /\ lastPrecious' = 0
        /\ candidates' = kept
        /\ unlinked' = d.tx \ joined
        /\ tip' = d.tip
        /\ dirty' = {}
        /\ disk' = d
        /\ \E q \in Threads : pc' = [p \in Threads |-> IF p = q THEN "activate" ELSE "idle"]
        /\ mostWork' = [p \in Threads |-> None]
        /\ pblock' = [p \in Threads |-> None]
        /\ failure' = IF kept = {} THEN "assert" ELSE "none"

Crash ==
    /\ "crash" \in Features
    /\ Restart(disk)

\* The process dies in FlushStateToDisk, after the block index and before the coins
CrashInFlush(P) ==
    /\ "crash" \in Features
    /\ failure # "assert"
    /\ Restart(IndexWritten(P, failedChild))

\* The process dies in ActivateBestChainStep, after ConnectTip or DisconnectTip
\* wrote the state to disk with the coins at a block on the way
CrashInStep(p) ==
    /\ "crash" \in Features
    /\ failure = "none"
    /\ pc[p] = "activate"
    /\ Target(p) \notin {None, tip}
    /\ Lost(Target(p)) = {}
    /\ LET left  == {Parent[x] : x \in Leaving(Target(p))}
           taken == Path(Target(p)) \cap Chain[NewTip(p, Target(p))]
           child == failedChild \cup (IF mostWork[p] = None THEN FailedByFind ELSE {})
       IN  \E x \in left \cup taken : Restart([IndexWritten({}, child) EXCEPT !.tip = x])

-----------------------------------------------------------------------------

Init ==
    /\ index = {Genesis} /\ tx = {Genesis} /\ data = {Genesis} /\ linked = {Genesis}
    /\ failedValid = {} /\ failedChild = {}
    /\ seq = [b \in Blocks |-> 0]
    /\ nextSeq = 1 /\ reverseSeq = -1 /\ lastPrecious = 0
    /\ candidates = {Genesis} /\ unlinked = {}
    /\ tip = Genesis
    /\ dirty = {}
    /\ disk = [index |-> {Genesis}, tx |-> {Genesis}, data |-> {Genesis},
               failedValid |-> {}, failedChild |-> {}, tip |-> Genesis]
    /\ pc = [p \in Threads |-> "idle"]
    /\ mostWork = [p \in Threads |-> None]
    /\ pblock = [p \in Threads |-> None]
    /\ failure = "none"

Next ==
    \/ \E b \in Blocks : AcceptBlockHeader(b)
    \/ \E p \in Threads :
          \/ \E b \in Blocks, fRequested \in BOOLEAN : ProcessNewBlock(p, b, fRequested)
          \/ ActivateBestChain(p)
          \/ CallActivate(p)
          \/ CrashInStep(p)
          \/ \E b \in Blocks : \/ PreciousBlock(p, b)
                               \/ InvalidateBlock(p, b)
                               \/ ResetBlockFailureFlags(p, b)
    \/ \E P \in PruneSets : \/ \E full \in BOOLEAN : FlushStateToDisk(P, full)
                            \/ CrashInFlush(P)
    \/ Crash

Spec == Init /\ [][Next]_vars

\* A thread that is in ActivateBestChain goes on.
FairSpec == Spec /\ \A p \in Threads : WF_vars(ActivateBestChain(p))

-----------------------------------------------------------------------------
(* Properties                                                              *)

\* The sets hold blocks of the index, which is closed under pprev, the numbers are
\* within their bounds, and the disk has the shape of the two databases.
TypeOK ==
    /\ index \in SUBSET Blocks /\ \A b \in index : Chain[b] \subseteq index
    /\ tx \in SUBSET index /\ data \in SUBSET tx /\ linked \in SUBSET tx
    /\ failedValid \in SUBSET index /\ failedChild \in SUBSET index
    /\ seq \in [Blocks -> Int] /\ nextSeq \in 1..MaxSeq /\ reverseSeq \in Int
    /\ lastPrecious \in {0} \cup {Work[b] : b \in Blocks}
    /\ candidates \in SUBSET index /\ unlinked \in SUBSET index
    /\ tip \in index
    /\ dirty \in SUBSET index
    /\ disk \in [index : SUBSET Blocks, tx : SUBSET Blocks, data : SUBSET Blocks,
                 failedValid : SUBSET Blocks, failedChild : SUBSET Blocks, tip : Blocks]
    /\ pc \in [Threads -> {"idle", "activate"}]
    /\ mostWork \in [Threads -> Blocks \cup {None}]
    /\ pblock \in [Threads -> Corrupt \cup {None}]
    /\ failure \in {"none", "assert", "abort"}

\* No thread is between two rounds of ActivateBestChain.
Quiescent == failure = "none" /\ \A p \in Threads : pc[p] = "idle"

\* The assertions of PruneBlockIndexCandidates (in the steps of the activation, in
\* preciousblock and when the index is loaded) and of FindMostWorkChain (on the
\* ancestors of a candidate) never fail.
NoAssertFails == failure # "assert" /\ \A c \in candidates : Chain[c] \subseteq linked

\* Whatever the other threads did, a valid block that has more work than the tip and
\* could be connected is never lost from setBlockIndexCandidates: one with as much
\* work that could be connected is there for the next call of ActivateBestChain.
NothingBetterForgotten ==
    failure = "none" =>
        \A b \in linked :
            Chain[b] \cap ConnectBad = {} /\ Obstacles(b) = {} /\ Work[b] > Work[tip]
                => \E c \in Usable : Work[c] >= Work[b]

\* "The result is either failure or an activated best chain": when every call of
\* ActivateBestChain has returned, no block that could be connected is better
\* than the tip.
BestChainActive ==
    Quiescent => \A b \in linked : Obstacles(b) = {} => ~Less(tip, b)

\* The blocks of the active chain were all received, linked, and are not marked
\* invalid.
ActiveChainValid == Chain[tip] \subseteq linked \ Failed

\* CheckBlockIndex on setBlockIndexCandidates: every block as good as the tip
\* whose chain is received, not invalid and on disk is a candidate, the tip
\* always is, and nothing worse than the tip is.
CandidatesExact ==
    Quiescent =>
        \A b \in index :
            IF ~Less(b, tip) /\ Chain[b] \subseteq tx
            THEN (Chain[b] \cap failedValid = {} /\ (Chain[b] \subseteq data \/ b = tip))
                    => b \in candidates
            ELSE b \notin candidates

\* CheckBlockIndex on mapBlocksUnlinked: a block that is on disk and waits for an
\* ancestor, none of them invalid, is found when the ancestor arrives; and a block
\* whose chain is complete and not invalid does not wait.
UnlinkedComplete ==
    /\ \A b \in data : /\ ~(Chain[b] \subseteq tx)
                       /\ Chain[b] \cap failedValid = {}
                       => b \in unlinked
    /\ \A b \in unlinked : Chain[b] \cap failedValid = {} => ~(Chain[b] \subseteq data)

\* CheckBlockIndex on mapBlocksUnlinked, for a pruned node: a block with more work
\* than the tip that lost an ancestor to pruning, and is no candidate any more, is
\* found again when the ancestor is fetched again.
BetterAreUnlinked ==
    Quiescent =>
        \A b \in data : /\ Chain[b] \subseteq tx
                        /\ ~(Chain[b] \subseteq data)
                        /\ Chain[b] \cap failedValid = {}
                        /\ Work[b] > Work[tip]
                        => b \in unlinked \cup candidates

\* CheckBlockIndex: a block is only marked as failed below a block that failed.
FailedHasCause == \A b \in Failed : Chain[b] \cap failedValid # {}

\* nChainTx is only set when the block and all its ancestors were received, and it is
\* set when all of them are on disk and none is invalid, however often they were
\* pruned, fetched again and reloaded.
LinkedMeansReceived ==
    /\ \A b \in linked : Chain[b] \subseteq tx
    /\ \A b \in index : Chain[b] \subseteq data \ Failed => b \in linked

\* The coins on disk never name a best block whose chain the block index on disk
\* does not have: FlushStateToDisk writes the index first.
DiskOrdered == Chain[disk.tip] \subseteq disk.tx

\* A call of ActivateBestChain ends.
ActivationEnds == \A p \in Threads : pc[p] = "activate" ~> pc[p] = "idle"

-----------------------------------------------------------------------------
(* Statements of CheckBlockIndex that do not hold                          *)

\* "Can't be in mapBlocksUnlinked if we don't HAVE_DATA": a block whose file was pruned
\* while it waited for its parent is put back by LoadBlockIndexDB.
UnlinkedHaveData == unlinked \subseteq data

\* "We aren't missing data for any parent -- cannot be in mapBlocksUnlinked": a block
\* that waits above a block that was invalidated before its child arrived is left there.
UnlinkedMissData == \A b \in unlinked : ~(Chain[b] \subseteq data)

\* "So if this block is itself better than chainActive.Tip() and it wasn't in
\* setBlockIndexCandidates, then it must be in mapBlocksUnlinked", as the assertion has
\* it, with the blocks of equal work: when the tip was pruned and is fetched again after
\* a crash, it gets a new nSequenceId, and blocks that it was preferred to are better.
\* Without a crash it holds.
MissingAreUnlinked ==
    Quiescent =>
        \A b \in data : /\ Chain[b] \subseteq tx
                        /\ ~(Chain[b] \subseteq data)
                        /\ Chain[b] \cap failedValid = {}
                        /\ ~Less(b, tip)
                        => b \in unlinked \cup candidates

\* "nChainTx != 0 is used to signal that all parent blocks have been processed (but may
\* have been pruned)": a block that was pruned while it waited for its parent is not
\* linked when the parent arrives.
LinkedExactly == \A b \in index : b \in linked <=> Chain[b] \subseteq tx

==============================================================================
