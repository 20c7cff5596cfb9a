------------------------------- MODULE Mempool -------------------------------
(***************************************************************************)
(* The memory pool (txmempool.cpp) and what validation.cpp does with it:   *)
(* transactions are accepted, replaced, expired and trimmed, blocks take   *)
(* them out, and a reorganization puts those of the disconnected blocks    *)
(* back.                                                                   *)
(*                                                                         *)
(* Every entry carries totals over its descendants and over its ancestors  *)
(* in the pool, and links to its parents and children.  They are kept up   *)
(* to date by increments and never recomputed.  All that changes the pool  *)
(* holds cs_main, except PrioritiseTransaction when it is called from      *)
(* LoadMempool, which can come between any two sections of a               *)
(* reorganization.                                                         *)
(*                                                                         *)
(* All transactions have size 1, so that a size total is a count total.    *)
(* Blocks are modelled without their coinbase.                             *)
(***************************************************************************)
EXTENDS Integers, Sequences, FiniteSetsExt

CONSTANTS Txs, None,
          Vin,               \* Vin[t]: the sequence of the outputs <<hash, n>> that t spends
          Base,              \* the hash of the older coins
          Fee,
          Replaceable,       \* the transactions that signal replacement
          LimitAncestors, LimitDescendants,
          MaxPool,           \* -maxmempool
          incrementalRelayFee,
          MaxHeight, MaxBlockTx, MaxDelta

ASSUME MempoolAssumption ==
    /\ IsFiniteSet(Txs) /\ {None, Base} \cap Txs = {}
    /\ Fee \in [Txs -> Int] /\ Replaceable \subseteq Txs
    /\ Vin \in [Txs -> Seq((Txs \cup {Base}) \X Nat)] /\ \A t \in Txs : Vin[t] # <<>>
    /\ {LimitAncestors, LimitDescendants, MaxPool, MaxHeight, MaxBlockTx, MaxDelta,
         incrementalRelayFee} \subseteq Nat

\* A hash is of the inputs too, so no transactions spend from each other in a circle.
ASSUME InputsAssumption ==
    \A S \in SUBSET Txs : S # {} => \E t \in S : \A i \in DOMAIN Vin[t] : Vin[t][i][1] \notin S

VARIABLES
    pool,      \* CTxMemPool
    chain,     \* the blocks of the active chain, each the sequence of its transactions
    phase,     \* of ActivateBestChainStep or InvalidateBlock: "idle", "resurrect" or "reorg"
    todo,      \* the transactions of the disconnected block that DisconnectTip has yet to try
    vHashUpdate

vars == <<pool, chain, phase, todo, vHashUpdate>>

Spends(t) == Range(Vin[t])

Outpoints == UNION {Spends(t) : t \in Txs}

\* The transactions whose outputs t spends.
Inputs(t) == {o[1] : o \in Spends(t)}

\* The entries that are not in mapTx have the values of Empty.
Empty ==
    [mapTx |-> {},
     mapNextTx |-> [o \in Outpoints |-> None],
     mapDeltas |-> [t \in Txs |-> 0],
     feeDelta |-> [t \in Txs |-> 0],
     parents |-> [t \in Txs |-> {}],
     children |-> [t \in Txs |-> {}],
     nCountWithDescendants |-> [t \in Txs |-> 0],
     nModFeesWithDescendants |-> [t \in Txs |-> 0],
     nCountWithAncestors |-> [t \in Txs |-> 0],
     nModFeesWithAncestors |-> [t \in Txs |-> 0]]

Init ==
    /\ pool = Empty
    /\ chain = <<>>
    /\ phase = "idle"
    /\ todo = <<>> /\ vHashUpdate = <<>>

-----------------------------------------------------------------------------
(* Totals and links                                                        *)

GetModifiedFee(p, t) == Fee[t] + p.feeDelta[t]

SumFees(p, S) == SumFunctionOnSet([t \in Txs |-> GetModifiedFee(p, t)], S)

\* f with d added for the members of S.
Plus(f, S, d) == [t \in Txs |-> IF t \in S THEN f[t] + d ELSE f[t]]

\* The least set that contains S and is closed under the relation R.
Closure(R, S) ==
    {t \in Txs : \A X \in SUBSET Txs : (S \subseteq X /\ \A x \in X : R[x] \subseteq X) => t \in X}

CalculateDescendants(p, S) == Closure(p.children, S)

CalculateMemPoolAncestors(p, S) == Closure(p.parents, S)

\* The ancestors of a new transaction are found from its inputs.
NewAncestors(p, t) == CalculateMemPoolAncestors(p, Inputs(t) \cap p.mapTx)

\* addUnchecked: children of t that are in the pool already are not looked for.
addUnchecked(p, t, setAncestors) ==
    LET parents == Inputs(t) \cap p.mapTx
        fee == Fee[t] + p.mapDeltas[t]
    IN [p EXCEPT !.mapTx = @ \cup {t},
                 !.mapNextTx = [o \in Outpoints |-> IF o \in Spends(t) /\ @[o] = None THEN t ELSE @[o]],
                 !.feeDelta[t] = p.mapDeltas[t],
                 !.parents[t] = parents,
                 !.children = [x \in Txs |-> IF x \in parents THEN @[x] \cup {t} ELSE @[x]],
                 !.nCountWithDescendants = Plus(@, setAncestors \cup {t}, 1),
                 !.nModFeesWithDescendants = Plus(@, setAncestors \cup {t}, fee),
                 !.nCountWithAncestors[t] = 1 + Cardinality(setAncestors),
                 !.nModFeesWithAncestors[t] = fee + SumFees(p, setAncestors)]

\* RemoveStaged: the totals of the entries that stay, then the links, then the entries.
\* The ancestors are those that the links lead to.
RemoveStaged(p, stage, updateDescendants) ==
    LET below(t) == {r \in stage : t \in CalculateMemPoolAncestors(p, p.parents[r])}
        above(t) == IF updateDescendants
                    THEN {r \in stage : t # r /\ t \in CalculateDescendants(p, {r})} ELSE {}
        Kept(f, gone) == [t \in Txs |-> IF t \in stage THEN gone ELSE f[t]]
    IN [p EXCEPT
          !.mapTx = @ \ stage,
          !.mapNextTx = [o \in Outpoints |-> IF \E r \in stage : o \in Spends(r) THEN None ELSE @[o]],
          !.feeDelta = Kept(@, 0),
          !.parents = Kept([t \in Txs |-> p.parents[t] \ {r \in stage : t \in p.children[r]}], {}),
          !.children = Kept([t \in Txs |-> p.children[t] \ {r \in stage : t \in p.parents[r]}], {}),
          !.nCountWithDescendants =
              Kept([t \in Txs |-> p.nCountWithDescendants[t] - Cardinality(below(t))], 0),
          !.nModFeesWithDescendants =
              Kept([t \in Txs |-> p.nModFeesWithDescendants[t] - SumFees(p, below(t))], 0),
          !.nCountWithAncestors =
              Kept([t \in Txs |-> p.nCountWithAncestors[t] - Cardinality(above(t))], 0),
          !.nModFeesWithAncestors =
              Kept([t \in Txs |-> p.nModFeesWithAncestors[t] - SumFees(p, above(t))], 0)]

\* S and all that spends from it.
RemoveWithDescendants(p, S) == RemoveStaged(p, CalculateDescendants(p, S), FALSE)

\* The transactions of the pool that spend an output of t.
Spenders(p, t) == {p.mapNextTx[o] : o \in {x \in Outpoints : x[1] = t}} \ {None}

\* Mutant of removeRecursive: a transaction that is not in the pool is passed over.
removeRecursiveMutant(p, t) == IF t \in p.mapTx THEN RemoveWithDescendants(p, {t}) ELSE p

\* removeRecursive: if t is not in the pool, the transactions that spend its outputs.
removeRecursive(p, t) == RemoveWithDescendants(p, IF t \in p.mapTx THEN {t} ELSE Spenders(p, t))

-----------------------------------------------------------------------------
(* Blocks                                                                  *)

ClearPrioritisation(p, t) == [p EXCEPT !.mapDeltas[t] = 0]

\* What spends an input of t goes, with its descendants.
removeConflict(p, t, o) ==
    LET c == p.mapNextTx[o]
    IN IF c \in {None, t} THEN p ELSE removeRecursive(ClearPrioritisation(p, c), c)

removeConflicts(p, t) ==
    LET after[i \in 0..Len(Vin[t])] ==
          IF i = 0 THEN p ELSE removeConflict(after[i - 1], t, Vin[t][i])
    IN after[Len(Vin[t])]

\* The entry of t goes and its descendants stay.
removeConfirmed(p, t) ==
    LET q == IF t \in p.mapTx THEN RemoveStaged(p, {t}, TRUE) ELSE p
    IN ClearPrioritisation(removeConflicts(q, t), t)

removeForBlock(p, vtx) ==
    LET after[i \in 0..Len(vtx)] == IF i = 0 THEN p ELSE removeConfirmed(after[i - 1], vtx[i])
    IN after[Len(vtx)]

\* One transaction of UpdateTransactionsFromBlock and UpdateForDescendants: it is linked
\* with the children that are not of the block, and counted with all its descendants
\* that are not.  The cache of descendants only saves work.
UpdateForDescendants(p, t, setExclude) ==
    LET children == Spenders(p, t) \ setExclude
        q == [p EXCEPT !.children[t] = @ \cup children,
                       !.parents = [x \in Txs |-> IF x \in children THEN @[x] \cup {t} ELSE @[x]]]
        all == CalculateDescendants(q, {t}) \ ({t} \cup setExclude)
    IN IF t \notin p.mapTx THEN p
       ELSE [q EXCEPT !.nCountWithAncestors = Plus(@, all, 1),
                      !.nModFeesWithAncestors = Plus(@, all, GetModifiedFee(p, t)),
                      !.nCountWithDescendants[t] = @ + Cardinality(all),
                      !.nModFeesWithDescendants[t] = @ + SumFees(p, all)]

\* Mutant of UpdateTransactionsFromBlock: from the first to the last.
UpdateTransactionsFromBlockMutant(p, v) ==
    LET after[i \in 0..Len(v)] ==
          IF i = 0 THEN p ELSE UpdateForDescendants(after[i - 1], v[i], Range(v))
    IN after[Len(v)]

\* The transactions of the block are taken from the last to the first.
UpdateTransactionsFromBlock(p, v) ==
    LET after[i \in 0..Len(v)] ==
          IF i = 0 THEN p ELSE UpdateForDescendants(after[i - 1], v[Len(v) + 1 - i], Range(v))
    IN after[Len(v)]

-----------------------------------------------------------------------------
(* Acceptance                                                              *)

Confirmed == UNION {Range(chain[i]) : i \in DOMAIN chain}

\* pcoinsTip after the transactions of S: what they and the older ones left unspent.
Unspent(S) == {o \in Outpoints : o[1] \in S \cup {Base} /\ \A t \in S : o \notin Spends(t)}

\* HaveInputs of the view that puts the pool over pcoinsTip.
HaveInputs(p, t) == \A o \in Spends(t) : o[1] \in p.mapTx \/ o \in Unspent(Confirmed)

maxDescendantsToVisit == 100

\* The rules for replacing the transactions of setConflicts.
MayReplace(p, t, setConflicts) ==
    LET fee == Fee[t] + p.mapDeltas[t]
    IN /\ setConflicts \subseteq Replaceable
       /\ setConflicts \cap NewAncestors(p, t) = {}
       /\ \A c \in setConflicts : fee > GetModifiedFee(p, c)
       /\ MapThenSumSet(LAMBDA c : p.nCountWithDescendants[c], setConflicts) <= maxDescendantsToVisit
       /\ Inputs(t) \cap p.mapTx \subseteq UNION {Inputs(c) : c \in setConflicts}
       /\ fee - SumFees(p, CalculateDescendants(p, setConflicts)) >= incrementalRelayFee

\* What the pool itself asks of a transaction.  All else (scripts, finality, minimum fees)
\* may reject any transaction.
MayAccept(p, t) ==
    LET setConflicts == {p.mapNextTx[o] : o \in Spends(t)} \ {None}
        setAncestors == NewAncestors(p, t)
    IN /\ t \notin p.mapTx
       /\ t \notin Confirmed
       /\ HaveInputs(p, t)
       /\ Cardinality(setAncestors) + 1 <= LimitAncestors
       /\ \A a \in setAncestors : p.nCountWithDescendants[a] + 1 <= LimitDescendants
       /\ setConflicts # {} => MayReplace(p, t, setConflicts)

\* The ancestors are found before the conflicts are removed.
Accepted(p, t) ==
    LET setConflicts == {p.mapNextTx[o] : o \in Spends(t)} \ {None}
    IN addUnchecked(RemoveWithDescendants(p, setConflicts), t, NewAncestors(p, t))

\* CompareTxMemPoolEntryByDescendantScore, on which equal scores are left open: the order
\* is then that of the entries' times.
DescendantScore(p, t) ==
    IF p.nModFeesWithDescendants[t] > GetModifiedFee(p, t) * p.nCountWithDescendants[t]
    THEN [fee |-> p.nModFeesWithDescendants[t], size |-> p.nCountWithDescendants[t]]
    ELSE [fee |-> GetModifiedFee(p, t), size |-> 1]

NotAfter(a, b) == a.fee * b.size <= a.size * b.fee

\* A round of TrimToSize removes a transaction of the lowest score and its descendants.
TrimRound(p) ==
    IF Cardinality(p.mapTx) <= MaxPool THEN {p}
    ELSE {RemoveWithDescendants(p, {t}) :
            t \in {x \in p.mapTx : \A y \in p.mapTx :
                     NotAfter(DescendantScore(p, x), DescendantScore(p, y))}}

\* The possible results of TrimToSize.
TrimToSize(p) ==
    LET after[n \in 0..Cardinality(Txs)] ==
          IF n = 0 THEN {p} ELSE UNION {TrimRound(q) : q \in after[n - 1]}
    IN after[Cardinality(Txs)]

\* Any set of transactions may be too old.
LimitMempoolSize(p) ==
    UNION {TrimToSize(RemoveWithDescendants(p, S)) : S \in SUBSET p.mapTx}

\* Any set of transactions may spend immature coins or be no longer final.
removeForReorg(p) == {RemoveWithDescendants(p, S) : S \in SUBSET p.mapTx}

-----------------------------------------------------------------------------
(* Actions                                                                 *)

AcceptToMemoryPool(t) ==
    /\ phase = "idle"
    /\ MayAccept(pool, t)
    /\ pool' \in LimitMempoolSize(Accepted(pool, t))
    /\ UNCHANGED <<chain, phase, todo, vHashUpdate>>

\* Called with or without cs_main.
PrioritiseTransaction(t, nFeeDelta) ==
    LET total == pool.mapDeltas[t] + nFeeDelta
        own == total - pool.feeDelta[t]
        ancestors == CalculateMemPoolAncestors(pool, pool.parents[t])
        descendants == CalculateDescendants(pool, {t}) \ {t}
        p == [pool EXCEPT !.mapDeltas[t] = total]
    IN /\ total \in -MaxDelta..MaxDelta
       /\ pool' = IF t \notin pool.mapTx THEN p
                  ELSE [p EXCEPT !.feeDelta[t] = total,
                                 !.nModFeesWithDescendants = Plus(Plus(@, {t}, own), ancestors, nFeeDelta),
                                 !.nModFeesWithAncestors = Plus(Plus(@, {t}, own), descendants, nFeeDelta)]
       /\ UNCHANGED <<chain, phase, todo, vHashUpdate>>

\* A block on the tip: each transaction spends coins that are there.
ValidBlock(vtx) ==
    /\ IsInjective(vtx)
    /\ \A i \in DOMAIN vtx :
          LET before == Confirmed \cup {vtx[j] : j \in 1..(i - 1)}
          IN vtx[i] \notin before /\ Spends(vtx[i]) \subseteq Unspent(before)

ConnectTip(vtx) ==
    /\ phase \in {"idle", "reorg"}
    /\ Len(chain) < MaxHeight
    /\ ValidBlock(vtx)
    /\ chain' = Append(chain, vtx)
    /\ pool' = removeForBlock(pool, vtx)
    /\ UNCHANGED <<phase, todo, vHashUpdate>>

\* The coins of the block are undone before the pool learns of it.
DisconnectTip ==
    /\ phase \in {"idle", "reorg"}
    /\ chain # <<>>
    /\ chain' = SubSeq(chain, 1, Len(chain) - 1)
    /\ phase' = "resurrect"
    /\ todo' = chain[Len(chain)] /\ vHashUpdate' = <<>>
    /\ UNCHANGED pool

\* One transaction of the disconnected block; the size limit waits for the end.
Resurrect ==
    /\ phase = "resurrect" /\ todo # <<>>
    /\ todo' = Tail(todo)
    /\ \/ /\ MayAccept(pool, Head(todo))
          /\ pool' = Accepted(pool, Head(todo))
          /\ vHashUpdate' = Append(vHashUpdate, Head(todo))
       \/ /\ pool' = removeRecursive(pool, Head(todo))
          /\ UNCHANGED vHashUpdate
    /\ UNCHANGED <<chain, phase>>

\* Mutant of UpdateFromBlock: the children of the transactions put back are not looked for.
UpdateFromBlockMutant ==
    /\ phase = "resurrect" /\ todo = <<>>
    /\ phase' = "reorg" /\ vHashUpdate' = <<>>
    /\ UNCHANGED <<pool, chain, todo>>

UpdateFromBlock ==
    /\ phase = "resurrect" /\ todo = <<>>
    /\ pool' = UpdateTransactionsFromBlock(pool, vHashUpdate)
    /\ phase' = "reorg" /\ vHashUpdate' = <<>>
    /\ UNCHANGED <<chain, todo>>

\* The end of ActivateBestChainStep after it disconnected blocks.
FinishReorg ==
    /\ phase = "reorg"
    /\ pool' \in UNION {LimitMempoolSize(p) : p \in removeForReorg(pool)}
    /\ phase' = "idle"
    /\ UNCHANGED <<chain, todo, vHashUpdate>>

\* The end of InvalidateBlock: the same two, in the other order.
FinishInvalidate ==
    /\ phase = "reorg"
    /\ pool' \in UNION {removeForReorg(p) : p \in LimitMempoolSize(pool)}
    /\ phase' = "idle"
    /\ UNCHANGED <<chain, todo, vHashUpdate>>

Next ==
    \/ \E t \in Txs : AcceptToMemoryPool(t)
    \/ \E t \in Txs, d \in {-1, 1} : PrioritiseTransaction(t, d)
    \/ \E n \in 0..MaxBlockTx : \E vtx \in [1..n -> Txs] : ConnectTip(vtx)
    \/ DisconnectTip \/ Resurrect \/ UpdateFromBlock
    \/ FinishReorg \/ FinishInvalidate

Spec == Init /\ [][Next]_vars

-----------------------------------------------------------------------------
(* Properties                                                              *)

\* The totals of every entry are those of the entries that its links lead to.
TotalsOf(p, R, t, count, fees) ==
    LET package == Closure(R, {t})
    IN count[t] = Cardinality(package) /\ fees[t] = SumFees(p, package)

\* At every moment, in the middle of a reorganization too, an entry counts in the totals
\* of exactly the entries that the links lead to from it, and the links of parents and
\* children are each other's inverse: what the comment in UpdateForRemoveFromMempool
\* relies on, and what keeps the totals positive, as UpdateDescendantState and
\* UpdateAncestorState assert.  PrioritiseTransaction may come between any two steps.
LinksMatchPackages ==
    \A t \in pool.mapTx :
        /\ TotalsOf(pool, pool.children, t, pool.nCountWithDescendants, pool.nModFeesWithDescendants)
        /\ TotalsOf(pool, pool.parents, t, pool.nCountWithAncestors, pool.nModFeesWithAncestors)
        /\ \A x \in Txs : x \in pool.parents[t] <=> x \in pool.mapTx /\ t \in pool.children[x]

\* CTxMemPool::check: but for the time in which DisconnectTip puts a block's transactions
\* back, the links are the ones that the inputs of the transactions make, and mapNextTx
\* names the transaction of the pool that spends an output.
CheckPasses ==
    phase # "resurrect" =>
        /\ \A t \in pool.mapTx : pool.parents[t] = Inputs(t) \cap pool.mapTx
        /\ \A t \in pool.mapTx : pool.children[t] = {c \in pool.mapTx : t \in Inputs(c)}
        /\ \A o \in Outpoints : {t \in pool.mapTx : o \in Spends(t)} = {pool.mapNextTx[o]} \ {None}

\* But for that time, every input of a transaction of the pool is an output of another
\* or an unspent coin, so that a block can be made of the pool, and removeForReorg finds
\* the coins that it reads.
InputsAvailable ==
    phase # "resurrect" =>
        /\ pool.mapTx \cap Confirmed = {}
        /\ \A t \in pool.mapTx : HaveInputs(pool, t)

=============================================================================
