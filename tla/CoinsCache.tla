------------------------------ MODULE CoinsCache -----------------------------
(***************************************************************************)
(* CCoinsViewCache (coins.cpp): a stack of write-back caches over the coin *)
(* database (CCoinsViewDB, txdb.cpp).  Level 0 is the database, level 1 is *)
(* pcoinsTip, and level 2 and above are the views that ConnectTip,         *)
(* DisconnectTip, TestBlockValidity and VerifyDB put on top of it.         *)
(*                                                                         *)
(* A cache entry carries two flags.  DIRTY: the entry may differ from the  *)
(* parent's version, so a flush must write it.  FRESH: the parent has no   *)
(* unspent outputs for it, so once it is fully spent here it can be erased *)
(* without telling the parent.  A wrong flag loses or resurrects coins     *)
(* several operations, and often several flushes, later.                   *)
(*                                                                         *)
(* The outputs of a transaction (CCoins) are one value of Unspent, or      *)
(* Pruned when none is left.  cs_main is held around every operation, so   *)
(* one operation is one step, from ModifyCoins to the end of the life of   *)
(* the CCoinsModifier it returns.                                          *)
(***************************************************************************)
EXTENDS Integers, FiniteSetsExt

CONSTANTS Txids,      \* transaction ids
          Unspent,    \* non-empty sets of unspent outputs
          Pruned,     \* no unspent output (CCoins::IsPruned)
          CoinUsage,  \* DynamicMemoryUsage of the members of Unspent
          Hashes,     \* block hashes
          NullHash,   \* uint256()
          N,          \* the greatest number of caches stacked on the database
          BIP30       \* fEnforceBIP30 of ConnectBlock

ASSUME TxidsAssumption == IsFiniteSet(Txids)
ASSUME PrunedAssumption == Pruned \notin Unspent
ASSUME UsageAssumption == CoinUsage \in [Unspent -> Nat]
ASSUME NullAssumption == NullHash \notin Hashes
ASSUME DepthAssumption == N \in Nat \ {0}
ASSUME BIP30Assumption == BIP30 \in BOOLEAN

VARIABLES db,         \* db[t]: the coins record of t, Pruned when there is none
          cache,      \* cache[l][t]: cacheCoins of level l
          hashBlock,  \* hashBlock[l]; level 0 is the DB_BEST_BLOCK record
          usage,      \* usage[l]: cachedCoinsUsage of level l
          open,       \* the number of CCoinsViewCache objects alive
          logicError  \* a std::logic_error was thrown

vars == <<db, cache, hashBlock, usage, open, logicError>>

Coins == Unspent \cup {Pruned}

Entry == [in : BOOLEAN, coins : Coins, dirty : BOOLEAN, fresh : BOOLEAN]

\* cacheCoins has no element for the transaction
Absent == [in |-> FALSE, coins |-> Pruned, dirty |-> FALSE, fresh |-> FALSE]

DynamicMemoryUsage(c) == IF c = Pruned THEN 0 ELSE CoinUsage[c]

-----------------------------------------------------------------------------
(* Reading through the stack                                               *)

\* The greatest member of a set of levels; 0, the database, when it is empty
Top(S) == IF S = {} THEN 0 ELSE CHOOSE m \in S : \A k \in S : k <= m

\* The level whose entry answers GetCoins(t) at level l of the caches c
Source(c, l, t) == Top({k \in 1..l : c[k][t].in})

\* What GetCoins(t) returns at level l of the caches c over the database d
ViewOf(c, d, l, t) == LET m == Source(c, l, t)
                      IN  IF m = 0 THEN d[t] ELSE c[m][t].coins

View(l, t) == ViewOf(cache, db, l, t)

\* Whether GetCoins(t) returns true at level l
Found(l, t) == Source(cache, l, t) # 0 \/ db[t] # Pruned

\* Mutant: a fetched entry is always taken for FRESH.
FetchedMutant(c) == [in |-> TRUE, coins |-> c, dirty |-> FALSE, fresh |-> TRUE]

\* The entry FetchCoins makes of coins c found in its base
Fetched(c) == [in |-> TRUE, coins |-> c, dirty |-> FALSE, fresh |-> c = Pruned]

\* The levels that FetchCoins(t), called at level l, fills on its way back
Filled(l, t) == {k \in 1..l : k > Source(cache, l, t) /\ Found(l, t)}

CacheFilled(l, t) ==
    [k \in 1..N |-> IF k \in Filled(l, t)
                    THEN [cache[k] EXCEPT ![t] = Fetched(View(l, t))]
                    ELSE cache[k]]

UsageFilled(l, t) ==
    [k \in 1..N |-> IF k \in Filled(l, t)
                    THEN usage[k] + DynamicMemoryUsage(View(l, t))
                    ELSE usage[k]]

\* The level whose hashBlock answers GetBestBlock at level l, and the answer
HashSource(h, l) == Top({k \in 1..l : h[k] # NullHash})

BestOf(h, l) == h[HashSource(h, l)]

-----------------------------------------------------------------------------
(* The operations of the top view                                          *)

\* GetCoins, AccessCoins and HaveCoins: nothing changes but the caches.
FetchCoins(t) ==
    /\ cache' = CacheFilled(open, t)
    /\ usage' = UsageFilled(open, t)
    /\ UNCHANGED <<db, hashBlock, open, logicError>>

\* The entry a modifier works on is erased by ~CCoinsModifier when nothing is
\* left of it and the parent need not know.
AfterModifier(e) == IF e.fresh /\ e.coins = Pruned THEN Absent ELSE e

\* ModifyCoins(t), the change of the coins to v, and ~CCoinsModifier
ModifyCoins(t, v) ==
    LET old   == cache[open][t]
        below == View(open - 1, t)
        entry == IF old.in THEN old ELSE Fetched(below)
        new   == AfterModifier([entry EXCEPT !.coins = v, !.dirty = TRUE])
        c     == IF old.in THEN cache ELSE CacheFilled(open - 1, t)
        u     == IF old.in THEN usage ELSE UsageFilled(open - 1, t)
    IN  /\ cache' = [c EXCEPT ![open][t] = new]
        /\ usage' = [u EXCEPT ![open] = @ - DynamicMemoryUsage(old.coins)
                                          + DynamicMemoryUsage(new.coins)]
        /\ UNCHANGED <<db, hashBlock, open, logicError>>

\* Mutant: a DIRTY entry, whose parent may hold coins, is taken for FRESH.
ModifyNewCoinsMutant(t, coinbase, v) ==
    LET old   == cache[open][t]
        entry == [in |-> TRUE, coins |-> v, dirty |-> TRUE, fresh |-> ~coinbase]
        new   == AfterModifier(entry)
    IN  /\ View(open, t) = Pruned \/ (coinbase /\ ~BIP30)
        /\ cache' = [cache EXCEPT ![open][t] = new]
        /\ usage' = [usage EXCEPT ![open] = @ + DynamicMemoryUsage(new.coins)]
        /\ UNCHANGED <<db, hashBlock, open, logicError>>

\* ModifyNewCoins(t, coinbase) by UpdateCoins, and ~CCoinsModifier.  ConnectBlock
\* has checked that no unspent outputs exist for t when it enforces BIP30; when
\* it does not, only a coinbase might repeat an earlier transaction.  The parent
\* is not asked and the old usage is not subtracted.
ModifyNewCoins(t, coinbase, v) ==
    LET old   == cache[open][t]
        entry == [in |-> TRUE, coins |-> v, dirty |-> TRUE,
                  fresh |-> old.fresh \/ (~coinbase /\ ~old.dirty)]
        new   == AfterModifier(entry)
    IN  /\ View(open, t) = Pruned \/ (coinbase /\ ~BIP30)
        /\ IF ~coinbase /\ old.in /\ old.coins # Pruned
           THEN /\ logicError' = TRUE
                /\ UNCHANGED <<cache, usage>>
           ELSE /\ cache' = [cache EXCEPT ![open][t] = new]
                /\ usage' = [usage EXCEPT ![open] = @ + DynamicMemoryUsage(new.coins)]
                /\ UNCHANGED logicError
        /\ UNCHANGED <<db, hashBlock, open>>

GetBestBlock ==
    /\ hashBlock' = [k \in 0..N |-> IF k \in 1..open /\ k > HashSource(hashBlock, open)
                                    THEN BestOf(hashBlock, open) ELSE hashBlock[k]]
    /\ UNCHANGED <<db, cache, usage, open, logicError>>

SetBestBlock(h) ==
    /\ hashBlock' = [hashBlock EXCEPT ![open] = h]
    /\ UNCHANGED <<db, cache, usage, open, logicError>>

-----------------------------------------------------------------------------
(* Flushing                                                                *)

\* Mutant: a spent entry is erased from the parent whether it is FRESH or not.
MergedMutant(child, parent) ==
    IF ~child.dirty THEN parent
    ELSE IF ~parent.in
         THEN AfterModifier([child EXCEPT !.dirty = TRUE])
         ELSE IF child.coins = Pruned
              THEN Absent
              ELSE [parent EXCEPT !.coins = child.coins, !.dirty = TRUE]

\* The entry BatchWrite leaves in the parent cache for a child's entry
Merged(child, parent) ==
    IF ~child.dirty THEN parent
    ELSE IF ~parent.in
         THEN AfterModifier([child EXCEPT !.dirty = TRUE])
         ELSE IF parent.fresh /\ child.coins = Pruned
              THEN Absent
              ELSE [parent EXCEPT !.coins = child.coins, !.dirty = TRUE]

\* BatchWrite throws: "FRESH flag misapplied to cache entry"
Misapplied(child, parent) ==
    child.dirty /\ child.fresh /\ parent.in /\ parent.coins # Pruned

\* The parent's cache, and the change of its cachedCoinsUsage, after BatchWrite
\* of the top view's entries
BatchWritten == [t \in Txids |-> Merged(cache[open][t], cache[open - 1][t])]

BatchUsage ==
    SumFunction([t \in Txids |-> DynamicMemoryUsage(BatchWritten[t].coins)
                                   - DynamicMemoryUsage(cache[open - 1][t].coins)])

\* Flush of a view opened on another cache.  ConnectBlock and DisconnectBlock
\* have read the best block of the view and set a new one before it.
FlushToCache ==
    /\ open > 1
    /\ hashBlock[open] # NullHash
    /\ IF \E t \in Txids : Misapplied(cache[open][t], cache[open - 1][t])
       THEN logicError' = TRUE /\ UNCHANGED <<cache, hashBlock, usage>>
       ELSE /\ cache' = [cache EXCEPT ![open - 1] = BatchWritten,
                                      ![open] = [t \in Txids |-> Absent]]
            /\ usage' = [usage EXCEPT ![open - 1] = @ + BatchUsage, ![open] = 0]
            /\ hashBlock' = [hashBlock EXCEPT ![open - 1] = hashBlock[open]]
            /\ UNCHANGED logicError
    /\ UNCHANGED <<db, open>>

\* pcoinsTip->Flush() by FlushStateToDisk: CCoinsViewDB::BatchWrite commits one
\* LevelDB batch, so the coins and the best block reach the disk together.
FlushToDisk ==
    /\ open = 1
    /\ db' = [t \in Txids |-> IF cache[1][t].dirty THEN cache[1][t].coins ELSE db[t]]
    /\ hashBlock' = [hashBlock EXCEPT ![0] = IF hashBlock[1] # NullHash
                                             THEN hashBlock[1] ELSE @]
    /\ cache' = [cache EXCEPT ![1] = [t \in Txids |-> Absent]]
    /\ usage' = [usage EXCEPT ![1] = 0]
    /\ UNCHANGED <<open, logicError>>

\* Mutant: the memory of an uncached entry stays accounted.
UncacheMutant(t) ==
    /\ cache[1][t].in /\ ~cache[1][t].dirty /\ ~cache[1][t].fresh
    /\ cache' = [cache EXCEPT ![1][t] = Absent]
    /\ UNCHANGED <<db, hashBlock, usage, open, logicError>>

\* Uncache by AcceptToMemoryPool and LimitMempoolSize, on pcoinsTip
Uncache(t) ==
    /\ cache[1][t].in /\ ~cache[1][t].dirty /\ ~cache[1][t].fresh
    /\ cache' = [cache EXCEPT ![1][t] = Absent]
    /\ usage' = [usage EXCEPT ![1] = @ - DynamicMemoryUsage(cache[1][t].coins)]
    /\ UNCHANGED <<db, hashBlock, open, logicError>>

-----------------------------------------------------------------------------
(* The life of the views                                                   *)

\* CCoinsViewCache view(pcoinsTip)
Push ==
    /\ open < N
    /\ open' = open + 1
    /\ UNCHANGED <<db, cache, hashBlock, usage, logicError>>

\* ~CCoinsViewCache: what was not flushed is forgotten.
Pop ==
    /\ open > 1
    /\ open' = open - 1
    /\ cache' = [cache EXCEPT ![open] = [t \in Txids |-> Absent]]
    /\ hashBlock' = [hashBlock EXCEPT ![open] = NullHash]
    /\ usage' = [usage EXCEPT ![open] = 0]
    /\ UNCHANGED <<db, logicError>>

\* The process dies, or a failed write made AbortNode stop it, and is restarted.
Crash ==
    /\ open' = 1
    /\ cache' = [l \in 1..N |-> [t \in Txids |-> Absent]]
    /\ hashBlock' = [l \in 0..N |-> IF l = 0 THEN hashBlock[0] ELSE NullHash]
    /\ usage' = [l \in 1..N |-> 0]
    /\ logicError' = FALSE
    /\ UNCHANGED db

Init ==
    /\ db \in [Txids -> Coins]
    /\ cache = [l \in 1..N |-> [t \in Txids |-> Absent]]
    /\ \E h \in Hashes \cup {NullHash} :
          hashBlock = [l \in 0..N |-> IF l = 0 THEN h ELSE NullHash]
    /\ usage = [l \in 1..N |-> 0]
    /\ open = 1
    /\ logicError = FALSE

Next ==
    \/ \E t \in Txids : FetchCoins(t) \/ Uncache(t)
    \/ \E t \in Txids, v \in Coins :
          \/ ModifyCoins(t, v)
          \/ \E coinbase \in BOOLEAN : ModifyNewCoins(t, coinbase, v)
    \/ GetBestBlock
    \/ \E h \in Hashes : SetBestBlock(h)
    \/ FlushToCache
    \/ FlushToDisk
    \/ Push
    \/ Pop
    \/ Crash

Spec == Init /\ [][Next]_vars

-----------------------------------------------------------------------------
(* Properties                                                              *)

\* Every variable has its type: the caches hold entries with flags, and between one
\* and N of them are alive.
TypeOK ==
    /\ db \in [Txids -> Coins]
    /\ cache \in [1..N -> [Txids -> Entry]]
    /\ hashBlock \in [0..N -> Hashes \cup {NullHash}]
    /\ DOMAIN usage = 1..N
    /\ open \in 1..N
    /\ logicError \in BOOLEAN

\* The flags of the caches c over the database d mean what coins.h says: an entry
\* that is not DIRTY is the parent view's version, and the parent view has no
\* unspent outputs for an entry that is FRESH.
FlagsOf(c, d) ==
    \A l \in 1..N, t \in Txids : c[l][t].in =>
        /\ ~c[l][t].dirty => c[l][t].coins = ViewOf(c, d, l - 1, t)
        /\ c[l][t].fresh => ViewOf(c, d, l - 1, t) = Pruned

\* The comments on DIRTY and FRESH in coins.h hold at every level of the stack,
\* whatever was fetched, changed, flushed or uncached before.
FlagsSound == FlagsOf(cache, db)

\* What makes FlagsSound inductive: a transaction without an entry has no flags,
\* and the levels above the top view are empty.
ShapeInv ==
    /\ \A l \in 1..N, t \in Txids :
          ~cache[l][t].in \/ l > open => cache[l][t] = Absent
    /\ \A l \in 1..N : l > open => hashBlock[l] = NullHash

\* Neither ModifyNewCoins nor BatchWrite meets the state for which it throws.
NoLogicError == ~logicError

\* The memory of the entries m of one cache
SizeOf(m) == SumFunction([t \in Txids |-> DynamicMemoryUsage(m[t].coins)])

\* cachedCoinsUsage, which decides when FlushStateToDisk flushes, is the memory
\* of the entries the cache holds: no path adds or subtracts a size twice.
UsageExact == \A l \in 1..N : usage[l] = SizeOf(cache[l])

IInv == TypeOK /\ ShapeInv /\ FlagsSound /\ NoLogicError

\* Reading through the caches shows what views without caches would show.
Abstract == INSTANCE CoinsView WITH
                view <- [l \in 0..N |-> [t \in Txids |-> View(l, t)]],
                best <- [l \in 0..N |-> BestOf(hashBlock, l)]

\* The stack of caches implements the stack of plain maps: fetching and
\* uncaching are invisible, a flush hands down exactly the top view, a view
\* that is dropped leaves no trace, and a crash keeps the database.
ImplementsCoinsView == Abstract!Spec
==============================================================================
