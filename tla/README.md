# A TLA+ model of the Coinyecoin node

This directory holds TLA+ models of the parts of the node (`src/src/`, a descendant of
Bitcoin Core through Dogecoin Core, with a built-in stratum server) whose correctness
depends on order: of blocks, of threads, of writes to disk, of messages. TLC checks the
models on small instances; TLAPS proves the safety properties of nearly all of them for
every instance.

- [The system](#the-system)
- [The modules](#the-modules)
- [The runs](#the-runs)
- [The proofs](#the-proofs)
- [Where the source disagrees with itself](#where-the-source-disagrees-with-itself)
- [What is not modelled](#what-is-not-modelled)
- [Plan](#plan)
- [How to run](#how-to-run)

## The system

| Part | Code | State | Operations | What is hard |
|---|---|---|---|---|
| Coin view caches | `coins.cpp`, `coins.h`, `txdb.cpp` | a stack of maps from transaction ids to outputs with the flags DIRTY and FRESH, best blocks, a memory count | fetch, modify, new coins, flush, uncache, push and drop a view, batch write | a wrong flag loses coins several flushes later; crash between flushes |
| Block index, chain activation | `validation.cpp`, `chain.h` | `mapBlockIndex`, `setBlockIndexCandidates`, `mapBlocksUnlinked`, `chainActive`, dirty sets, two databases | headers, blocks, activation, `invalidateblock`, `reconsiderblock`, `preciousblock`, prune, flush, load | several threads between the rounds of an activation; blocks in any order; failure half-way through a reorganisation; crash between two writes |
| Stratum server | `stratum.cpp` | jobs, clients, difficulty and seen shares of each client, stop flag, thread group | job thread, acceptor, one thread per client, start, interrupt, stop | unlocked fields, two senders to a client, blocking sends, a clock that is set back, stopping |
| Merkle trees | `consensus/merkle.cpp`, `merkleblock.cpp`, `stratum.cpp` | none | root, branch, steps, partial trees | counts that are no power of two; repeated subtrees |
| Script check queue | `checkqueue.h` | queue, counters, two condition variables, verdict | add, work, wait, interrupt | missed wake-ups; a control object that ends while a check runs; the verdict of one block given to the next |
| CPU miner, mining RPC | `miner.cpp`, `rpc/mining.cpp` | thread group, shared statics, cached templates | `setgenerate`, mining loop, `getblocktemplate`, `getauxblock` | unlocked thread group; templates that outlive their tip |
| Memory pool | `txmempool.cpp` | transactions, links, totals over ancestors and descendants | accept, replace, remove, reorganise, evict, prioritise | totals kept by deltas; a reorganisation during which links and inputs disagree |
| Peers | `net_processing.cpp`, `net.cpp`, `addrman.cpp`, `blockencodings.cpp` | per-peer state, blocks in flight, orphans, queues, address tables | messages, timeouts, disconnects | late answers, counters kept by deltas |
| Rules of consensus | `pow.cpp`, `coinyecoin.cpp`, `versionbits.cpp`, `auxpow.cpp`, `script/` | caches only | pure functions | boundaries of integers |
| Services | `scheduler.cpp`, `httpserver.cpp`, `init.cpp`, `validationinterface.cpp` | queues, threads | schedule, serve, start, stop | order of shutdown |
| Wallet | `wallet/` | keys, key pool, transactions | reserve, spend, abandon, load | reserved keys and crashes |

How they interact: peers, RPC and miners hand blocks to `ProcessNewBlock`, which enters them
into the index and calls `ActivateBestChain`; which block is asked of which peer is decided
from the index and the tip. Activation connects and disconnects blocks
through a cache stacked on `pcoinsTip`, runs the scripts of a block on the check queue, takes
the transactions of a connected block out of the memory pool and puts those of a disconnected
one back, and writes the index and the coins with
`FlushStateToDisk`. The stratum server reads the tip, makes templates with `CreateNewBlock`
and hands blocks back to `ProcessNewBlock`. Nearly all of it runs under `cs_main`, which
`ActivateBestChain` gives back between its rounds and the stratum server takes only for
single reads: those are the places where the models let other threads in.

`PROJECT.json` lists every part with its sources (`components`), the places where it is hard
to test (`hazards`), and the source lines of every definition (`map`).

## The modules

| Module | Models | Used by |
|---|---|---|
| `CoinsView` | the promise of a stack of coin views: plain maps | `CoinsCache` |
| `CoinsCache` | `CCoinsViewCache`, `CCoinsViewDB::BatchWrite` | `MCCoinsCache`, `CoinsCacheProofs` |
| `CoinsCacheProofs` | theorems about `CoinsCache` | |
| `ChainState` | the block index, the choice of the chain, its disk | `MCChainState`, `ChainStateProofs` |
| `ChainStateProofs` | lemmas about trees of blocks and their order; theorems about the disk, the marks and the waiting blocks of `ChainState` | `ChainCandidatesProofs` |
| `ChainCandidatesProofs` | theorems about its candidates and active chain | |
| `CheckBatch` | the promise of a `CCheckQueueControl` | `CheckQueue` |
| `CheckQueue` | the queue of script checks, its workers and masters | `MCCheckQueue`, `CheckQueueProofs` |
| `CheckQueueProofs` | theorems about `CheckQueue` | |
| `BlockDownload` | which block is requested from which peer | `MCBlockDownload`, `BlockDownloadProofs` |
| `BlockDownloadProofs` | theorems about `BlockDownload` | |
| `Mempool` | the memory pool under acceptance, blocks and reorganisations | `MCMempool`, `MempoolLemmas` |
| `MempoolLemmas` | lemmas about `Mempool`: sums, links, packages, and what each operation on the pool keeps true | `MempoolProofs` |
| `MempoolProofs` | theorems about `Mempool` | |
| `Stratum` | jobs, clients, shares | `MCStratum`, `StratumProofs` |
| `StratumLifecycle` | start and stop | `MCStratumLifecycle`, `StratumProofs` |
| `StratumVardiff` | the difficulty of one miner | `MCStratumVardiff`, `StratumProofs` |
| `StratumProofs` | theorems about `Stratum`, `StratumLifecycle` and `StratumVardiff` | |
| `Merkle` | roots, branches, steps, partial trees | `MCMerkle` |

An operator whose name ends in `Mutant` (or that the comment before it calls a mutant) is a
wrong version of the definition after it. No specification uses them: they are there to be
put in the place of the right version, when the property named with them in `PROJECT.json`
must fail.

### CoinsCache and CoinsView

Level 0 is the database, level 1 `pcoinsTip`, and the levels above it are the views that
`ConnectTip`, `DisconnectTip`, `TestBlockValidity` and `VerifyDB` open (`Push`) and drop
(`Pop`). `cache[l][t]` is the entry of `cacheCoins` with its flags. One action is one
operation under `cs_main`, from `ModifyCoins` to the destruction of the `CCoinsModifier`,
entries copied into the lower caches on the way included. The outputs of a transaction are
one value, `Pruned` when they are all spent; serialization, which only exists in the
database, is left out. `ModifyNewCoins` is called as validation calls it: on a transaction
without unspent outputs when BIP30 is enforced, with the exception for coinbases above the
BIP34 height otherwise (`BIP30 = FALSE`). `Crash` stands for the end of the process at any
time and for the failed write after which `AbortNode` ends it.

`CoinsView` has no caches and no flags: a write changes the top map and a flush copies it
down. `CoinsCache` implements it under the mapping that reads each level through the stack.

### ChainState

One action is what one thread does without giving back `cs_main`. The flags of a
`CBlockIndex` are sets (`tx`: `nTx > 0`, `data`: `BLOCK_HAVE_DATA`, `linked`: `nChainTx > 0`,
`failedValid`, `failedChild`); `seq` and the two counters order blocks of equal work as
`CBlockIndexWorkComparator` does, down to the address. `ProcessNewBlock` is `AcceptBlock` and
the start of `ActivateBestChain`; `ActivateBestChain(p)` is one round of its loop by thread
p: `FindMostWorkChain` with everything it erases and marks, or the target kept in
`mostWork[p]`, then `ActivateBestChainStep` with `DisconnectTip`, `ConnectTip`,
`InvalidBlockFound` and `PruneBlockIndexCandidates`. `disk` is what a restart would find: the
block index database and the best block of the coins. `FlushStateToDisk` writes the dirty
entries, and the coins when it is full; `CrashInFlush` dies between the two and `CrashInStep`
after one of the writes in the middle of a step; `Restart` is `LoadBlockIndexDB` and the
`ActivateBestChain` of `ThreadImport`.

Abstractions. What makes a block invalid is given: `ContextBad` fails
`ContextualCheckBlock`, `ConnectBad` fails `ConnectBlock`, `Corrupt` fails with
`CorruptionPossible` when it is read from its file. Every block has a file of its own. The
blocks linked by one arrival are numbered in any order compatible with the tree, since
`mapBlocksUnlinked` is a multimap ordered by address, and a block is in it once or not at
all. Validity levels above `BLOCK_VALID_TRANSACTIONS`, undo data, `pindexBestHeader`,
`pindexBestInvalid` and the break on `ShutdownRequested` are left out. The genesis block is
not invalidated. `Features` chooses which operations beside the arrival of blocks happen.

### CheckQueue and CheckBatch

One action is what a thread does between locking and unlocking the mutex of the queue: `Add`;
the entry of `Loop` (`Enter`), the clean-up after a batch with all that follows it up to the next
batch, wait or return (`CleanUp`), the same after a wait (`Resume`); `Work` runs a batch without
the lock. `Control`, `Wait`, `EarlyReturn` and `Release` are `CCheckQueueControl` in the hands of
`ConnectBlock`, an early return standing for every `return` between the construction of the
object and its `Wait`. The checks of a block are numbered in the order in which they are added,
so the back of the vector is the greatest number. `fQuit` is never set by the code.
`boost::condition_variable` is external: a wait may end by itself, and a thread of the group that
`interrupt_all` marked throws from its wait (`Throw`) without the counters being taken back.
An interrupted worker ends. An interrupted master leaves `ConnectBlock` by the exception, and the
destructor waits once more; when it is the destructor that is interrupted, which is `noexcept`, the
process is terminated (`call = "terminate"`) and nothing happens any more. `Group` are the masters
that belong to the thread group, which is the import thread.

`CheckBatch` knows only which checks were added and which are not finished: `Wait` answers for
all that were added, and neither `Wait` nor the destructor ends before. `CheckQueue` implements
it, with what is queued or in a batch as what is pending.

### BlockDownload

`flight` is the bookkeeping that `MarkBlockAsReceived`, `MarkBlockAsInFlight` and `FinalizeNode`
keep in step: the map, and for each node the list, two counters, the compact blocks under
construction and the start of stalling. One action is the handling of one message (`Inv`,
`Headers`, `UnconnectingHeaders`, `Block`, `CmpctBlock`, `CmpctUnconnecting`, `BlockTxn`), one
`SendMessages` with `FindNextBlocksToDownload`, a timeout, or a step in the life of a node.
`getheaders` is the set of the peers of `Honest` that were sent a `getheaders` without a stop hash
and have not answered yet: at the start of the synchronisation (`StartSync`), or because headers or
a compact block did not connect (`AskHeaders`). A block that nobody was asked for is stored if it
has more work than the tip and is not more than `MIN_BLOCKS_TO_KEEP` above it, or if it comes from a
whitelisted peer outside of the initial download. A block that was received
waits in `msg` until `ProcessNewBlock`, since `cs_main` is free in between: the socket thread may
delete the node (`FinalizeNode`) and an RPC thread submit the same block (`SubmitBlock`).

Abstractions. All messages are valid (the invalid blocks are in `ChainState`), but a peer may
send any block whether asked or not, or nothing. The clock is left out: where the code compares
times, a timeout may fire. The list of a node is a set, as its order matters to the clock only;
the requests of one `SendMessages` are marked in one step; work is height. One `headers` message
has room for all headers, so no second `getheaders` follows a full one.

### Mempool

`pool` is `CTxMemPool` with the links, the totals of count and modified fee over ancestors and
descendants, `mapNextTx` and `mapDeltas`. An action is what one thread does under `cs_main`:
`AcceptToMemoryPool` with replacement and `TrimToSize`, `ConnectTip`, `DisconnectTip` and then one
transaction of the block at a time (`Resurrect`), `UpdateFromBlock`, and the end of a
reorganisation or of `invalidateblock` with `removeForReorg` and `LimitMempoolSize`.
`PrioritiseTransaction` may come between any two of them, because `LoadMempool` calls it without
`cs_main`.

Abstractions. Every transaction has size 1, so the total of the sizes is the count. Blocks have
no coinbase; which transactions `removeForReorg` drops for maturity or finality, which ones a
policy or a script refuses and which ones have expired is left open, and so is the order of equal
scores. Every transaction keeps an output that nobody spends, so a confirmed one is always known.
The rolling minimum fee, the fee estimator, the count of memory and `mempool.dat` are left out, and
so is a failing `FlushStateToDisk` in `DisconnectTip`, after which the node stops.

### Stratum

One action is what a thread does between two points where another can come in: a section
under `cs_stratum`, a read of the chain, a message. The job thread goes through `look`,
`create`, `height` (the second read of the chain), `register`, `snapshot` and `send`; a
client thread through `fetch` and `notify` (`mining.subscribe`), `authorize` and `closed`.
`told[c]` is the last work the miner received. `payoutScript` is assigned without a lock, so
the job thread may read the old value, the new one or a torn one. Job ids are compared as the
strings they are in `g_mapJobs`. A submission names a job and a work (extranonce2, ntime, nonce)
by its text: `setDupes` holds texts, so two spellings of the hexadecimal digits of one share are
two entries. Whether the hash meets the target is an input. A client may submit before it
subscribes, as `HandleSubmit` does not ask. `credited[c]` is history: for each accepted submission
the job, the work, and how often `setDupes` had been emptied (`emptied`). The extranonce1 of a
client is the client itself, and the state of a client that left is gone. The mempool is its size,
which is all that the job thread looks at. The clock is an integer that may be set back. A template
may fail to be made (null).
A block that was found goes to `ProcessNewBlock`, outside this module.

### StratumLifecycle

The caller of start and stop, the acceptor, the job thread and the client threads. The thread
group is external (`boost::thread_group`): `create_thread` takes its mutex exclusively,
`join_all` holds it while it waits. `send` to a peer that does not read does not return.
`InterruptStratumServer` only sets the flag. What is left after a stop is the question, so the
tables are `g_vClients` and `hasJob` (whether there is a job).

### StratumVardiff

Difficulties are positive integers, so that the quotients of the code round down here; times are
seconds, at the values of the code (45 s between retargets, 20 s of grace, 4 s per share). A client
starts with the difficulty of `-stratumdiff`, which may be outside of the limits (`Starts`); it is
adjusted only if `g_fVardiff` is set and the client has subscribed. `recent` is history: what a
retarget replaced less than 20 s ago.

### Merkle

The functions are operators on lists of leaves; a hash is the term hashed, so different terms
never collide. The state is only a list that grows by a transaction, matched or not, at each
step. The reference for the root is the tree that the unit tests build
(`test/merkle_tests.cpp`). The limit on the number of transactions in `ExtractMatches` is left
out, being far above the lists of the runs.

## The runs

| Run | Instance | Checks |
|---|---|---|
| `coins_cache` | 1 transaction with 2 unspent values, 2 block hashes, 3 caches | `FlagsSound`, `NoLogicError`, `UsageExact`, `ImplementsCoinsView` |
| `chain_select` | 1 thread, branches of 2 and 3 blocks, one block that cannot be connected and one that cannot be accepted, `invalidateblock`, one `preciousblock` whenever the chain has grown | `BestChainActive`, `CandidatesExact`, `UnlinkedComplete`, `ActiveChainValid`, `FailedHasCause`, `ActivationEnds` |
| `chain_threads` | 2 threads, two branches of 2 blocks, the last block of one invalid, `reconsiderblock`, flushes, crashes | `NoAssertFails`, `NothingBetterForgotten`, `DiskOrdered` |
| `chain_prune` | 1 thread, two branches of 2 blocks, pruning up to 1 block below the tip, flushes, crashes | `BetterAreUnlinked`, `NothingBetterForgotten`, `LinkedMeansReceived` |
| `check_queue` | 2 workers, 2 masters (one may be interrupted), 4 checks (one fails), batches of at most 2, 2 blocks | `CountsExact`, `ImplementsCheckBatch`, `WaitEnds` |
| `block_download` | 1 preferred, whitelisted peer that answers and 1 peer that does as it likes, 2 blocks, 1 block in transit per peer, a window of 1 | `InFlightConsistent`, `TransitBounded`, `StallerOwes`, `SyncCompletes` |
| `mempool` | 5 transactions, three in a diamond, two in conflict; a pool of 3, blocks of up to 2 transactions, chains of up to 2 blocks, one prioritisation up or down each | `LinksMatchPackages`, `CheckPasses`, `InputsAvailable` |
| `stratum_shares` | 2 miners, 1 place, 3 submissions of one of them in two spellings or malformed, a `setDupes` of 1, a table of 2 jobs, a clock set back once | `ConnectionsBounded`, `CreditedOnce`, `CurrentJobKept` |
| `stratum_work` | 2 miners, 2 places, one change of the tip, changes of the mempool, one miner may stop reading, the other one authorizes | `WorkCatchesUp`, `PayoutCatchesUp` |
| `stratum_stop` | 2 clients, 2 starts, a client that may stop reading | `NothingLeft`, `StopEndsUnlessStuck` |
| `vardiff` | limits 2 and 8, starts at 1, 4 and 12, ticks of 5 s, up to 46 shares per interval, suggestions | `GraceHonoured`, `EasedDown` |
| `merkle` | lists of up to 8 out of 2 transactions, all sets of matches | `RootIsTreeRoot`, `MutationsDetected`, `BranchLeadsToRoot`, `StepsLeadToRoot`, `PartialTreeRoundTrip` |

Every module but `Mempool` and `Merkle` also defines `TypeOK` (`ServerTypeOK` in
`StratumLifecycle`, `DiffTypeOK` in `StratumVardiff`). The runs leave it out as the least of the
properties; it was checked on the same instances, and for `CoinsCache` and `StratumVardiff` it is
proved. That `pool` has its type is part of the invariant proved of `Mempool`.

What they show:

- **Coins.** The flags mean what `coins.h` says at every level whatever the history, neither
  `logic_error` can be thrown, `cachedCoinsUsage` is exact, and nobody above the caches can
  tell that they are there. `UsageExact` is checked with BIP30 enforced: when a coinbase
  overwrites unspent outputs above the BIP34 height the size of the old entry is not
  subtracted, as in the code, and the count drifts.
- **Chain.** With one thread, `invalidateblock`, and a `preciousblock` whenever the chain has grown, every call of `ActivateBestChain` ends with the best chain active
  and the index in the state that `CheckBlockIndex` asserts. With several threads it need not
  be the best chain (the first row of the table of disagreements), but a candidate with as much work as any
  valid block is left (`NothingBetterForgotten`), so the next call repairs it. The order of the
  writes makes every crash recoverable, except after `invalidateblock` (third row). What
  several calls of `preciousblock` can do together with `invalidateblock` is in the fourth row; the
  proofs cover each of the two without the other, and without a bound.
- **Script checks.** `nTodo` is exact at every moment, so the last check and no other wakes the
  master; `Wait` answers for the checks of its own block, also after an early return of the block
  before; the destructor waits for the last check. A master always returns, even when all workers
  were interrupted, since it then runs the checks itself, or it is interrupted itself: after an
  early return a shutdown that catches the import thread in the destructor terminates the process.
- **Block download.** The records of what is in flight, kept in four places, agree after every
  message, timeout and disconnection, so the asserts of `FinalizeNode` hold. A peer is never asked
  for more blocks than the limit, also by direct fetch and compact blocks, and is held to be
  stalling only while it owes a block. One preferred peer that answers brings the node to the best
  chain whatever another announces, sends or withholds, with one exception (`HeldUp`): the first
  `getheaders` goes to one peer only, and headers have no timeout. If that peer neither answers nor
  leaves, and the best header is older than a day, nobody else is asked. `<>MostWork(tip)` alone
  fails: the other peer connects first, is asked, and keeps silent.
- **Memory pool.** The totals are those of the links at every moment, the middle of a
  reorganisation included, which is what a prioritisation from `LoadMempool` needs. Outside of
  that the links are those of the inputs, and every input exists: the pool can be mined.
- **Stratum.** A text is credited again for the same job only after `setDupes` was emptied, and
  that takes `MaxDupes + 1` counted submissions each time, so the number of credits is that of
  different shares up to a known excess; the current job is
  always in the table, though the clock goes back; a miner's last work is eventually work on
  the tip that pays its script, because of the refresh (without it, two of the interleavings
  leave a miner with old work for good), unless the job thread is stuck for ever in a `send` to a
  client that has stopped reading (`JobThreadStuck`). Nothing survives a stop. A stop can hang in exactly
  two ways.
- **Difficulty.** The grace holds for retargets; a subscribed miner that finds nothing is eased
  down when vardiff is on.
- **Merkle.** The five computations agree on every list, and of the lists with one root one at
  most is not flagged.

### Bounds, and why they are enough

`coins_cache`: three caches are one more than the code stacks over the database outside
`VerifyDB`; an entry interacts only with entries of the same transaction, so one transaction
shows all of it; two unspent values tell a partial spend from an overwrite. The state space is
finite without further bounds.

Chain: the trees are the smallest in which the cases happen: a reorganisation of two blocks
(`Twins`), one whose better branch fails at its last block or grows past the other (`Fork`).
`chain_prune` has one thread: a walk back to an old target can end at a tip that is no candidate,
which `BetterAreUnlinked` does not speak of. The properties of `chain_threads` and, with one thread,
of `chain_prune` are proved for every tree; the last two of `chain_prune` also hold with two threads
on `Line` and `LateFork`.
`MaxSeq` is at least the number of blocks, and one more where a restart or pruning numbers a
block again. `MaxPrecious` bounds `-nBlockReverseSequenceId`, which starts again at 1
when the chain has grown since the last `preciousblock`, and the bound matters: on the tree `Vee`
`BestChainActive` and `CandidatesExact` hold with 2 and fail with 3 (see the disagreements). `MIN_BLOCKS_TO_KEEP` is 1 or 2 instead of
288 or more, with chains of 2 or 3 blocks.

Script checks: with 2 workers and a master, 4 checks and batches of 2, a thread can find the queue
empty while two others work, all can wait, and a batch can be larger than one. Two blocks
(`MaxBlocks`) show what one leaves to the next; the threads and counters start the second as the
first left them.

Block download: with 2 blocks and a window and a limit of 1, the peer that answers finds the
window closed by the other one, which is then stalling; `DayHeight` and `RecentHeight` make the
first block the end of the initial download, so both ways of fetching occur and a best header older
than a day, with which `HeldUp` begins, too. `MIN_BLOCKS_TO_KEEP` is 1, so that the second block is
too far ahead of the genesis block. That a block of a whitelisted peer is stored without having been
asked for shows on a fork: the safety properties also hold on `Forked` (1,477,241 states), and with
3 blocks in a row and a window and limit of 2 (1,159,511 states).

Memory pool: the diamond is the smallest shape in which an entry has an ancestor along two paths;
the limits on ancestors (4) and the pool (3) are below the size of the set, so they bite. A
reorganisation of two blocks returns transactions below, above and in the middle of what is in the
pool. `MaxDelta` bounds the prioritisations.

Stratum: 2 jobs instead of 8 and a base of 2 instead of 16 for their ids, so that the table
turns over and ids of different lengths meet; `Rate`, the jobs that the sleep of the job
thread allows per second, is below the size of the table, as in the code (`LimitsAssumption`).
`FirstTips`, `MaxTips`, `MaxMempool`, `MaxTime`, `MaxBack` and `MaxShares` (per client) bound the
environment, and `Users` are the clients that authorize. `MaxDupes` is 1 in `stratum_shares`, so
that with 3 submissions the set overflows and a share is credited again. After the
second `Quiet` the chain and the miners do nothing new and the clock waits for the threads,
which need far less than a second; the liveness properties are about that end. In
`stratum_work` a client that stops reading is in the list together with one that reads.

Difficulty: `MaxElapsed`, above the 45 s of an interval, bounds the time until the miner
subscribes; at 46 shares in 45 s the factor is at its limit of 4. Merkle: 8 leaves have three
levels, and 3, 5, 6 and 7 leaves have padding at one or two of them.

Where deadlock is not checked (`CheckQueue`, `BlockDownload`, `Stratum`, `StratumLifecycle`,
`Merkle`) the runs end by their bounds, or with all peers gone.

### Fairness

- `ChainState`: weak fairness of `ActivateBestChain(p)` for every thread: a thread inside the
  loop waits for `cs_main` only, which every other operation gives back.
- `CheckQueue`: weak fairness of the steps of each thread in `Loop`: the mutex is held for a moment
  only and a script check ends. No wait is assumed to end without a notification.
- `BlockDownload`: weak fairness of `ProcessNewBlock`. For the peer that answers, strong fairness
  of its connection, `SendMessages`, its answer to a `getheaders` it was sent (`Answer`) and the
  delivery of the blocks it was asked for; it is not assumed to announce anything by itself.
  The message thread takes the nodes in turn, but is busy with a block in between. For the others
  strong fairness of timeout or disconnection, as time passes; nothing is assumed of what they
  send.
- `Stratum`: weak fairness of the job thread, of the clock, of the acceptor once it has
  accepted, and of each client thread once it has a line to answer. Nothing is assumed of the
  miners, of the chain and of the mempool.
- `StratumLifecycle`: weak fairness of the caller inside stop and of every thread. Clients and
  calls of start and stop are not fair. A thread inside `send` to a frozen peer is not
  enabled, so fairness says nothing of it.
- `StratumVardiff`: the clock and the retarget of the client thread, which looks at the clock
  every second. Nothing makes a client subscribe.

Liveness is only model-checked.

## The proofs

The theorems hold for every value of the constants:

| Theorem | Statement | Module |
|---|---|---|
| `Invariance` | `Spec => []IInv` | `CoinsCacheProofs` |
| `TypeCorrect` | `Spec => []TypeOK` | `CoinsCacheProofs` |
| `FlagsAreSound` | `Spec => []FlagsSound` | `CoinsCacheProofs` |
| `NeverThrows` | `Spec => []NoLogicError` | `CoinsCacheProofs` |
| `Refinement` | `Spec => ImplementsCoinsView` | `CoinsCacheProofs` |
| `UsageIsExact` | `BIP30` implies `Spec => []UsageExact` | `CoinsCacheProofs` |
| `CountsAreExact` | `Spec => []CountsExact` | `CheckQueueProofs` |
| `Refinement` | `Spec => ImplementsCheckBatch` | `CheckQueueProofs` |
| `InFlightAgree` | `Spec => []InFlightConsistent` | `BlockDownloadProofs` |
| `TransitLimited` | `Spec => []TransitBounded` | `BlockDownloadProofs` |
| `StallersOwe` | `Spec => []StallerOwes` | `BlockDownloadProofs` |
| `DiskAlwaysOrdered` | `Spec => []DiskOrdered` | `ChainStateProofs` |
| `FailuresHaveCause` | without `reconsiderblock`, `Spec => []FailedHasCause` | `ChainStateProofs` |
| `LinkedAreReceived` | without `reconsiderblock`, `Spec => []LinkedMeansReceived` | `ChainStateProofs` |
| `UnlinkedIsComplete` | without `reconsiderblock`, `Spec => []UnlinkedComplete` | `ChainStateProofs` |
| `AssertsHold` | `Undisturbed` implies `Spec => []NoAssertFails` | `ChainCandidatesProofs` |
| `NothingForgotten` | `Undisturbed` implies `Spec => []NothingBetterForgotten` | `ChainCandidatesProofs` |
| `ActiveChainIsValid` | `Undisturbed` implies `Spec => []ActiveChainValid` | `ChainCandidatesProofs` |
| `BestChainIsActive` | `OneThread` and `Settled` imply `Spec => []BestChainActive` | `ChainCandidatesProofs` |
| `CandidatesAreExact` | the same implies `Spec => []CandidatesExact` | `ChainCandidatesProofs` |
| `ActiveChainStaysValid` | the same implies `Spec => []ActiveChainValid` | `ChainCandidatesProofs` |
| `AssertsHoldAlone` | the same implies `Spec => []NoAssertFails` | `ChainCandidatesProofs` |
| `BetterAreKept` | `OneThread` and `Harmless` imply `Spec => []BetterAreUnlinked` | `ChainCandidatesProofs` |
| `NothingForgottenPruned` | the same implies `Spec => []NothingBetterForgotten` | `ChainCandidatesProofs` |
| `AssertsHoldPruned` | the same implies `Spec => []NoAssertFails` | `ChainCandidatesProofs` |
| `MissingAreKept` | the same without crashes implies `Spec => []MissingAreUnlinked` | `ChainCandidatesProofs` |
| `BestChainIsActivePruned` | the same without crashes implies `Spec => []BestChainActive` | `ChainCandidatesProofs` |
| `CandidatesAreExactPruned` | the same without crashes implies `Spec => []CandidatesExact` | `ChainCandidatesProofs` |
| `ConnectionsAreBounded` | `Spec => []ConnectionsBounded` | `StratumProofs` |
| `CurrentJobIsKept` | `Spec => []CurrentJobKept` | `StratumProofs` |
| `SharesAreCreditedOnce` | `Spec => []CreditedOnce` | `StratumProofs` |
| `StopLeavesNothing` | `ServerSpec => []NothingLeft` | `StratumProofs` |
| `GraceIsHonoured` | `DiffSpec => []GraceHonoured` | `StratumProofs` |
| `DifficultyInRange` | `DiffSpec => []LimitsKept` | `StratumProofs` |
| `TotalsAreRight` | `Spec => []LinksMatchPackages` | `MempoolProofs` |
| `CheckAlwaysPasses` | `Spec => []CheckPasses` | `MempoolProofs` |
| `InputsAlwaysAvailable` | `Spec => []InputsAvailable` | `MempoolProofs` |

The assumptions are the `ASSUME`s of the modules they extend, and TLC evaluates them in the runs.

**Coins.** Assumed: `Pruned` is not an unspent value, sizes are natural numbers, `NullHash` is not
a block hash, there is at least one cache, `BIP30` is a Boolean. The inductive invariant is
`IInv == TypeOK /\ ShapeInv /\ FlagsSound /\ NoLogicError`. `FlagsSound` alone is not inductive:
an operation may fill caches between the one it works on and the database, and a level that is not
open, or a transaction without entry, must not carry flags left over from an earlier view, which
is what `ShapeInv` says. A read at level l is answered by the highest level at most l that has an
entry (`GreatestLevel`, `TopIsGreatest`, `SourceIsHighest`); hence the view of a level is its own
entry or the view of the level below (`ViewStep`), it depends on the levels below only
(`ViewSame`), and filling caches on the way of a read changes no view and no meaning of a flag
(`FillKeepsView`, `FillKeepsFlags`). Each operation then has a lemma that it preserves `IInv` and
what it does to every view (`FetchStep`, `ModifyStep`, `ModifyNewStep`, `FlushToCacheStep`,
`FlushToDiskStep`, `UncacheStep`, `PopStep`, `CrashStep`) and one on the best block where it
touches that. The heart is `MergedEntry`: `BatchWrite` applied to sound flags yields the entry of
the child, with sound flags towards the grandparent, in each of its cases, and does not throw.
`Refinement` maps every step to the step of `CoinsView` with the same name or to a stutter.
`UsageExact` compares a counter with a sum over a map, defined by a recursive function on sets. That
such a sum exists and can be taken apart in any order is proved by looking at the smallest set for
which it would not (`SumRecursion`, `SumAny`); from it follow what one changed entry and one batch do
to the sum (`SizeOfPut`, `SizeOfBatch`). Without BIP30 the statement is false, see the coins above.

**Script checks.** Assumed: finitely many workers, masters and checks, no thread both worker and
master, a batch size above 0. `CountsExact` does not say who holds checks when, nor what is known
of the checks that failed, and both are needed. The invariant adds that a thread has checks only
while it runs them and no two have the same one (`BatchesOK`), that a master is in `Loop` exactly
while it waits and that nothing is outstanding without a control object (`ControlOK`), and that a
failed check is still outstanding or `fAllOk` is false (`VerdictOK`). Whatever brings a thread to
the point where `Loop` looks at the queue, an entry, a wake-up or the end of a batch, leaves the
counters as `Locked` states; from there on one set of lemmas covers all three (`DecideBatches`,
`DecideCounts`, `DecideControl`, `DecideRefines`). In the refinement the end of a batch is
`Finish`, the return of the master is `Answer`, and an early return or an interrupted wait ends in
`End` with nothing pending.

**Chain.** Assumed: a finite tree in which work grows from parent to child and no two blocks have
one address; the genesis block is valid; `MIN_BLOCKS_TO_KEEP` is not 0. `Chain` is given as a constant with its recursive
property (`TreeAssumption`), so facts about chains are proved by looking at the block with the
least work that would violate them (`LeastNumber`, from the well-foundedness of the naturals;
`Chains`), and the greatest candidate exists because the one with the fewest above it has none
(`Greatest`). For the disk the invariant adds to `DiskOrdered` that the disk lacks only dirty
entries (`StoredOK`) and that linked blocks are received with all their ancestors and everything
the threads hold is linked (`LinkedOK`): then a write of the dirty entries makes the `tx` of the
disk that of the memory (`WrittenIs`), and whichever block the coins follow with has its chain
there. This holds with all operations.

Marks and waiting blocks (`WInv`), with pruning and crashes but without `reconsiderblock`, which
breaks them (see the disagreements). `FailedHasCause` needs that the marks on disk have their cause
there and that a cause missing on disk is dirty (`CauseOK`), as a restart loads the marks without
what was not written. `UnlinkedComplete` and `LinkedMeansReceived` need to know why a block on disk
is not linked (`WaitOK`): it waits, or is above a failed block; what waits unlinked has a parent
that is not linked; and below a block that waits, the blocks on disk wait as well, so that the
arrival of the lowest one reaches all of them (`ReceivedLinks`).

Any number of threads: the three theorems need `Undisturbed`, neither `invalidateblock` nor
`preciousblock` nor pruning, with which they are false (see the disagreements) or, for
`preciousblock` and pruning by several threads, not proved. Their invariant adds that only blocks above a bad one are
marked, in memory and on disk (`BlamedOK`), that the tip is above no block that cannot be connected
(`CleanOK`), and that for every block that can be connected some such candidate is not worse
(`CoveredOK`). The last is stronger than `NothingBetterForgotten`, which speaks of blocks better
than the tip only: when a thread walks back to an old target, blocks that were worse than the tip
become better, and when it goes on, `PruneBlockIndexCandidates` keeps a candidate not worse than
the new tip because the new tip itself was covered (`NotWorseCovers`), which is also why its
assertion holds.

One thread (`OneThread`): what `CheckBlockIndex` and the comment on `ActivateBestChain` promise,
when the thread may call `invalidateblock`, or `preciousblock` with crashes anywhere (`Settled`).
The combinations left out are false by the disagreements (`preciousblock` with `invalidateblock`;
`invalidateblock` with crashes; `reconsiderblock`; two threads); pruning is below. That the
tip is the best block when a call has returned is not inductive, since in between the tip is
anywhere. The invariant (`ChoiceOK`) says that some candidate that can be connected has all the
unmarked blocks that sort as high among the candidates (`Anchor`): the candidates are complete from
there up, whatever was erased below. `FindMostWorkChain` therefore returns the best unmarked block
of the whole index and not of the candidates only (`FindBest`), the step towards it makes the anchor
move or leaves it, and a block that is found to be bad is marked with all that is above it
(`RoundWatch`). `RoundsOK` says that a target kept between two rounds is the best block, which is
where one thread is needed. For `preciousblock` it must be known that the next number sorts above
every unmarked block with as much work as the tip had at the last call, and that the work of the tip
has not fallen since (`PreciousOK`): the second is what `invalidateblock` destroys.

Pruning, by one thread, with crashes (`Harmless`: no RPC command, and every accepted block can be
connected). Now a linked block need not be on disk, so that the candidates are not complete from any
block up. The invariant (`Kept`) says instead that a linked block on disk that is as good as the tip
is a candidate or waits, and that one which waits cannot be reached from the tip with the files that
are there. A block passed on the way to a target can be reached, hence it is a candidate, and the
set is not empty when the tip gets there (`StepReaches`); a move of the tip between blocks that are
on disk changes nothing of what can be reached (`StepKeeps`); pruning leaves the tip and all that is
above it, as heights grow along a chain and `MIN_BLOCKS_TO_KEEP` is not 0 (`FlushKeeps`); and when a
block is fetched again, a block that can now be reached had waited for that one only, together with
all between the two, so `ReceivedBlockTransactions` finds it (`WaitedForOne`, `ReceivedKeeps`).
Without crashes "as good as" is the order of the candidates, ties included; with them it is the work
alone (`Ahead`), see the disagreements. `Harmless` cannot do without its condition on the blocks:
when a block is refused in the middle of a reorganisation, the tip falls back to less work than it
had, and if the files of the old branch are pruned before the next round, a block with work in
between, which was dropped long ago, is better than the tip and forgotten. TLC finds this with a
branch to the height at which pruning begins, 288 blocks in the code.

**Block download.** Assumed: finitely many peers and blocks, parents with smaller numbers.
`FlightOK` says of one value of the bookkeeping that its records agree; there is a lemma for each
operation on it (`Received`, `Requested`, `Forgotten`, `Partial`, `Stalling`), of which
`Requested` needs that the blocks are in flight from nobody. The invariant adds that only a
connected node owes blocks or is counted (`OnlyReadyOwe`, `CountsOK`), without which the late
`ProcessNewBlock` after `FinalizeNode` could not be followed. `FlightOK` also holds the limit and
that a staller owes a block: a request of several blocks stays below the limit because
`FindNextBlocksToDownload` takes the lowest few (`FirstFew`), and that these are new blocks rests on
`Height` and `Chain` being what their recursive definitions say (`Recursion`, `HeightChain`).

**Stratum.** The list of clients is bounded because the acceptor counts as one more client between
its look at the list and the `push_back` (`ListOK`), and the erase of a client leaves a list that is
no longer (`Erased`). The current job stays because `RegisterJob` never evicts the job it has just
made current, so nothing is needed of the order of the others (`JobStep`). Of the credits, the
invariant (`SharesOK`) says that what was credited since `setDupes` was last emptied is still in it,
that no credit is from a later emptying, and that the texts in the set and `MaxDupes + 1` for each
emptying are not more than the submissions counted; a submission adds at most one text
(`SubmitStep`), and the other requests of a client touch none of this (`RequestKeeps`).
`DifficultyInRange` says that a difficulty outside of the limits is the one that the client started
with, untouched: every retarget and every suggestion clamps. `NothingLeft` needs only the ranges of the program counters: `CleanUp` is the one step
that ends the server, and it waits for every thread. For the grace, assumed is
`Grace < Interval` (20 s and 45 s in the code): what a retarget replaced less than `Grace` ago is
what `dPrevDiff` holds and is as old as the interval (`OneRecent`), so the next retarget is not due
before the grace has passed.

**Memory pool.** Assumed: finitely many transactions, each with an input, and no circle among
their inputs, as an input is the hash of an earlier transaction (`InputsAssumption`). What the
links lead to is the least set closed under them (`Closure`); the lemmas about it, how it changes
when a set of entries is cut out, a leaf is added or links are added at one entry (`ClosureCut`,
`ClosureLeaf`, `ClosureGraft`), take the place of an induction along the links, and the totals are
sums over it (`SumAny`, `SumSplit`). `Sound` says of one value of the pool that the links are each
other's inverse and follow inputs, that `mapNextTx` is exact and that the totals are those of the
links; every operation of the pool has a lemma that it keeps `Sound`: removal with and without the
update of descendants (`RemovalSound`, `TopRemovalSound`), addition (`AdditionSound`),
prioritisation (`PrioritisedSound`). `RemovalSound` is about a set that has its descendants with it;
`TopRemovalSound`, with the update of the descendants that stay, about an entry without parents in
the pool, as one that a block takes is: its parents were taken before.

`Sound` is not enough, since a removal with descendants must find all that spend its outputs, and
finds them by links. So the invariant (`PoolOK`) says which links are missing: exactly those from
transactions of the disconnected block that were put back (V) to children outside V, so that no
input of a member of V is in the pool outside V; and it says where the inputs of every entry are,
in the pool, in the chain, or among the transactions of the block still to be tried (T). When one
of T is refused, `removeRecursive` takes away its spenders by `mapNextTx` (`BlockNotPutBack`).
`BlockIs` adds what is known of V and T from the block (parents first, no two spend one coin),
`ChainIs` that every block of the chain spends coins that are there, so that one can be taken off
(`ChainShrinks`), and `DeltasOK` that an entry's `feeDelta` is what `mapDeltas` says.
`UpdateTransactionsFromBlock` has an invariant of its own (`Midway`): the members of V still to be
taken (U) lack the links to children outside V, and their descendants outside V are counted nowhere
above them. As V is taken from the last to the first, all the children in V of the one that is
taken were taken before, so that one step counts every descendant once (`TieStep`); after the last
step the pool is right (`BlockTied`).

Only model-checked: all liveness, which is beyond the prover, and everything about `Merkle`, whose
definitions are recursive over lists, so that the proofs would be inductions over data.

## Where the source disagrees with itself

Modelling met places where the code does something else than its own comments, help texts or
documents say. The property named fails on the instance of the run when its constants are changed
as stated and it is put in the place of the properties of the run; the words in quotes are the
source's.

| Property | Change | What happens |
|---|---|---|
| `BestChainActive` | `chain_threads` with `Tree <- Fork`, `ConnectBad = {}`, `Features = {}` | `ActivateBestChain` keeps its target while `cs_main` is free; when another thread has activated a better block, it walks back to its own target and returns with less work. `validation.cpp:2495`: "The result is either failure or an activated best chain." |
| `NoAssertFails` | `chain_threads` with `Tree <- Line`, `ConnectBad = {}`, `Features = {"invalidate"}` | `invalidateblock` between two rounds of another thread's activation; it goes on to its cached target and `PruneBlockIndexCandidates` empties the set. `validation.cpp:2391`: "Either the current tip or a successor of it we're working towards is left in setBlockIndexCandidates." |
| `NoAssertFails` | the same with `Threads = {p1}`, `Features = {"invalidate", "crash"}` | a block is marked, the index is written without the coins, the process dies: `LoadBlockIndexDB` makes a failed block the tip, which is no candidate, and the same assertion fails at every start |
| `BestChainActive`, `CandidatesExact` | `chain_select` with `Tree <- Vee`, `ConnectBad` and `ContextBad` empty, `MaxPrecious = 3` | `nBlockReverseSequenceId` starts again at -1 when the chain has grown and is not restored when `invalidateblock` takes the tip back: `preciousblock` on the tip then gives it a worse number than it had, and a block of equal work that was passed over before, and is no candidate any more, sorts above it. `validation.cpp:2495`: "The result is either failure or an activated best chain."; `validation.cpp:2592`: "The chain has been extended since the last call, reset the counter." |
| `BestChainActive` | `chain_threads` with `Tree <- LateFork`, `ConnectBad = {}`, `Threads = {p1}`, `Features = {"invalidate", "reconsider"}` | `reconsiderblock` clears the ancestors' flags but makes only descendants candidates: a valid ancestor with more work is not activated. `rpc/blockchain.cpp:1448`: "This can be used to undo the effects of invalidateblock." |
| `UnlinkedComplete` | the same with `Tree <- Fork` | a block received while its parent was invalid is not in `mapBlocksUnlinked` after `reconsiderblock`. `validation.cpp:4162`: "... it must be in mapBlocksUnlinked." |
| `FailedHasCause` | the same with `Tree <- LateFork` | `reconsiderblock` on one branch leaves `BLOCK_FAILED_CHILD` on the other. `validation.cpp:4132`: "The failed mask cannot be set for blocks without invalid parents." |
| `ActivationEnds` | `chain_select` with `Tree <- Line`, `Corrupt = {2}`, the other sets of blocks and `Features` empty | a block refused with `CorruptionPossible` is not marked and is chosen again for ever. `validation.cpp:2495`: "The result is either failure or an activated best chain." |
| `LinkedExactly` | `chain_prune` with `Tree <- SideGap`, `Features = {"prune"}`, `MaxSeq = 8` | a block pruned while it waits for its parent is not linked when the parent arrives. `validation.cpp:4121`: "nChainTx != 0 is used to signal that all parent blocks have been processed (but may have been pruned)." |
| `UnlinkedHaveData` | the same with `Features = {"prune", "crash"}` | `LoadBlockIndexDB` puts the pruned block back into `mapBlocksUnlinked`. `validation.cpp:4165`: "Can't be in mapBlocksUnlinked if we don't HAVE_DATA" |
| `UnlinkedMissData` | `chain_select` with `Tree <- Deep`, `ConnectBad` and `ContextBad` empty, `Features = {"invalidate"}` | a block that arrives after its parent was invalidated is not put into `mapBlocksUnlinked`, so it is never linked, and a block that waits above it stays there when the last missing ancestor has arrived. `validation.cpp:4166`: "We aren't missing data for any parent -- cannot be in mapBlocksUnlinked." `UnlinkedComplete` says it of blocks without an invalid ancestor |
| `MissingAreUnlinked` | `chain_prune` with `Tree <- Fork`, `MaxSeq = 6` | the process dies between the deletion of files and the write of the coins, so that the tip is one without data; when it is fetched again it gets a new `nSequenceId`, and a block of equal work that it was preferred to, and that misses an ancestor, now sorts above it and is neither a candidate nor in `mapBlocksUnlinked`. `validation.cpp:4176`: "if this block is itself better than chainActive.Tip() and it wasn't in setBlockIndexCandidates, then it must be in mapBlocksUnlinked". `BetterAreUnlinked` says it of blocks with more work |
| `PointersValid` | `check_queue` | `txdata` is declared after `control`, so an early return of `ConnectBlock` destroys it before the destructor of `control` waits for the checks that point into it. `validation.cpp:1897`: "Required so that pointers to individual PrecomputedTransactionData don't get invalidated" |
| `JobFromOneTip` | `stratum_shares` | the tip moves between the two reads in `CreateJob`: the parent of one block and the height of another. `stratum.cpp:349`: "Create a fresh job from the current tip and register it." |
| `MostRecentKept` | `stratum_shares` with `Clients = {}`, `MaxJobs = 3`, `Rate = 2`, `RateLimit = 0`, `MaxTips = 2`, `MaxMempool = 2`, `MaxBack = 0`, `MaxTime = Quiet = 4`, `Refresh = 2` | ties of `nCreated` are broken by the id as a string ("10" before "9"). `stratum.cpp:375`: "Keep only the most recent jobs around" |
| `AnnouncedIsRebuilt` | `stratum_work` | `mining.authorize` after `mining.subscribe` changes the script and sends no new work. `stratum.cpp:227`: "submit-time rebuilds reproduce the exact bytes that were announced." |
| `DuplicatesRejected` | `stratum_shares` | the key of a share is the text that was sent, so another spelling of its digits is another share; and the insertion that makes `setDupes` too large empties it, itself included. `PATCHES-v12-fishsticks.md:41`: "Duplicate-share and ntime-bounds rejection." |
| `WorkCatchesUp` without its second disjunct (`JobThreadStuck`) | `stratum_work` | a client that stops reading stops the job thread for all. `PATCHES-v12-fishsticks.md:42`: "Job manager rebuilds work on new tip (clean=1) ..." |
| `StopEnds` | `stratum_stop` with `Frozen = {}` | `join_all` holds the lock of the thread group while it waits for the acceptor, and the acceptor waits in `create_thread` for the same lock. `stratum.h:27`: "Join and clean up all stratum threads." |
| `FlagBitsBounded` | `merkle` | a node without right child costs a bit and no hash. `merkleblock.h:47`: "(<= 2*N-1 bits)" |

Also, after a suggestion and a retarget within 20 s of each other the share of the difficulty
before both is refused, since only one earlier difficulty is kept (`stratum.cpp:626`);
`GraceHonoured` therefore speaks of retargets that no suggestion followed. Pruning with a crash
can give a block that is in `setBlockIndexCandidates` a new `nSequenceId`, which is part of the
key of that set, or give one to the tip, after which another block of equal work is preferred to
it and yet is no candidate: `NothingBetterForgotten` therefore speaks of more work.
`invalidateblock` below the depth of pruning ends in `AbortNode`, so the runs do not combine the
two.

## What is not modelled

- The rules of consensus on transactions, scripts and blocks: they enter as given sets of
  invalid blocks. Script interpreter, cryptography, encodings: functions of bytes, better
  tested against vectors.
- Formats: JSON, serialization, the bytes of the coinbase.
- The reuse of socket descriptors by the operating system after one thread closed a socket that
  another is using (`stratum.cpp:940`), and the exception of `CreateNewBlock` that nothing
  catches in the job thread (`stratum.cpp:828`).
- Notifications of wallets, ZMQ and peers, which are sent after `cs_main` is given back.
- Peers beyond the download of blocks: addresses, transaction relay, orphan transactions, the
  queues of the sockets, the eviction of connections.
- The CPU miner and the templates of the mining RPCs. The miner's loop looks at the tip again
  after every 500 hashes and hands its block to `ProcessNewBlock`; its thread group is started and
  stopped without a lock, so of two callers at once nothing can be said. `getauxblock` keeps its
  templates and pointers to them in statics under a lock of its own.
- Difficulty, subsidy, version bits, merged mining: functions of a chain of headers, to be
  modelled as operators.
- Wallet, scheduler, HTTP server, start and shutdown of the whole: parts of their own.
- Graphical interface, command line tools, fee estimation, Tor control, LevelDB. The files
  `qt/locale/*.ts` are catalogues of translated words and hold no behaviour.

## Plan

In this order:

1. `AuxBlockCache` (`rpc/mining.cpp`) and `CpuMiner` (`miner.cpp`): templates and thread group.
2. A composition of `ChainState` with the coins and the pool: after a flush and a crash the best
   block of `CoinsView` is a block of the index, and the pool follows the rounds of an activation.
3. `Scheduler`, the work queue of the HTTP server, orphan transactions, the address manager, the
   key pool, `TimeData`.
4. Operators: Digishield, compact targets, version bits against a definition without cache.
5. Proofs: pruning by several threads, and together with blocks that cannot be connected when the
   branch of the old tip is kept.

## How to run

    tlc -workers 2 -config MCChainSelect.cfg MCChainState
    tlapm CoinsCacheProofs.tla

`PROJECT.json` names the module and the configuration of each run. Each run takes less than
four minutes on two cores; the eight modules of proofs take about an hour together.
