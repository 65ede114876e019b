# A TLA+ development of the block chain of Node-Bitcoin

The repository holds the message and block handling of an early Bitcoin client
(`src/src/main.cpp`, `src/src/main.h`: the whole of its program logic) and two
JavaScript directories: `src/node_version`, a transcription of the C++ files by
hand that does not parse yet, and `src/node_lib`, a demo over vendored packages.
This project models the C++ program.

## The system

| Component | State | Operations | Interacts with |
| --- | --- | --- | --- |
| ledger | `CTxIndex` records: where a transaction is, which block spends each output | `FetchInputs`, `ConnectInputs`, `ConnectBlock`, `DisconnectInputs`, `DisconnectBlock` | called by the block chain, the pool and the miner |
| memory pool | `mapTx`, `mapNextTx` | `accept`, `addUnchecked`, `remove` | reads the ledger; resurrected and cleaned by `Reorganize` |
| block chain | `mapBlockIndex` (`bnChainWork`, `pnext`), `pindexBest`, `mapOrphanBlocks`, `mapOrphanBlocksByPrev`; on disk the index records, `hashBestChain` and the ledger | `ProcessBlock`, `AcceptBlock`, `AddToBlockIndex`, `SetBestChain`, `Reorganize`, `LoadBlockIndex` | pool, ledger, database, wallets |
| orphan transactions | `mapOrphanTransactions`, `...ByPrev` | `AddOrphanTx`, `EraseOrphanTx`, `LimitOrphanTxSize`, the `tx` message | pool |
| miner | per thread a template block and an extra nonce | `CreateNewBlock`, `IncrementExtraNonce`, `CheckWork`, `BitcoinMiner` | reads `pindexBest` and the pool, calls `ProcessBlock` |
| block download | per peer `setInventoryKnown`, `mapAskFor`, `hashContinue`, the last getblocks; `mapAlreadyAskedFor` | `version`, `inv`, `getdata`, `getblocks`, `block`, `SendMessages` | block chain, any number of nodes |
| chain queries | `pblockindexFBBHLast`; per wallet transaction `hashBlock`, `nIndex`, `vMerkleBranch`, `fMerkleVerified` | `FindBlockByHeight`, `CBlockLocator`, `getheaders`, `SetMerkleBranch`, `GetDepthInMainChain`, merkle trees | block chain, wallets |
| header rules | none but the headers themselves | `GetNextWorkRequired`, `ComputeMinWork`, median time, `IsSuperMajority` | `ProcessBlock`, `AcceptBlock`, miner |
| message framing, alerts, files | buffers, file handles | `ProcessMessages`, `GetWarnings`, block files | everything |

Handlers run under the lock `cs_main`, so blocks and transactions are handled
one at a time. What makes the code hard is therefore not two handlers at once but

* order: blocks and transactions arrive in any order, conflicting, repeated, or
  before their parents, and some are invalid;
* one step of several failing: a handler makes several database commits and
  several changes to memory, and each can fail on its own;
* crashes: the process may die at every commit, and `LoadBlockIndex` starts again
  from what the disk holds;
* undoing: a reorganization disconnects blocks, and what it undoes must be exactly
  what connecting did, in the ledger, the links, the pool;
* the miner threads, which read shared state without the lock;
* protocols between nodes that only make progress if the right message follows.

What makes each component correct:

* ledger: it equals the ledger of the best chain, whatever was connected and
  disconnected before; no money beyond the subsidies;
* pool: `mapNextTx` is the inverse of `mapTx`; no mined transaction stays; every
  input exists;
* block chain: the best block is the heaviest known valid one and only ever gains
  work; memory and disk agree; every orphan that can be accepted is;
* orphan transactions: the two maps agree, the limit holds, no transaction waits
  although its parents are there;
* miner: a template is valid on top of its parent, a stale one is never submitted,
  the thread survives;
* block download: a node takes only blocks a peer has, connects an orphan as soon as it
  can, and ends on a branch as long as that of its peers;
* chain queries: a search finds the block of the best chain, a locator a block on both
  branches, and a wallet never takes a transaction for confirmed that is not;
* header rules: targets move slowly, the median time does not go back, an upgrade is
  final, and no valid block is dropped for having too little work.

## Modules

| Module | Models | Source |
| --- | --- | --- |
| `Ledger` | blocks, transactions and transaction indexes as values; connecting and disconnecting | `main.cpp` 432-478, 857-865, 1034-1278, 1329-1442, 1750-1802 |
| `TxMemPool` | `mapTx`, `mapNextTx` and the operations on them | `main.cpp` 480-658 |
| `BlockChain` | the node: `ProcessBlock` as a machine with a program counter, pool, orphans, database, faults, crashes | `main.cpp` 1463-1971, 2045-2117 |
| `ChainRules` | reference definitions: a valid chain, its index, its subsidies, stated on the whole chain at once | (the rules `Ledger` computes step by step) |
| `ChainSelection` | abstract specification: a node that learns blocks and keeps the heaviest valid one | `main.cpp` 1728-1731 |
| `BlockChainProps` | the properties of `BlockChain`, and the refinement mapping to `ChainSelection` | |
| `OrphanTx` | the `tx` message and the orphan transactions, beside `BlockChain` | `main.cpp` 165-229, 480-600, 2761-2827 |
| `Miner` | the miner threads, beside `BlockChain` | `main.cpp` 3411-3669, 3718-3907 |
| `BlockTree` | the tree of blocks that several nodes know | `main.cpp` 1707-1719 |
| `BlockSync` | abstract specification: nodes copy blocks from each other and stay on a longest branch | `main.cpp` 1728-1731, 1928-1948 |
| `BlockLocator` | `CBlockLocator` | `main.h` 1307-1359 |
| `BlockDownload` | nodes, connections, the message handlers of block download | `main.cpp` 1860-1971, 2378-2470, 2568-2722, 2830-2844, 3184-3263 |
| `MerkleTree` | merkle trees and branches | `main.h` 887-935 |
| `ChainQueries` | what a node answers about a chain that changes: search by height, headers, the depth of a wallet transaction; a heavier block becomes the best one in the steps of `SetBestChain` | `main.cpp` 396-412, 681-704, 817-833, 1446-1734, 2725-2758 |
| `HeaderRules` | the rules for headers on one growing chain | `main.cpp` 867-957, 1811-1890, `main.h` 1132-1146 |
| `MCTree`, `MCBlockChain`, `MCOrphanTx`, `MCMiner`, `MCChainQueries`, `MCBlockDownload`, `MCHeaderRules` | the block trees and the instances for TLC | |
| `Sums` | lemmas: least and greatest elements, induction over finite sets, loops as recursive functions, the laws of `SumFunction` | |
| `Ledger_proofs` | theorems about the operators of `Ledger` against those of `ChainRules` | |
| `BlockChain_proofs` (with the pool), `OrphanTx_proofs`, `Miner_proofs`, `BlockDownload_proofs`, `ChainQueries_proofs` (with `ChainSelection`), `HeaderRules_proofs` | theorems and proofs | |

`OrphanTx` and `Miner` extend `BlockChain`: their next-state relations take its
actions and add their own, with the variables of their own component, and each is
proved to implement `BlockChain`.

What one module takes as a constant another one models: `BadContext` and `BelowMinWork`
of `BlockChain` are the verdicts of `HeaderRules`; the links `pnext` that `ChainQueries`
follows are those of the best chain, as `LinksFollowBest` shows of `BlockChain`; that a
block is received in the end, the fairness of `BlockChain`, is what `BlockDownload` is about.

### How BlockChain corresponds to the code

A block or a transaction is its hash. The tree of blocks, their transactions,
inputs, values and work are constants, and so are the verdicts of checks that
look at nothing the model changes: `BadBlock` (proof of work, size, merkle root,
signature operations), `BadContext` (nBits, median time, finality, version and
coinbase height), `BadTx`, `BadSignature`, `NonStandard`, `NonRelayable`.

`ProcessBlock` is cut where a crash or an error would leave a different state:

| `pc` | The handler is |
| --- | --- |
| `idle` | between messages; `cs_main` is free |
| `accept` | at the start of `AcceptBlock` for `pblock` |
| `activate` | in `SetBestChain`, the index record of `pblock` is committed |
| `reorganize` | in the loop that postpones blocks, or at `Reorganize` |
| `mempool` | behind a commit, moving transactions into or out of the pool |
| `accepted`, `rejected` | `AcceptBlock` has returned |
| `orphans` | in the work queue of orphan blocks |

Every database transaction is one step: its writes reach the disk at the commit or
not at all. `ConnectBlock` and `Reorganize` inside it are the pure operators of
`Ledger`. Their failures follow from the blocks; failures of the disk and of the
database are chosen by `Fault(kinds)`: `file` (`CheckDiskSpace`, `AppendBlockFile`),
`index` (the commit in `AddToBlockIndex`), `begin`, `read`, `write`, `commit`.
`FaultKind` says which an instance takes and `MaxFaults` how many. `CrashRestart` is
enabled in every state from which `LoadBlockIndex` succeeds: memory is gone, the
index is read back, the rest is reset; `MaxCrashes` bounds it. The loops over
orphans and over pool transactions are steps of their own; the order in which the
orphans of one parent are taken is not fixed (it is that of a multimap).

Two details of the code the model keeps although they look odd: a block whose
`SetBestChain` failed stays in the index, and `pindexBest` is set to the new block
even when a postponed block could not be connected.

### How OrphanTx corresponds to the code

The handler of a `tx` message runs under `cs_main`, so that either `pc` or `pcTx` is
`idle`. `ReceiveTx` is the first part of the handler: the transaction is accepted,
held or refused. What follows an accepted one is a step per orphan tried: `vTxQueue`
and `iTx` are `vWorkQueue` and the index `i` of the loop over it, `vToTry` what is left
of the inner loop, which runs in the order of hashes and is any order here.
`mapOrphanTransactionsByPrev` is a function, because `operator[]` makes keys: the loop
at 2786 leaves an empty one for every accepted transaction. Evicting is a choice of as
many orphans as are too many, the new one included. `ChainStep` takes the blocks and
the node's own transactions, whose orphans the code does not look up.

### How Miner corresponds to the code

`pcMiner` is where a thread is:

| `pcMiner` | The thread is |
| --- | --- |
| `start` | in `BitcoinMiner` before line 3791 |
| `create` | between its read of `pindexBest` and that of `CreateNewBlock` |
| `lock` | in `CreateNewBlock` before it has `cs_main` and `mempool.cs` |
| `fill` | under both locks, adding transactions |
| `search` | scanning nonces, without a lock |
| `submit` | in `CheckWork`, while `ProcessBlock` runs |
| `dead` | ended by the exception of `CreateNewBlock` |

`Fill` reads the pool into `vecPriority`, `setDependsOn` and `mapDependers` in one step
(the locks are held). The order by priority and fee, and the limits of size and
signature operations, are a free choice between `AddToTemplate` and `SkipTx`. A pointer
in `mapDependers` to a `COrphan` that was popped leads to freed memory: whether its
transaction is then added is a choice as well. A found block must be one of `Block`
(`MinedAs`) with a hash that is small enough and a coinbase in front; one whose template has a height that is not its own is a block that
`AcceptBlock` refuses (`BadContext`). The reads of `pindexBest` without the lock are
taken to be atomic, as aligned pointers are on the machines the program is built for.

### How BlockDownload corresponds to the code

There is one action per message: `ReceiveVersion`, `ReceiveInv`, `ReceiveGetBlocks`,
`ReceiveGetData`, `ReceiveBlock` take the first message of a connection and do all that
the handler does, with `ProcessBlock` and `AcceptBlock` inside. `SendMessages` is the
function of that name for one peer. `pnode` holds the `CNode` that one node keeps of
another; `channel` the messages on the way, in order. `Connect` makes both `CNode`s
anew, `Disconnect` drops them and what is on the way, while `mapAlreadyAskedFor` and the
orphans stay. `mapAskFor`, ordered by time in the code, is a sequence per tick left;
`Tick` is two minutes, the delay of `AskFor`.

Left out, because the properties do not tell it apart: transactions (trickling included),
addresses, alerts, the split of an inv at 1000 entries, the second `version` of a
connection. Assumed: blocks are valid and of the same work (`BlockChain` has the others),
peers are full nodes of this version, nothing is damaged on the way, a new best block is
announced to every peer (the code leaves out peers that were 2000 blocks ahead), and
`setInventoryKnown` forgets nothing (it is a bounded set, `CNode.js:55`).

### How ChainQueries corresponds to the code

The blocks are those of `ChainSelection`: valid or not, heavier or not. What happens in
between is cut where the wallets and the database disagree, because `ConnectBlock` hands the
transactions of a block to the wallets (1456-1458) before the database transaction it is part
of is committed (1533, 1572):

| Action | The code |
| --- | --- |
| `AddToBlockIndex` | the index record of a block is written; if it is heavier, `SetBestChain` begins (`pindexNew`), at the block where the branches fork |
| `ConnectNextBlock` | `ConnectBlock` of one block of the branch, up to its call of the wallets |
| `TxnCommit` | a database transaction ends: at the first block that is heavier than the best one, and after each postponed block above it |
| `BlockActivated` | the end of `SetBestChain`: `pindexBest` is set, the cache of `FindBlockByHeight` forgotten |
| `InvalidBlock` | `ConnectBlock` refuses the next block |
| `DatabaseError` | a begin, read, write or commit fails, before or after the wallets were told |
| `Restart` | a crash, or a stop, at any of these points |

`GiveUp` is what an error leaves: before the first commit the old best block, after it the new
one although it is not connected (the finding at 1645). `interrupted` records the blocks for which
an error or a crash ended the activation. The handler holds `cs_main`, so queries come when it is
done (`AtRest`), and the links `pnext` are then those of the best chain (`LinksFollowBest`, of
`BlockChain`). After a postponed block has failed they are not: there `ChainQueries` only has a
restart, and `BlockChain` goes on. Also left to `BlockChain` is a block whose index record could
not be written.

`SetMerkleBranch` is the part of the function that `ConnectBlock` reaches through the wallets:
the block is given and holds the transaction. A merkle hash is symbolic: a transaction, or the
pair of the hashes below, so that hashes do not collide. `vMerkleTree` is indexed by level
instead of laid out in one vector. `pnext` off the best chain is a null pointer, and following
it gives `Null`. `GetDistanceBack` is modelled with the rest of `CBlockLocator`, but nothing in
the repository calls it.

### How HeaderRules corresponds to the code

One chain grows block by block; the constants give the interval, spacing, limit, and the
numbers of the super majority per network. Targets are numbers, and `Compact` is what
`GetCompact` and `SetCompact` leave of one. Times are those of headers, so that the next
may be earlier than the last; what `CheckBlock` asks of them (no more than two hours
ahead) and the lock times of transactions stay in `BadBlock` and `BadContext`.

## Runs

The tree of `MCTree` has a fork at height 1 with branches of different length,
a transaction pair that spends the same coinbase on two branches, a chain of
spends within one block, fees, a subsidy that halves, and invalid blocks of every
kind: double spend, immature coinbase, too large a coinbase, bad signature, failed
context check. Each run takes the part it needs.

| Run | Question | Bounds |
| --- | --- | --- |
| `block_chain` | Do the index, the ledger, the links and the best block stay right, does the node implement `ChainSelection`, and does it end on the heaviest valid chain, for every order of arrival of a forked tree with five invalid blocks? | 12 blocks, 3 loose transactions, no faults |
| `block_chain_fault` | With every error path taken, does the best block only gain work, do the orphan maps agree? | 9 blocks, one of them invalid, 2 errors, 2 crashes |
| `orphan_tx` | Do the two maps of orphan transactions agree, does the limit hold, is every child of an accepted transaction taken, and none lost that waits? Is the pool free of mined transactions and stale conflict entries across a reorganization? Does the node recover from crashes at any commit, also when it then has to reorganize over stored blocks? | 7 blocks on two branches that share no transaction but conflict, 7 transactions (chains of three, two parents, an invalid, a free and a big one), a limit of 2, 2 crashes |
| `miner` | Does a thread survive whatever changes between its reads and its locks, does it give up templates of the wrong height, does it submit only blocks that connect, and does it end up on the best block? | 8 blocks, of which 4 can be mined, 4 loose transactions, 1 thread, 1 crash |
| `chain_queries` | Whatever fails in an activation, and wherever it is cut off, are the only heavier blocks those that were interrupted, do a cached search, locators and headers tell the truth about the best chain, and how far can the wallet be wrong about it? | 13 blocks on three branches, one of them invalid and one with twice the work, a block of five transactions, at most 2 interrupted activations, `LocatorDense` 1, 2 headers per answer |
| `block_download` | Do nodes implement `BlockSync`, and end on branches of the same length? | 2 nodes on branches of length 3 and 0 or 1, up to 2 blocks mined, batches of 2, 1 lost connection |
| `header_rules` | Are the rules for headers consistent over time, on both networks? | 7 blocks, intervals of 3, 6 times |
| `postponed_connect`, `duplicate_coinbase`, `height_in_coinbase`, `dangling_orphan`, `long_side_branch` | the five findings below | |

A tree of this size is enough: a reorganization needs a fork with two blocks off
and three on, postponing needs a branch whose last but one block already beats the
best (it takes a crash before), a repeated coinbase needs one block more than the
spend. Longer branches repeat the same steps. One error and one or two crashes reach
every error path and every restart inside an unfinished reorganization.

Two nodes are enough for `block_download`: all state of the protocol is per pair but
`mapAlreadyAskedFor` and the blocks, and a third node adds requests that are put off,
which a lost connection causes as well. Batches of two with a branch of three (four once a
block is mined) reach a full batch, a continuation and a last batch that is not full;
one lost connection reaches every point of it. For `chain_queries`, `LocatorDense` 1
makes the steps of a locator double from the third entry on, and a branch of height 6
has three doublings. Two interrupted activations are a block that stays heavier without being
the best one and an error in the activation that later postpones blocks above it. In `header_rules` seven blocks hold two retargets, and the windows
(3 for the median, 2 and 3 for the majority) are full and slide from the fourth block on. Two
bounds are too small to be reached there: the upper clamp of a retarget (a target can rise by the
whole factor only after two retargets have lowered it, which takes ten blocks) and a second round
of the loop of `ComputeMinWork`; the theorems have every time and any number of blocks.

Fairness. `FairSpec` assumes that the handler makes progress (it runs to its
end under `cs_main`; `HandlerProgress` is weak fairness of `HandlerStep` spelled out
so that TLC need not evaluate ENABLED) and that each block is received in the end
while it can be received (peers announce blocks and `SendMessages` asks for what
the node lacks). Nothing is assumed of transactions, faults or crashes.

`MinerFairSpec` assumes besides that a thread gets on with its template and notices,
after a scan, that the best block changed (`Rebuild` when `pindexPrev` is not
`pindexBest`). It does not assume that nonces run out or that a block is ever found.

`DownloadFairness` assumes that `ThreadMessageHandler` serves every node over and over
(it takes messages and calls `SendMessages`), that `ThreadOpenConnections` connects
again, and that time passes. It assumes nothing of lost connections, which the bound
makes few.

One thread is enough for `miner`: threads share only the chain, the pool and the locks,
and what another thread can do to the chain, a peer's block does too. Two threads were
run on a smaller tree while the model was written, with the same results. A limit of 2
is enough for `orphan_tx`: it is reached with a third orphan, and an eviction can hit the
new orphan or one that shares a parent with it.

Deadlock is checked in the block chain, orphan, miner and query runs. `block_download` and
`long_side_branch` may end (every block known, nothing on the way; `Tick` goes on without
a change), and so may `header_rules`, at its bound.

## Findings

* `main.cpp:1645`. A postponed block that fails to connect does not stop
  `SetBestChain` from making the last block the best one in memory (`postponed_connect`).
* `main.cpp:1064`. Disconnecting a repeated coinbase erases the first instance, which
  the comment calls a no-op; the blocks below can then not be disconnected (`duplicate_coinbase`).
* `main.cpp:3791`. `pindexBest` is read once for the template and once for the height in
  its coinbase, without a lock; a template made across the arrival of a block has the
  height of another block until its first scan is over (`height_in_coinbase`).
* `main.cpp:3492`. When a pooled transaction waits for one in the pool and lacks another
  input, `mapDependers` keeps a pointer to a `COrphan` that was freed (`dangling_orphan`).
  Such transactions are in the pool after a reorganization (`main.cpp:1546`), which
  `CreateNewBlock` says never happens.
* `main.cpp:2607`. A node on a side branch at least as long as one answer to `getblocks` gets
  the first batch of the longer branch and no more: what it asks next is answered from the
  same fork with the same blocks, none of which its peer announces twice (`long_side_branch`).
  The test that the comment announces works on a new connection, where the peer announces the
  first batch again and the last block of it is one the node has; it does not on the
  connection the batch came over.

Seen while modelling, and no finding, since nothing in the repository says otherwise:
orphans of a block that is indexed but not connected stay in `mapOrphanBlocks` for good
(`StuckOrphansAreInvalid` shows that without faults only descendants of invalid blocks
do); orphan transactions whose parent comes in a block wait until they are evicted; a
free orphan that the rate limiter refuses is erased as invalid; the keys that
`operator[]` makes in `mapOrphanTransactionsByPrev` are never removed; after a postponed
block failed to connect, what is connected on the new best block misses that block in
the ledger; a wallet told of a block before the commit points at a block off the best chain
when a later block is invalid, when the database fails or when the process dies before the commit,
and then takes its transaction for unconfirmed although the best chain may have it
(`ConfirmedTxLooksConfirmed` allows just that).

Seen as well, and against a comment, though without a run of its own: `ComputeMinWork` does not
count the time before its start, so that with two retargets after a checkpoint a valid block can
have less work than it asks. The comment at `main.cpp:871` calls its result the "minimum amount of
work that could possibly be required". `NoValidBlockIsTooEasy` says how far the comment is right:
with at most one retarget between.

## Proofs

All theorems hold for every block tree, every set of transactions and every bound
on faults and crashes. The assumptions are the `ASSUME`s of the modules they are about,
which TLC evaluates in the runs: `BlockAssumption`, `TxAssumption`, `BoundAssumption`;
`AcyclicAssumption` (no block is its own ancestor: it contains its parent's hash), from
which the proofs get every induction along a chain; `SubsidyAssumption` (a subsidy is a
natural number, since the provers know nothing of powers); `QueriesAssumption`,
`LocatorAssumption` and `DownloadAssumption` (the limits are not zero); `TreeAssumption` and
`AncestorAssumption` for `BlockTree` (following `hashPrevBlock` from any block one gets to
the genesis block); `ChainWorkAssumption` and `GenesisAssumption` for
the abstract specification; `HeaderAssumption`, `CompactAssumption` (dropping the digits
below the leading ones keeps the order of targets, and is done once and for all) and
`MajorityAssumption` for the headers.

### Hypotheses

Some theorems about the database have hypotheses besides. Each is there because without
it the theorem is false of the code, and none is a property of the model alone:

| Hypothesis | Means | Without it |
| --- | --- | --- |
| `DuplicatesStayUnspent` | a coinbase that a chain repeats has an output nothing on the chain spends, so that BIP30 refuses the second one | the run `duplicate_coinbase` |
| `CoinbasesDiffer` | no coinbase comes twice on a branch, which is what the height in the coinbases of version 2 is for; it implies the one above (for `MinedBlocksConnect` alone) | a found block whose coinbase the chain already has is refused by BIP30 |
| `[]MemoryMatchesDisk` | the best block in memory is the one on disk, but while `SetBestChain` commits | the run `postponed_connect`; `MemoryIsDisk` proves that the loop over postponed blocks is all that can break it, `MemoryFollowsDisk` that nothing does when no crash comes between the index record and the commit and the database does not fail |
| `OnlyFileErrors` | the database itself does not fail; the block file may | a block stays indexed, is not connected, and is never tried again |
| `SignaturesChecked` | no signature goes unchecked: the test network (`TotalBlocksEstimate` is 0), or no bad signature in the tree | a bad signature below the last checkpoint is accepted, as the code means to |
| `CrashesAreSafe` | the process does not die while a block is in the index that is neither connected nor refused (`pc` is `"activate"` or `"reorganize"`); a crash anywhere else is allowed, as often as one likes (for `MemoryFollowsDisk`, `DatabaseFollowsChain` and `SelectionImplemented`, which take it in place of `[]MemoryMatchesDisk`) | such a crash leaves a heavier valid block that is known and not the best; `postponed_connect` begins with one |

### The block chain

`BlockChain_proofs` proves `Spec => []IInv` with

    IInv == TypeOK /\ NextTxIsInverse /\ OrphanInv /\ IndexInv /\ BranchInv

* `OrphanInv` says what the orphan maps look like in the middle of `ProcessBlock`:
  entries without an orphan belong to the head of the queue, and only the block at
  work may be both held and indexed. At `idle` it is `OrphanMapsAgree`.
* `IndexInv` says that work adds up along the index and that the disk holds part of
  it. A restart shrinks the index, and `DatabaseLoads` is what keeps it closed.
* `BranchInv` says that the blocks still to connect lead from the best block on disk
  up to no more than the work of the new block, and that the disk is ahead of memory
  only until `pindexBest` is set. Without it nothing could be said of a commit in
  the middle of a reorganization.

For this specification there is one lemma per part, with a case per action. From it
follow `TypeCorrect`, `PoolConsistent`, `OrphanMapsConsistent`, the action property
`BestWorkNeverShrinks`, and, with a second invariant (`DiskIndexComplete`),
`RestartAlwaysPossible`. `MemoryIsDisk` follows from `MemoryInv`, which says that the
blocks still to connect end in `pblock`.

### The ledger

`Ledger_proofs` relates what the code computes, one transaction after another over an
index, to what `ChainRules` says of a whole chain. It has no state: everything is a lemma
about operators.

* `Describes(idx, c, P)` says that an index is that of the places `P` of a chain `c`.
  One transaction of `ConnectBlock` adds one place (`Joins` is the test it makes), one of
  `DisconnectBlock` takes the last one away. The loops (`FoldLeft`) follow by the
  least place where they would go wrong.
* `ConnectSound`: on the index of a sound chain, `ConnectBlock` succeeds exactly when
  the chain with the block is sound (and its signatures good, if they are looked at), and
  gives its index. `ReorganizeSound` says the same of `Reorganize`, through the fork.
* `RulesInOrder`: the tests made in order, each over the transactions before, amount to
  the rules that `IsValidChain` states about the chain at once. Hence `ValidIsSound`.
* `NoMoreThanSubsidies`: the unspent outputs of a sound chain are worth no more than its
  subsidies, by adding one transaction at a time (`Worth`, `Open`), with the laws of sums
  from `Sums`.

### What rests on both

With `LedgerInv` (the chain of the best block on disk is sound and the index is its own)
as the invariant, from `DuplicatesStayUnspent` and `[]MemoryMatchesDisk`:

* `LedgerAlwaysMatches`, `DisconnectAlwaysRestores`, `NeverInflated`.
* `LinksAlwaysFollow` (which needs the second hypothesis alone) from `LinksInv`: `pnext`
  and `hashNext` are the links of the chain on disk in the middle of `SetBestChain` as well.
* `PoolNeverMined` from `MinedInv`: a pooled transaction is in no block of the best
  chain on disk, unless it is still listed in `vDelete` or in `vResurrect`; the latter
  holds only transactions that the disconnected branch had and `vDelete` takes out again
  what both branches have.
* `StuckOrphansAlwaysInvalid` from `StuckInv`: an orphan with an indexed parent has its
  turn still to come (its parent is in the queue or at work) or an invalid parent. A
  rejected block is invalid because a valid chain is connected (`NotConnectedIsInvalid`,
  `NotReorganizedIsInvalid`), and the block a reorganization stops at is on the chain of
  the new one.
* `SelectionImplemented`: `ProcessBlock`, with all its steps, implements `ChainSelection`.
  `SelectInv` adds that indexed blocks have passed `AcceptBlock`, carry the work of their
  branch, and that the best chain is signed; the block at work becomes known when
  `AcceptBlock` returns, at the moment it becomes the best one or is refused.
  `HeaviestTheorem`, proved of `ChainSelection`, then holds of the node.
* `MemoryFollowsDisk`, proved in one induction with it (`SteadyInv`): a branch from which
  `SetBestChain` postpones blocks has a lower part that is better than the best chain, so
  the node knew it before and had found it invalid (`HeaviestInv`). `Reorganize` then fails
  (`NothingPostponed`), and the loop over the postponed blocks, whose errors are ignored, is
  never entered. It takes an error of the database, or a crash between the index record and
  the commit, as in `postponed_connect`. After any other crash the index read back is the one
  that was in memory (`IndexSaved`), and the best block is the one that was best or, after the
  commit, the block at work: to `ChainSelection` that restart is the step at which the node
  learns of it.
* `DatabaseFollowsChain` puts the two together: under `CrashesAreSafe` all the properties
  above hold with no hypothesis about memory and disk left.

### The other components

`OrphanTx_proofs` proves `OrphanTxSpec => Spec`: every step of the composed system is a
step of `BlockChain` or leaves its variables alone, so that all the theorems above hold
for it. Its own invariant `OInv` has the types, `OrphanTxMapsAgree`, the limit and
that at most one handler is at work; the two lemmas it rests on say that adding a
transaction and erasing a set of them keep the maps in agreement. `NoneLeftBehind`
needs `TriedInv`: an orphan that is kept, spends from a transaction of the queue and
has all its inputs is still to be tried, or spends from one that the queue has yet to
look up. `WaitingOrphansStay` needs the other half of it: nothing in `vEraseQueue` still
waits for an input.

`Miner_proofs` proves `MinerSpec => Spec` in the same way, and `HeightRightAfterScan`
for any number of threads from `ThreadInv`: a thread that read another block than its
template's parent read one of less work, `BestWorkGrows` then keeps the best block from
becoming that one again, so that the test after a scan catches it.

The templates are filled and connected with copies of the loop of `ConnectBlock` that use other
indexes: `mapTestPool` at first, the database alone when the finished template is tried with
`fJustCheck`, and the database again when a block was found. `Sees(i, j)` says that an index
offers whatever another one does, `SeesAdded` that it goes on to when both gain the same
transaction, `SeesPasses` that what connects to one then connects to the other.

* `PooledInv`: the pool holds no coinbase and nothing that `CheckTransaction` refuses.
* `TemplateInv(m)`: while thread `m` fills its template, the transactions picked so far come
  from the pool, connect to the database one after the other (`Filled`), and `mapTestPool`
  offers no output that they leave spent (`Fits`), so that none is picked twice, whatever a
  popped `COrphan` adds to the queue. A pooled transaction is not in the chain
  (`PoolNeverMined`), so it overwrites nothing. A finished template connects to the index of
  its parent for as long as that is the best block. Hence `ThreadsSurvive`: no thread ever
  dies, with any number of them, even if its template's parent is no longer the best block.
* `MinedBlocksConnect`: a block that is found has the coinbase in front. `FoundConnects` runs the
  two folds side by side: the coinbase joins the index without touching what the others
  need, and the only coinbases that are too young in the block and not in the template are
  the new one itself (`ImmatureInChild`).

`BlockDownload_proofs` proves `DownloadSpec => ImplementsSync`, the refinement of `BlockSync`
with the held blocks and orphans as the blocks of a node, for any number of nodes and any
tree. Its invariant `DownloadInv` says of every node that its block index is exactly what
it holds with all ancestors (no orphan waits that could connect), that no indexed block is
higher than its best block, and of every connection that the blocks on the way are in the
index of the sender. The last part makes a received block one to copy; the others make the
longest branch of `BlockSync`, taken over all blocks held, the one that `AddToBlockIndex`
finds among the blocks just accepted.

It also proves `DownloadTypeOK`, with `WireInv` as the invariant. One fact about what is on
the way is needed besides the types: every `getblocks` carries a locator with the genesis
block in it (`Good`, from `LocatorIs`). So the node that answers finds a block of its main
chain, which is no higher than its best block, and the answer starts inside the chain
(`RestTyped`). `Within`, which keeps some entries of a sequence, is a recursive function
because the provers know nothing of `SelectSeq`.

`ChainQueries_proofs` proves that `ChainSelection` always holds the heaviest known valid
block, and all invariants of `ChainQueries`, for every block tree, number of transactions,
limit and spacing of locators, and any number of errors and crashes:

* `HeavierOnlyInterrupted` from `ActivationInv`: the branch being activated is connected, and
  valid, up to `pindex` (`ConnectedPart`), the best block on disk is valid, and a valid
  block heavier than it is the one being activated or was interrupted (`HeavierLeft`). When an
  invalid block ends an activation, the block it was for is invalid too.
* `SearchByHeightIsRight` from `QueriesInv`: the cached block is on the best chain, since a
  search ends there and a block that moves the best chain clears the cache. From there on a
  search is right because the chain of a block of the best chain is its beginning.
* `WalletDepthIsTrue` and `ConfirmedTxLooksConfirmed` from `WalletInv`: the wallet points at a
  known block that holds its transaction at the index it keeps, with the branch of that
  index (`PointsAtTx`). `SeenInv` follows the wallet through an activation: of the part that is
  connected, and of the chain on disk, it knows whether they hold the transaction, unless it was
  told of a block of the branch at work since (`Seen`). A commit turns the first into the
  second; when the activation is given up, what it was told of lies on the branch of an invalid
  or an interrupted block (`SeenAfterGivingUp`). A valid chain holds the transaction once
  (`OneHolderOf`), so that of the blocks of a branch the wallet was told of the right one.
  `BranchIsRight` shows that such a branch is never found wrong,
  level by level: the sizes go down as the tree's do, the index shifted to the right is
  that of the node above, and the last node of an odd level is its own sibling.
* `LocatorFindsTrunk` and `DistanceBackIsTrue` from the closed form of the counters of `Set`
  (`EntryIs`): up to `LocatorDense` entries the k-th is k back, later the step is one more
  than what lies behind the dense part. `GetDistanceBack` tests the distance where `Set`
  tests the number of entries; the two agree (`WalkIsBack`).
* `HeadersLinkUp` from where the trunk is: the answer starts one block above it.

The recursive functions of these operators are chosen, so each needs a proof that one
exists; `RoundsExist` gives it once for all loops of this kind there, and `LoopExists` of
`Sums` for those of `HeaderRules` and `BlockDownload`.

`HeaderRules_proofs` proves the six invariants of `HeaderRules`, for every length of
the interval and the window, all majorities, all times and every `Compact` that keeps the
order of targets and does nothing the second time:

* `UpgradeIsFinal` from `UpgradeInv`: each header obeyed `VersionAllowed` when it was added,
  and once there is a majority to reject, the window has one after each later block
  (`MajorityLasts`), since the block that enters is of version 2 and at most one leaves.
* `HeadersTypeOK`, `LeastWorkIsForgotten` and `TargetMovesSlowly` from `TargetsInv`: each block
  has the bits of the first one of its interval or came late on the test network, and the
  first one of an interval has a target near that of the block before. Blocks at most an
  interval apart have at most one such step between them (`SameFirst`, by a least
  counterexample).
* `MedianTimeNeverFalls`: that a median exists (`MedianExists`, the least time that more
  than half of the window is not after) and is unique, and that the window, when it moves
  to a time after the median, has no more blocks below the median than before.

* `NoValidBlockIsTooEasy` from `TargetsInv` too: with at most one retarget between, the
  interval of the later block is that of the checkpoint or the next (`NextInterval`), and as
  no block came late, its target is at most four times as large (`TargetNotFar`), which one
  round of the loop of `ComputeMinWork` already allows (`LoosenedIs`). When one came late,
  the time is long enough for the test network to ask for the least work only.

### Only model-checked

Liveness (`EventuallyHeaviest`, `EventuallyMinesOnBest`, `DownloadCompletes`), which is out of
reach of the prover, and the findings. Every safety property of the passing runs is
proved.

## What is not modelled, and why

* Scripts, signatures, sizes and fees: one verdict per block or transaction.
* A transaction that occurs in two blocks of one chain: `ChainRules` calls such a
  chain invalid, and only `duplicate_coinbase` has one.
* A database that `LoadBlockIndex` cannot read: after a failed `index` commit the
  parent of an indexed block may be missing on disk; the program then stops at start.
* `CTxDB`, wallets, `CNode` and the network threads: not in the repository. `CTxDB` is modelled
  by atomic transactions, which is what the code relies on.
* `GenerateBitcoins`, the thread counters and the shutdown of the miner; which
  transactions `CreateNewBlock` prefers; the keys of the wallet.
* `ProcessMessages`: a scan of bytes for whole messages, without effect on other state.
* `addr`, `getaddr`, `ping`, `alert`, `reply`, `checkorder`, `GetWarnings`: they forward to
  code that is not in the repository, and no chain state depends on them.
* Block files and `LoadExternalBlockFile`: input and output; their errors are the faults
  of `BlockChain`.
* `CheckProofOfWork`, `GetBlockWork`, compact numbers, the standardness of scripts: arithmetic
  and parsing whose results are constants of the models.
* The JavaScript directories: one does not parse, the other is a demo.

## Plan

Done: `Ledger`, `TxMemPool`, `BlockChain` with `ChainSelection`, `OrphanTx`, `Miner`,
`BlockDownload` with `BlockSync`, `ChainQueries` with `MerkleTree` and `BlockLocator`,
`HeaderRules`. Left:

1. `MinerThreads`: `GenerateBitcoins`, the limit and the counters changed without a lock.
2. `BlockDownload` with a bounded `setInventoryKnown` and with invalid blocks.
3. Proofs: what a node regains after a crash that is not safe. The block it forgot is not
   tried again by itself; a valid block on top of it should bring the branch back.
