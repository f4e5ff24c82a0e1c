# A verification of the Chiliz Chain node

The repository is a fork of BSC, itself a fork of go-ethereum. To go-ethereum it
adds the Parlia engine (proof of staked authority), fast finality by votes of the
validators, and, of its own, the Snake8 rules for who is in turn and the token
economics of Dragon8 and Pepper8. This directory models the parts of the node
that decide what it accepts, signs, stores and forwards, checks them with TLC on
small instances, and proves the properties that matter most for all instances
with TLAPS.

    tlc -config MCBlock.cfg MCBlock      one of the runs of section 3
    tlapm VotePoolProofs.tla             the proofs of a module of section 5

`PROJECT.json` lists the source lines of every definition, the hazards of the code
at their lines with the properties about them, and for every checked property
at least one mutant: a plausible bug in one definition that makes TLC report the
property violated. Operators whose comment begins with "Mutant" are these
bugs and are used for nothing else.

## 1. The system

**Consensus.** `consensus/parlia/snapshot.go` keeps, for each block, the validators,
the turn length, who sealed which recent block, the last attestation and the
frequency data of Snake8; it decides who may seal next and with which difficulty.
`parlia.go` asks it: `verifySeal`, `Prepare`, `Finalize`, `Seal`. Snapshots are
found again from a cache, from disk, or by applying headers. Votes in a header
justify the parent's branch, two justified blocks in a row finalize the first, and
the fork choice prefers the branch with the higher justified block.

**Votes.** The vote manager answers a new head with a vote if two rules against
its earlier votes, read from a journal, allow it. The vote pool takes the votes
of peers and of the manager, before or after their block arrives, and hands them
to the sealer. The malicious vote monitor looks for breaches of the rules.

**Blocks.** The worker builds a task on the head, `Seal` starts a goroutine that waits for
the block's time and signs, the result is written and broadcast. Builders may send
bids for the content. Executing a block changes accounts in `core/state`; at its
end come the system transactions, which the builder creates and every importer
must repeat.

**Network and storage.** Peers join with their satellite protocols, announce
transactions and blocks, which two fetchers request and hand on. The
chain writes blocks, markers, index and states in batches and repairs itself
after a crash.

The components and what of each is left out are listed in `PROJECT.json`; section 8
sums up what is not modelled.

## 2. Modules

State is in VARIABLES named after the fields of the code; one action stands for one
handler, case of a loop or batch of writes. Constants in capitals carry the limits of the code
(the comments give the real values) and the bounds of the exploration (comment
"bound").

| module | source | what a step is |
| --- | --- | --- |
| `VoteSpans` | `VoteData` | (none: when two votes conflict) |
| `FastFinality` | `verifyVoteAttestation`, `updateAttestation`, fork choice, `UnderRules` | a block is verified, a vote cast, a head chosen |
| `ParliaConfig`, `ParliaSnapshot` | `snapshot.go` along one branch | one sealed header, `verifySeal` and `apply` |
| `SnapshotReplay` | `Parlia.snapshot` | a header arrives, a restart, the loss of stored snapshots |
| `SnapshotCache` | the calls that share a cached snapshot | one read or write of a call |
| `Frequency` | `calcFrequencyRLP`, `selectValidatorFromFrequencyRLP` | one round of the normalisation |
| `SystemTxs` | `Finalize`, `FinalizeAndAssemble` and the fork contracts | a block is built, or imported |
| `WorldState`, `StateDB` | `core/state` (abstract, detailed) | one call of the EVM, end of transaction, root, commit, copy |
| `VoteRules`, `VoteManager` | `vote_manager.go`, `vote_journal.go` (abstract, detailed) | a head up to the journal, a publication, a vote of the backup, a crash |
| `VotePool` | `vote_pool.go` | half of `putIntoVotePool`, a head event, a block announced or written |
| `VoteLoops` | the goroutines around the pool | one case of a select, one send |
| `MaliciousVotes`, `DoubleSigns` | `core/monitor` | a vote, a header |
| `SealWorker` | `miner/worker.go`, `Parlia.Seal` | one case of a loop, one step of a sealing goroutine |
| `BidSimulator` | `miner/bid_simulator.go` | one step of `sendBid`, of the loops, of a simulation |
| `PeerSet` | `eth/peerset.go`, `eth/handler*.go` | one use of the lock or of a channel |
| `TxFetcher` | `eth/fetcher/tx_fetcher.go` | one case of the loop |
| `BlockFetcher` | `eth/fetcher/block_fetcher.go` | the top of the loop, one case, one answer |
| `ChainStore` | `core/blockchain.go`, hash scheme | one batch of writes, a crash, a start |
| `*Proofs` | | theorems (section 5) |
| `MC*` | | constants and composition for TLC (section 3) |

Choices that a reader of the code should know of:

* *FastFinality.* A hash commits to its header, so the block tree is a parameter. The
  forks that bring votes are active from the genesis block; the networks of this chain
  have not scheduled them, but the code and its tests have them. Validators in `Faulty`
  sign anything; the others obey `UnderRules` with a journal that forgets nothing,
  which is what `VoteManager` is about. The tie break between blocks of one number (arrival
  time, then chance) is a choice.
* *SnapshotCache.* A header may have no frequency data that can be parsed (`Absent`); then the
  snapshot keeps what an earlier call left. `overtaken` is history: the calls under which
  another one has written.
* *ParliaSnapshot.* `ApplyAccepts(base, v)` is the test in `apply` in a batch that starts
  at `base`, where `snap.Number` is still `base`. `Recents[epochKey]`, the mark of a
  switch, is a variable of its own. `signers`, `lastSwitch` and `inturnOnly` are history.
* *VoteManager.* A header is the vote it would get. `NearHeads` restricts heads to those from
  which the bounded scans of `UnderRules` reach the votes that matter; `SizeAssumption`
  asks that the journal is longer than the scans by the entries that are journaled twice
  or never published, of which there are at most `MaxExtra`. With the code's 512 entries
  that leaves room for 233.
* *VotePool.* The two halves of `putIntoVotePool` are steps, since the chain goes on between
  them; every vote carries a valid signature. A heap is how often it holds each entry.
* *VoteLoops* counts votes and forgets which they are.
* *SealWorker.* A block is its path of labels, so its parent is the front and its
  number the length. `recentMinedBlocks` is the LRU cache, least recently used first; a
  refused second block makes its entry the most recent, as `Get` does.
* *PeerSet.* A satellite that finds eth waiting sends with the lock held; every other use of
  the lock is one step. `gaveUp` and `flips` are history: the peers on which eth has given up
  and which may have a satellite left over since, and how the trusted flags of admitted peers
  have changed (`addtrusted`, `removetrusted`).
* *TxFetcher.* Requests and announcements are sequences without repetition; Go's order of map
  iteration is a choice (`Orderings`), and so is where the size of the transactions cuts a
  request short (`Grants`).
* *ChainStore.* `job` is what is still to be written under the chain mutex. A crash may come
  between any two batches and loses the states in memory.
* *StateDB.* The state of a StateDB is one record, so that undoing is an operator on it. One
  storage slot per account; a missing value is an empty set.
* *SystemTxs.* A contract call succeeds or reverts; which ones revert is part of a block's
  state. The percentages and amounts are small numbers with the same arithmetic.

Where the code leaves something to time (back-off, timers, expiry) or to data outside the
module (signatures, contracts, the network), the model takes any outcome.

## 3. Runs

Six runs pass, six show a disagreement between code and documentation (section 6). A
passing run explores several *parts*: the modules do not interact in it, the initial
state chooses one of them (`part`), and only its variables change. A property
about another part than the chosen one holds trivially there, so each part is
a model checked by itself, and a run answers one question about a stage of the node.

| run | parts (modules) | properties |
| --- | --- | --- |
| `finality` | (FastFinality) | `TypeOK`, `OneJustifiedPerNumber`, `FinalityLock`, `FinalizedAgreement`, `FinalizedNeverReverted` |
| `snapshot` | branch (ParliaSnapshot), replay (SnapshotReplay) | `TypeOK`, `SealedBlocksApply`, `SomeoneMaySeal`, `TurnsRespected`, `InturnMaySeal`, `CheckpointInForce`, `OneSwitchPerEpoch`; `RetrievedWithinEra` |
| `block` | cache (SnapshotCache), frequency, system and branches (SystemTxs), journal, tx, block and shared (StateDB) | `UndisturbedRight`, `UndisturbedAgree`; `FrequenciesFair`; `BuiltIsImported`, `PassedOn`, `ForkStepsOnce`; `WorldSpec`, `SnapshotAgrees`, `HistoryReverts` |
| `validator` | votes (VoteManager), vote monitor, numbers, restarts and faults (SealWorker), sign monitor | `RulesKept`; `MonitorExact`; `NoDoubleSign`; `HeapAndMapInStep` |
| `progress` | pool (VotePool), loops (VoteLoops), worker and faults (SealWorker) | `PoolInStep`, `WindowKept`, `EarlyVotesGoOn`; `LoopsGoOn`; `MinesOn` |
| `import` | peers and satellites (PeerSet), txs (TxFetcher), blocks (BlockFetcher), reorgs and crashes (ChainStore), bids (BidSimulator) | `SendersAwaited`, `SatellitesKept`; `StagesApart`, `StillScheduled`; `BlocksInStep`; `ChainWhole`, `IndexExact`; `SimulatedForReal`, `BidsTaken` |

What they show:

* **finality.** No two blocks of one number are justified; a block that votes suffice to
  finalize locks out its rivals; the blocks that any two branches finalize lie on one branch;
  no change of the head drops the block that the node reported as finalized.
* **snapshot.** What `verifySeal` accepts, `apply` accepts in a batch that starts anywhere;
  somebody may always seal, and the validator in turn may as long as everybody seals in turn; nobody
  has more than a turn in a window; an announced set comes into force once and
  before the next epoch. After restarts and the loss of stored snapshots the snapshot
  of the head is found again, if headers are applied with the turn length they were sealed with.
* **block.** Whatever earlier and unrelated calls left in the cached snapshot, a call on a header
  with frequency data that no other call overtakes judges by this data. The frequencies
  keep a floor, lose less than a unit per candidate and keep the order of the stakes. An
  importer repeats exactly the builder's system transactions, across the forks and on
  branches; what comes into a block is passed on; the steps of a fork happen once. Account
  operations in any order, with nested snapshots, reverts, roots and copies,
  implement the plain map of accounts of `WorldState`; trie, snapshot difference and
  state history agree.
* **validator.** With a crash, a bounded log and a backup node that takes over, `VoteManager`
  implements `VoteRules`: no conflicting votes are published. With resubmissions, late results, faults,
  stops and restarts one block per parent is broadcast. The vote monitor, with a cache that has
  room for what its scope asks for, reports what conflicts in any order of arrival, and
  nothing else; heap and map of the sign monitor hold the same numbers.
* **progress.** The pool's maps, heaps and hashes agree while votes race the announcement,
  the write and the failed write of their blocks; a verifiable vote leaves the pool only below the
  window; an early vote becomes current when its block does. The loops around the pool stop the
  import and the sealer only where both channels between them are full and each loop waits for
  the other, which does happen in the run. A running validator does not stay on a head it
  may build on, whatever fails on the way; the one exception is a block that its guard
  has noted and that was not written.
* **import.** Who waits for a satellite, or is sent one with the lock of the peer set held, is
  an eth in that wait or on its way out of it, and the sender to a wait that gives up by
  TryLock is received; satellites and counts belong to live connections. Late, partial, unasked and missing answers keep the stages of both
  fetchers apart and their timers running. Reorganisations, rewinds and crashes leave markers of the
  head's chain only, and a head whose state can be had. The bid that new ones are compared with
  is the one being simulated, and the two loops of the bid simulator never wait for each other.

### Bounds, and why they are enough

*finality*: two branches of three blocks and four validators, one of them faulty, the
smallest set with a faulty one. Three blocks are what it takes to finalize one. One branch is
sealed in turn, the other not, so that difficulty and justification disagree. `LeavesUnvoted` and
`HeadApart` cut votes that no block of the tree can attest, and heads while the last block of
the second branch is there. The correct validators are interchangeable (`SYMMETRY`).

*snapshot*: sets of two and four validators that share one, so that a switch shrinks and
grows the window, over more than two epochs of six blocks. `EpochAssumption` (a window is
shorter than an epoch) is the one relation between the real parameters that matters; mainnet has epochs of 28800.
Replay: sets of one and two, two and a half epochs of four blocks, stored
snapshots every third block, Snake8 from the genesis block, from block 5, and never.

*block*: two goroutines and three values of frequency data, each of which puts another
validator in turn, or none. Four validators with stakes below, at and above one token, any of them
excluded; a precision of 80 makes the loop take a second round. The ten rounds after which the
code gives up are not reached with four candidates. Three blocks across
Dragon8, Pepper8, Feynman and Dragon8Fix, which fall on different blocks, on the same
one and on one that is skipped; two siblings in "branches". One account (absent,
funded, or a contract), two or three journal entries, up to two snapshots and two
transactions: each entry of the journal is undone below and above each other one.

*validator*: scans of one block up and down, a journal of the smallest size that
`SizeAssumption` allows with one extra entry (5; with 4 `RulesKept` fails), six numbers, so that the
cache evicts, one crash or stop. Two tasks on
two numbers; two tasks on one number with two stops or restarts; the same with
a fault. In these instances `recentMinedBlocks` has room for all numbers and evicts nothing; an
instance with evictions is too large, and section 5 says under which condition they do no harm.
The vote monitor has a scope of two blocks, targets up to one block above the head, and the
smallest cache that is `Roomy` (3; with 2 `MonitorExact` fails, as it does with one entry less than
`Roomy` for targets up to two blocks above); the sign monitor has a limit of one number for three.

*progress*: a chain of three blocks with a fork, five votes of which one has a wrong key and two
a wrong number, boxes of one and two votes. Channels of two votes and one head with up to seven
votes on their way: with six the loops already jam. The worker: two attempts on one number, once
with blocks of others, once with two failures.

*import*: two peers with one satellite and changing trusted flags, and one peer with all three
satellites and three connections. Two hashes and two peers with requests of two and announcements
of one; a block and its child with limits of one and two. Branches of four blocks without crash,
of three with two crashes, each with a rewind, and states of two blocks in memory. Three bids of
two builders, of which the best one fails.

### Deadlock and fairness

`CHECK_DEADLOCK FALSE` is set where a bound, a finite tree of blocks or the end of a
computation stops the model; `validator` checks for deadlock. That the *system* does
not stop for lack of an allowed sealer is `SomeoneMaySeal`; that its goroutines
do not wait for each other are the liveness properties, each under the fairness of its module:

| property | fairness | why the code gives it |
| --- | --- | --- |
| `EarlyVotesGoOn` | WF of `StoreVote`, SF of `HandleHead` | the pool's loop runs, and a `select` with a ready case takes it at some time |
| `LoopsGoOn` | SF of every select case and channel send, WF of `PoolSends` | Go chooses among ready cases at random; channel sends and mutexes queue in order |
| `MinesOn` | WF of the import, the events and the commit, SF of preparing, of committing a new attempt, of sealing, its back-off and writing | goroutines run, and the header of a new attempt differs once time has passed; a resubmission aims at the same moment, so it does not put sealing off for ever; the back-off is one second (`processBackOffTime`, `parlia.go:73`), resubmissions come every three (`Recommit`, `miner.go:72`) |
| `BidsTaken` | WF of `Commit` and of each step of a simulation | both loops run, and executing a bid ends |

## 4. Refinement

Two abstract specifications say what a component promises, and TLC checks that the detailed one
implements it. `VoteRules` is one variable, the published votes, and one step, a vote that
conflicts with none before; `VoteManager` maps to it with the identity on what it
has published (`RulesKept`). `WorldState` is a map of accounts with a stack of
saved copies; `StateDB` maps to it by reading every account through its objects, caches and
trie (`Accts`), and every snapshot by undoing the journal down to it (`Saved`): that
the journal restores what was there is the content of `WorldSpec`.

## 5. Proofs

Proved for every value of the constants that fits the named assumptions. Each theorem
of the table is an invariant or an action property of the module's `Spec`.

| module | theorem | about | assumes |
| --- | --- | --- | --- |
| `FastFinalityProofs` | `TypeCorrect`, `OneJustified`, `FinalityLockHolds`, `FinalizedAgree`, `NeverReverted` | `FastFinality` | a block tree, fewer than a third faulty |
| `ParliaSnapshotProofs` | `TypeCorrect`, `SealedBlocksAlwaysApply`, `SomeoneMayAlwaysSeal`, `CheckpointAlwaysInForce`, `TurnsAlwaysRespected`, `InturnMayAlwaysSeal`, `AlwaysOneSwitchPerEpoch` | `ParliaSnapshot` | a window is shorter than an epoch |
| `SnapshotCacheProofs` | `UndisturbedAlwaysRight`, `UndisturbedAlwaysAgree` | `SnapshotCache` | types of the constants only (`CacheAssumption`) |
| `VotePoolProofs` | `PoolAlwaysInStep`, `WindowAlwaysKept` | `VotePool` | limits are numbers, votes are for blocks of the tree |
| `TxQueuesProofs`, `TxFetcherProofs` | `StagesAlwaysApart`, `AlwaysStillScheduled` | `TxFetcher` | finite sets of peers and hashes |
| `PeerSetProofs` | `SendersAlwaysAwaited`, `ExtensionsAlwaysAlive`, `PeersAlwaysCounted` | `PeerSet` | finitely many peers, different satellites |
| `SealWorkerProofs` | `NeverDoubleSigns` | `SealWorker` | the guard forgets no number with an open task (`ForgetsStale`) |

The arguments, each by an inductive invariant that TLC has checked on the instances
of the runs:

* **FastFinality.** `Inv`: branches are closed under ancestors; a vote of a correct
  validator is the one vote its target can get, and two of them do not conflict; what a snapshot
  calls justified or finalized got the votes for it. The last is needed because the
  properties speak of snapshots and the argument of votes. The lock follows from a minimal counterexample:
  two quorums share a correct validator; a justified block beside a finalized one
  has a source below it, so that validator's two votes would surround one another, or its source
  is a smaller counterexample.
* **ParliaSnapshot.** `Inv`: the turn length is that of the forks; no entry of recents is older
  than the window, which is why the stale `Number` of a batch does no harm; the announced
  set is in force or its switch is still to come in this epoch. `SomeoneMaySeal` is a pigeonhole: the window
  has at most `(n/2 + 1) * turnLength - 1` blocks, too few for all `n` validators to use up their
  turns. `TurnsRespected` needs `HistoryInv`: recents still has the blocks that count.
  `InturnMaySeal` needs `InturnInv`: recents has the turns of the set in force. Then two blocks of
  the validator in turn within a window are at different places of one turn, and none
  is at the place of the next block: the map from block to place is injective, so there
  are fewer than `turnLength` of them. `OneSwitchPerEpoch` needs `EpochKeyInv`: the mark in
  recents is the epoch of the last switch, and survives the clearing.
* **SnapshotCache.** Between the steps of a call on a header with frequency data, the snapshot has
  the data of that header unless a later call that writes marked this one as overtaken: every
  write marks all calls under way. Without the condition the answers may be wrong (section 6).
* **VotePool.** `IInv`: the received hashes are exactly the votes in the boxes, each in one
  box, that of its block; every heap has each box as often as it should; the votes of `curVotes`
  are for verified blocks; a vote in hand between the two halves of `putIntoVotePool` is new to the pool
  and still fits the map it goes to (`TakenFits`), whatever block was announced, written or lost
  meanwhile. `WindowKept` follows step by step from it.
* **TxFetcher.** `QueueInv` has one part per pair of maps: what is being fetched is open in
  a request of that peer, and the other way round; a peer has one request at most; only what is being fetched has
  alternates; what was announced is queued or has the peer for an alternate; what waits is in no other map. To it come
  the two timers and `Asked`: what is queued and can be asked for has some
  request before it. `TxQueuesProofs` shows what a grant of `scheduleFetches` is and that
  grants, announcements, timeouts, drops and forgotten hashes keep `QueueInv`;
  `TxFetcherProofs` puts these together to the cases of the loop.
* **PeerSet.** `Inv` says of each peer where its eth is and what its satellites may rely on: who is in a
  waiting map, or is being sent to with the lock held, is an eth that waits for just that
  satellite (`Awaits`), and the other way round (`Held`); satellites still to come or waiting are
  ahead of eth, of the present connection (`Present`). The counts are a
  second invariant: sets of peers grow and shrink by one at a step, so a count
  stays a cardinality; the cases are the trusted flag in both directions, the failed registration and the closed set.
* **SealWorker.** A published block's parent is no longer the head, nor will be, and as long as a
  task on that parent is open the guard has the parent under its number (`Guarded`). A new task is built
  on the head, so its parent has no published child; a result is broadcast only if
  its parent is not in the guard. What is left is that the guard forgets: `ForgetsStale`
  says that a number leaves the LRU cache only when no task for it is open (or with
  the tasks, in a restart). In the code
  the cache has 20 entries and tasks 11 or more blocks old are dropped at a new head; but a
  timer can start a task without that pruning, so the general condition is stated, not derived.

### Only model-checked, and why

* Liveness (`EarlyVotesGoOn`, `LoopsGoOn`, `MinesOn`, `BidsTaken`): TLAPS has no rules for
  fairness with ENABLED.
* What recursive definitions compute: `FrequenciesFair` (sums over validators), the
  system transactions (folds over messages, ancestors by recursion), `RetrievedWithinEra` (headers
  applied one after the other), `WorldSpec` and `HistoryReverts` (undoing a journal entry by entry),
  `ChainWhole` and `IndexExact` (ancestors of a block). They need induction over data.
* `RulesKept`: reading an entry refreshes it in the LRU cache, so which votes
  are evicted depends on all heads that were refused before. `SizeAssumption` suffices on the
  instances checked; no bound that the code's 512 entries meet was found to suffice for
  all runs, since two scans together reach 534 numbers.
* `MonitorExact`, `HeapAndMapInStep`, `BlocksInStep`, `SimulatedForReal`: no proof was attempted.
  The monitors are small sequential programs; the other two are like `TxFetcher` in kind.
* `SendersAwaited`, `SatellitesKept` and `NoDoubleSign` of the runs are the theorems of
  `PeerSetProofs` and `SealWorkerProofs` on instances of those modules.

## 6. Findings

Six runs show that the code does not do what a comment, a test or the changelog says. The
quotations are in `PROJECT.json`.

| run | property | what the code does |
| --- | --- | --- |
| `snapshot_replay` | `RetrievedRight` | `snapshot()` sets Snake8's turn length after it has applied the headers, so that a snapshot built anew changes the validators at another block than the network did (`parlia.go:918`) |
| `cache_shared` | `VerdictsRight` | `snapshot()` writes a header's frequency data into a cached snapshot that all callers share; overlapping verifications of siblings read each other's (`parlia.go:915`) |
| `system_txs_slash` | `SlashMayFail` | a call of slash that reverts leaves the nonce increased at the builder and not at the importers, who refuse the block (`parlia.go:2549`) |
| `vote_far_heads` | `RulesKept` | `UnderRules` looks 11 blocks above the target, so that a head far below an own vote gets a vote within its span (`vote_manager.go:303`) |
| `chain_gap` | `NoGaps` | `reorg` deletes canonical markers before the new head is written; a crash between the two leaves a number without a marker (`blockchain.go:2786`) |
| `peer_set_lock` | `SendersReceived` | a satellite sends with the lock of the peer set held while eth, after a timeout, waits for the lock (`peerset.go:234`) |

The passing runs state the condition under which the property does hold: headers applied with
the turn length they were sealed with (`RetrievedWithinEra`), calls with data that nobody
overtakes (`Undisturbed`), calls of slash that succeed, heads within reach (`NearHeads`), no
crash (`IndexExact`; after one, `ChainWhole` is what is left), satellites whose wait gives up by
TryLock (`SendersAwaited`).

## 7. Observations

What came up while modelling and has no run of its own, because nothing in the repository is
contradicted by it or because it is of little weight:

* *Malicious votes.* The monitor's cache is an LRU by use and its scope is counted in
  numbers. To keep what is in scope it needs `2 * (scope + upper limit) - 3` entries (`Roomy`): 531
  with the code's numbers, and it has 512.
* *Double signs.* Of the headers of a number only the first is kept, so a third header is compared with the
  first and not with the second.
* *Transaction fetcher.* A dropped peer stays among the alternates ("remove all traces of
  it", `NoTraces`), and an announcement beyond the limit is cut to the length of the excess
  (`ann.hashes[:want-maxTxAnnounces]`, `AnnouncesBounded`).
* *Block fetcher.* `forgetHash` counts an announcement off at each stage it passes, so a peer may
  announce more than `hashLimit` (`HashLimitKept`); only `fetching` is cleaned of expired entries, a
  body that never comes stays in `completing` (`FetchesEnd`).
* *StateDB.* Before Hertzfix a slot of a resurrected account may be read from the shared pool with the
  value of its earlier life. The part "shared" covers it; `WorldSpec` says nothing of it.
* *Vote loops.* The pool sends to the vote manager, which sends to the pool, over channels of 256
  votes each. With both full the loops wait for each other for ever, and the import with them
  (`EachOther`).
* *Peer set.* A satellite that comes after eth gave up stays in the pending map, and the
  peer's next connection takes the dead one over or is refused; `SatellitesKept` leaves such a peer
  out until a connection of it begins with no satellite left over. `peersPerIP` reads the trusted
  flag when it counts a peer and again when it counts it off: `admin_addTrustedPeer` between the two
  leaves it too high, `admin_removeTrustedPeer` too low; a registration that fails after the
  count leaves it too high.
* *Chain.* A losing branch that grows `TriesInMemory` longer than the head makes `writeBlockWithState`
  dereference the state of the head, which then has to be executed again; `ChainWhole` leaves this
  case out. After `SetHead` markers may stay above the head, so `IndexExact` says there only that
  they have no gaps.
* *Snapshot cache.* A header whose frequency data cannot be parsed is judged with what an
  earlier call left in the snapshot (`parlia.go:912`).
* *Bid simulator.* "simulatingBid always better than bestBid" (`bid_simulator.go:362`) does not
  hold when a bid was compared before the better one in hand was noted (`SimulatingBetter`); two
  bids may pass `CheckPending` before either is added (`PendingBounded`); `reportIssue` reads
  `env.header` of a bid whose `prepareWork` failed (`bid_simulator.go:746`), and below block
  `TriesInMemory` the bound of old entries wraps around (`NoPanic`).
* *Vote journal.* The scans of `UnderRules` for two heads together reach 534 numbers, the
  journal's cache holds 512 entries.
* *Worker.* The guard notes the parent before the block is written: after a failed write the validator
  is silent on this parent (`worker.go:668`), the exception `Silenced` of `MinesOn`. After an unclean shutdown the guard is
  empty and the head may lie behind a block that was broadcast; the model restarts in
  order only.

## 8. What is not modelled

Signatures, hashes and RLP are perfect: a hash is its block, a signature its signer. Time is
choice: a timer that is armed may fire. The contracts are their effect on the accounts
that the node reads, or success and failure. Not modelled at all: the
vote signer and its keystore, the layout of headers, the downloader and snap sync, the transaction
pool, tries and key-value stores, the EVM and the precompiled contracts, p2p, RPC and
command line. They are listed, with the reason, among the components of `PROJECT.json`.

Bounds of the exploration are constants whose comment says "bound"; they stop the model and
never the code. The proofs hold for all of their values.
