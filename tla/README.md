# browser-server-platon: TLA+ models and proofs

browser-server-platon follows a PlatON chain and keeps what it finds in MySQL
(statistics, stakings, proposals, backup rows of transactions), Elasticsearch
(documents for searching) and Redis (the newest blocks and transactions). These
modules specify `scan-agent`, the process that does the following: how blocks
get from the node into the three stores, and what is left of that when an
attempt is retried, a thread lags behind, a request half fails or the process
dies; how the validator lists and the rounds of `block_node` keep up with the chain's
epochs; what two parts of the transaction of a block do to its tables, the
stakings with their delegations and the recognition of tokens; and the scripts
that put on the chain the contract the recognition asks.

Paths below are relative to `com/platon/browser` of the named Gradle module.

## 1. Inventory

### The pipeline

```
 node --> collection loop --> Block ring --> Collection ring --> Complement ring --> Persistence ring
          AgentApplication    BlockEvent-     CollectionEvent-    ComplementEvent-    PersistenceEvent-
          .run                Handler         Handler             Handler             Handler
                                                 |                                      |        |
                                               MySQL <------ ConsistencyService ------> ES     Redis
                                        (one transaction      (self-check at start)
                                          per block)
```

Each ring is an LMAX Disruptor with one handler on one thread; publishing waits
for a free slot, and a slot is free again when its handler has returned.

| Component | State | Operations | Talks to |
|---|---|---|---|
| Collection loop (`AgentApplication`) | `collectedNumber`, `AppStatus` | boot, self-check, wait for the next block, publish, leave on an exception | node, Block ring |
| Block handler | ring, retry counter | analyse with three attempts, `recover()` drops the block | Collection ring |
| Collection handler | ring, retry counter, node/address/statistics caches | analyse and write one block in one transaction, retried without end | MySQL, Complement ring |
| Complement handler | ring | pass on | Persistence ring |
| Persistence handler | `blockStage`, `transactionStage`, `delegationRewardStage`, `maxBlockNumber` | stage, import when the batch is full, clear | ES import, Redis import |
| `BatchSizeAdjustTask` | `persistenceBatchSize` | every 30 s, small batch when caught up | Persistence handler |
| `EsImportService` | 6 threads, latch, `isRetry` | save seven kinds of documents in parallel | ES |
| `RedisImportService`, `AbstractRedisService` | 6 threads, latch, `isRetry`, sorted sets | save in parallel, cut to `maxItem` | Redis |
| `ConsistencyService` | none | import into ES and Redis what ES lacks | MySQL, ES, Redis |
| `InitializationService` | `network_stat` row, caches | first start, restart | MySQL, node |
| Epoch services | validator lists, rewards, `max`, `block_node` | replace the lists at settlement and consensus boundaries, add the round, copy the lists into each event | node, MySQL, collection loop |
| Staking, delegation | tables `node`, `staking`, `delegation`, `slash` | one analyser per PPOS transaction, settlement/consensus/election block analysers | MySQL |
| Governance | proposals, `ProposalCache` | submit, vote, cancel, apply at the deadline | MySQL, chain parameters |
| Gas estimates | log rows, ring, `prevSeq` | log, apply and delete in the transaction of a settlement; the ring only for left-over rows | MySQL |
| Token detection | tables `token`, `token_tracker`, `address`; `ErcCache`, map of contract types, `AddressCache` | look at a contract when it is created, and again at its first token event or on demand | node, facade contract, MySQL |
| `hardhat-contract` scripts | networks and accounts, what the chain accepted | deploy `PScanQueryFacade` or `Multicall3`, query nine samples | node |
| `scan-job` tasks | page cursors, columns derived from the chain | move and refresh rows on timers | MySQL, ES, node |
| `scan-api` | none | read | the three stores |

What is hard: five threads and two pools of six that share sets and flags; a
publication inside a transaction that may still roll back; retries that repeat
half of a handler; a `recover()` that swallows what it should repeat; a crash
between any two of the three stores, and a self-check that looks only at the
newest document of one of them; amounts of money kept in two rows and moved by
SQL of a dozen handlers in any order of events; caches that stay when the
transaction that filled them is rolled back. `PROJECT.json` lists the hazards line by line.

What makes the parts correct:

- collection: each block applied to MySQL exactly once, in the order of the chain;
- pipeline: nothing committed is lost on the way to ES, and what a crash loses
  is still within reach of the self-check;
- imports: nothing is cleared that is still needed, the call returns, caches show
  an unbroken recent window of bounded size;
- first start: what is initialised once is stored before it is forgotten;
- staking: the two rows of a node agree, amounts follow the status and add up, a
  delegator is owed what was delegated and not withdrawn, no report is lost;
- tokens: a contract is taken for what it is, has one place in the tables, and
  tables and caches say the same;
- scripts: the printed address is the contract's, and the query prints what the
  Java side expects;
- epochs: an event carries the lists of its own block, every round has one place in
  `block_node`; governance: each deadline applied once (not modelled).

## 2. Modules

| Module | What it is | Code |
|---|---|---|
| `BlockLedger` | abstract specification: blocks applied one by one in chain order, only a faulty one passed over | what readers of `network_stat` rely on |
| `BlockCollection` | chain to MySQL: loop, Block and Collection rings, one transaction per block, crash, restart | `AgentApplication`, `BlockEventHandler`, `CollectionEventHandler`, `InitializationService`, `StatisticService` |
| `BlockCollectionProofs` | theorems about it | |
| `EpochLists` | extends `BlockCollection` by the epoch changes of the loop and the lists in the events | `EpochService`, `EpochRetryService`, `EpochMessage`, `EpochUtil`, `BlockService` |
| `EpochListsProofs` | theorems about it | |
| `SyncPipeline` | the whole pipeline: an instance of `BlockCollection` plus the rest | `ComplementEventHandler`, `PersistenceEventHandler`, `BatchSizeAdjustTask`, `ConsistencyService`, ES services |
| `SyncPipelineProofs` | theorems about it | |
| `StagedImport` | abstract specification: how services read and index the caller's sets, and when the call returns | what `PersistenceEventHandler` relies on |
| `EsImport` | one import after another in detail: pool, latch, shared and own sets | `EsImportService`, `Es*Service` |
| `EsImportProofs` | theorems about it | |
| `RedisImport` | the parallel saves, the shared retry flag, the sorted sets | `RedisImportService`, `AbstractRedisService` |
| `RedisImportProofs` | theorems about it | |
| `SetTheorems` | lemmas on finite sets: induction, ranks and greatest members, sums of a function | |
| `FirstStart` | an instance of `BlockCollection` plus the built-in addresses | `InitializationService`, `AddressCache`, `StatisticsAddressAnalyzer` |
| `DelegationClaims` | abstract specification: what each delegator is owed from each staking | what delegators rely on |
| `Staking` | one node's stakings and their delegations: seven transactions, election, consensus switch, settlement | PPOS and epoch analysers, `custommapper/*.xml` |
| `StakingProofs` | theorems about it | |
| `ErcDetection` | operators: what a contract answers, the bitmaps of the facade and of the local detection, the type they give | `PScanQueryFacade.sol`, `ErcDetectService` |
| `FacadeScripts` | the three Hardhat scripts against two networks | `hardhat-contract/scripts`, `hardhat.config.js` |
| `TokenDetection` | the agent's recognition of tokens, after the scripts | `TransactionAnalyzer`, `ErcTokenAnalyzer`, `ErcCache`, `AddressCache`, `StatisticsAddressAnalyzer` |
| `TokenDetectionProofs` | theorems about the scripts and about token recognition | |
| `MC*` | instances for TLC | |

`TokenDetection` extends `FacadeScripts`, which extends `ErcDetection`: the same
chain state answers the scripts and the agent. `Staking` implements
`DelegationClaims` under a refinement mapping: a claim is the sum of the three
columns of a row of `delegation`, a phase is the status of the staking.

`SyncPipeline`, `FirstStart` and `EpochLists` compose: each of their actions either
conjoins an action of `BlockCollection` with its effect on the rest, or leaves block
collection alone. `BlockCollection` implements `BlockLedger` under the identity
mapping, so the compositions do. The Elasticsearch import inside `SyncPipeline` is
composed likewise from the actions of `StagedImport`, which `EsImport` implements.

### State and actions of BlockCollection

| TLA+ | Code |
|---|---|
| `agent` | "down", "post" = `ConsistencyService.post` at work, "running" = the loop, "stopped" = the loop was left (`AgentApplication` 122-125), the handlers go on |
| `collected` | `collectedNumber` |
| `blockRing`, `collectionRing` | block numbers in the two rings; the head is being handled |
| `transaction` | "published" between `complementEventPublisher.publish` (169) and the commit; "wedged" when the commit failed after `releaseRef` (171), or the event's list is empty at an epoch change |
| `curNumber` | `network_stat.cur_number` |
| `applied`, `dropped`, `faults`, `crashes` | history |
| `Boot` | `zeroBlockNumberWait`, `InitializationService.init` |
| `CollectBlock`, `LoopBreaks` | one iteration of the loop, its `catch` |
| `HandleBlock`, `RecoverBlock` | `BlockEventHandler.onEvent` and `recover` |
| `AttemptFails`, `PublishBlock`, `CommitGenesis`, `CommitBlock`, `CommitFails`, `AnalysisStuck` | `CollectionEventHandler.onEvent`: rolled back before publishing; published; committed; commit refused; each attempt fails on an empty list |
| `Crash` | the process dies anywhere |

Some facts of the code that the models rest on:

- spring-retry 1.2.4 puts `@Retryable` around `@Transactional`: every attempt of
  `CollectionEventHandler` runs in a transaction of its own.
- The three attempts of `BlockEventHandler` look at the same completed futures,
  so whether a block can fail is a property of the block (`FaultyBlocks`).
- After `releaseRef` an attempt meets null fields and fails in
  `copyCollectionEvent`: a failed commit wedges the handler until a restart.
- For block 0 `StatisticService.analyze` returns before `cur_number` is written,
  so the height stays -1 and a crash repeats block 0; only blocks from 1 on are
  `Counted`.
- `CollectionEventHandler`'s inserts spend auto-increment ids even when rolled back:
  ids have gaps but grow with the commits (`nextId`, `txBak`).

### State and actions of EpochLists

| TLA+ | Code |
|---|---|
| `step` | where the main thread is in `init` or `getEpochMessage`: before a change, before `block_node`, or ready to publish the event |
| `latest` | the `latestBlockNumber` a running change has read, -1 outside |
| `lists[kind]` | `preVerifiers`, `curVerifiers` of "settlement", `preValidators`, `curValidators` of "consensus"; a list is the epoch it belongs to, `Empty` has no members |
| `reward` | `blockReward` and `stakeReward`, by the epoch of the list they are divided by |
| `max`, `blockNode` | the static `EpochService.max`; table `block_node`, one row per round |
| `messages` | the copies of the lists in the events of the two rings (`EpochMessage` 102-105) |
| `stale`, `skipped` | history: kinds whose latest change failed; rounds that had no validators |
| `BootLists`, `EnterLoop`, `PostFailsLists`, `CrashLists` | `InitializationService` 189-192, `AgentApplication` 93-103, the end of the process |
| `ReadLatest`, `ChangeLists` | `settlementChange`, `consensusChange`: the latest block number (`EpochRetryService` 188, 135), then the two lists |
| `ChangeFails` | all attempts fail and `recover` (115) swallows it; or a lagging node gave an empty current list |
| `RecordRound`, `RoundWasRecorded`, `RoundWithoutValidators`, `BatchInsertFails` | `EpochService` 93-122 |
| `CollectWithMessage` | `EpochService` 125-127 and the publication |
| `PublishAnalysed`, `AnalysisNeverSucceeds` | `OnConsensusAnalyzer` 69 divides by the number of validators, `OnSettleAnalyzer` 70 throws without previous verifiers |

The question for the latest block number and the one for the lists are two steps
because the chain grows between them: `getLatestValidators` may answer for a later epoch
than the one `latestEpoch == currentEpoch` (154) has just compared. `MessagesFit` therefore
lets the current list be of a later epoch and never of an earlier one; the previous
list and the reward are exact. It exempts a kind only in the events of the
epoch whose own change failed.

A round without validators leaves `max` behind the chain for good: later rounds
stand in `block_node` under a number that is one too low, and after a restart the
comparison with `max` (101) does not see that a block is collected again, so its
round gets a second row. `RoundsRecorded` says what is left then (no number
missing or twice, none above its round) and is exact while `skipped` is empty.
An empty list also makes `OnConsensusAnalyzer` fail in each of the endless retries:
`EveryBlockApplied` counts that agent as wedged.

The failure in the middle of several attempts is one step: an attempt starts from
nothing the earlier ones left, except the lists a failing one had replaced. The yearly
figures `settlementChange` hands to the configuration (227-237) are left out, and
`preStakeReward`, which only goes into the event.

### State and actions of SyncPipeline

`es` and `excused` are records of two sets, of block numbers and of transaction
ids. `StageEvent`, `EsSave`, `EsSaveRefused`, `EsReturns`, `RedisImport` are the
steps of one import by `PersistenceEventHandler`. How the services work on its sets
is the instance `Import` of `StagedImport`: `pending` are the services the
latch still counts, `late` those it did not wait for, which read the shared
set as it is when they get through and may be behind with several calls.
`excused` are the documents an ES fault took:
refused by ES, cleared before the late service read them, or older than what
landed of a request torn by a crash (the defect the comment of
`ConsistencyService` names). The invariants exempt those and nothing else, so they
say that no *other* interleaving loses a document.

Abstractions: two services stand for seven, with `7 - 6` of them not waited for
(`EsImport` has the pool and the latch, and implements `StagedImport`); the self-check's
import is one step, or torn by a crash; Redis is the set of block numbers that
were imported (cutting is in `RedisImport`); an exception of
`PersistenceEventHandler` itself is not modelled because both imports retry
inside; a block of `TxBlocks` carries one transaction.

In `EsImport` a save that fails is a save that takes long: each service is
`@Retryable` without end on the `BusinessException` it throws, so the `isRetry`
of `EsImportService` is never set. Its refinement mapping shows of the queue and the
pool which shared services are at work for the latest call and which for an
earlier one; starting a task and the services with sets of their own do not show.
`RedisImport` cannot abstract that way: the
Redis services do not retry themselves.

### State and actions of Staking

Every statement of these handlers is keyed by a node, so the module follows one
node; each handler runs inside the transaction of its block and is one action.

| TLA+ | Code |
|---|---|
| `nodeGen`, `nodeStake`, `nodeLife`, `nodeSums` | the row of `node`: `staking_block_num`; the amounts; status, end block, low-rate count, exception status; totals |
| `stake`, `life`, `sums`, `since`, `frozen` | the rows of `staking`, one for each time the node staked |
| `delegation`, `reports` | the rows of `delegation`; unhandled rows of `slash` |
| `stage` | the epoch event a block is at: penalties, settlement, then its transactions |
| `overwritten` | history, see section 4 |
| `StakeCreate`, `StakeIncrease`, `StakeExitLocked`, `StakeExitUnlocked` | the analysers of the same names with their mappers |
| `DelegateCreate`, `DelegateExit`, `Report` | likewise |
| `ElectionLock`, `ElectionLeave` | `OnElectionAnalyzer.slash` with `EpochElectionMapper.slashNode` |
| `ConsensusSwitch`, `SlashNode`, `ReportsHandled` | `OnConsensusAnalyzer` with `SlashReportMapper.slashNode`, one report at a time |
| `Settlement` | `OnSettleAnalyzer` with `EpochSettleMapper.settle` |

What the chain does is the environment, and named as such at each guard: it
takes increases, exits and delegations for a candidate that has not been
reported, lets a delegator withdraw at most the claim, opens a staking only when
the earlier one is over, draws the verifiers of an epoch from unreported
candidates and no longer elects one it has punished, and reports a double sign
only of a node that staked before this epoch. A withdrawal in the code
would take more than the claim without complaint (`NotNegative`); such a
transaction does not succeed on the chain, and failed ones are not analysed.

### State and actions of FacadeScripts and TokenDetection

A script is a process of awaited calls. Any of them may be rejected or its answer
lost (`Reject`, exit code 1) whatever the node has done by then; `DeploySend`
resolves when the creation is accepted, `Mine` puts any prefix of the accepted
ones in a block. An address is the creator and its nonce. The query script is
deterministic but for the nine answers, which come from `ErcDetection`.

| TLA+ | Code |
|---|---|
| `rows`, `saved` | tables `token`, `token_tracker`, `address` within the transaction and as committed; `dropped`, `created` and `early` are history: contracts given up, created, and created after their address was known |
| `types`, `tokens`, `evm`, `pending`, `creations` | `GENERAL_CONTRACT_ADDRESS_2_TYPE_MAP`, the three address sets of `ErcCache` (a contract may come into two of them; `tokenCache` has the same keys and is not modelled apart), `AddressCache.evmContractAddressCache`, `AddressCache.addressMap`, types of this block's creations |
| `content`, `todo` | the block's transactions taken apart into creations, token events, the typing of the creation and addresses that are met; what is left of them in this attempt |
| `code` | what each contract is at the end of the block: the node is asked about that state even for the first transaction |
| `CreateContract`, `LookAgain`, `NoNeed`, `TypeCreation` | the parts of `TransactionAnalyzer.analyze` and `instantlyTokenTracker` |
| `CollectAddress` | an address is paid, or named in a token event, whether or not a contract is created there later (`addAddressCache`, `AddressCache.update`) |
| `Spoiled` | what a detection may come to when the node answers badly: nothing after a timeout; on the local path (`Misread`) whatever `ErcDetectService` makes of an error that is not one, which it reads as "not supported" |
| `CommitBlock` | the address statistics at the end of the handler, which give a type to new rows only, and the commit |
| `AttemptFails`, `Restart` | roll back and analyse again with the caches as they are; a new process with caches read from the tables |
| `SetTrigger` | an operator asks for an immediate look (external) |

A contract is known by its answers: which interfaces it claims and whether each
method returns a value, a blank, something that cannot be decoded, or reverts. It
may be another contract in a later block (a proxy), or none any more: one that has
destroyed itself keeps its address and rows, and is not created a second time.

`Meets` and `Standard` say what a contract is by the standards and not by the
bitmaps: it may meet several. `TypesAreRight` asks for the first one, except after a
refused call without the facade, when it may be any the contract meets.

## 3. Runs

| Run | Instance | Shows |
|---|---|---|
| `collection` | 4 blocks, settlement epochs of 3 and consensus epochs of 2, 1 faulty block, rings of 2, 1 fault of 4 kinds, 1 failed change, 1 crash | `RingInvariant`, `AppliedExactlyOnce`, `MessagesFit`, `RoundsRecorded`, `ImplementsLedger`, `EveryBlockApplied` of the composition with `EpochLists` |
| `pipeline` | 3 blocks, 2 with a transaction, 1 of them faulty, rings of 1, batches of 1 and 2, 1 rollback or failed commit, 1 refusal, 1 crash | `HolesAboveNewest`, `CommittedIsIndexedOrStaged`, `EsAheadByOneBlock`, `StoresOnlyGrow` |
| `pipeline_liveness` | 2 blocks, 1 fault of 3 kinds, 1 crash | `FullBatchIsIndexed` |
| `es_import` | 7 services, 6 threads, 2 batches | `ReturnsAfterAllButOne`, `OwnSetsAreKept`, `ImportReturns`, `ImplementsImport` |
| `redis_import` | 2 sorted sets of 3, batches of up to 2, 9 documents, 3 failures | `CacheIsRecentWindow`, `CacheBounded`, `ImportReturns` |
| `staking` | 2 stakings, 2 delegators, 3 settlement epochs, stakes up to 3, claims up to 4, 2 waiting reports | seven invariants and `ImplementsClaims` |
| `token_detection` | 2 scripts, 2 heights, then 3 blocks of up to 2 transactions about 1 contract of 5 kinds, 1 spoiled detection, 2 failed attempts or restarts | `QueryPrintsTheTable`, `PrintedAddressIsRight`, `FacadeIsThere`, `TypesAreRight`, `TokenOrTracked`, `ViewsAgree`, `EmittingTokenIsFound` |
| `latch` | as `es_import` | violates `NoLossWhileRunning` |
| `redis_retry` | 1 failure | violates `RetriedUntilSaved` |
| `self_check_redis` | 1 crash, no other fault | violates `SelfCheckCoversRedis` |
| `genesis_addresses` | 1 crash, no other fault | violates `GenesisStoresBuiltins` |
| `exiting_slash` | as `staking` | violates `PenaltyIsTakenOffRedemption` |

Bounds. `MaxBlock`, `MaxFault`, `MaxCrash`, `MaxFailedChange`, `MaxRefusal`, `MaxBatch`,
`MaxScore`, `BatchLen` and `MaxFail` bound the model; the code has no such bounds. Four blocks with rings of two
(three with rings of one) fill both rings, keep one block in the loop and leave
one to come, so that every wait for a slot happens. One crash at any step is
followed by a whole restart with its self-check, and the restarted process can
crash again during boot or self-check, which is not counted. A batch size of two and one of one lets the size change under a staged
block. The four blocks of `collection` start both kinds of epoch at once (block 1), one of
them alone (3 and 4) and none (2), so that events of two epochs are in the rings together
and a restart takes up the chain within an epoch and at its end; longer chains and further
crashes repeat that, and section 5 proves the safety properties for all of them.
Two ES batches are enough for a straggler of the first to meet the
second; each further batch repeats that. Nine documents fill a Redis cache of three and make
it cut at several sizes over its limit.

In `staking` the thresholds are as small as their relations allow: a stake above,
at and below the threshold after a penalty, a delegation that a withdrawal
leaves above and below its threshold, a redemption that ends in this run and one
a vote holds longer, a penalty the hesitated stake covers and one it does not. Two
stakings show the second one inherit the sums of the node's row; two
delegators are interchangeable (`Symmetry`), which is sound because all properties
of the run are safety properties. In `token_detection` every statement is keyed by
a contract, so one contract meets all cases; the five kinds are an address without code
(also what a contract is that has destroyed itself, and detected like a plain contract),
an ERC20, a contract that meets all three standards, so that a refused call shows the next
one, an ERC721 whose name and symbol revert (which only the facade cannot digest), and a
fallback that answers everything. Three blocks are an address that is met, a creation, a
change and one more event, with a restart between any two. The run has about 1.7 million
distinct states.

The real rings hold 1024 events, a batch is 10 blocks (1 when caught up) and
`max-item` is 500000; the properties do not depend on the sizes. That is proved
for most of the safety properties of every module but `FirstStart` (section 5).

Deadlock is checked in the `pipeline` runs, where something can always happen.
The other models stop at their bound (epochs, blocks, scripts) or, in block collection, when the loop has
been left or the handler is wedged; there the liveness properties say that they
do not stop before.

Fairness. Weak fairness of each handler's steps stands for its thread being
scheduled (the composition of `EpochLists` states it once for the main thread and once for
the thread of the Collection ring, of whose steps one is enabled at a time); of `Boot` for the process being started again after a crash; of
`EsSave` for ES answering in the end (the services retry without end). Strong
fairness of `PostSucceeds` says that the self-check is not interrupted by a crash
or by missing receipts every time. The chain need not grow, a crash need not
happen, `BatchSizeAdjust` and a late save need not run, and nothing fair is
assumed about faults. Without these assumptions a stopped thread refutes every
liveness property.

What the liveness properties exempt is what the code does not promise: a block
`recover()` gave up on, the loop having been left, the handler wedged by a lost commit
or by an empty list.

## 4. Disagreements with the documentation

Five runs violate what a comment of the source says; `PROJECT.json` quotes it.

1. `latch`: seven services, a latch of six. The seventh can read its set after the
   handler cleared it; its documents are lost without any restart, and
   nothing below the newest document is ever looked for again.
2. `redis_retry`: a success after a failure resets the shared `isRetry`, and the
   batch is missing from one sorted set.
3. `self_check_redis`: the check of "es and redis" against MySQL reads ES only.
4. `genesis_addresses`: the built-in addresses are in memory only until block 0 is
   committed, and are not initialised again.
5. `exiting_slash`: the penalty of a node that is leaving already is not taken off
   its redemption; the statement overwrites the redemption with the hesitated and
   locked stake minus the penalty, which is zero.

More of them, met while modelling, are part of the models and have no run:

- `DelegateExitAnalyzer` 171-187 takes a withdrawal off the locked sum of a staking
  where its comment (131) says hesitated and locked; the sum may be negative until
  the next settlement, which adds the two columns. The properties speak of their sum.
- A second exit of a staking (penalty after exit, two double signs) overwrites
  `staking.stat_delegate_released` with zero (`SlashReportMapper`,
  `EpochElectionMapper`); `overwritten` in `ReleasedIsOwed` marks those stakings.
  The rows of `delegation`, which withdrawals read, are right.
- `OnElectionAnalyzer` keeps the end block of leaving nodes in one object for all
  nodes of the block: `ElectionLeave` may get another node's.
- A double sign drops the hesitated stake: `Remaining` is computed from the locked
  part only, though the comment at `OnConsensusAnalyzer` 121 says all of it becomes
  redeemable.
- `ErcCache` and the map of types keep what a rolled-back block put there; the
  retry finds a token, does not look again, and the row in `token` is missing
  until a restart (`stale` in `ViewsAgree` and `EmittingTokenIsFound`).
- `detectInputData` (`ErcDetectService` 126-141) throws only for a timeout, against its
  own comment (130: any other error throws too); another error is the answer null, which
  the interface questions (183, 231, 253) read as "not supported". `getErcInfoForLocal`
  (467-477) goes on to the next standard, so one refused call takes an ERC721 that also
  answers the methods of an ERC20 down to ERC20, for good (`Misread`, `spoiled` in
  `TypesAreRight`). What is recorded is always a standard the contract meets.
- `StatisticsAddressAnalyzer` types new rows only (147-175); one that exists is updated
  without its type (98-137). A contract whose address was paid or named in a committed
  block before it was created keeps the type of an account, which the TODO at
  `TransactionAnalyzer` 139 fears. Only a look that recognises a token types the row
  again. Until a restart the map of types has the contract; the map rebuilt from the
  tables has not, and neither 152 nor 328 looks at it again (`early` in `ViewsAgree`,
  `Forgotten` in `EmittingTokenIsFound`).
- A contract created by another one, whose address an earlier event of the block
  named, is not in `evmContractAddressCache` until a restart: `AddressCache.updateFirst`
  (106) passes over an address it has (`evm` in `ViewsAgree`).
- A rolled-back attempt and its retry may recognise different standards; the contract is
  then in two address sets of `ErcCache` until a restart (`tokens`, `stale`).
- A detection that fails at the creation is logged only: the contract is neither a
  token nor tracked (`dropped` in `TokenOrTracked`). A tracked contract that is looked
  at in vain once is not tracked any more (`ErcTokenAnalyzer` 134).
- `AddressCache` 330 looks up the literal "address" and so changes nothing; new rows
  are right all the same because `StatisticsAddressAnalyzer` 151 types them again.

## 5. Proofs

`BlockCollectionProofs` proves, for every `MaxBlock`, `RingSize`, `FaultyBlocks`,
`Faults`, `MaxFault` and `MaxCrash` that satisfy `CollectionAssumption`:

- `TypeCorrect`: `Spec => []TypeOK`
- `RingsKeepBlocks`: `Spec => []RingInvariant`
- `ExactlyOnce`: `Spec => []AppliedExactlyOnce`
- `Refinement`: `Spec => ImplementsLedger`

The inductive invariant is `IInv == TypeOK /\ RingInvariant /\ AppliedExactlyOnce`,
and TLC checks each of its conjuncts in the run `collection`.
`AppliedExactlyOnce` is not inductive alone: that `CommitBlock` applies a block
for the first time, and passes over none but given-up ones, depends on what is
at the head of the Collection ring. `RingInvariant` says it: the rings hold the
collected blocks above the committed height in chain order (`InChainOrder`), every
such block is in a ring or was given up on (`NothingLostInRings`), and an open
transaction has its event at the head of the ring (`DownIsEmpty`). The argument
goes

1. `InitTyped`, `NextTyped`: types and `DownIsEmpty`, one step per action;
2. `NextInOrder`, `NextNothingLost`: the other two parts of `RingInvariant`, from
   `Published` and `Consumed`, what the two ring operations do to a sequence;
3. `CommitsNextBlock`: a commit takes the smallest block above the height that was
   not given up on, hence is a step of the ledger; `OnlyCommitApplies`: nothing
   else touches height and statistics; together `NextAppliesOnce`;
4. `NextIInv`, `Invariance`, and the theorems; `Refinement` maps `CommitBlock` to
   `Apply` and every other action to a stutter.

`EpochListsProofs` proves, for every chain, size of the rings and of both epochs, and
number of failed changes (`EpochAssumption`):

- `ComposedCollects`: `EpochSpec => Spec`, so the four theorems above hold of the
  composition;
- `ListsTyped`, `MessagesCarryTheirLists`, `RoundsAreRecorded`: `EpochSpec => []ListsTypeOK`,
  and likewise `MessagesFit` and `RoundsRecorded`.

Neither property is inductive: what an event gets is what the main thread has in memory.
The inductive invariant `EpochInv` adds

- `WhereInLoop`: the step of the main thread by the state of the agent, and that it is at
  a change only for a block that starts the epoch and is on the chain;
- `ListsFit`: the lists in memory, unless stale, are those of the collected block while
  their change is still ahead, and of the next block once it is made;
- `RoundsInStep`: `max`, when known, is the number of rows, and the round of a block that
  is ready for its event is recorded.

The rest is arithmetic of `EpochUtil`: `EpochIs` and `EpochUnique` characterise the
epoch of a block by `(e - 1) * size < n <= e * size`, from which follow that only a block
`n + 1` with `n % size = 0` starts an epoch (`StartOfEpoch`, `SameEpoch`), that the genesis
block starts none (`GenesisStartsNothing`: -1 % size is not 0), and that the block the
current list is asked for belongs to the epoch of the block at hand (`TargetBlock`).

`SyncPipelineProofs` proves, for every chain, ring size, batch size, `Gap` and number of
faults and refusals (`PipelineAssumption`):

- `PipelineTypes`, `NoHoleBelow`, `NothingCommittedIsLost`, `AheadByOneAtMost`:
  `Spec => []TypeOK`, and likewise `HolesAboveNewest`, `CommittedIsIndexedOrStaged` and
  `EsAheadByOneBlock`
- `OnlyGrows`: `Spec => StoresOnlyGrow`
- `CollectionImplemented`: block collection inside the pipeline takes only steps of
  `BlockCollection` (`ChainStep`), so its invariant holds here and it implements the
  ledger.

`HolesAboveNewest` speaks of stores only, but what keeps it is the order of what is on
its way to them. The inductive invariant `PipelineInv` adds to the types and the
invariant of block collection

- `InOrder`: the events of the Persistence and the Complement ring are one queue in the
  order of blocks and ids, and what is staged is before it. The event at the head of the
  Persistence ring leaves the queue when it is staged, although its slot is freed only
  after the import;
- `Published`: what is staged or queued is behind the blocks that are still to be
  published, and ahead of MySQL by at most the open transaction;
- `Covered`: what MySQL has, and what the open transaction will add, is in ES, exempt,
  staged or queued;
- `Importing`: a service that is done has saved what is staged; a process that is
  down has nothing staged;
- `Holes`: a block or row, of the open transaction too, that ES lacks is above every
  document; `Ahead`, the same for `EsAheadByOneBlock`.

A request can land in part: some items refused, or torn by a crash. `LandingKeepsHoles` is
the fact that makes that safe: if everything below a document of the request that ES
lacks is in the request or exempt, no part of the request that lands makes a hole below
it, except the items lost, which are exempt from then on. `StageRequest` shows the
premise for an import and for a late service, whose shared set may have changed
(`Covered` with `InOrder`), and `SyncRequest` for the self-check, which takes all above the
newest document.

`StakingProofs` proves, for every number of delegators and stakings and all
thresholds, penalties and durations that satisfy `StakingAssumption`:

- `TypeCorrect`, `NodeAndStakingAgree`, `LockedOrRedeemed`, `TotalsAddUp`,
  `ReportsAreNotLost`: `Spec => []TypeOK`, and likewise `NodeMirrorsStaking`,
  `MoneyFollowsStatus`, `NodeTotals` and `ReportsAreFound`
- `DelegatedSumKept`, `ReleasedSumKept`: `DelegatedSumIsKept` and `ReleasedIsOwed`, the
  sums over all delegators and stakings
- `TablesKeepClaims`: `Spec => ImplementsClaims`

The inductive invariant `IInv` is those five and the following parts, each of which one
of them needs:

- `DelegationsFollowStatus`, `SumsFollowStatus`: what is released, and what is not,
  goes with the status of the staking. A withdrawal from a leaving node sets the
  other columns to zero, which keeps the claim only because they are; a
  new staking must find sums of zero for `NodeTotals`.
- `StakeIsLocked`: a stake that has seen a settlement holds locked money only.
  `StakeExitLocked` chooses between "exiting" and "exited" by the locked
  amount; with it the staking is never over at once, with reports still waiting.
- `VerifierIsAtWork`: what the chain may elect is a candidate or was one when
  elected, so that a penalty meets a node with a stake.
- `ReportsWait`: a report outlives a settlement only if the node is a verifier
  still, and then neither is its redemption over nor does its lock end before the
  consensus switch that handles the report. This is what `ReportsAreFound` rests on.

The sums are an invariant of their own, `SumsInv`, carried by `IInv`: the columns
`stat_delegate_*` of a staking and of the node are what the rows of `delegation` add up
to, the released one except for the stakings in `overwritten`. `TableSums`, `OneRowSums` and
`SameSums` say how a sum over the delegators moves when one row changes, when all rows of a
staking are released (`LeavingSums`) and when two columns of each are added
(`SettlementSums`); the handlers move the columns by the same amounts. They rest on
`SetTheorems`: the library's theorem of induction over a finite set has an operator as its
parameter, so `SetInduction` states it for a set of subsets that contains the empty set and is
closed under adding a member, and the equations of a sum (`SumRest`, `SumChanges`,
`SumOfBoth`) follow from the definition of the fold.

There is one lemma for each action and part it can disturb, lemmas about the
operators (`Remaining` is never below zero for a stake that is not negative,
`Decrease` and `Balance` move the same amount, what `ReleasedBy` does to a claim), and one
for each action that it is a step of the abstract specification or a stutter.

`EsImportProofs` proves, for all finite disjoint sets of services, every size of
the latch and every number of batches (`ImportAssumption`):

- `ImportTypes`, `ReturnsInTime`, `OwnSetsKept`: `Spec => []TypeOK`, and likewise
  `ReturnsAfterAllButOne` and `OwnSetsAreKept`
- `ImportImplemented`: `Spec => ImplementsImport`

The inductive invariant `ImportInv` adds to the types and `OwnSetsAreKept`

- `TasksOnce`: a task is waiting in the queue, running or over, and never two of
  them. A submission order is a bijection from positions to services
  (`OrderIsBijection`); one exists (`OrderExists`), so a batch can always start;
- `LatchCounts`: while a call is under way, the services of its batch that are not
  done are no more than what the latch counts plus the services it leaves out, and the
  others have saved the batch. A straggler holds the latch of its own call
  and cannot count this one down.

`ReturnsInTime` follows by counting: the latch is zero when the caller goes on, so
no more are at work than the latch leaves out. `ImportImplemented` goes action by action:
`BatchImport` is a call of `StagedImport`, `AwaitReturns` its return (the shared services
still at work are among those `LatchCounts` counts), `Clear` its clearing, after which they are
late; a save is a save, a late save or, of a set of its own, a stutter, and `ImportTasks`,
`StartTasks`, `SaveTasks` say what each does to the tasks at work. So what
`SyncPipelineProofs` proves of late services is proved of no more than the latch allows.

`RedisImportProofs` proves, for every number of sorted sets, `MaxItem`, length of a
batch up to it and number of failures (`RedisAssumption`):

- `RedisTypes`, `CacheIsRun`, `CachesAreBounded`: `Spec => []TypeOK`, and likewise
  `CacheIsRecentWindow` and `CacheBounded`.

The cut is by number of members, the property by which documents they are. `OldestCounts`
connects them: a cut takes exactly as many members as it is told, because a member's
rank is the number of members below it and no rank is skipped (`RankIsBijection` in
`SetTheorems`); `OldestOfRun`: from an
unbroken run it takes the beginning. The inductive invariant `RedisInv` is

- `Windows`: every sorted set no batch passed over is an unbroken run that begins at the
  first document or has at least `MaxItem - 1` of them (one less than the limit, since
  the cut removes one more than the comment says). Between imports it ends at the newest
  document; during one, a set that has not saved the batch still reaches up to it, and one
  that has saved it, perhaps in an earlier attempt, holds it;
- `Sizes`: a set is above the limit by at most one batch, and one more for each
  failure, after which a saved batch may be cut by a size that counts it already.

`TokenDetectionProofs` proves, for every number of script runs, heights, blocks and
contracts of any kind (`ScriptsAssumption`, `DetectionAssumption`):

- `FacadeExists`, `TypesAreStandards`, `PrintedAddress`, `QueryIsDocumented`:
  `Spec => []FacadeIsThere`, and likewise `TypesAreRight`, `PrintedAddressIsRight`
  and `QueryPrintsTheTable`
- `PlaceOfContracts`, `CachesAgree`: `Spec => []TokenOrTracked`, and likewise `ViewsAgree`
- `EmittingTokens`: `Spec => EmittingTokenIsFound`.

The inductive invariant of the first four, `DetectionInv`, is `ScriptsInv` (what is mined is a prefix of
what was accepted; a deployment knows the nonce of its own creation; a query has
printed, in their order, the bitmaps of the samples it asked the facade about), `Configured` (the
configured address and block number belong to one creation of the facade that is mined)
and `RowsAreRight` (a token row is the committed one, or a standard the code meets
at this block, and the first one where no local call was refused). The last rests on
`BitmapIsRead`: the bitmap the facade or the local detection computes gives back the
standard it was made for, whichever optional interfaces are claimed; `DetectedIsMet` and
`MisreadIsMet` compare what is detected, from all answers or from what is left of them,
with the standards themselves.

The other three compare the tables with the caches over failed attempts and restarts,
within a block and between two. Their invariant is `RecognitionInv`, for each contract:

- `TodoOf`: the creation and the triggered look of a contract are left to do at most once,
  the one as long as it is not `created`, the other as long as the committed and
  the present row of the tracker ask for it;
- `PlaceOf`: in both versions of the tables a contract has no place before it is created and
  exactly one of token, tracker and given up afterwards;
- `AddressOf`: a row of `address` is missing or an account's before the creation; afterwards
  it names the token the contract is, if any, unless the address is `early` and the row
  still an account's; a contract created in this block has its type in the map already;
- `ViewOf`: for a contract not in `stale`, the address sets of `ErcCache` are the row of this
  transaction and the map of types says the same; of one in `early` the map may know
  nothing instead of "EVM". A failed attempt rolls the rows back and leaves the
  caches; the only difference it may leave outside `stale` is the type "EVM" of a
  contract whose creation is then still to be done again, and it is done again before the
  block can commit;
- `FoundOf`: a contract that was tracked, has become a token and emitted an event still has
  that event before it in this attempt, or has been found.

A block's transactions are put in order by `SetToSeq` and flattened by a fold;
`FlattenTyped`, `SetToSeqIs` and `ContentTyped` say what is needed of that: the result is a
sequence of the given steps, with one creation for each new contract. `OtherContract` and
`StepIs` reduce a step to the one contract it is about.

Assumptions the proofs need of the constants: in `Staking` the delegators and in
`TokenDetection` the contracts are finite sets, since the code adds up rows and goes
through the trackers one by one.

Left to TLC: all liveness (`EveryBlockApplied`, `FullBatchIsIndexed`, `ImportReturns` of
both imports), since the prover reasons neither about fairness nor about `ENABLED`. Every
other property of a passing run is a theorem. The models have no recursive operators.

## 6. Not modelled

Governance and the tasks of `scan-job`: the effect of governance on the pipeline is that
an attempt may fail (`AttemptFails`); the jobs write columns and documents of their own. The ring of the gas estimates only serves rows older versions
left behind. `scan-api` only reads. `scan-common` is mostly generated mapper
code and `scan-generator` its generator. `BootstrapEventHandler` and
`ShutdownCallback` are not used by the present start-up. `Multicall3.sol`,
documents, index templates and test data are deployment material.

Known gaps inside modelled parts: the pipeline under an analysis stuck on an empty list
of validators (`AnalysisStuck`, in `EpochLists` only); the epoch changes of the very first start, whose
validators become the first stakings (`initInnerStake`); the object of `NetworkStatCache` that is pushed
to Redis while the next block changes it; the ERC document kinds, one of which
the self-check puts into another's set (`ConsistencyService` 312); the genesis
block missing in ES when the index is empty at a restart; in staking, rewards,
yields and the counters of addresses (`stat_invalid_addrs` is computed as a number
of distinct addresses and lowered once per row); the one-off adjustments
at the upgrades to 0.15.0 and 0.16.0 (`OnNewBlockAnalyzer` 152-166), of which the
former overwrites stakes, delegations and their sums with values of the chain
(`StakingDelegateBalanceAdjustmentMapper.xml`); in token detection WASM
contracts, transfers, holders and balances; a single statement that fails
within an attempt (`ErcTokenAnalyzer` 119: the caches then know a token that has
no row); a second creation at the address of a contract that destroyed itself;
a creation that failed on the chain (one whose receipt names no created contract makes
`TransactionUtil` 299 meet a null type, and the analysis of its block fails); and an account row inserted outside the address statistics for a contract of the
same block (`DelegateExitAnalyzer` 285, `DelegateRewardClaimAnalyzer` 143).

## 7. Plan

What is done: block collection, epoch changes, pipeline, imports, first start; staking and
delegation with the abstract claims; scripts, detection, and token recognition; the
theorems of section 5. What is left, most important first:

1. `Governance`: deadlines in memory against retries and restarts.
2. Document kinds as a parameter of `SyncPipeline`, and the network statistics in
   Redis.
3. `scan-job`: the tasks that move rows between MySQL and ES with a page cursor.

Theorems: those of the new modules.
