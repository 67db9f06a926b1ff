---------------------------- MODULE SyncPipeline ----------------------------
(***************************************************************************)
(* The whole synchronisation pipeline of scan-agent.  BlockCollection says *)
(* how blocks reach MySQL; this module adds what happens to the event each *)
(* block leaves behind: the Complement and Persistence rings, the staging  *)
(* area and batch import of PersistenceEventHandler into Elasticsearch and *)
(* Redis, and the self-check ConsistencyService.post runs at every start.  *)
(*                                                                         *)
(* Two kinds of documents stand for all: blocks, identified by number, and *)
(* transactions, identified by the auto-increment id of their MySQL row.   *)
(* A block of TxBlocks carries one transaction.                            *)
(***************************************************************************)
EXTENDS Integers, Sequences, FiniteSets, FiniteSetsExt

CONSTANTS
    MaxBlock, RingSize, FaultyBlocks, Faults, MaxFault, MaxCrash,
    TxBlocks,       \* the blocks that carry a transaction
    CatchUpSize,    \* persistenceBatchSize once the chain is caught up
    BehindSize,     \* persistenceBatchSize while behind the chain
    Gap,            \* gapForAdjust
    MaxRefusal      \* bound: how many bulk requests have items refused

ASSUME PipelineAssumption ==
    /\ MaxBlock \in Nat
    /\ RingSize \in Nat \ {0}
    /\ Faults \subseteq {"rollback", "commit", "main"}
    /\ {MaxFault, MaxCrash} \subseteq Nat
    /\ TxBlocks \subseteq 1..MaxBlock
    /\ FaultyBlocks \subseteq TxBlocks       \* only a block with transactions can lack receipts
    /\ {CatchUpSize, BehindSize} \subseteq Nat \ {0}
    /\ Gap \in Nat
    /\ MaxRefusal \in Nat

VARIABLES
    chainHead, agent, collected, blockRing, collectionRing, transaction,
    curNumber, applied, dropped, faults, crashes,
    nextId,         \* next auto-increment id of n_tx_bak (never taken back)
    openTx,         \* ids inserted by the transaction that is published
    txBak,          \* committed rows of n_tx_bak
    complementRing, persistenceRing,    \* events [num, tx], oldest first
    blockStage, transactionStage,       \* the sets PersistenceEventHandler collects
    maxBlockNumber, \* the last block it staged or imported
    batchSize,      \* persistenceBatchSize
    import,         \* batch import: "idle", "waiting" for ES, "returned" from it
    pending,        \* ES services of the current batch that have not saved it
    late,           \* ES services still at work when their batch was cleared
    es,             \* documents in Elasticsearch: [block, tx]
    redis,          \* block numbers in the Redis cache
    excused,        \* history: documents an ES fault may have lost: [block, tx]
    refusals        \* history: bulk requests with refused items so far

Collection == INSTANCE BlockCollection

collectionVars == <<chainHead, agent, collected, blockRing, collectionRing, transaction,
                    curNumber, applied, dropped, faults, crashes>>
idVars     == <<nextId, openTx, txBak>>
stageVars  == <<blockStage, transactionStage>>
importVars == <<import, pending, late>>
storeVars  == <<es, redis, excused, refusals>>
vars == <<collectionVars, idVars, complementRing, persistenceRing, stageVars,
          maxBlockNumber, batchSize, importVars, storeVars>>
downstreamVars == <<idVars, complementRing, persistenceRing, stageVars,
                    maxBlockNumber, batchSize, importVars, storeVars>>

Blocks == 0..MaxBlock

\* The ES services that read the caller's sets.  batchImport submits seven
\* services and waits for six, so it can return with one of them at work.
Services  == {"block", "tx"}
Unawaited == 7 - 6

Stage == [block |-> blockStage, tx |-> transactionStage]

\* How the services work on the caller's sets, and when batchImport returns.
Import == INSTANCE StagedImport WITH call <- import, stage <- Stage, docs <- es

\* The newest document ES returns for a query sorted by num or id; no document reads as 0.
Newest(docs) == Max(docs \cup {0})

\* mutant: the id after the newest one is taken for the newest one
SyncDataOffByOne ==
    [block |-> IF curNumber > Newest(es.block) THEN Newest(es.block)..curNumber ELSE {},
     tx    |-> {id \in txBak : id > Newest(es.tx) + 1}]

\* syncBlock and syncTx: what the self-check finds missing in ES.
SyncData ==
    [block |-> IF curNumber > Newest(es.block) THEN Newest(es.block)..curNumber ELSE {},
     tx    |-> {id \in txBak : id > Newest(es.tx)}]

-----------------------------------------------------------------------------
Init ==
    /\ Collection!Init
    /\ nextId = 1
    /\ openTx = {}
    /\ txBak = {}
    /\ complementRing = <<>>
    /\ persistenceRing = <<>>
    /\ blockStage = {}
    /\ transactionStage = {}
    /\ maxBlockNumber = 0
    /\ batchSize = BehindSize
    /\ import = "idle"
    /\ pending = {}
    /\ late = {}
    /\ es = [block |-> {}, tx |-> {}]
    /\ redis = {}
    /\ excused = [block |-> {}, tx |-> {}]
    /\ refusals = 0

\* Steps of block collection that leave the rest of the pipeline alone. An
\* analysis stuck on an empty list of validators is left to EpochLists.
CollectionOnly ==
    /\ \/ Collection!ChainGrows
       \/ Collection!Boot
       \/ Collection!CollectBlock
       \/ Collection!LoopBreaks
       \/ Collection!HandleBlock
       \/ Collection!RecoverBlock
       \/ Collection!CommitFails
    /\ UNCHANGED downstreamVars

\* mutant: the missing documents are imported into Redis only
PostSucceedsRedisOnly ==
    /\ Collection!PostSucceeds
    /\ redis' = redis \cup SyncData.block
    /\ UNCHANGED <<idVars, complementRing, persistenceRing, stageVars, maxBlockNumber,
                   batchSize, importVars, es, excused, refusals>>

\* post imports what it found missing, into ES and then into Redis.
PostSucceeds ==
    /\ Collection!PostSucceeds
    /\ es' = [s \in Services |-> es[s] \cup SyncData[s]]
    /\ redis' = redis \cup SyncData.block
    /\ UNCHANGED <<idVars, complementRing, persistenceRing, stageVars, maxBlockNumber,
                   batchSize, importVars, excused, refusals>>

\* A block in the range fails its analysis: nothing is imported.
PostFails ==
    /\ SyncData.block \cap FaultyBlocks # {}
    /\ Collection!PostFails
    /\ UNCHANGED downstreamVars

\* mutant: bounded retries, after which the event is passed over
AttemptFailsGivesUp ==
    /\ Collection!AttemptFailsGivesUp
    /\ nextId' \in {nextId, nextId + Cardinality({Head(collectionRing)} \cap TxBlocks)}
    /\ UNCHANGED <<openTx, txBak, complementRing, persistenceRing, stageVars,
                   maxBlockNumber, batchSize, importVars, storeVars>>

\* The ids of rows the attempt has inserted are spent although the rows are
\* rolled back.
AttemptFails ==
    /\ Collection!AttemptFails
    /\ nextId' \in {nextId, nextId + Cardinality({Head(collectionRing)} \cap TxBlocks)}
    /\ UNCHANGED <<openTx, txBak, complementRing, persistenceRing, stageVars,
                   maxBlockNumber, batchSize, importVars, storeVars>>

PublishBlock ==
    /\ Len(complementRing) < RingSize
    /\ Collection!PublishBlock
    /\ openTx' = IF Head(collectionRing) \in TxBlocks THEN {nextId} ELSE {}
    /\ nextId' = nextId + Cardinality(openTx')
    /\ complementRing' = Append(complementRing, [num |-> Head(collectionRing), tx |-> openTx'])
    /\ UNCHANGED <<txBak, persistenceRing, stageVars, maxBlockNumber, batchSize,
                   importVars, storeVars>>

CommitBlock ==
    /\ Collection!CommitGenesis \/ Collection!CommitBlock
    /\ txBak' = txBak \cup openTx
    /\ openTx' = {}
    /\ UNCHANGED <<nextId, complementRing, persistenceRing, stageVars, maxBlockNumber,
                   batchSize, importVars, storeVars>>

\* mutant: publishing does not wait for a free slot
ForwardEventUnbounded ==
    /\ Collection!Alive
    /\ complementRing # <<>>
    /\ complementRing' = Tail(complementRing)
    /\ persistenceRing' = Append(persistenceRing, Head(complementRing))
    /\ UNCHANGED <<collectionVars, idVars, stageVars, maxBlockNumber, batchSize,
                   importVars, storeVars>>

ForwardEvent ==
    /\ Collection!Alive
    /\ complementRing # <<>>
    /\ Len(persistenceRing) < RingSize
    /\ complementRing' = Tail(complementRing)
    /\ persistenceRing' = Append(persistenceRing, Head(complementRing))
    /\ UNCHANGED <<collectionVars, idVars, stageVars, maxBlockNumber, batchSize,
                   importVars, storeVars>>

\* mutant: the event that fills the batch is not staged itself
StageEventFillsBatch ==
    LET event == Head(persistenceRing)
    IN  /\ Collection!Alive
        /\ persistenceRing # <<>>
        /\ IF Cardinality(blockStage) + 1 < batchSize
           THEN /\ blockStage' = blockStage \cup {event.num}
                /\ transactionStage' = transactionStage \cup event.tx
                /\ maxBlockNumber' = event.num
                /\ persistenceRing' = Tail(persistenceRing)
                /\ Import!Collect
           ELSE /\ UNCHANGED <<stageVars, maxBlockNumber, persistenceRing>>
                /\ Import!Call
        /\ UNCHANGED <<collectionVars, idVars, complementRing, batchSize, redis, excused, refusals>>

\* PersistenceEventHandler stages the event; below the batch size it returns.
StageEvent ==
    LET event == Head(persistenceRing)
    IN  /\ Collection!Alive
        /\ persistenceRing # <<>>
        /\ blockStage' = blockStage \cup {event.num}
        /\ transactionStage' = transactionStage \cup event.tx
        /\ IF Cardinality(blockStage') < batchSize
           THEN /\ Import!Collect
                /\ maxBlockNumber' = event.num
                /\ persistenceRing' = Tail(persistenceRing)
           ELSE /\ Import!Call
                /\ UNCHANGED <<maxBlockNumber, persistenceRing>>
        /\ UNCHANGED <<collectionVars, idVars, complementRing, batchSize, redis, excused, refusals>>

\* One service builds its bulk request from the staged set and gets it through.
EsSave(s) ==
    /\ Collection!Alive
    /\ UNCHANGED <<collectionVars, idVars, complementRing, persistenceRing, stageVars,
                   maxBlockNumber, batchSize, redis, excused, refusals>>
    /\ Import!Save(s)

\* ES refuses some items of the bulk request; nobody looks at the BulkResponse.
EsSaveRefused(s) ==
    /\ Collection!Alive
    /\ s \in pending
    /\ refusals < MaxRefusal
    /\ refusals' = refusals + 1
    /\ pending' = pending \ {s}
    /\ \E refused \in SUBSET Stage[s] \ {{}} :
          /\ es' = Import!AddDocs(Stage[s] \ refused, s)
          /\ excused' = [excused EXCEPT ![s] = @ \cup refused]
    /\ UNCHANGED <<collectionVars, idVars, complementRing, persistenceRing, stageVars,
                   maxBlockNumber, batchSize, import, late, redis>>

\* A service of an earlier import gets through at last: it reads the shared
\* set as it is now.
LateSave(s) ==
    /\ Collection!Alive
    /\ UNCHANGED <<collectionVars, idVars, complementRing, persistenceRing, stageVars,
                   maxBlockNumber, batchSize, redis, excused, refusals>>
    /\ Import!LateSave(s)

\* The latch has counted six of the seven services.
EsReturns ==
    /\ Collection!Alive
    /\ UNCHANGED <<collectionVars, idVars, complementRing, persistenceRing, stageVars,
                   maxBlockNumber, batchSize, redis, excused, refusals>>
    /\ Import!Return

\* The Redis import returns, the shared sets are cleared, the event is done.
RedisImport ==
    /\ Collection!Alive
    /\ redis' = redis \cup blockStage
    /\ excused' = [s \in Services |-> excused[s] \cup (IF s \in pending THEN Stage[s] ELSE {})]
    /\ blockStage' = {}
    /\ transactionStage' = {}
    /\ Import!Clear
    /\ maxBlockNumber' = Head(persistenceRing).num
    /\ persistenceRing' = Tail(persistenceRing)
    /\ UNCHANGED <<collectionVars, idVars, complementRing, batchSize, refusals>>

\* BatchSizeAdjustTask, every 30 seconds while AppStatus is RUNNING.
BatchSizeAdjust ==
    /\ Collection!Alive
    /\ batchSize' = IF chainHead - maxBlockNumber < Gap THEN CatchUpSize ELSE BehindSize
    /\ UNCHANGED <<collectionVars, idVars, complementRing, persistenceRing, stageVars,
                   maxBlockNumber, importVars, storeVars>>

\* The bulk requests in flight when the process dies.
InFlight(s) ==
    CASE agent = "post"            -> SyncData[s]
      [] s \in pending \cup late   -> Stage[s]
      [] OTHER                     -> {}

\* ES applies a bulk request item by item: the newest may land, older ones not.
Torn(docs, landed) == {d \in docs \ landed : \E n \in landed : d < n}

Crash ==
    /\ Collection!Crash
    /\ \E blocks \in SUBSET InFlight("block"), txs \in SUBSET InFlight("tx") :
          LET landed == [block |-> blocks, tx |-> txs]
          IN  /\ es' = [s \in Services |-> es[s] \cup landed[s]]
              /\ excused' = [s \in Services |-> excused[s] \cup Torn(InFlight(s), landed[s])]
    /\ openTx' = {}
    /\ complementRing' = <<>>
    /\ persistenceRing' = <<>>
    /\ blockStage' = {}
    /\ transactionStage' = {}
    /\ maxBlockNumber' = 0
    /\ batchSize' = BehindSize
    /\ import' = "idle"
    /\ pending' = {}
    /\ late' = {}
    /\ UNCHANGED <<nextId, txBak, redis, refusals>>

Next ==
    \/ CollectionOnly
    \/ PostSucceeds
    \/ PostFails
    \/ AttemptFails
    \/ PublishBlock
    \/ CommitBlock
    \/ ForwardEvent
    \/ StageEvent
    \/ \E s \in Services : EsSave(s) \/ EsSaveRefused(s) \/ LateSave(s)
    \/ EsReturns
    \/ RedisImport
    \/ BatchSizeAdjust
    \/ Crash

Spec == Init /\ [][Next]_vars

\* Every handler has a thread of its own and the operator restarts a dead
\* process; nothing makes the chain grow or the 30-second task run.
Fairness ==
    /\ WF_vars(CollectionOnly /\ Collection!Boot)
    /\ SF_vars(PostSucceeds)
    /\ WF_vars(CollectionOnly /\ Collection!CollectBlock)
    /\ WF_vars(CollectionOnly /\ Collection!HandleBlock)
    /\ WF_vars(PublishBlock)
    /\ WF_vars(CommitBlock)
    /\ WF_vars(ForwardEvent)
    /\ WF_vars(StageEvent)
    /\ \A s \in Services : WF_vars(EsSave(s))
    /\ WF_vars(EsReturns)
    /\ WF_vars(RedisImport)

FairSpec == Spec /\ Fairness
-----------------------------------------------------------------------------
Nums(ring) == {ring[i].num : i \in DOMAIN ring}
Ids(ring)  == UNION {ring[i].tx : i \in DOMAIN ring}
Docs(d)    == [block : SUBSET d.block, tx : SUBSET d.tx]

TypeOK ==
    /\ nextId \in Nat \ {0}
    /\ openTx \subseteq 1 .. nextId - 1
    /\ txBak \subseteq 1 .. nextId - 1
    /\ \A ring \in {complementRing, persistenceRing} :
          /\ Len(ring) <= RingSize
          /\ Nums(ring) \subseteq Blocks
          /\ Ids(ring) \subseteq 1 .. nextId - 1
    /\ blockStage \subseteq Blocks
    /\ transactionStage \subseteq 1 .. nextId - 1
    /\ maxBlockNumber \in Blocks
    /\ batchSize \in {CatchUpSize, BehindSize}
    /\ import \in {"idle", "waiting", "returned"}
    /\ pending \subseteq Services
    /\ late \subseteq Services
    /\ es \in Docs([block |-> Blocks, tx |-> 1 .. nextId - 1])
    /\ excused \in Docs([block |-> Blocks, tx |-> 1 .. nextId - 1])
    /\ redis \subseteq Blocks
    /\ refusals \in 0..MaxRefusal

(***************************************************************************)
(* Self-check safety.  The self-check looks only above the newest document *)
(* of ES, so a hole below it stays for ever.  Whatever the interleaving of *)
(* handlers, import threads, crashes and restarts, a committed block or    *)
(* row that ES does not hold lies above the newest document, unless the    *)
(* block was given up on, is the genesis block, or an ES fault took it.    *)
(***************************************************************************)
HolesAboveNewest ==
    /\ \A b \in 1..curNumber :
          b \in es.block \cup dropped \cup excused.block \/ b > Newest(es.block)
    /\ \A id \in txBak :
          id \in es.tx \cup excused.tx \/ id > Newest(es.tx)

(***************************************************************************)
(* Nothing committed leaves the pipeline before ES has it: while the agent *)
(* is up, what MySQL has and ES lacks is staged or on its way to the       *)
(* staging area (CollectionEventHandler publishes before it commits).      *)
(***************************************************************************)
CommittedIsIndexedOrStaged ==
    Collection!Alive =>
        /\ 1..curNumber \subseteq es.block \cup dropped \cup excused.block \cup blockStage
                                   \cup Nums(persistenceRing) \cup Nums(complementRing)
        /\ txBak \subseteq es.tx \cup excused.tx \cup transactionStage
                            \cup Ids(persistenceRing) \cup Ids(complementRing)

(***************************************************************************)
(* MySQL is the authority: because of publish-before-commit ES may show a  *)
(* block MySQL does not have, but only the one block whose transaction was *)
(* open, however often the process died there (if no block was dropped).   *)
(***************************************************************************)
EsAheadByOneBlock ==
    dropped = {} =>
        es.block \cup Nums(persistenceRing) \subseteq 0 .. Max({curNumber, 0}) + 1

(***************************************************************************)
(* No step takes a document out of ES or a row out of n_tx_bak, and the    *)
(* committed height never goes back, not even over a crash and restart.    *)
(***************************************************************************)
StoresOnlyGrow ==
    [][/\ curNumber' >= curNumber
       /\ txBak \subseteq txBak'
       /\ \A s \in Services : es[s] \subseteq es'[s]]_vars

(***************************************************************************)
(* A block reaches ES once enough blocks follow it to fill its batch (or a *)
(* restart imports it), unless the collection loop was left or a lost      *)
(* commit wedged the handler; a last partial batch may wait for ever.      *)
(***************************************************************************)
FullBatchIsIndexed ==
    \A b \in 1..MaxBlock :
        (chainHead >= b + BehindSize - 1)
            ~> \/ b \in es.block \cup excused.block
               \/ agent = "stopped"
               \/ transaction = "wedged"

(***************************************************************************)
(* ConsistencyService.post: "检查es、redis中的区块高度和交易序号是否和mysql数据库 *)
(* 一致，以mysql的数据为准" (check that the heights in ES and Redis agree with *)
(* MySQL, MySQL being the authority).  After it the Redis cache holds      *)
(* every committed block (of a chain shorter than the cache is cut to).    *)
(***************************************************************************)
SelfCheckCoversRedis ==
    [][Collection!PostSucceeds => 1..curNumber \subseteq redis']_vars
=============================================================================
