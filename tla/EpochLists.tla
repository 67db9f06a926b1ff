----------------------------- MODULE EpochLists -----------------------------
(***************************************************************************)
(* Epoch changes inside the collection loop.  EpochService.getEpochMessage *)
(* runs once per block, between checkBlockNumber and the Block ring: at    *)
(* the first block of a settlement or consensus epoch it asks the node for *)
(* the validators of the previous and of the current epoch, at a consensus *)
(* epoch it also adds the round to block_node, and every block takes a     *)
(* copy of the lists along in its event.  A restart asks again, for the    *)
(* committed height.                                                       *)
(*                                                                         *)
(* The module composes with BlockCollection, whose actions the ones below  *)
(* contain.  A list stands for the epoch it belongs to; Empty is the list  *)
(* without members.  An attempt of a change reads the latest block number  *)
(* and then the lists, and the chain may grow in between.                  *)
(***************************************************************************)
EXTENDS BlockCollection

CONSTANTS
    ConsensusSize,      \* blocks of a consensus epoch (getConsensusPeriodBlockCount)
    SettleSize,         \* blocks of a settlement epoch (getSettlePeriodBlockCount)
    MaxFailedChange     \* bound: how many changes fail in all their attempts, or meet a lagging node

ASSUME EpochAssumption ==
    /\ ConsensusSize \in Nat \ {0, 1}
    /\ SettleSize \in Nat \ {0, 1}
    /\ MaxFailedChange \in Nat

VARIABLES
    step,           \* what the main thread does next: a change, "insert", "ready" to publish, "none"
    latest,         \* latestBlockNumber the running change has read, or -1
    lists,          \* EpochRetryService: the previous and the current list per kind of epoch
    reward,         \* EpochRetryService.stakeReward and blockReward, by the epoch they are of
    stale,          \* history: the kinds whose latest change failed or met a lagging node
    max,            \* EpochService.max
    blockNode,      \* table block_node: a row per round, in the order of insertion
    skipped,        \* history: the rounds that had no validators to insert
    messages,       \* what the events in the rings carry, by block
    failedChanges   \* history: failed changes so far

listVars  == <<lists, reward, stale>>
roundVars == <<max, blockNode, skipped>>
epochVars == <<step, latest, listVars, roundVars, messages, failedChanges>>
allVars   == <<vars, epochVars>>

Kinds == {"settlement", "consensus"}
Size(kind) == IF kind = "consensus" THEN ConsensusSize ELSE SettleSize

Empty == 0
NoLists == [kind \in Kinds |-> [pre |-> Empty, cur |-> Empty]]

\* EpochUtil.getEpoch and getPreEpochLastBlockNumber.
Epoch(n, kind) == IF n < 0 THEN 0 ELSE (n + Size(kind) - 1) \div Size(kind)
PreEpochLast(n, kind) == IF Epoch(n, kind) = 0 THEN 0 ELSE (Epoch(n, kind) - 1) * Size(kind)

\* prevBlockNumber is a multiple of the epoch's size; block 0 starts no epoch.
Starts(n, kind) == (n - 1) % Size(kind) = 0

\* The chain's list at block n; the genesis block has that of the first epoch.
ListAt(n, kind) == IF Epoch(n, kind) = 0 THEN 1 ELSE Epoch(n, kind)

\* What getEpochMessage does first for block n.
FirstStep(n) ==
    IF Starts(n, "settlement") THEN "settlement"
    ELSE IF Starts(n, "consensus") THEN "consensus" ELSE "ready"

\* The block a change is for: the committed one at the start, then the next one.
ChangeBlock == IF agent = "post" THEN collected ELSE collected + 1

\* What follows a change: init makes both, getEpochMessage those block n starts.
StepAfter(kind) ==
    IF kind = "consensus" THEN (IF agent = "post" THEN "ready" ELSE "insert")
    ELSE IF agent = "post" \/ Starts(ChangeBlock, "consensus") THEN "consensus" ELSE "ready"

-----------------------------------------------------------------------------
EpochInit ==
    /\ Init
    /\ step = "none"
    /\ latest = -1
    /\ lists = NoLists
    /\ reward = 0
    /\ stale = {}
    /\ max = -1
    /\ blockNode = <<>>
    /\ skipped = {}
    /\ messages = {}
    /\ failedChanges = 0

\* mutant: init leaves the lists to the next epoch change
BootWithoutLists ==
    /\ Boot
    /\ step' = "ready"
    /\ UNCHANGED <<latest, listVars, roundVars, messages, failedChanges>>

\* InitializationService.init makes both changes for the committed height
\* before the self-check.
BootLists ==
    /\ Boot
    /\ step' = "settlement"
    /\ UNCHANGED <<latest, listVars, roundVars, messages, failedChanges>>

EnterLoop ==
    /\ step = "ready"
    /\ PostSucceeds
    /\ step' = FirstStep(collected + 1)
    /\ UNCHANGED <<latest, listVars, roundVars, messages, failedChanges>>

\* checkBlockNumber has seen the block on the chain.
Changing(kind) ==
    /\ step = kind
    /\ agent = "post" \/ (agent = "running" /\ collected < chainHead)

ReadLatest(kind) ==
    /\ Changing(kind)
    /\ latest = -1
    /\ latest' = chainHead
    /\ UNCHANGED <<vars, step, listVars, roundVars, messages, failedChanges>>

\* The previous list by the history interface; the current one too when the
\* chain has left the epoch, and by the real-time interface otherwise.
ListsRead(kind, n) ==
    LET last == PreEpochLast(n, kind)
    IN  [pre |-> ListAt(last, kind),
         cur |-> IF Epoch(latest, kind) > Epoch(n, kind)
                 THEN ListAt(IF last = 0 THEN 0 ELSE last + 1, kind)
                 ELSE ListAt(chainHead, kind)]

ChangeLists(kind) ==
    /\ Changing(kind)
    /\ latest # -1
    /\ lists' = [lists EXCEPT ![kind] = ListsRead(kind, ChangeBlock)]
    /\ reward' = IF kind = "settlement" THEN ListsRead(kind, ChangeBlock).pre ELSE reward
    /\ stale' = stale \ {kind}
    /\ latest' = -1
    /\ step' = StepAfter(kind)
    /\ UNCHANGED <<vars, roundVars, messages, failedChanges>>

\* What a change leaves of the lists and the reward when all its attempts fail
\* and recover() swallows the exception: before the first list was replaced,
\* between the two, or after them on a node that lags behind and has no current
\* list.  For a settlement such a list is no error, the EpochInfo may be.
LeftBehind(kind, read) ==
    {<<lists[kind], reward>>,
     <<[lists[kind] EXCEPT !.pre = read.pre], reward>>,
     <<[read EXCEPT !.cur = Empty], reward>>}
    \cup (IF kind = "settlement"
          THEN {<<read, reward>>, <<[read EXCEPT !.cur = Empty], read.pre>>}
          ELSE {})

ChangeFails(kind) ==
    /\ Changing(kind)
    /\ latest # -1
    /\ failedChanges < MaxFailedChange
    /\ failedChanges' = failedChanges + 1
    /\ \E left \in LeftBehind(kind, ListsRead(kind, ChangeBlock)) :
          /\ lists' = [lists EXCEPT ![kind] = left[1]]
          /\ reward' = left[2]
    /\ stale' = stale \cup {kind}
    /\ latest' = -1
    /\ step' = StepAfter(kind)
    /\ UNCHANGED <<vars, roundVars, messages>>

-----------------------------------------------------------------------------
\* block_node: the round a consensus epoch is recorded under is max + 1.

Validators == lists["consensus"].cur

\* selectMaxNum: the highest recorded number, 0 without any.
SelectMaxNum ==
    LET numbers == {0} \cup {blockNode[i].number : i \in 1..Len(blockNode)}
    IN  CHOOSE m \in numbers : \A n \in numbers : n <= m

\* mutant: max starts from 0 after a restart
KnownMaxFromZero == IF max = -1 THEN 0 ELSE max

\* The static max, read from the table at the first use.
KnownMax == IF max = -1 THEN SelectMaxNum ELSE max

Inserting ==
    /\ step = "insert"
    /\ agent = "running"

\* mutant: without the comparison against the recorded rounds
RoundIsNewAlways == TRUE

RoundIsNew == collected \div ConsensusSize >= KnownMax

RecordRound ==
    /\ Inserting
    /\ Validators # Empty
    /\ RoundIsNew
    /\ max' = KnownMax + 1
    /\ blockNode' = Append(blockNode, [number |-> KnownMax + 1,
                                       round |-> Epoch(collected + 1, "consensus"),
                                       list |-> Validators])
    /\ step' = "ready"
    /\ UNCHANGED <<vars, latest, listVars, skipped, messages, failedChanges>>

\* A block collected again after a restart.
RoundWasRecorded ==
    /\ Inserting
    /\ Validators # Empty
    /\ ~RoundIsNew
    /\ max' = KnownMax
    /\ step' = "ready"
    /\ UNCHANGED <<vars, latest, listVars, blockNode, skipped, messages, failedChanges>>

\* A failed change has left no validators: nothing is inserted.
RoundWithoutValidators ==
    /\ Inserting
    /\ Validators = Empty
    /\ skipped' = skipped \cup {Epoch(collected + 1, "consensus")}
    /\ step' = "ready"
    /\ UNCHANGED <<vars, latest, listVars, max, blockNode, messages, failedChanges>>

\* batchInsert throws after max was raised: the exception leaves the loop.
BatchInsertFails ==
    /\ Inserting
    /\ Validators # Empty
    /\ RoundIsNew
    /\ LoopBreaks
    /\ max' = KnownMax + 1
    /\ step' = "none"
    /\ UNCHANGED <<latest, listVars, blockNode, skipped, messages, failedChanges>>

\* EpochMessage copies the lists; then the event goes to the Block ring.
CollectWithMessage ==
    /\ step = "ready"
    /\ CollectBlock
    /\ messages' = messages \cup {[block |-> collected + 1,
                                   lists |-> lists, reward |-> reward, stale |-> stale]}
    /\ step' = FirstStep(collected + 2)
    /\ UNCHANGED <<latest, listVars, roundVars, failedChanges>>

-----------------------------------------------------------------------------
\* What the analysis of a block in CollectionEventHandler needs of its event:
\* OnConsensusAnalyzer divides by the number of validators, OnSettleAnalyzer
\* throws without previous verifiers, but not at block 1.
Analysable(m) ==
    /\ Starts(m.block, "consensus") => m.lists["consensus"].cur # Empty
    /\ Starts(m.block, "settlement") /\ m.block # 1 => m.lists["settlement"].pre # Empty

HeadAnalysable == \A m \in messages : m.block = Head(collectionRing) => Analysable(m)

PublishAnalysed ==
    /\ PublishBlock
    /\ HeadAnalysable
    /\ UNCHANGED epochVars

\* Each of the endless retries meets the same empty list.
AnalysisNeverSucceeds ==
    /\ AnalysisStuck
    /\ ~HeadAnalysable
    /\ UNCHANGED epochVars

\* A handler is done with block b: its event lets go of the message.
Released(b) ==
    /\ messages' = {m \in messages : m.block # b}
    /\ UNCHANGED <<step, latest, listVars, roundVars, failedChanges>>

\* The lists, max and the events are memory; block_node is not.  A crash amid
\* the changes of init leaves what a crash after them leaves.
CrashLists ==
    /\ Crash
    /\ agent = "post" => step = "ready"
    /\ step' = "none"
    /\ latest' = -1
    /\ lists' = NoLists
    /\ reward' = 0
    /\ stale' = {}
    /\ max' = -1
    /\ messages' = {}
    /\ UNCHANGED <<blockNode, skipped, failedChanges>>

\* The self-check fails and the process ends.
PostFailsLists ==
    /\ PostFails
    /\ step = "ready"
    /\ step' = "none"
    /\ lists' = NoLists
    /\ reward' = 0
    /\ stale' = {}
    /\ UNCHANGED <<latest, roundVars, messages, failedChanges>>

EpochNext ==
    \/ ChainGrows /\ UNCHANGED epochVars
    \/ BootLists
    \/ EnterLoop
    \/ PostFailsLists
    \/ \E kind \in Kinds : ReadLatest(kind)
    \/ \E kind \in Kinds : ChangeLists(kind)
    \/ \E kind \in Kinds : ChangeFails(kind)
    \/ RecordRound
    \/ RoundWasRecorded
    \/ RoundWithoutValidators
    \/ BatchInsertFails
    \/ CollectWithMessage
    \/ HandleBlock /\ UNCHANGED epochVars
    \/ RecoverBlock /\ Released(Head(blockRing))
    \/ AttemptFails /\ UNCHANGED epochVars
    \/ PublishAnalysed
    \/ AnalysisNeverSucceeds
    \/ CommitGenesis /\ Released(Head(collectionRing))
    \/ CommitBlock /\ Released(Head(collectionRing))
    \/ CommitFails /\ UNCHANGED epochVars
    \/ CrashLists

EpochSpec == EpochInit /\ [][EpochNext]_allVars

\* What the main thread does between two waits for the chain or for a slot,
\* and what the handler of the Collection ring does; at most one step of each
\* is enabled at a time.
MainThread ==
    \/ \E kind \in Kinds : ReadLatest(kind)
    \/ \E kind \in Kinds : ChangeLists(kind)
    \/ RecordRound
    \/ RoundWasRecorded
    \/ RoundWithoutValidators
    \/ CollectWithMessage

CollectionThread ==
    \/ PublishAnalysed
    \/ AnalysisNeverSucceeds
    \/ CommitGenesis /\ Released(Head(collectionRing))
    \/ CommitBlock /\ Released(Head(collectionRing))

\* The fairness of BlockCollection, per thread.
EpochFairness ==
    /\ WF_allVars(BootLists)
    /\ SF_allVars(EnterLoop)
    /\ WF_allVars(MainThread)
    /\ WF_allVars(HandleBlock /\ UNCHANGED epochVars)
    /\ WF_allVars(CollectionThread)

EpochFairSpec == EpochSpec /\ EpochFairness
-----------------------------------------------------------------------------
ListPairs == [Kinds -> [pre : Nat, cur : Nat]]

ListsTypeOK ==
    /\ step \in {"none", "settlement", "consensus", "insert", "ready"}
    /\ latest \in Blocks \cup {-1}
    /\ lists \in ListPairs
    /\ reward \in Nat
    /\ stale \subseteq Kinds
    /\ max \in -1 .. Epoch(MaxBlock, "consensus")
    /\ blockNode \in Seq([number : Nat, round : Nat, list : Nat])
    /\ skipped \subseteq Nat
    /\ messages \subseteq [block : Blocks, lists : ListPairs, reward : Nat, stale : SUBSET Kinds]
    /\ failedChanges \in 0..MaxFailedChange

\* The lists are those of block n: the previous one exactly, the current one
\* not older than the block's epoch and not from the future of the chain.
FitsBlock(pair, kind, n) ==
    /\ pair.pre = ListAt(PreEpochLast(n, kind), kind)
    /\ pair.cur \in ListAt(n, kind) .. ListAt(chainHead, kind)

(***************************************************************************)
(* Every event carries the lists and the reward of its own block, however  *)
(* far the main thread has run ahead of the handlers and wherever a        *)
(* restart took up the chain, unless the change of that very epoch failed  *)
(* in all its attempts, which does not outlive the epoch.  The             *)
(* current list may be of a later epoch, never of an earlier one: the      *)
(* chain can leave the epoch between the two questions of a change.        *)
(***************************************************************************)
MessagesFit ==
    \A m \in messages :
        /\ \A kind \in Kinds \ m.stale : FitsBlock(m.lists[kind], kind, m.block)
        /\ "settlement" \notin m.stale =>
              m.reward = ListAt(PreEpochLast(m.block, "settlement"), "settlement")

(***************************************************************************)
(* block_node over failing inserts, crashes and blocks collected twice:    *)
(* its numbers are 1, 2, 3 and so on, none missing and none twice, and a   *)
(* list never stands under a number above its round.  As long as no round  *)
(* was without validators, every round up to the collected block is there  *)
(* under its own number.                                                   *)
(***************************************************************************)
RoundsRecorded ==
    /\ \A i \in 1..Len(blockNode) : blockNode[i].number = i /\ i <= blockNode[i].round
    /\ skipped = {} =>
          /\ \A i \in 1..Len(blockNode) : blockNode[i].round = i
          /\ Epoch(collected, "consensus") <= Len(blockNode)
=============================================================================
