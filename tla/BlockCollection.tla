-------------------------- MODULE BlockCollection --------------------------
(***************************************************************************)
(* From the chain to MySQL: the collection loop of AgentApplication.run,   *)
(* the Block and Collection rings with their single-threaded handlers, and *)
(* the MySQL transaction CollectionEventHandler runs per block.  The event *)
(* for the next ring is published inside that transaction, before it       *)
(* commits.  The process may crash between any two steps; a restart takes  *)
(* the collection up again behind network_stat.cur_number.                 *)
(*                                                                         *)
(* A slot of a ring is freed when its handler returns, so an event stays   *)
(* at the head of its ring while it is handled.                            *)
(***************************************************************************)
EXTENDS Integers, Sequences

CONSTANTS
    MaxBlock,       \* bound: the highest block of the model's chain
    RingSize,       \* slots of a Disruptor ring
    FaultyBlocks,   \* blocks whose receipts the node may fail to serve
    Faults,         \* which environment faults may happen
    MaxFault,       \* bound: how many of them
    MaxCrash        \* bound: how often the process dies with its handlers at work

FaultKinds == {"rollback", "commit", "main", "lists"}

ASSUME CollectionAssumption ==
    /\ MaxBlock \in Nat
    /\ RingSize \in Nat \ {0}
    /\ FaultyBlocks \subseteq 1..MaxBlock      \* genesis has no receipts to miss
    /\ Faults \subseteq FaultKinds
    /\ MaxFault \in Nat
    /\ MaxCrash \in Nat

VARIABLES
    chainHead,      \* the latest block of the chain (platonBlockNumber)
    agent,          \* "down", "post" (self-check), "running", "stopped" (loop left)
    collected,      \* collectedNumber of AgentApplication.run
    blockRing,      \* Block ring: block numbers, oldest first
    collectionRing, \* Collection ring: block numbers, oldest first
    transaction,    \* of CollectionEventHandler: "none", "published" (not committed), "wedged" (no retry can succeed)
    curNumber,      \* network_stat.cur_number, the committed height
    applied,        \* history: how many committed transactions applied each block above genesis
    dropped,        \* history: the blocks recover() of BlockEventHandler gave up on
    faults,         \* history: faults so far
    crashes         \* history: crashes so far

ringVars   == <<blockRing, collectionRing>>
mysqlVars  == <<curNumber, applied>>
budgetVars == <<faults, crashes>>
vars == <<chainHead, agent, collected, ringVars, transaction, mysqlVars, dropped, budgetVars>>

Blocks  == 0..MaxBlock
Counted == 1..MaxBlock     \* the blocks with statistics
Alive == agent \in {"running", "stopped"}    \* the handler threads are running

Fault(kind) ==
    /\ kind \in Faults
    /\ faults < MaxFault
    /\ faults' = faults + 1

-----------------------------------------------------------------------------
\* InitializationService.init on an empty database inserts network_stat with
\* cur_number -1; every later start finds the committed height there.
Init ==
    /\ chainHead = 0
    /\ agent = "down"
    /\ collected = -1
    /\ blockRing = <<>>
    /\ collectionRing = <<>>
    /\ transaction = "none"
    /\ curNumber = -1
    /\ applied = [b \in Counted |-> 0]
    /\ dropped = {}
    /\ faults = 0
    /\ crashes = 0

ChainGrows ==
    /\ chainHead < MaxBlock
    /\ chainHead' = chainHead + 1
    /\ UNCHANGED <<agent, collected, ringVars, transaction, mysqlVars, dropped, budgetVars>>

\* mutant: a restart goes on where the dead process was, not at cur_number
BootFromMemory ==
    /\ agent = "down"
    /\ chainHead > 0
    /\ agent' = "post"
    /\ UNCHANGED <<chainHead, collected, ringVars, transaction, mysqlVars, dropped, budgetVars>>

\* zeroBlockNumberWait, then InitializationService.init.
Boot ==
    /\ agent = "down"
    /\ chainHead > 0
    /\ agent' = "post"
    /\ collected' = curNumber
    /\ UNCHANGED <<chainHead, ringVars, transaction, mysqlVars, dropped, budgetVars>>

\* ConsistencyService.post returned: AppStatus becomes RUNNING.
PostSucceeds ==
    /\ agent = "post"
    /\ agent' = "running"
    /\ UNCHANGED <<chainHead, collected, ringVars, transaction, mysqlVars, dropped, budgetVars>>

\* post threw: run() throws out of the application runner and the process ends.
PostFails ==
    /\ agent = "post"
    /\ agent' = "down"
    /\ UNCHANGED <<chainHead, collected, ringVars, transaction, mysqlVars, dropped, budgetVars>>

\* mutant: the ring overwrites instead of blocking the publisher
CollectBlockUnbounded ==
    /\ agent = "running"
    /\ collected < chainHead
    /\ collected' = collected + 1
    /\ blockRing' = Append(blockRing, collected + 1)
    /\ UNCHANGED <<chainHead, agent, collectionRing, transaction, mysqlVars, dropped, budgetVars>>

\* mutant: checkBlockNumber waits for the block after the next one
CollectBlockBehind ==
    /\ agent = "running"
    /\ collected < chainHead - 1
    /\ Len(blockRing) < RingSize
    /\ collected' = collected + 1
    /\ blockRing' = Append(blockRing, collected + 1)
    /\ UNCHANGED <<chainHead, agent, collectionRing, transaction, mysqlVars, dropped, budgetVars>>

\* One iteration of the collection loop; publishEvent waits for a free slot.
CollectBlock ==
    /\ agent = "running"
    /\ collected < chainHead
    /\ Len(blockRing) < RingSize
    /\ collected' = collected + 1
    /\ blockRing' = Append(blockRing, collected + 1)
    /\ UNCHANGED <<chainHead, agent, collectionRing, transaction, mysqlVars, dropped, budgetVars>>

\* An exception in the loop (getEpochMessage writes block_node to MySQL) leaves
\* it for good; the process and the handlers go on.
LoopBreaks ==
    /\ agent = "running"
    /\ Fault("main")
    /\ agent' = "stopped"
    /\ UNCHANGED <<chainHead, collected, ringVars, transaction, mysqlVars, dropped, crashes>>

HandleBlock ==
    /\ Alive
    /\ blockRing # <<>>
    /\ Len(collectionRing) < RingSize
    /\ blockRing' = Tail(blockRing)
    /\ collectionRing' = Append(collectionRing, Head(blockRing))
    /\ UNCHANGED <<chainHead, agent, collected, transaction, mysqlVars, dropped, budgetVars>>

\* The analysis failed reTryNum times on the same completed futures and
\* recover() swallows the exception: the ring moves on without the block.
RecoverBlock ==
    /\ Alive
    /\ blockRing # <<>>
    /\ Head(blockRing) \in FaultyBlocks
    /\ blockRing' = Tail(blockRing)
    /\ dropped' = dropped \cup {Head(blockRing)}
    /\ UNCHANGED <<chainHead, agent, collected, collectionRing, transaction, mysqlVars, budgetVars>>

\* mutant: exec without @Transactional, the failed attempt's writes stay
AttemptFailsHalfWritten ==
    /\ Alive
    /\ transaction = "none"
    /\ collectionRing # <<>>
    /\ Fault("rollback")
    /\ Head(collectionRing) # 0
    /\ applied' = [applied EXCEPT ![Head(collectionRing)] = @ + 1]
    /\ UNCHANGED <<chainHead, agent, collected, ringVars, transaction, curNumber, dropped, crashes>>

\* mutant: bounded retries with a recover() that swallows the exception
AttemptFailsGivesUp ==
    /\ Alive
    /\ transaction = "none"
    /\ collectionRing # <<>>
    /\ Fault("rollback")
    /\ collectionRing' = Tail(collectionRing)
    /\ UNCHANGED <<chainHead, agent, collected, blockRing, transaction, mysqlVars, dropped, crashes>>

\* An attempt fails before publish: its transaction is rolled back and the
\* event, still whole, is tried again without end.
AttemptFails ==
    /\ Alive
    /\ transaction = "none"
    /\ collectionRing # <<>>
    /\ Fault("rollback")
    /\ UNCHANGED <<chainHead, agent, collected, ringVars, transaction, mysqlVars, dropped, crashes>>

\* The attempt succeeds up to complementEventPublisher.publish and releaseRef.
PublishBlock ==
    /\ Alive
    /\ transaction = "none"
    /\ collectionRing # <<>>
    /\ transaction' = "published"
    /\ UNCHANGED <<chainHead, agent, collected, ringVars, mysqlVars, dropped, budgetVars>>

\* Block 0: StatisticService returns before the statistics, cur_number among
\* them, are written.
CommitGenesis ==
    /\ Alive
    /\ transaction = "published"
    /\ Head(collectionRing) = 0
    /\ transaction' = "none"
    /\ collectionRing' = Tail(collectionRing)
    /\ UNCHANGED <<chainHead, agent, collected, blockRing, mysqlVars, dropped, budgetVars>>

CommitBlock ==
    /\ Alive
    /\ transaction = "published"
    /\ Head(collectionRing) # 0
    /\ transaction' = "none"
    /\ curNumber' = Head(collectionRing)
    /\ applied' = [applied EXCEPT ![Head(collectionRing)] = @ + 1]
    /\ collectionRing' = Tail(collectionRing)
    /\ UNCHANGED <<chainHead, agent, collected, blockRing, dropped, budgetVars>>

\* The commit itself fails: the event's references are gone, so each of the
\* endless retries fails on a null block and the handler never gets past it.
CommitFails ==
    /\ Alive
    /\ transaction = "published"
    /\ Fault("commit")
    /\ transaction' = "wedged"
    /\ UNCHANGED <<chainHead, agent, collected, ringVars, mysqlVars, dropped, crashes>>

\* The event's list of validators or verifiers is empty at an epoch change
\* (EpochLists says when): each of the endless retries fails on it again.
AnalysisStuck ==
    /\ Alive
    /\ "lists" \in Faults
    /\ transaction = "none"
    /\ collectionRing # <<>>
    /\ transaction' = "wedged"
    /\ UNCHANGED <<chainHead, agent, collected, ringVars, mysqlVars, dropped, budgetVars>>

\* The process dies: rings and open transaction are gone, MySQL stays.
Crash ==
    /\ agent # "down"
    /\ IF Alive THEN crashes < MaxCrash /\ crashes' = crashes + 1
                ELSE UNCHANGED crashes
    /\ agent' = "down"
    /\ blockRing' = <<>>
    /\ collectionRing' = <<>>
    /\ transaction' = "none"
    /\ UNCHANGED <<chainHead, collected, mysqlVars, dropped, faults>>

Next ==
    \/ ChainGrows
    \/ Boot
    \/ PostSucceeds
    \/ PostFails
    \/ CollectBlock
    \/ LoopBreaks
    \/ HandleBlock
    \/ RecoverBlock
    \/ AttemptFails
    \/ PublishBlock
    \/ CommitGenesis
    \/ CommitBlock
    \/ CommitFails
    \/ AnalysisStuck
    \/ Crash

Spec == Init /\ [][Next]_vars

\* Every handler has a thread of its own and the operator restarts a dead
\* process; a failing self-check is transient (receipts are served again).
\* Nothing makes the chain grow.
Fairness ==
    /\ WF_vars(Boot)
    /\ SF_vars(PostSucceeds)
    /\ WF_vars(CollectBlock)
    /\ WF_vars(HandleBlock)
    /\ WF_vars(PublishBlock)
    /\ WF_vars(CommitGenesis)
    /\ WF_vars(CommitBlock)

FairSpec == Spec /\ Fairness
-----------------------------------------------------------------------------
TypeOK ==
    /\ chainHead \in Blocks
    /\ agent \in {"down", "post", "running", "stopped"}
    /\ collected \in Blocks \cup {-1}
    /\ blockRing \in Seq(Blocks)
    /\ collectionRing \in Seq(Blocks)
    /\ Len(blockRing) <= RingSize
    /\ Len(collectionRing) <= RingSize
    /\ transaction \in {"none", "published", "wedged"}
    /\ curNumber \in Blocks \cup {-1}
    /\ applied \in [Counted -> Nat]
    /\ dropped \subseteq Blocks
    /\ faults \in 0..MaxFault
    /\ crashes \in 0..MaxCrash

\* Rings and transaction belong to a running process, the transaction to the
\* event at the head of the Collection ring.
DownIsEmpty ==
    /\ ~Alive => blockRing = <<>> /\ collectionRing = <<>> /\ transaction = "none"
    /\ transaction # "none" => collectionRing # <<>>

\* The Collection ring holds blocks above the committed height, the Block ring
\* blocks above those, both in chain order.
InChainOrder ==
    /\ curNumber <= collected
    /\ \A i \in 1..Len(collectionRing) :
          /\ curNumber < collectionRing[i]
          /\ collectionRing[i] <= collected
          /\ \A j \in 1..Len(collectionRing) : i < j => collectionRing[i] < collectionRing[j]
          /\ \A j \in 1..Len(blockRing) : collectionRing[i] < blockRing[j]
    /\ \A i \in 1..Len(blockRing) :
          /\ curNumber < blockRing[i]
          /\ blockRing[i] <= collected
          /\ \A j \in 1..Len(blockRing) : i < j => blockRing[i] < blockRing[j]

\* What was collected above genesis and is not committed is in a ring, or was
\* given up on.
NothingLostInRings ==
    /\ dropped \subseteq FaultyBlocks
    /\ agent # "down" =>
          \A n \in curNumber + 1 .. collected :
             \/ \E i \in 1..Len(collectionRing) : collectionRing[i] = n
             \/ \E i \in 1..Len(blockRing) : blockRing[i] = n
             \/ n \in dropped
             \/ n = 0

(***************************************************************************)
(* The rings between chain and MySQL: whatever handlers retry, give up on  *)
(* or lose in a crash, a collected block that is not committed is in       *)
(* exactly one of them, in chain order, or was given up on.                *)
(***************************************************************************)
RingInvariant ==
    /\ DownIsEmpty
    /\ InChainOrder
    /\ NothingLostInRings

(***************************************************************************)
(* Exactly once.  A block is applied to the statistics at most once, over  *)
(* retries, crashes and restarts; none above the committed height is; and  *)
(* every block up to it is, unless recover() of BlockEventHandler gave up  *)
(* on it.                                                                  *)
(***************************************************************************)
AppliedExactlyOnce ==
    \A b \in Counted :
        /\ b > curNumber => applied[b] = 0
        /\ b <= curNumber => applied[b] = 1 \/ (applied[b] = 0 /\ b \in dropped)

(***************************************************************************)
(* Collection implements the ledger: the blocks are applied in the order   *)
(* of the chain and only a faulty one can be passed over.                  *)
(***************************************************************************)
Ledger == INSTANCE BlockLedger

ImplementsLedger == Ledger!Spec

(***************************************************************************)
(* Every block of the chain is applied to MySQL sooner or later, over      *)
(* rollbacks, crashes and restarts: unless BlockEventHandler gave up on    *)
(* it, the collection loop was left, or a lost commit or an empty list of  *)
(* validators wedged the handler.                                          *)
(***************************************************************************)
EveryBlockApplied ==
    \A b \in Counted :
        (chainHead >= b) ~> \/ curNumber >= b
                            \/ b \in dropped
                            \/ agent = "stopped"
                            \/ transaction = "wedged"
=============================================================================
