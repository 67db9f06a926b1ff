------------------------------ MODULE EsImport ------------------------------
(***************************************************************************)
(* EsImportService.batchImport as PersistenceEventHandler calls it, batch  *)
(* after batch.  Seven services save one batch of documents each, on a     *)
(* pool of threads; the caller waits on a latch of SERVICE_COUNT.  Three   *)
(* of them read the caller's own sets (blockStage, transactionStage,       *)
(* delegationRewardStage), which the caller clears when batchImport has    *)
(* returned; the other four read sets built for this one call.             *)
(*                                                                         *)
(* A save that ES fails throws a BusinessException and is retried by the   *)
(* service itself without end, so a failure is a save that takes long and  *)
(* isRetry is never set.                                                   *)
(***************************************************************************)
EXTENDS Integers, Sequences, FiniteSets, FiniteSetsExt

CONSTANTS
    Shared,         \* the services that read the caller's sets
    Own,            \* the services that read a set of their own
    ServiceCount,   \* SERVICE_COUNT: size of the pool and of the latch
    MaxBatch        \* bound: batches imported

Services == Shared \cup Own

ASSUME ImportAssumption ==
    /\ IsFiniteSet(Shared) /\ IsFiniteSet(Own)
    /\ Shared \cap Own = {}
    /\ ServiceCount \in Nat \ {0}
    /\ MaxBatch \in Nat

VARIABLES
    batch,      \* number of the latest batch; it stands for its documents
    stage,      \* the batches whose documents are in the caller's sets
    caller,     \* "idle", "waiting" on the latch, "returned"
    latch,      \* count of the latest call's latch
    queue,      \* tasks [svc, batch] submitted and waiting for a thread
    running,    \* tasks on a thread
    saved       \* pairs <<svc, batch>> in Elasticsearch

vars == <<batch, stage, caller, latch, queue, running, saved>>

Tasks == [svc : Services, batch : 1..MaxBatch]

Init ==
    /\ batch = 0
    /\ stage = {}
    /\ caller = "idle"
    /\ latch = 0
    /\ queue = <<>>
    /\ running = {}
    /\ saved = {}

\* The order in which batchImportInner submits the services is immaterial to
\* what can be lost: any order that starts with the shared ones.
SubmitOrder ==
    CHOOSE order \in [1..Cardinality(Services) -> Services] :
        /\ {order[i] : i \in 1..Cardinality(Shared)} = Shared
        /\ {order[i] : i \in DOMAIN order} = Services

\* The handler has staged a batch and calls batchImport.
BatchImport ==
    /\ caller = "idle"
    /\ batch < MaxBatch
    /\ batch' = batch + 1
    /\ stage' = {batch + 1}
    /\ caller' = "waiting"
    /\ latch' = ServiceCount
    /\ queue' = queue \o [i \in DOMAIN SubmitOrder |-> [svc |-> SubmitOrder[i], batch |-> batch + 1]]
    /\ UNCHANGED <<running, saved>>

\* A pool thread takes the oldest task.
Start ==
    /\ queue # <<>>
    /\ Cardinality(running) < ServiceCount
    /\ running' = running \cup {Head(queue)}
    /\ queue' = Tail(queue)
    /\ UNCHANGED <<batch, stage, caller, latch, saved>>

\* mutant: every service reads the caller's set
ReadStage(task) == stage

\* What the service finds in its set when the attempt that succeeds reads it.
Read(task) == IF task.svc \in Shared THEN stage ELSE {task.batch}

\* mutant: the latch counts on below zero
SaveUnclamped(task) ==
    /\ task \in running
    /\ running' = running \ {task}
    /\ saved' = saved \cup {<<task.svc, b>> : b \in Read(task)}
    /\ latch' = IF task.batch = batch THEN latch - 1 ELSE latch
    /\ UNCHANGED <<batch, stage, caller, queue>>

\* mutant: countDown is skipped when the set was empty
SaveUncounted(task) ==
    /\ task \in running
    /\ running' = running \ {task}
    /\ saved' = saved \cup {<<task.svc, b>> : b \in Read(task)}
    /\ latch' = IF task.batch = batch /\ latch > 0 /\ task.svc \in Shared THEN latch - 1 ELSE latch
    /\ UNCHANGED <<batch, stage, caller, queue>>

\* The attempt succeeds (or finds an empty set and returns); countDown.
Save(task) ==
    /\ task \in running
    /\ running' = running \ {task}
    /\ saved' = saved \cup {<<task.svc, b>> : b \in Read(task)}
    /\ latch' = IF task.batch = batch /\ latch > 0 THEN latch - 1 ELSE latch
    /\ UNCHANGED <<batch, stage, caller, queue>>

\* mutant: the wait ends one service early
AwaitReturnsEarly ==
    /\ caller = "waiting"
    /\ latch <= 1
    /\ caller' = "returned"
    /\ UNCHANGED <<batch, stage, latch, queue, running, saved>>

AwaitReturns ==
    /\ caller = "waiting"
    /\ latch = 0
    /\ caller' = "returned"
    /\ UNCHANGED <<batch, stage, latch, queue, running, saved>>

\* PersistenceEventHandler clears the sets it passed.
Clear ==
    /\ caller = "returned"
    /\ caller' = "idle"
    /\ stage' = {}
    /\ UNCHANGED <<batch, latch, queue, running, saved>>

Next ==
    \/ BatchImport
    \/ Start
    \/ \E task \in Tasks : Save(task)
    \/ AwaitReturns
    \/ Clear

Spec == Init /\ [][Next]_vars

\* ES answers every request in the end and a free thread takes a task.
Fairness ==
    /\ WF_vars(Start)
    /\ \A task \in Tasks : WF_vars(Save(task))
    /\ WF_vars(AwaitReturns)
    /\ WF_vars(Clear)

FairSpec == Spec /\ Fairness
-----------------------------------------------------------------------------
AtWork == running \cup {queue[i] : i \in DOMAIN queue}

TypeOK ==
    /\ batch \in 0..MaxBatch
    /\ stage \subseteq 1..MaxBatch
    /\ caller \in {"idle", "waiting", "returned"}
    /\ latch \in 0..ServiceCount
    /\ AtWork \subseteq Tasks
    /\ saved \subseteq Services \X (1..MaxBatch)

(***************************************************************************)
(* What the pipeline may rely on: when batchImport has returned, at most   *)
(* Cardinality(Services) - ServiceCount services are still at work on the  *)
(* batch, and every other one has saved it.                                *)
(***************************************************************************)
ReturnsAfterAllButOne ==
    caller = "returned" =>
        Cardinality({s \in Services : <<s, batch>> \notin saved})
            <= Cardinality(Services) - ServiceCount

(***************************************************************************)
(* A service with a set of its own loses nothing: each batch it was given  *)
(* is saved or still being saved, however late.                            *)
(***************************************************************************)
OwnSetsAreKept ==
    \A s \in Own, b \in 1..batch :
        <<s, b>> \in saved \/ [svc |-> s, batch |-> b] \in AtWork

(***************************************************************************)
(* A save that hangs on one index does not stop the import: every call of  *)
(* batchImport returns once ES answers.                                    *)
(***************************************************************************)
ImportReturns == (caller = "waiting") ~> (caller = "idle")

(***************************************************************************)
(* ConsistencyService: "一批数据入库可能MaxId先入库，此时agent停止，则会丢失数据"  *)
(* (data is lost when the agent stops in the middle of a batch).  An agent *)
(* that does not stop loses none: what is not saved is staged or at work.  *)
(***************************************************************************)
NoLossWhileRunning ==
    \A s \in Services, b \in 1..batch :
        <<s, b>> \in saved \/ b \in stage \/ [svc |-> s, batch |-> b] \in AtWork
-----------------------------------------------------------------------------
\* What the caller sees of the import: the services of the latest call that
\* are still at work, those of earlier calls, and what each index holds.
AtWorkOn(s, b) == [svc |-> s, batch |-> b] \in AtWork

Import == INSTANCE StagedImport WITH
    Services  <- Shared,
    Unawaited <- Cardinality(Services) - ServiceCount,
    call      <- caller,
    stage     <- [s \in Shared |-> stage],
    pending   <- {s \in Shared : caller # "idle" /\ AtWorkOn(s, batch)},
    late      <- {s \in Shared : \E b \in 1..batch :
                     AtWorkOn(s, b) /\ (caller = "idle" \/ b # batch)},
    docs      <- [s \in Shared |-> {b \in 1..MaxBatch : <<s, b>> \in saved}]

(***************************************************************************)
(* The pool, the queue and the latch amount to what SyncPipeline takes the *)
(* import for: the caller goes on when all but the unawaited services have *)
(* saved its sets, and a service left behind writes what it then finds in  *)
(* the set, never what it did not find there.                              *)
(***************************************************************************)
ImplementsImport == Import!Spec
=============================================================================
