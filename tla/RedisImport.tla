---------------------------- MODULE RedisImport ----------------------------
(***************************************************************************)
(* RedisImportService.batchImport and AbstractRedisService.save: several   *)
(* services put one batch of documents each into a sorted set of their own *)
(* and cut it down to maxItem.  They run in parallel; a failing one sets   *)
(* the shared flag isRetry, a succeeding one resets it, and the caller     *)
(* looks at the flag when all are done.                                    *)
(*                                                                         *)
(* A document is its score (a block number or a transaction seq).          *)
(***************************************************************************)
EXTENDS Integers, FiniteSets, FiniteSetsExt

CONSTANTS
    Caches,     \* the services with a sorted set (Block, Transaction, Erc20Tx, ...)
    MaxItem,    \* maxItem: what a sorted set is cut to
    BatchLen,   \* bound: documents per batch
    MaxScore,   \* bound: the newest document
    MaxFail     \* bound: how many saves fail

ASSUME RedisAssumption ==
    /\ MaxItem \in Nat \ {0}
    /\ BatchLen \in 1..MaxItem
    /\ MaxScore \in Nat
    /\ MaxFail \in Nat

VARIABLES
    newest,     \* the newest document ever imported
    data,       \* the documents of the current batch
    caller,     \* "idle", "waiting" on the latch
    pending,    \* services of the current attempt that have not finished
    isRetry,    \* whether the attempt must be repeated
    cache,      \* the sorted set of each service
    failed,     \* history: services that failed in the current attempt
    holed,      \* history: services a batch passed over, the import having returned
    failures    \* history: failed saves so far

vars == <<newest, data, caller, pending, isRetry, cache, failed, holed, failures>>

Init ==
    /\ newest = 0
    /\ data = {}
    /\ caller = "idle"
    /\ pending = {}
    /\ isRetry = FALSE
    /\ cache = [s \in Caches |-> {}]
    /\ failed = {}
    /\ holed = {}
    /\ failures = 0

\* mutant: the batch of a first self-check begins with document 0
BatchImportFromZero ==
    /\ caller = "idle"
    /\ \E first \in {newest, newest + 1}, last \in newest + 1 .. MaxScore :
          /\ last - first < BatchLen
          /\ data' = first..last
          /\ newest' = last
    /\ caller' = "waiting"
    /\ pending' = Caches
    /\ failed' = {}
    /\ UNCHANGED <<isRetry, cache, holed, failures>>

\* The next batch; the one of a self-check begins with the newest document again.
BatchImport ==
    /\ caller = "idle"
    /\ \E first \in {newest, newest + 1} \ {0}, last \in newest + 1 .. MaxScore :
          /\ last - first < BatchLen
          /\ data' = first..last
          /\ newest' = last
    /\ caller' = "waiting"
    /\ pending' = Caches
    /\ failed' = {}
    /\ UNCHANGED <<isRetry, cache, holed, failures>>

\* mutant: removeRange counts from the new end
YoungestInstead(n, docs) == {d \in docs : Cardinality({e \in docs : e > d}) < n}

Oldest(n, docs) == {d \in docs : Cardinality({e \in docs : e < d}) < n}

\* mutant: the set is never cut
SavedUncut(docs) == docs \cup data

\* The set is cut by the size it had before the batch was added;
\* removeRange(0, k) takes k + 1 members.
Saved(docs) ==
    LET count == Cardinality(docs)
        added == docs \cup data
    IN  IF count > MaxItem THEN added \ Oldest(count - MaxItem + 1, added) ELSE added

\* mutant: a succeeding service leaves the flag alone
SaveKeepsFlag(s) ==
    /\ s \in pending
    /\ pending' = pending \ {s}
    /\ cache' = [cache EXCEPT ![s] = Saved(@)]
    /\ UNCHANGED <<newest, data, caller, isRetry, failed, holed, failures>>

Save(s) ==
    /\ s \in pending
    /\ pending' = pending \ {s}
    /\ cache' = [cache EXCEPT ![s] = Saved(@)]
    /\ isRetry' = FALSE
    /\ UNCHANGED <<newest, data, caller, failed, holed, failures>>

\* Redis fails before the batch is added, or after it and before the cut.
SaveFails(s) ==
    /\ s \in pending
    /\ failures < MaxFail
    /\ failures' = failures + 1
    /\ pending' = pending \ {s}
    /\ \E docs \in {cache[s], cache[s] \cup data} :
          /\ cache' = [cache EXCEPT ![s] = docs]
          /\ failed' = IF data \subseteq docs THEN failed ELSE failed \cup {s}
    /\ isRetry' = TRUE
    /\ UNCHANGED <<newest, data, caller, holed>>

\* The latch is down and the flag is set: @Retryable calls batchImport again.
Retry ==
    /\ caller = "waiting"
    /\ pending = {}
    /\ isRetry
    /\ pending' = Caches
    /\ failed' = {}
    /\ UNCHANGED <<newest, data, caller, isRetry, cache, holed, failures>>

Return ==
    /\ caller = "waiting"
    /\ pending = {}
    /\ ~isRetry
    /\ caller' = "idle"
    /\ holed' = holed \cup failed
    /\ UNCHANGED <<newest, data, pending, isRetry, cache, failed, failures>>

Next ==
    \/ BatchImport
    \/ \E s \in Caches : Save(s) \/ SaveFails(s)
    \/ Retry
    \/ Return

Spec == Init /\ [][Next]_vars

FairSpec ==
    /\ Spec
    /\ \A s \in Caches : WF_vars(Save(s) \/ SaveFails(s))
    /\ WF_vars(Retry)
    /\ WF_vars(Return)
-----------------------------------------------------------------------------
TypeOK ==
    /\ newest \in 0..MaxScore
    /\ data \subseteq 1..MaxScore
    /\ caller \in {"idle", "waiting"}
    /\ pending \subseteq Caches
    /\ isRetry \in BOOLEAN
    /\ cache \in [Caches -> SUBSET (1..MaxScore)]
    /\ failed \subseteq Caches
    /\ holed \subseteq Caches
    /\ failures \in 0..MaxFail

(***************************************************************************)
(* A cache that no batch passed over shows an unbroken run of the newest   *)
(* documents, whatever was retried: the repeated cutting takes from the    *)
(* old end only, and never the batch just imported.                        *)
(***************************************************************************)
CacheIsRecentWindow ==
    caller = "idle" =>
        \A s \in Caches \ holed :
            cache[s] # {} => cache[s] = Min(cache[s])..newest

(***************************************************************************)
(* The lagging cut cannot let a cache grow without end: each failure costs *)
(* at most one batch over the limit, and a full cache is never cut to less *)
(* than maxItem - 1 documents, however often the batch is retried.         *)
(***************************************************************************)
CacheBounded ==
    \A s \in Caches :
        /\ Cardinality(cache[s]) <= MaxItem + (failures + 1) * BatchLen
        /\ s \notin holed \cup failed /\ newest >= MaxItem /\ caller = "idle"
              => Cardinality(cache[s]) >= MaxItem - 1

(***************************************************************************)
(* Failing saves delay the import but it returns.                          *)
(***************************************************************************)
ImportReturns == (caller = "waiting") ~> (caller = "idle")

(***************************************************************************)
(* RedisImportService.isRetry, "是否需要重试" (whether a retry is needed): the *)
(* import does not return while a service has not saved the batch.         *)
(***************************************************************************)
RetriedUntilSaved == holed = {}
=============================================================================
