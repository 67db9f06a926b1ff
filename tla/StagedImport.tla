---------------------------- MODULE StagedImport -----------------------------
(***************************************************************************)
(* What PersistenceEventHandler may rely on when it imports a batch into   *)
(* Elasticsearch: the services that read its sets, each with an index of   *)
(* its own, and when the call returns.  SyncPipeline is composed from the  *)
(* actions of this module; EsImport, which has the thread pool, the latch  *)
(* and the queue, implements it.                                           *)
(***************************************************************************)
EXTENDS Integers, FiniteSets

CONSTANTS
    Services,   \* the services that read the caller's sets
    Unawaited   \* how many of a call's services the caller does not wait for

VARIABLES
    call,       \* "idle", "waiting" for the services, "returned"
    stage,      \* the caller's set of each service
    pending,    \* the services at work for the latest call
    late,       \* the services at work for an earlier call
    docs        \* the index of each service

vars == <<call, stage, pending, late, docs>>

nothing == [s \in Services |-> {}]

Init ==
    /\ call = "idle"
    /\ stage = nothing
    /\ pending = {}
    /\ late = {}
    /\ docs = nothing

\* The caller adds to its sets between two calls, and last with the call.
Grows == \A s \in Services : stage[s] \subseteq stage'[s]

Collect ==
    /\ call = "idle"
    /\ Grows
    /\ UNCHANGED <<call, pending, late, docs>>

Call ==
    /\ call = "idle"
    /\ Grows
    /\ call' = "waiting"
    /\ pending' = Services
    /\ UNCHANGED <<late, docs>>

\* mutant: an import replaces the index instead of upserting into it
ReplaceDocs(found, s) == [docs EXCEPT ![s] = found]

AddDocs(found, s) == [docs EXCEPT ![s] = @ \cup found]

\* A service gets through with what it finds in its set.
Save(s) ==
    /\ s \in pending
    /\ pending' = pending \ {s}
    /\ docs' = AddDocs(stage[s], s)
    /\ UNCHANGED <<call, stage, late>>

\* A service of an earlier call gets through at last: it reads the set as it
\* is now, and may be at work for yet another call.
LateSave(s) ==
    /\ s \in late
    /\ late' \in {late, late \ {s}}
    /\ docs' = AddDocs(stage[s], s)
    /\ UNCHANGED <<call, stage, pending>>

Return ==
    /\ call = "waiting"
    /\ Cardinality(pending) <= Unawaited
    /\ call' = "returned"
    /\ UNCHANGED <<stage, pending, late, docs>>

\* The caller clears its sets; who is not done yet is late from now on.
Clear ==
    /\ call = "returned"
    /\ call' = "idle"
    /\ stage' = nothing
    /\ late' = late \cup pending
    /\ pending' = {}
    /\ UNCHANGED docs

Next ==
    \/ Collect \/ Call \/ Return \/ Clear
    \/ \E s \in Services : Save(s) \/ LateSave(s)

Spec == Init /\ [][Next]_vars
=============================================================================
