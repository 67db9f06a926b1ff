----------------------------- MODULE FirstStart -----------------------------
(***************************************************************************)
(* The built-in addresses.  InitializationService.init puts them into the  *)
(* address cache when it finds network_stat empty, on the first start      *)
(* only; the MySQL transaction of block 0 stores what the cache holds.  In *)
(* between they are in memory, where the finally clause of every attempt   *)
(* at a block (addressCache.cleanAll) and the end of the process clear     *)
(* them.                                                                   *)
(***************************************************************************)
EXTENDS Integers, Sequences

CONSTANTS MaxBlock, RingSize, FaultyBlocks, Faults, MaxFault, MaxCrash

VARIABLES
    chainHead, agent, collected, blockRing, collectionRing, transaction,
    curNumber, applied, dropped, faults, crashes,
    initialised,    \* network_stat has its row
    cached,         \* the address cache holds the built-in addresses
    stored          \* MySQL holds them

Collection == INSTANCE BlockCollection

collectionVars == <<chainHead, agent, collected, blockRing, collectionRing, transaction,
                    curNumber, applied, dropped, faults, crashes>>
vars == <<collectionVars, initialised, cached, stored>>

Init ==
    /\ Collection!Init
    /\ initialised = FALSE
    /\ cached = FALSE
    /\ stored = FALSE

\* init commits the row of network_stat and fills the cache, once.
Boot ==
    /\ Collection!Boot
    /\ initialised' = TRUE
    /\ cached' = ~initialised
    /\ UNCHANGED stored

\* The attempt at block 0 stores the cache; it is written once.
CommitGenesis ==
    /\ Collection!CommitGenesis
    /\ stored' = (stored \/ cached)
    /\ cached' = FALSE
    /\ UNCHANGED initialised

\* A rolled-back attempt, a failed commit and the end of the process leave an
\* empty cache.
CacheCleared ==
    /\ \/ Collection!AttemptFails
       \/ Collection!CommitFails
       \/ Collection!PostFails
       \/ Collection!Crash
    /\ cached' = FALSE
    /\ UNCHANGED <<initialised, stored>>

CollectionOnly ==
    /\ \/ Collection!ChainGrows
       \/ Collection!PostSucceeds
       \/ Collection!CollectBlock
       \/ Collection!LoopBreaks
       \/ Collection!HandleBlock
       \/ Collection!RecoverBlock
       \/ Collection!PublishBlock
       \/ Collection!CommitBlock
    /\ UNCHANGED <<initialised, cached, stored>>

Next ==
    \/ Boot
    \/ CommitGenesis
    \/ CacheCleared
    \/ CollectionOnly

Spec == Init /\ [][Next]_vars
-----------------------------------------------------------------------------
(***************************************************************************)
(* StatisticService.analyze, for block 0: "初始化内置地址，比如内置合约等"        *)
(* (initialise the built-in addresses, such as the built-in contracts).    *)
(* When the genesis block is done, MySQL holds them.                       *)
(***************************************************************************)
GenesisStoresBuiltins == [][CommitGenesis => stored']_vars
=============================================================================
