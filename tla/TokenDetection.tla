--------------------------- MODULE TokenDetection ---------------------------
(***************************************************************************)
(* How the agent recognises tokens: TransactionAnalyzer and                *)
(* ErcTokenAnalyzer on the transactions of a block, with the tables token, *)
(* token_tracker and address, the caches in memory, and the facade the     *)
(* scripts deployed.  A contract is looked at when it is created.  One     *)
(* that is not recognised goes into token_tracker and is looked at again   *)
(* at its first token event, or at once if its trigger is set.             *)
(*                                                                         *)
(* The tables belong to the transaction of the block, the caches do not: a *)
(* block that is rolled back is analysed again with the caches the failed  *)
(* attempt left.  An address may be known before the contract is created:  *)
(* it was paid, or named in a token event.  Its row then says ACCOUNT, and *)
(* StatisticsAddressAnalyzer gives no row that exists a type.              *)
(*                                                                         *)
(* All contracts here are EVM contracts (WASM contracts take part in       *)
(* nothing below but their creation).                                      *)
(***************************************************************************)
EXTENDS FacadeScripts, SequencesExt

CONSTANTS
    Contracts,      \* contracts that appear on the agent's network
    Profiles,       \* what a contract may be, see ErcDetection
    AgentNetwork,   \* the network the agent follows
    MaxBlock,       \* bound: blocks the agent analyses
    MaxTx,          \* bound: transactions of a block
    MaxFault,       \* bound: detections the node spoils
    MaxFail,        \* bound: attempts that fail and crashes
    MaxBefore       \* bound: creations on the chains when the agent starts

ASSUME DetectionAssumption ==
    /\ IsFiniteSet(Contracts)
    /\ Profiles \subseteq Contract
    /\ AgentNetwork \in Networks
    /\ {MaxBlock, MaxTx, MaxFault, MaxFail, MaxBefore} \subseteq Nat

VARIABLES
    stage,      \* "off", "idle" between blocks, or "block"
    config,     \* detectContractAddress, detectContractBlockNumber
    block,      \* number of the block at work, or of the last one
    content,    \* its transactions, taken apart
    todo,       \* what is left of them in this attempt
    code,       \* what each contract is at the end of that block
    rows,       \* tables token, token_tracker and address in this transaction, and
                \* history: contracts given up, created, and created after their
                \* address was known
    saved,      \* the same as committed
    types,      \* GENERAL_CONTRACT_ADDRESS_2_TYPE_MAP
    tokens,     \* ErcCache: the types in whose address cache a contract is
    evm,        \* AddressCache.evmContractAddressCache
    pending,    \* AddressCache.addressMap: addresses met in this block
    creations,  \* type of the transaction that created a contract of this block
    faults,     \* detections spoiled so far
    spoiled,    \* history: contracts whose detection was spoiled in this attempt
    fails,      \* failed attempts and crashes so far
    stale,      \* history: what a rolled back attempt left in ErcCache
    unseen      \* history: a block whose facade call found no facade

tables == <<rows, saved>>
caches == <<types, tokens, evm, pending, creations>>
work == <<stage, config, block, content, todo, code>>
counters == <<faults, spoiled, fails, stale, unseen>>
agent == <<tables, caches, work, counters>>
vars == <<scripts, agent>>

none == [c \in Contracts |-> "none"]
NotCreated == Account

AgentInit ==
    /\ stage = "off"
    /\ config = [address |-> QueryAddress, number |-> 0]
    /\ block = 0
    /\ content = <<>>
    /\ todo = <<>>
    /\ code = [c \in Contracts |-> NotCreated]
    /\ rows = [token |-> none, tracker |-> none, address |-> none,
               dropped |-> {}, created |-> {}, early |-> {}]
    /\ saved = rows
    /\ types = none
    /\ tokens = [c \in Contracts |-> {}]
    /\ evm = {}
    /\ pending = {}
    /\ creations = none
    /\ faults = 0
    /\ spoiled = {}
    /\ fails = 0
    /\ stale = {}
    /\ unseen = FALSE

\* The operator reads the address of the facade off a deployment that ended
\* well and looks up the height it was mined at (environment).
StartAgent ==
    /\ stage = "off"
    /\ script.name = "deploy" /\ script.contract = "PScanQueryFacade" /\ script.exit = 0
    /\ script.net = AgentNetwork
    /\ \A net \in Networks :
          Len(sent[net]) <= IF net = AgentNetwork THEN MaxBefore ELSE 0
    /\ script.printed[1].nonce <= Len(born[AgentNetwork])
    /\ config' = [address |-> script.printed[1],
                  number |-> born[AgentNetwork][script.printed[1].nonce]]
    /\ stage' = "idle"
    /\ script' = Idle
    /\ UNCHANGED <<runs, sent, born, height, tables, caches, block, content, todo, code,
                   counters>>
-----------------------------------------------------------------------------
\* A transaction taken apart: a contract it creates itself or through another
\* contract, token events of one contract, and its type if it is a creation; or
\* an address its events name.  A payment names one at the end of the block.
Transactions ==
    UNION {{ <<<<"create", c>>, <<"type", c>>>>,
             <<<<"create", c>>, <<"event", c>>, <<"type", c>>>>,
             <<<<"create", c>>>>,
             <<<<"event", c>>>>,
             <<<<"collect", c>>>> } : c \in Contracts}

Contents == {FlattenSeq(txs) : txs \in UNION {[1..n -> Transactions] : n \in 0..MaxTx}}

\* The contracts created in the blocks before; one that destroyed itself is
\* still among them, without code, and is not created again.
Created == saved.created

\* What a chain can produce: a contract is created once and before its events.
\* Addresses are met at any time; those of committed contracts, which have their
\* row, are left out, as nothing comes of it.
Possible(steps) ==
    \A i \in 1..Len(steps) :
        /\ steps[i][1] = "create" =>
              /\ steps[i][2] \notin Created
              /\ \A j \in 1 .. i - 1 : steps[j] # steps[i]
        /\ steps[i][1] = "event" =>
              steps[i][2] \in Created \/ \E j \in 1 .. i - 1 : steps[j] = <<"create", steps[i][2]>>
        /\ steps[i][1] = "collect" => steps[i][2] \notin Created

\* The addresses of listNeedTrackerAddress.
Triggered == SetToSeq({<<"now", c>> : c \in {d \in Contracts : saved.tracker[d] = "now"}})

\* A block arrives; a proxy may have become another contract since, and a
\* contract may have destroyed itself.
NextBlock ==
    /\ stage = "idle"
    /\ block < MaxBlock
    /\ block' = block + 1
    /\ stage' = "block"
    /\ \E steps \in Contents :
          /\ Possible(steps)
          /\ content' = steps
          /\ todo' = Triggered \o steps
          /\ \E now \in [Contracts -> Profiles] :
                code' = [c \in Contracts |->
                    IF c \in Created \/ \E i \in 1..Len(steps) : steps[i] = <<"create", c>>
                    THEN now[c] ELSE NotCreated]
    /\ UNCHANGED <<scripts, config, tables, caches, counters>>

\* mutant: the facade is asked about every block
UsesFacadeAlways == TRUE

UsesFacade == block > config.number

\* getContractId on the state at the end of the block; "failed" stands for an
\* exception and for the null of recover after three timeouts.
DetectionOf(c) ==
    IF UsesFacade /\ (FacadeFails(code[c])
                      \/ CodeAt(AgentNetwork, config.address, block) # "PScanQueryFacade")
    THEN "failed"
    ELSE DetectedType(code[c])

\* A timeout fails a detection; without the facade, an answer that is an error
\* of another kind reads as something the contract does not have.
Spoiled(c) == IF UsesFacade THEN {"failed"} ELSE {"failed"} \cup Misread(code[c])

Detect(c, result) ==
    /\ \/ /\ result = DetectionOf(c)
          /\ UNCHANGED <<faults, spoiled>>
       \/ /\ faults < MaxFault
          /\ result \in Spoiled(c)
          /\ faults' = faults + 1
          /\ spoiled' = spoiled \cup {c}
    /\ unseen' = (unseen \/ (UsesFacade /\ CodeAt(AgentNetwork, config.address, block)
                                               # "PScanQueryFacade"))

\* mutant: a failing detection completes the tracker as well
ResolvedRowsFinally(c, result, isTracker) ==
    [rows EXCEPT
        !.token[c] = IF result \in TokenTypes THEN result ELSE @,
        !.tracker[c] = IF isTracker THEN "none"
                       ELSE IF result = "UNKNOWN" THEN "event"
                       ELSE @,
        !.dropped = IF result = (IF isTracker THEN "UNKNOWN" ELSE "failed")
                    THEN @ \cup {c} ELSE @]

\* resolveToken: a token gets its row, what is not recognised at its creation
\* is tracked, and a tracker that has been looked at is complete.  An
\* exception is swallowed before either.
ResolvedRows(c, result, isTracker) ==
    [rows EXCEPT
        !.token[c] = IF result \in TokenTypes THEN result ELSE @,
        !.tracker[c] = IF result = "failed" THEN @
                       ELSE IF isTracker THEN "none"
                       ELSE IF result = "UNKNOWN" THEN "event"
                       ELSE @,
        !.dropped = IF result = (IF isTracker THEN "UNKNOWN" ELSE "failed")
                    THEN @ \cup {c} ELSE @]

\* The address cache a token type stands for.
Listed(type) == {type} \cap TokenTypes

\* The caches are written with the row, and never cleared.
Cached(c, result) ==
    /\ tokens' = [tokens EXCEPT ![c] = @ \cup Listed(result)]
    /\ stale' = IF result \in TokenTypes /\ tokens[c] \subseteq {result} THEN stale \ {c} ELSE stale

Step(kind, c) ==
    /\ stage = "block"
    /\ todo # <<>>
    /\ Head(todo) = <<kind, c>>
    /\ todo' = Tail(todo)
    /\ UNCHANGED <<scripts, saved, stage, config, block, content, code, fails>>

\* analyze, for a contract the transaction created; updateFirst passes over an
\* address this block has met.
CreateContract(c) ==
    /\ Step("create", c)
    /\ \E result \in TokenTypes \cup {"UNKNOWN", "failed"} :
          /\ Detect(c, result)
          /\ rows' = [ResolvedRows(c, result, FALSE) EXCEPT
                 !.created = @ \cup {c},
                 !.early = IF c \in pending \/ rows.address[c] # "none" THEN @ \cup {c} ELSE @]
          /\ Cached(c, result)
          /\ types' = [types EXCEPT ![c] = IF result \in TokenTypes THEN result ELSE "EVM"]
          /\ evm' = IF result \in TokenTypes \/ c \in pending THEN evm ELSE evm \cup {c}
    /\ pending' = pending \cup {c}
    /\ UNCHANGED creations

\* addAddressCache, and AddressCache.update for a transaction that creates nothing.
CollectAddress(c) ==
    /\ Step("collect", c)
    /\ pending' = pending \cup {c}
    /\ UNCHANGED <<rows, types, tokens, evm, creations, faults, spoiled, stale, unseen>>

\* tokenTracker with changeEvmAddressType; its write to addressMap looks up
\* the literal "address" and so finds nothing.
TokenTracker(c) ==
    \E result \in TokenTypes \cup {"UNKNOWN", "failed"} :
        /\ Detect(c, result)
        /\ Cached(c, result)
        /\ IF result \in TokenTypes
           THEN /\ types' = [types EXCEPT ![c] = result]
                /\ evm' = evm \ {c}
                /\ rows' = [ResolvedRows(c, result, TRUE) EXCEPT
                       !.address[c] = IF @ = "none" THEN @ ELSE result]
           ELSE /\ rows' = ResolvedRows(c, result, TRUE)
                /\ UNCHANGED <<types, evm>>

NeedsTracker(kind, c) == types[c] = "EVM" /\ (kind = "event" => rows.tracker[c] = "event")

\* analyze, for a token event, and instantlyTokenTracker before the first
\* transaction.
LookAgain(kind, c) ==
    /\ Step(kind, c)
    /\ NeedsTracker(kind, c)
    /\ TokenTracker(c)
    /\ UNCHANGED <<pending, creations>>

NoNeed(kind, c) ==
    /\ Step(kind, c)
    /\ ~NeedsTracker(kind, c)
    /\ UNCHANGED <<rows, caches, faults, spoiled, stale, unseen>>

\* The end of analyze: a creation takes the type its contract has by then.
TypeCreation(c) ==
    /\ Step("type", c)
    /\ creations' = [creations EXCEPT ![c] = types[c]]
    /\ UNCHANGED <<rows, types, tokens, evm, pending, faults, spoiled, stale, unseen>>

\* mutant: a new address keeps the type of the transaction that created it
NewAddressTypedAtCreation(c) == IF creations[c] = "none" THEN "ACCOUNT" ELSE creations[c]

\* StatisticsAddressAnalyzer gives a new address its type from the map; one the
\* map does not have is an account.
NewAddress(c) == IF types[c] = "none" THEN "ACCOUNT" ELSE types[c]

\* The contracts AddressCache.update puts into evmContractAddressCache.
CreatedAsEvm == {c \in Contracts : creations[c] = "EVM"}

\* The rest of the block: PPOSService passes the creations to AddressCache.update,
\* the addresses that have no row are inserted, those that have one keep its
\* type, and the transaction commits.
CommitBlock ==
    /\ stage = "block"
    /\ todo = <<>>
    /\ saved' = [rows EXCEPT !.address =
           [c \in Contracts |-> IF @[c] = "none" /\ c \in pending THEN NewAddress(c) ELSE @[c]]]
    /\ rows' = saved'
    /\ evm' = evm \cup CreatedAsEvm
    /\ pending' = {}
    /\ creations' = none
    /\ stage' = "idle"
    /\ spoiled' = {}
    /\ UNCHANGED <<scripts, config, block, content, todo, code, types, tokens, faults, fails,
                   stale, unseen>>

\* The transaction is rolled back, before or after PPOSService, and the same
\* block analysed again; only addressMap is cleaned.
AttemptFails ==
    /\ stage = "block"
    /\ fails < MaxFail
    /\ fails' = fails + 1
    /\ rows' = saved
    /\ pending' = {}
    /\ creations' = none
    /\ todo' = Triggered \o content
    /\ spoiled' = {}
    /\ stale' = stale \cup {c \in Contracts : tokens[c] # Listed(saved.token[c])}
    /\ \/ UNCHANGED evm
       \/ todo = <<>> /\ evm' = evm \cup CreatedAsEvm
    /\ UNCHANGED <<scripts, saved, stage, config, block, content, code, types, tokens,
                   faults, unseen>>

\* mutant: the map is filled from the tokens only
RebuiltTypesOfTokens == [c \in Contracts |-> saved.token[c]]

\* initGeneralContractCache, from the caches that InitializationService fills.
RebuiltTypes ==
    [c \in Contracts |->
        IF saved.token[c] # "none" THEN saved.token[c]
        ELSE IF saved.address[c] = "EVM" THEN "EVM"
        ELSE "none"]

\* The agent is started again and takes up the block after the last committed.
Restart ==
    /\ stage \in {"idle", "block"}
    /\ fails < MaxFail
    /\ fails' = fails + 1
    /\ rows' = saved
    /\ types' = RebuiltTypes
    /\ tokens' = [c \in Contracts |-> Listed(saved.token[c])]
    /\ evm' = {c \in Contracts : saved.address[c] = "EVM"}
    /\ pending' = {}
    /\ creations' = none
    /\ todo' = IF stage = "block" THEN Triggered \o content ELSE <<>>
    /\ spoiled' = {}
    /\ stale' = {}
    /\ UNCHANGED <<scripts, saved, stage, config, block, content, code, faults, unseen>>

\* An operator sets the trigger of a tracked contract (environment).
SetTrigger(c) ==
    /\ stage = "idle"
    /\ saved.tracker[c] = "event"
    /\ rows' = [rows EXCEPT !.tracker[c] = "now"]
    /\ saved' = rows'
    /\ UNCHANGED <<scripts, caches, work, counters>>
-----------------------------------------------------------------------------
Init == ScriptsInit /\ AgentInit

\* The scripts are done when the agent starts (bound).
Next ==
    \/ stage = "off" /\ ScriptsNext /\ UNCHANGED agent
    \/ StartAgent
    \/ NextBlock \/ CommitBlock \/ AttemptFails \/ Restart
    \/ \E c \in Contracts :
          \/ CreateContract(c) \/ TypeCreation(c) \/ CollectAddress(c) \/ SetTrigger(c)
          \/ \E kind \in {"event", "now"} : LookAgain(kind, c) \/ NoNeed(kind, c)

Spec == Init /\ [][Next]_vars
-----------------------------------------------------------------------------
(***************************************************************************)
(* The facade is never asked about a block in which it is not there yet:   *)
(* the number of its block in the configuration and the comparison with it *)
(* go together, whatever else was deployed or is waiting to be mined.      *)
(***************************************************************************)
FacadeIsThere == ~unseen

(***************************************************************************)
(* A token row an attempt writes names a standard the contract meets at    *)
(* the block at work, as the standards define it and not as the bitmaps    *)
(* code it.  It is the first one the contract meets, except where the node *)
(* answered a call of ErcDetectService with an error: an ERC721 may then   *)
(* go down as ERC1155 or ERC20, never the other way; the facade's one call *)
(* leaves no such middle.                                                  *)
(***************************************************************************)
TypesAreRight ==
    \A c \in Contracts :
        (stage = "block" /\ rows.token[c] # saved.token[c]) =>
            /\ rows.token[c] \in Meets(code[c])
            /\ (UsesFacade \/ c \notin spoiled) => rows.token[c] = Standard(code[c])

(***************************************************************************)
(* Between blocks every contract has exactly one place: a token row, a     *)
(* tracker row, or it was given up, because its detection failed when it   *)
(* was created or because it was looked at again in vain.                  *)
(***************************************************************************)
TokenOrTracked ==
    stage = "idle" =>
        \A c \in Created :
            Cardinality({place \in {"token", "tracker", "dropped"} :
                CASE place = "token" -> saved.token[c] # "none"
                  [] place = "tracker" -> saved.tracker[c] # "none"
                  [] place = "dropped" -> c \in saved.dropped}) = 1

(***************************************************************************)
(* Between blocks the three tables, the map of types and the token caches  *)
(* tell the same of a contract, and a restart would rebuild the same map;  *)
(* except what a rolled back attempt left in the caches.  Of a contract    *)
(* whose address was known before its creation the address row may say     *)
(* ACCOUNT, and a restart then forgets it unless it is a token; of an      *)
(* address at which nothing was created the map says nothing.              *)
(***************************************************************************)
ViewsAgree ==
    stage = "idle" =>
        \A c \in Contracts \ stale :
            /\ tokens[c] = Listed(saved.token[c])
            /\ c \in Created \ saved.early =>
                  /\ types[c] = RebuiltTypes[c]
                  /\ types[c] = saved.address[c]
                  /\ types[c] = "EVM" => c \in evm
            /\ c \in saved.early =>
                  /\ saved.address[c] \in {types[c], "ACCOUNT"}
                  /\ types[c] \in {RebuiltTypes[c], "EVM"}
            /\ c \notin Created =>
                  /\ saved.address[c] \in {"none", "ACCOUNT"}
                  /\ types[c] = "none"

\* Contracts the agent does not know any more: their address row says ACCOUNT
\* since before their creation, and it was started again.
Forgotten == {c \in saved.early : saved.address[c] = "ACCOUNT" /\ types[c] = "none"}

(***************************************************************************)
(* A tracked contract that has become a token and emits a token event is   *)
(* a token once the block is committed, through retries and restarts;      *)
(* unless its detection was spoiled, or TransactionAnalyzer line 152 does  *)
(* not look again: a rolled back attempt recognised it already, or it is   *)
(* forgotten.                                                              *)
(***************************************************************************)
EmittingTokenIsFound ==
    [][CommitBlock =>
        \A c \in Contracts \ (stale \cup spoiled \cup Forgotten) :
            ( /\ saved.tracker[c] = "event"
              /\ \E i \in 1..Len(content) : content[i] = <<"event", c>>
              /\ DetectionOf(c) \in TokenTypes )
            => saved'.token[c] = DetectionOf(c)]_vars
=============================================================================
