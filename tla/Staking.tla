------------------------------- MODULE Staking -------------------------------
(***************************************************************************)
(* The life of a node's stakings and of the delegations to them in the     *)
(* MySQL tables node, staking, delegation and slash: the PPOS analysers    *)
(* (create, increase, exit, delegate, withdraw, report) and the epoch      *)
(* analysers (election, consensus, settlement) with the statements of      *)
(* their mappers.  A handler runs inside the transaction of its block      *)
(* (BlockCollection), so each one is one action; the epoch events of a     *)
(* block run one after the other, before its transactions.                 *)
(*                                                                         *)
(* Every statement is keyed by a node, so the module follows one node.     *)
(* Another node matters in one place only, the end block an election       *)
(* shares (ElectionLeave).  Heights are settlement epochs: a settlement    *)
(* at the end of epoch e reaches an end block of (e + k) * blocks per      *)
(* epoch after k more epochs.  Rewards, rates, names and counters of       *)
(* addresses are left out.  Which transactions and lists the chain         *)
(* produces is the environment, marked so in the guards.                   *)
(***************************************************************************)
EXTENDS Integers, FiniteSets, Functions

CONSTANTS
    Delegators,         \* delegating addresses
    MaxGen,             \* bound: stakings of the node, one after the other
    Freeze,             \* unStakeFreezeDuration: epochs until a redemption ends
    ZeroProduceFreeze,  \* zeroProduceFreezeDuration: epochs a node stays locked
    StakeThreshold,     \* least stake of a candidate
    DelegateThreshold,  \* a delegation that would fall below is withdrawn in full
    DefaultLocked,      \* stake of a built-in node
    LowRateSlash,       \* penalty for a low block rate
    SlashDivisor,       \* a double sign costs 1 / SlashDivisor of the stake
    VoteExtra,          \* bound: epochs a vote holds a redemption longer
    MaxEpoch,           \* bound: settlement epochs
    MaxStake,           \* bound: the largest stake
    MaxClaim,           \* bound: what is delegated to a staking at a time
    MaxReports          \* bound: double-sign reports of a staking that wait

ASSUME StakingAssumption ==
    /\ IsFiniteSet(Delegators)
    /\ MaxGen \in Nat \ {0}
    /\ Freeze \in Nat \ {0}
    /\ ZeroProduceFreeze \in Nat \ {0}
    /\ StakeThreshold \in Nat \ {0}
    /\ DelegateThreshold \in Nat
    /\ DefaultLocked \in Nat \ {0}
    /\ LowRateSlash \in Nat
    /\ SlashDivisor \in Nat \ {0}
    /\ VoteExtra \in Nat
    /\ MaxEpoch \in Nat
    /\ MaxStake \in Nat
    /\ MaxClaim \in Nat
    /\ MaxReports \in Nat

VARIABLES
    \* the row of table node
    nodeGen,    \* staking_block_num: the staking the node stands for, 0 without a row
    nodeStake,  \* staking_hes, staking_locked, staking_reduction
    nodeLife,   \* status, un_stake_end_block, low_rate_slash_count, exception_status
    nodeSums,   \* total_value, stat_delegate_value, stat_delegate_released
    \* table staking: a row for each staking of the node
    stake,      \* staking_hes, staking_locked, staking_reduction
    life,       \* status, un_stake_end_block, low_rate_slash_count, exception_status
    sums,       \* stat_delegate_hes, stat_delegate_locked, stat_delegate_released
    since,      \* the epoch of staking_block_num
    frozen,     \* zero_produce_freeze_epoch
    delegation, \* table delegation: a row for each delegator and staking
    reports,    \* table slash: reports of each staking not handled yet
    verifier,   \* whether the chain may choose the node for a round of this epoch
    epoch,      \* the settlement epoch
    stage,      \* "blocks", or the epoch event at work: "reports", "settlement"
    epochEnds,  \* whether the consensus switch at work is at an epoch's end
    overwritten \* history: stakings whose released sum a second exit overwrote

nodeRow == <<nodeGen, nodeStake, nodeLife, nodeSums>>
stakingRows == <<stake, life, sums, since, frozen>>
round == <<verifier, epoch, stage, epochEnds>>
vars == <<nodeRow, stakingRows, delegation, reports, round, overwritten>>

Gens == 1..MaxGen

Stake == [hes : Nat, locked : Nat, red : Nat]
Life == [status : {"none", "candidate", "exiting", "exited", "locked"},
         end : Nat, low : Nat, exc : {"normal", "reported", "slashed"}]
NodeSums == [total : Int, delegated : Int, released : Int]
StakingSums == [hes : Int, locked : Int, released : Int]

\* An absent row and one with is_history = 1 hold nothing and are told apart
\* by no statement, so both are history rows here.
DelegationRow == [hes : Nat, locked : Nat, released : Nat, history : BOOLEAN]

Money(hes, locked, red) == [hes |-> hes, locked |-> locked, red |-> red]
State(status, end, low, exc) == [status |-> status, end |-> end, low |-> low, exc |-> exc]
Totals(total, delegated, released) ==
    [total |-> total, delegated |-> delegated, released |-> released]
Claimed(hes, locked, released) == [hes |-> hes, locked |-> locked, released |-> released]
Row(hes, locked, released, history) ==
    [hes |-> hes, locked |-> locked, released |-> released, history |-> history]

Nothing == Money(0, 0, 0)
Unborn == State("none", 0, 0, "normal")
NoDelegation == Row(0, 0, 0, TRUE)

\* InitializationService.initInnerStake: a verifier of block 0 is a candidate.
Init ==
    /\ \/ /\ nodeGen = 0
          /\ nodeStake = Nothing
          /\ nodeLife = Unborn
          /\ nodeSums = Totals(0, 0, 0)
          /\ stake = [g \in Gens |-> Nothing]
          /\ life = [g \in Gens |-> Unborn]
          /\ verifier = FALSE
       \/ /\ nodeGen = 1
          /\ nodeStake = Money(0, DefaultLocked, 0)
          /\ nodeLife = State("candidate", 1 + Freeze, 0, "normal")
          /\ nodeSums = Totals(DefaultLocked, 0, 0)
          /\ stake = [g \in Gens |-> IF g = 1 THEN Money(0, DefaultLocked, 0) ELSE Nothing]
          /\ life = [g \in Gens |->
                 IF g = 1 THEN State("candidate", 1 + Freeze, 0, "normal") ELSE Unborn]
          /\ verifier = TRUE
    /\ sums = [g \in Gens |-> Claimed(0, 0, 0)]
    /\ since = [g \in Gens |-> 0]
    /\ frozen = [g \in Gens |-> 0]
    /\ delegation = [d \in Delegators |-> [g \in Gens |-> NoDelegation]]
    /\ reports = [g \in Gens |-> 0]
    /\ epoch = 1
    /\ stage = "blocks"
    /\ epochEnds = FALSE
    /\ overwritten = {}
-----------------------------------------------------------------------------
Active == {g \in Gens : life[g].status \in {"candidate", "exiting", "locked"}}

Worth(row) == row.hes + row.locked + row.released

\* mutant: a penalty is taken off what is not there
NotNegativeForgotten(a) == a

NotNegative(a) == IF a < 0 THEN 0 ELSE a

\* StakeEpochService.getUnStakeEndBlock; a running vote may hold it longer.
EndBlocks(compareVotes) ==
    (epoch + Freeze) .. (epoch + Freeze + (IF compareVotes THEN VoteExtra ELSE 0))

\* mutant: a penalty overwrites delegate_released as the exit does
ReleasedByOverwrites(row, before) ==
    IF row.history THEN row
    ELSE Row(0, 0, row.hes + row.locked, FALSE)

\* What is released of a delegation when its node leaves.
ReleasedBy(row, before) ==
    IF row.history THEN row
    ELSE Row(0, 0, before + row.hes + row.locked, FALSE)

\* The node's exit overwrites delegate_released, a penalty adds to it.
ReleaseDelegations(g, adds) ==
    delegation' = [d \in Delegators |-> [h \in Gens |->
        IF h = g
        THEN ReleasedBy(delegation[d][h], IF adds THEN delegation[d][h].released ELSE 0)
        ELSE delegation[d][h]]]

LeaveStaking(g, status, red, end, low, exc) ==
    /\ stake' = [stake EXCEPT ![g] = Money(0, 0, red)]
    /\ life' = [life EXCEPT ![g] = State(status, end, low, exc)]
    /\ sums' = [sums EXCEPT ![g] =
           Claimed(0, 0, sums[g].hes + sums[g].locked)]
    /\ UNCHANGED <<since, frozen>>

\* mutant: the delegated value stays with a node that leaves
LeaveNodeKeepsValue(status, red, end, low, exc) ==
    /\ nodeStake' = Money(0, 0, red)
    /\ nodeLife' = State(status, end, low, exc)
    /\ nodeSums' = Totals(0, nodeSums.delegated, nodeSums.released + nodeSums.delegated)
    /\ UNCHANGED nodeGen

LeaveNode(status, red, end, low, exc) ==
    /\ nodeStake' = Money(0, 0, red)
    /\ nodeLife' = State(status, end, low, exc)
    /\ nodeSums' = Totals(0, 0, nodeSums.released + nodeSums.delegated)
    /\ UNCHANGED nodeGen

\* The chain takes increases, exits and delegations for a candidate that has
\* not been reported only (environment).
Accepts(g) ==
    /\ stage = "blocks"
    /\ g = nodeGen
    /\ life[g].status = "candidate"
    /\ life[g].exc # "reported"

\* mutant: a node that stakes again is written as a new row
StakeCreateAnew(a) ==
    /\ stage = "blocks"
    /\ nodeLife.status \in {"none", "exited"}
    /\ nodeGen < MaxGen
    /\ LET g == nodeGen + 1 IN
       /\ stake' = [stake EXCEPT ![g] = Money(a, 0, 0)]
       /\ life' = [life EXCEPT ![g] = State("candidate", epoch + Freeze, 0, "normal")]
       /\ since' = [since EXCEPT ![g] = epoch]
       /\ nodeGen' = g
    /\ nodeStake' = Money(a, 0, 0)
    /\ nodeLife' = State("candidate", epoch + Freeze, 0, "normal")
    /\ nodeSums' = Totals(a, 0, 0)
    /\ UNCHANGED <<sums, frozen, delegation, reports, round, overwritten>>

\* StakeBusinessMapper.create, a new row of staking and a row of node that
\* keeps what it does not name.  The chain has closed the earlier staking.
StakeCreate(a) ==
    /\ stage = "blocks"
    /\ nodeLife.status \in {"none", "exited"}
    /\ nodeGen < MaxGen
    /\ LET g == nodeGen + 1 IN
       /\ stake' = [stake EXCEPT ![g] = Money(a, 0, 0)]
       /\ life' = [life EXCEPT ![g] = State("candidate", epoch + Freeze, 0, "normal")]
       /\ since' = [since EXCEPT ![g] = epoch]
       /\ nodeGen' = g
    /\ nodeStake' = Money(a, nodeStake.locked, nodeStake.red)
    /\ nodeLife' = State("candidate", epoch + Freeze, 0, "normal")
    /\ nodeSums' = Totals(nodeSums.total + a, nodeSums.delegated, nodeSums.released)
    /\ UNCHANGED <<sums, frozen, delegation, reports, round, overwritten>>

StakeIncrease(g, a) ==
    /\ Accepts(g)
    /\ stake[g].hes + stake[g].locked + a <= MaxStake
    /\ stake' = [stake EXCEPT ![g] = Money(stake[g].hes + a, stake[g].locked, stake[g].red)]
    /\ nodeStake' = Money(nodeStake.hes + a, nodeStake.locked, nodeStake.red)
    /\ nodeSums' = Totals(nodeSums.total + a, nodeSums.delegated, nodeSums.released)
    /\ UNCHANGED <<nodeGen, nodeLife, life, sums, since, frozen, delegation, reports, round,
                   overwritten>>

\* StakeBusinessMapper.lockedExit: the stake has seen a settlement.
StakeExitLocked(g) ==
    /\ Accepts(g)
    /\ since[g] < epoch
    /\ ReleaseDelegations(g, FALSE)
    /\ \E end \in EndBlocks(TRUE) :
       /\ LeaveNode(IF nodeStake.locked > 0 THEN "exiting" ELSE "exited",
                    nodeStake.locked, end, nodeLife.low, nodeLife.exc)
       /\ LeaveStaking(g, IF stake[g].locked > 0 THEN "exiting" ELSE "exited",
                       stake[g].locked, end, life[g].low, life[g].exc)
    /\ UNCHANGED <<reports, round, overwritten>>

\* StakeBusinessMapper.unlockExit: created in this very epoch, gone at once.
StakeExitUnlocked(g) ==
    /\ Accepts(g)
    /\ since[g] >= epoch
    /\ ReleaseDelegations(g, FALSE)
    /\ LeaveNode("exited", 0, nodeLife.end, nodeLife.low, nodeLife.exc)
    /\ LeaveStaking(g, "exited", 0, life[g].end, life[g].low, life[g].exc)
    /\ UNCHANGED <<reports, round, overwritten>>

DelegateCreate(d, g, a) ==
    /\ Accepts(g)
    /\ a >= DelegateThreshold       \* environment
    /\ sums[g].hes + sums[g].locked + a <= MaxClaim
    /\ nodeSums' = Totals(nodeSums.total + a, nodeSums.delegated + a, nodeSums.released)
    /\ sums' = [sums EXCEPT ![g] =
           Claimed(sums[g].hes + a, sums[g].locked, sums[g].released)]
    /\ delegation' = [delegation EXCEPT ![d][g] =
           Row(delegation[d][g].hes + a, delegation[d][g].locked, delegation[d][g].released,
               FALSE)]
    /\ UNCHANGED <<nodeGen, nodeStake, nodeLife, stake, life, since, frozen, reports, round,
                   overwritten>>
-----------------------------------------------------------------------------
IsCandidate(g) == life[g].status \notin {"exiting", "exited"}

IsRefundAll(row, a) == Worth(row) - a < DelegateThreshold

RealRefund(row, a) == IF IsRefundAll(row, a) THEN Worth(row) ELSE a

\* What a withdrawal leaves of the delegation: the analyser's balance.
Balance(row, isCandidate, real, isRefundAll) ==
    IF ~isCandidate
    THEN Row(0, 0, NotNegative(row.released - real), isRefundAll)
    ELSE IF row.hes >= real
    THEN Row(row.hes - real, row.locked, row.released, isRefundAll)
    ELSE Row(0, NotNegative(row.locked + row.hes - real), row.released, isRefundAll)

\* mutant: the hesitated part is taken off both sums
DecreaseTwice(row, isCandidate, real) ==
    IF ~isCandidate
    THEN Claimed(0, 0, real)
    ELSE IF row.hes >= real
    THEN Claimed(real, 0, 0)
    ELSE Claimed(row.hes, real, row.released)

\* What it takes off the sums: the analyser's decrease.  With too little
\* hesitated, all of it is taken off the locked sum.
Decrease(row, isCandidate, real) ==
    IF ~isCandidate
    THEN Claimed(0, 0, real)
    ELSE IF row.hes >= real
    THEN Claimed(real, 0, 0)
    ELSE Claimed(0, real, row.released)

\* The chain lets a delegator withdraw up to the claim (environment).
DelegateExit(d, g, a) ==
    LET row == delegation[d][g]
        real == RealRefund(row, a)
        decrease == Decrease(row, IsCandidate(g), real)
        present == IF IsCandidate(g) THEN real ELSE 0
    IN  /\ stage = "blocks"
        /\ ~row.history
        /\ a <= Worth(row)
        /\ delegation' = [delegation EXCEPT ![d][g] =
               Balance(row, IsCandidate(g), real, IsRefundAll(row, a))]
        /\ nodeSums' = Totals(nodeSums.total - present, nodeSums.delegated - present,
                            nodeSums.released - decrease.released)
        /\ sums' = [sums EXCEPT ![g] =
               Claimed(sums[g].hes - decrease.hes, sums[g].locked - decrease.locked,
                       sums[g].released - decrease.released)]
        /\ UNCHANGED <<nodeGen, nodeStake, nodeLife, stake, life, since, frozen, reports, round,
                       overwritten>>
-----------------------------------------------------------------------------
WithException(row, exc, end) == State(row.status, end, row.low, exc)

\* mutant: only the staking learns of the later end block
ReportStakingOnly(g) ==
    /\ stage = "blocks"
    /\ g = nodeGen
    /\ g \in Active
    /\ since[g] < epoch
    /\ reports[g] < MaxReports
    /\ reports' = [reports EXCEPT ![g] = reports[g] + 1]
    /\ \E end \in IF nodeLife.status = "candidate" THEN EndBlocks(TRUE) ELSE {life[g].end} :
          life' = [life EXCEPT ![g] = WithException(life[g], "reported", end)]
    /\ nodeLife' = WithException(nodeLife, "reported", nodeLife.end)
    /\ UNCHANGED <<nodeGen, nodeStake, nodeSums, stake, sums, since, frozen, delegation, round,
                   overwritten>>

\* ReportAnalyzer: a double sign is recorded; the penalty waits for a switch
\* of the consensus round.  Only a node at work can have signed (environment).
Report(g) ==
    /\ stage = "blocks"
    /\ g = nodeGen
    /\ g \in Active
    /\ since[g] < epoch
    /\ reports[g] < MaxReports
    /\ reports' = [reports EXCEPT ![g] = reports[g] + 1]
    /\ IF nodeLife.status = "candidate"
       THEN \E end \in EndBlocks(TRUE) :
            /\ life' = [life EXCEPT ![g] = WithException(life[g], "reported", end)]
            /\ nodeLife' = WithException(nodeLife, "reported", end)
       ELSE /\ life' = [life EXCEPT ![g] = WithException(life[g], "reported", life[g].end)]
            /\ nodeLife' = WithException(nodeLife, "reported", nodeLife.end)
    /\ UNCHANGED <<nodeGen, nodeStake, nodeSums, stake, sums, since, frozen, delegation, round,
                   overwritten>>

\* OnElectionAnalyzer: a verifier in the list of low block rates, once.
LowRate(g) ==
    /\ stage = "blocks"
    /\ verifier
    /\ life[g].status \in {"candidate", "exiting"}
    /\ life[g].low = 0

BelowThreshold(g) == stake[g].hes + stake[g].locked - LowRateSlash < StakeThreshold

\* The penalty is taken off the hesitated stake, then off the locked one.
Penalised(row) ==
    IF row.hes >= LowRateSlash
    THEN Money(row.hes - LowRateSlash, row.locked, row.red)
    ELSE Money(0, row.locked - (LowRateSlash - row.hes), row.red)

\* A candidate that can pay stays, locked for ZeroProduceFreeze epochs; both
\* rows get what was computed from the row of the staking.
ElectionLock(g) ==
    /\ LowRate(g)
    /\ life[g].status = "candidate"
    /\ ~BelowThreshold(g)
    /\ stake' = [stake EXCEPT ![g] = Penalised(stake[g])]
    /\ life' = [life EXCEPT ![g] =
           State("locked", life[g].end, life[g].low + 1, life[g].exc)]
    /\ frozen' = [frozen EXCEPT ![g] = epoch]
    /\ nodeStake' = Money(Penalised(stake[g]).hes, Penalised(stake[g]).locked, nodeStake.red)
    /\ nodeLife' = State("locked", nodeLife.end, nodeLife.low + 1, nodeLife.exc)
    /\ nodeSums' = Totals(nodeSums.total - LowRateSlash, nodeSums.delegated, nodeSums.released)
    /\ UNCHANGED <<nodeGen, sums, since, delegation, reports, round, overwritten>>

AfterPenalty(row) == NotNegative(row.locked + row.hes - LowRateSlash)

\* One that cannot pay, or is leaving already, leaves.  The end block is kept
\* in the Election object of the block, where the last leaving node sets it.
ElectionLeave(g) ==
    /\ LowRate(g)
    /\ life[g].status = "candidate" => BelowThreshold(g)
    /\ ReleaseDelegations(g, TRUE)
    /\ \E end \in EndBlocks(TRUE)
                  \cup {IF life[g].status = "exiting" THEN life[g].end ELSE epoch + Freeze} :
       /\ LeaveNode("exiting", AfterPenalty(nodeStake), end, nodeLife.low + 1, nodeLife.exc)
       /\ LeaveStaking(g, "exiting", AfterPenalty(stake[g]), end, life[g].low + 1, life[g].exc)
    /\ overwritten' = IF life[g].status = "exiting" THEN overwritten \cup {g} ELSE overwritten
    /\ UNCHANGED <<reports, round>>
-----------------------------------------------------------------------------
Pending == \E g \in Gens : reports[g] > 0

\* OnConsensusAnalyzer at the switch to a round with or without the node; only
\* a verifier can be in the next round (environment).
ConsensusSwitch(inNextRound, endsEpoch) ==
    LET handled == /\ ~inNextRound
                   /\ Pending
                   /\ \E g \in Gens : life[g].exc = "reported"
    IN  /\ stage = "blocks"
        /\ inNextRound => verifier
        /\ endsEpoch => epoch < MaxEpoch
        /\ endsEpoch \/ handled
        /\ stage' = IF handled THEN "reports" ELSE "settlement"
        /\ epochEnds' = endsEpoch
        /\ UNCHANGED <<nodeRow, stakingRows, delegation, reports, verifier, epoch, overwritten>>

\* What a double sign leaves of a stake to be redeemed.
Remaining(row, status) ==
    LET slash == (IF row.locked = 0 THEN row.red ELSE row.locked) \div SlashDivisor
    IN  IF status = "exiting" THEN row.red - slash
        ELSE IF row.locked > 0 THEN row.locked - slash
        ELSE 0

\* OnConsensusAnalyzer.slashNode with its statement, for one report.  The chain
\* chooses a node it has punished no more (environment).
SlashNode(g) ==
    LET remain == Remaining(stake[g], life[g].status)
        status == IF remain >= 0 THEN "exiting" ELSE "exited"
    IN  /\ stage = "reports"
        /\ reports[g] > 0
        /\ reports' = [reports EXCEPT ![g] = reports[g] - 1]
        /\ ReleaseDelegations(g, TRUE)
        /\ LeaveNode(status, NotNegative(remain), nodeLife.end, nodeLife.low, "slashed")
        /\ LeaveStaking(g, status, NotNegative(remain), life[g].end, life[g].low, "slashed")
        /\ overwritten' = IF life[g].status = "exiting" THEN overwritten \cup {g}
                          ELSE overwritten
        /\ verifier' = FALSE
        /\ UNCHANGED <<epoch, stage, epochEnds>>

ReportsHandled ==
    /\ stage = "reports"
    /\ ~Pending
    /\ stage' = IF epochEnds THEN "settlement" ELSE "blocks"
    /\ UNCHANGED <<nodeRow, stakingRows, delegation, reports, verifier, epoch, epochEnds,
                   overwritten>>

IsOver(g) == life[g].status = "exiting" /\ epoch >= life[g].end

\* mutant: a locked node is released an epoch early
IsUnlockedEarly(g) == life[g].status = "locked" /\ frozen[g] + ZeroProduceFreeze <= epoch + 1

IsUnlocked(g) == life[g].status = "locked" /\ frozen[g] + ZeroProduceFreeze < epoch + 1

\* mutant: the redeemed amount stays on a staking that is over
SettledStakeUnpaid(g) ==
    IF g \notin Active THEN stake[g]
    ELSE Money(0, stake[g].locked + stake[g].hes, stake[g].red)

\* OnSettleAnalyzer on the rows of the stakings that are not over.
SettledStake(g) ==
    IF g \notin Active THEN stake[g]
    ELSE Money(0, stake[g].locked + stake[g].hes, IF IsOver(g) THEN 0 ELSE stake[g].red)

SettledLife(g) ==
    IF IsOver(g) THEN State("exited", life[g].end, 0, life[g].exc)
    ELSE IF IsUnlocked(g) THEN State("candidate", life[g].end, 0, "normal")
    ELSE life[g]

SettledSums(row) ==
    IF row.hes > 0
    THEN Claimed(0, row.hes + row.locked, row.released)
    ELSE row

SettledDelegation(row) ==
    IF ~row.history /\ row.hes > 0
    THEN Row(0, row.hes + row.locked, row.released, row.history)
    ELSE row

\* EpochBusinessMapper.settle: the node's row gets what its active staking
\* gets, of several the one with the highest block number; then delegations
\* and delegated sums.  The chain takes its verifiers from the candidates that
\* were not reported (environment).
Settlement ==
    /\ stage = "settlement"
    /\ stake' = [g \in Gens |-> SettledStake(g)]
    /\ life' = [g \in Gens |-> SettledLife(g)]
    /\ IF Active = {}
       THEN UNCHANGED <<nodeStake, nodeLife>>
       ELSE \E g \in Active :
            /\ \A h \in Active : h <= g
            /\ nodeStake' = SettledStake(g)
            /\ nodeLife' = State(SettledLife(g).status, nodeLife.end,
                                 SettledLife(g).low, SettledLife(g).exc)
    /\ sums' = [g \in Gens |-> SettledSums(sums[g])]
    /\ delegation' = [d \in Delegators |-> [g \in Gens |-> SettledDelegation(delegation[d][g])]]
    /\ epoch' = epoch + 1
    /\ verifier' \in IF nodeLife'.status = "candidate" /\ nodeLife'.exc # "reported"
                     THEN BOOLEAN ELSE {FALSE}
    /\ stage' = "blocks"
    /\ epochEnds' = FALSE
    /\ UNCHANGED <<nodeGen, nodeSums, since, frozen, reports, overwritten>>
-----------------------------------------------------------------------------
Next ==
    \/ \E a \in StakeThreshold..MaxStake : StakeCreate(a)
    \/ \E g \in Gens :
          \/ \E a \in 1..MaxStake : StakeIncrease(g, a)
          \/ StakeExitLocked(g) \/ StakeExitUnlocked(g)
          \/ \E d \in Delegators, a \in 1..MaxClaim :
                DelegateCreate(d, g, a) \/ DelegateExit(d, g, a)
          \/ Report(g) \/ ElectionLock(g) \/ ElectionLeave(g) \/ SlashNode(g)
    \/ \E inNextRound, endsEpoch \in BOOLEAN : ConsensusSwitch(inNextRound, endsEpoch)
    \/ ReportsHandled
    \/ Settlement

Spec == Init /\ [][Next]_vars
-----------------------------------------------------------------------------
(***************************************************************************)
(* Type correctness of the tables: amounts of stakings and delegations     *)
(* never fall below zero (the sums of a staking may, see Decrease).        *)
(***************************************************************************)
TypeOK ==
    /\ nodeGen \in 0..MaxGen
    /\ nodeStake \in Stake
    /\ nodeLife \in Life
    /\ nodeSums \in NodeSums
    /\ stake \in [Gens -> Stake]
    /\ life \in [Gens -> Life]
    /\ sums \in [Gens -> StakingSums]
    /\ since \in [Gens -> Nat]
    /\ frozen \in [Gens -> Nat]
    /\ delegation \in [Delegators -> [Gens -> DelegationRow]]
    /\ reports \in [Gens -> 0..MaxReports]
    /\ verifier \in BOOLEAN
    /\ epoch \in Nat
    /\ stage \in {"blocks", "reports", "settlement"}
    /\ epochEnds \in BOOLEAN
    /\ overwritten \subseteq Gens

(***************************************************************************)
(* Two statements write every amount twice, from two rows.  The row of the *)
(* node always says what the row of its latest staking says, and earlier   *)
(* stakings are over.                                                      *)
(***************************************************************************)
NodeMirrorsStaking ==
    /\ \A g \in Gens :
          /\ g < nodeGen => life[g].status = "exited"
          /\ g > nodeGen => stake[g] = Nothing /\ life[g] = Unborn
    /\ nodeGen = 0 => nodeStake = Nothing /\ nodeLife = Unborn
    /\ nodeGen > 0 =>
          nodeStake = stake[nodeGen] /\ nodeLife = life[nodeGen] /\ nodeLife.status # "none"

(***************************************************************************)
(* Locked and redeemed money exclude each other, what OnConsensusAnalyzer  *)
(* line 129 relies on when it picks the base of a penalty; a staking that  *)
(* is over holds nothing.                                                  *)
(***************************************************************************)
MoneyFollowsStatus ==
    \A g \in Gens :
        /\ life[g].status \in {"candidate", "locked"} => stake[g].red = 0
        /\ life[g].status = "exiting" => stake[g].hes = 0 /\ stake[g].locked = 0
        /\ life[g].status \in {"none", "exited"} => stake[g] = Nothing

(***************************************************************************)
(* The node's totals: stat_delegate_value is what is delegated to the      *)
(* present staking, total_value is that and the stake while the node can   *)
(* be chosen, and nothing is left of either once it leaves.                *)
(***************************************************************************)
NodeTotals ==
    /\ nodeSums.delegated =
          IF nodeGen = 0 THEN 0 ELSE sums[nodeGen].hes + sums[nodeGen].locked
    /\ nodeSums.total =
          IF nodeLife.status \in {"candidate", "locked"}
          THEN nodeStake.hes + nodeStake.locked + nodeSums.delegated ELSE 0
    /\ nodeLife.status \in {"exiting", "exited"} => nodeSums.delegated = 0

\* What is delegated to a staking, and what is released of it, by the rows.
Delegated(g) ==
    SumFunction([d \in Delegators |-> delegation[d][g].hes + delegation[d][g].locked])

Released(g) == SumFunction([d \in Delegators |-> delegation[d][g].released])

(***************************************************************************)
(* The delegated sum of a staking is the sum of the delegations to it,     *)
(* although each is moved by statements of its own.                        *)
(***************************************************************************)
DelegatedSumIsKept == \A g \in Gens : sums[g].hes + sums[g].locked = Delegated(g)

(***************************************************************************)
(* What waits for its delegators to withdraw: the node's sum is that of    *)
(* the delegations to all its stakings, and a staking's that of its own,   *)
(* unless a second penalty found it leaving and overwrote the sum.         *)
(***************************************************************************)
ReleasedIsOwed ==
    /\ nodeSums.released = SumFunction([g \in Gens |-> Released(g)])
    /\ \A g \in Gens \ overwritten : sums[g].released = Released(g)

(***************************************************************************)
(* A report is not lost on the way to the consensus switch that handles    *)
(* it: while it waits, its staking is the node's present one, not over,    *)
(* and carries the exception status the switch searches for.               *)
(***************************************************************************)
ReportsAreFound ==
    stage # "reports" =>
        \A g \in Gens : reports[g] > 0 =>
            g = nodeGen /\ g \in Active /\ life[g].exc = "reported"

(***************************************************************************)
(* The tables implement the claims of the delegators: only a delegation or *)
(* a withdrawal changes a claim, and a staking is over for good.           *)
(***************************************************************************)
Phase(status) ==
    CASE status = "none" -> "none"
      [] status \in {"candidate", "locked"} -> "open"
      [] status = "exiting" -> "leaving"
      [] status = "exited" -> "closed"

Claims == INSTANCE DelegationClaims WITH
    Delegators <- Delegators,
    MaxGen <- MaxGen,
    DelegateThreshold <- DelegateThreshold,
    MaxClaim <- MaxClaim,
    claim <- [d \in Delegators |-> [g \in Gens |-> Worth(delegation[d][g])]],
    phase <- [g \in Gens |-> Phase(life[g].status)]

ImplementsClaims == Claims!Spec

(***************************************************************************)
(* OnElectionAnalyzer line 152 says that the money of a leaving node is    *)
(* being redeemed and the penalty for a low block rate is taken off that:  *)
(* what is redeemed shrinks by the penalty.                                *)
(***************************************************************************)
PenaltyIsTakenOffRedemption ==
    [][\A g \in Gens :
          (life[g].status = "exiting" /\ life'[g].low = life[g].low + 1)
              => stake'[g].red = NotNegative(stake[g].red - LowRateSlash)]_vars
=============================================================================
