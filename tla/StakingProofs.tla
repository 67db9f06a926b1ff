---------------------------- MODULE StakingProofs ----------------------------
(***************************************************************************)
(* Proofs about Staking, for every number of delegators and stakings and   *)
(* every amount: the tables have their types, the row of the node says     *)
(* what its staking says, locked and redeemed money exclude each other,    *)
(* the totals add up, no report is lost, the tables implement the claims   *)
(* of the delegators, and the sums of delegations are kept by statements   *)
(* that never add them up.                                                 *)
(***************************************************************************)
EXTENDS Staking, SetTheorems, TLAPS

\* A delegation waits for its owner once its staking leaves, and only then.
DelegationsFollowStatus ==
    \A d \in Delegators, g \in Gens :
        LET row == delegation[d][g] IN
        /\ row.history => row.hes = 0 /\ row.locked = 0 /\ row.released = 0
        /\ life[g].status \in {"none", "candidate", "locked"} => row.released = 0
        /\ life[g].status \in {"none", "exiting", "exited"} => row.hes = 0 /\ row.locked = 0

\* Nothing is delegated to a staking that nobody can delegate to.
SumsFollowStatus ==
    \A g \in Gens :
        life[g].status \in {"none", "exiting", "exited"} => sums[g].hes + sums[g].locked = 0

\* A staking that has seen a settlement has money that is locked, so that its
\* exit takes the freeze instead of ending it at once.
StakeIsLocked ==
    \A g \in Gens :
        life[g].status \in {"candidate", "locked"} =>
            /\ since[g] <= epoch
            /\ stake[g].hes + stake[g].locked > 0
            /\ since[g] < epoch => stake[g].locked > 0

\* A node the chain may choose is at work, and the coming settlement neither
\* ends its redemption nor unlocks it.
VerifierIsAtWork ==
    verifier =>
        /\ nodeGen \in Active
        /\ since[nodeGen] < epoch
        /\ life[nodeGen].status = "exiting" => life[nodeGen].end > epoch
        /\ life[nodeGen].status = "locked" => frozen[nodeGen] >= epoch

\* What becomes of reports: they belong to the present staking, and one that
\* waits over a settlement does so for a node in the next round.
ReportsWait ==
    /\ \A g \in Gens : reports[g] > 0 => g = nodeGen /\ g \in Active
    /\ stage # "reports" =>
          \A g \in Gens : reports[g] > 0 => life[g].exc = "reported"
    /\ stage = "settlement" /\ Pending => verifier

IInv ==
    /\ TypeOK
    /\ NodeMirrorsStaking
    /\ MoneyFollowsStatus
    /\ NodeTotals
    /\ DelegationsFollowStatus
    /\ SumsFollowStatus
    /\ StakeIsLocked
    /\ VerifierIsAtWork
    /\ ReportsWait
-----------------------------------------------------------------------------
LEMMA StakeIs ==
    ASSUME NEW s \in Stake
    PROVE  /\ s.hes \in Nat /\ s.locked \in Nat /\ s.red \in Nat
           /\ s = Money(s.hes, s.locked, s.red)
BY DEF Money, Stake

LEMMA LifeIs ==
    ASSUME NEW r \in Life
    PROVE  /\ r.status \in {"none", "candidate", "exiting", "exited", "locked"}
           /\ r.end \in Nat /\ r.low \in Nat /\ r.exc \in {"normal", "reported", "slashed"}
           /\ r = State(r.status, r.end, r.low, r.exc)
BY DEF State, Life

LEMMA TotalsAre ==
    ASSUME NEW a \in Int, NEW b \in Int, NEW c \in Int
    PROVE  /\ Totals(a, b, c) \in NodeSums
           /\ Totals(a, b, c).total = a /\ Totals(a, b, c).delegated = b
           /\ Totals(a, b, c).released = c
BY DEF Totals, NodeSums

LEMMA Fields ==
    ASSUME TypeOK
    PROVE  /\ nodeSums.total \in Int /\ nodeSums.delegated \in Int /\ nodeSums.released \in Int
           /\ \A g \in Gens :
                 /\ sums[g].hes \in Int /\ sums[g].locked \in Int /\ sums[g].released \in Int
                 /\ stake[g].hes \in Nat /\ stake[g].locked \in Nat /\ stake[g].red \in Nat
                 /\ life[g].status \in {"none", "candidate", "exiting", "exited", "locked"}
                 /\ life[g].end \in Nat /\ life[g].low \in Nat
                 /\ life[g].exc \in {"normal", "reported", "slashed"}
           /\ \A d \in Delegators, g \in Gens :
                 /\ delegation[d][g].hes \in Nat /\ delegation[d][g].locked \in Nat
                 /\ delegation[d][g].released \in Nat /\ delegation[d][g].history \in BOOLEAN
<1>1. nodeSums.total \in Int /\ nodeSums.delegated \in Int /\ nodeSums.released \in Int
  BY DEF TypeOK, NodeSums
<1>2. ASSUME NEW g \in Gens
      PROVE  sums[g].hes \in Int /\ sums[g].locked \in Int /\ sums[g].released \in Int
  BY DEF TypeOK, StakingSums
<1>3. ASSUME NEW g \in Gens
      PROVE  stake[g].hes \in Nat /\ stake[g].locked \in Nat /\ stake[g].red \in Nat
  BY DEF TypeOK, Stake
<1>4. ASSUME NEW g \in Gens
      PROVE  /\ life[g].status \in {"none", "candidate", "exiting", "exited", "locked"}
             /\ life[g].end \in Nat /\ life[g].low \in Nat
             /\ life[g].exc \in {"normal", "reported", "slashed"}
  BY DEF TypeOK, Life
<1>5. ASSUME NEW d \in Delegators, NEW g \in Gens
      PROVE  /\ delegation[d][g].hes \in Nat /\ delegation[d][g].locked \in Nat
             /\ delegation[d][g].released \in Nat /\ delegation[d][g].history \in BOOLEAN
  BY DEF TypeOK, DelegationRow
<1> QED
  BY <1>1, <1>2, <1>3, <1>4, <1>5

LEMMA SlashShare == \A b \in Nat : b \div SlashDivisor \in Nat /\ b \div SlashDivisor <= b
BY StakingAssumption

LEMMA InitInv == Init => IInv
<1> SUFFICES ASSUME Init PROVE IInv
  OBVIOUS
<1> USE StakingAssumption DEF Init, Gens
<1>1. TypeOK
  <2>1. nodeGen \in 0..MaxGen /\ nodeStake \in Stake /\ nodeLife \in Life
    BY DEF Money, State, Nothing, Unborn, Stake, Life
  <2>2. nodeSums \in NodeSums
    BY DEF Totals, NodeSums
  <2>3. stake \in [Gens -> Stake]
    BY DEF Money, Nothing, Stake
  <2>4. life \in [Gens -> Life]
    BY DEF State, Unborn, Life
  <2>5. sums \in [Gens -> StakingSums]
    BY DEF Claimed, StakingSums
  <2>6. delegation \in [Delegators -> [Gens -> DelegationRow]]
    BY DEF Row, NoDelegation, DelegationRow
  <2>7. /\ since \in [Gens -> Nat] /\ frozen \in [Gens -> Nat]
        /\ reports \in [Gens -> 0..MaxReports]
    OBVIOUS
  <2>8. epoch \in Nat /\ stage \in {"blocks", "reports", "settlement"} /\ overwritten \subseteq Gens
    OBVIOUS
  <2>9. verifier \in BOOLEAN /\ epochEnds \in BOOLEAN
    OBVIOUS
  <2> QED
    BY <2>1, <2>2, <2>3, <2>4, <2>5, <2>6, <2>7, <2>8, <2>9 DEF TypeOK
<1>2. NodeMirrorsStaking /\ MoneyFollowsStatus
  BY DEF NodeMirrorsStaking, MoneyFollowsStatus, Money, State, Nothing, Unborn
<1>3. NodeTotals
  BY DEF NodeTotals, Money, State, Nothing, Unborn, Totals, Claimed
<1>4. DelegationsFollowStatus /\ SumsFollowStatus
  BY DEF DelegationsFollowStatus, SumsFollowStatus, NoDelegation, Row, Claimed
<1>5. StakeIsLocked
  BY DEF StakeIsLocked, Money, State, Nothing, Unborn
<1>6. VerifierIsAtWork
  BY DEF VerifierIsAtWork, Active, State, Unborn
<1>7. ReportsWait
  BY DEF ReportsWait, Pending
<1> QED
  BY <1>1, <1>2, <1>3, <1>4, <1>5, <1>6, <1>7 DEF IInv
-----------------------------------------------------------------------------
(***************************************************************************)
(* All handlers but the settlement write the rows of one staking, that of  *)
(* the node's row.  OnlyAt says that the others are left alone and Sound   *)
(* is the invariant of one staking, so a step is proved from its own rows. *)
(***************************************************************************)
OnlyAt(g) ==
    \A h \in Gens : h # g =>
        /\ stake'[h] = stake[h] /\ life'[h] = life[h] /\ since'[h] = since[h]
        /\ sums'[h] = sums[h]
        /\ \A d \in Delegators : delegation'[d][h] = delegation[d][h]

SoundStake(g) ==
    /\ life[g].status \in {"candidate", "locked"} =>
          /\ stake[g].red = 0
          /\ since[g] <= epoch
          /\ stake[g].hes + stake[g].locked > 0
          /\ since[g] < epoch => stake[g].locked > 0
    /\ life[g].status = "exiting" => stake[g].hes = 0 /\ stake[g].locked = 0
    /\ life[g].status \in {"none", "exited"} => stake[g] = Nothing

SoundClaims(g) ==
    /\ life[g].status \in {"none", "exiting", "exited"} => sums[g].hes + sums[g].locked = 0
    /\ \A d \in Delegators :
          LET row == delegation[d][g] IN
          /\ row.history => row.hes = 0 /\ row.locked = 0 /\ row.released = 0
          /\ life[g].status \in {"none", "candidate", "locked"} => row.released = 0
          /\ life[g].status \in {"none", "exiting", "exited"} => row.hes = 0 /\ row.locked = 0

LEMMA SoundInv ==
    ASSUME IInv
    PROVE  \A g \in Gens : SoundStake(g) /\ SoundClaims(g)
BY DEF IInv, MoneyFollowsStatus, StakeIsLocked, DelegationsFollowStatus, SumsFollowStatus,
       SoundStake, SoundClaims

\* Only the node's present staking is neither unborn nor over.
LEMMA PresentStaking ==
    ASSUME IInv, NEW g \in Gens,
           life[g].status \in {"candidate", "exiting", "locked"}
    PROVE  g = nodeGen /\ nodeGen > 0 /\ nodeStake = stake[g] /\ nodeLife = life[g]
<1>1. ~(g < nodeGen) /\ ~(g > nodeGen)
  BY DEF IInv, NodeMirrorsStaking, Unborn, State
<1>2. g \in Nat /\ nodeGen \in Nat /\ g > 0
  BY StakingAssumption DEF IInv, TypeOK, Gens
<1>3. g = nodeGen /\ nodeGen > 0
  BY <1>1, <1>2
<1> QED
  BY <1>3 DEF IInv, NodeMirrorsStaking

LEMMA OneStaking ==
    ASSUME IInv, NEW g \in Gens, g = nodeGen, nodeGen' = nodeGen, OnlyAt(g), epoch' = epoch,
           TypeOK', nodeStake' = stake'[g], nodeLife' = life'[g], life'[g].status # "none",
           SoundStake(g)', SoundClaims(g)', NodeTotals', VerifierIsAtWork', ReportsWait'
    PROVE  IInv'
<1>1. NodeMirrorsStaking'
  <2>1. g \in Nat /\ g > 0
    BY StakingAssumption DEF Gens
  <2>2. \A h \in Gens : h # g => stake'[h] = stake[h] /\ life'[h] = life[h]
    BY DEF OnlyAt
  <2> QED
    BY <2>1, <2>2 DEF IInv, NodeMirrorsStaking
<1>2. ASSUME NEW h \in Gens
      PROVE  (SoundStake(h) /\ SoundClaims(h))'
  <2>1. CASE h = g
    BY <2>1
  <2>2. CASE h # g
    <3>1. SoundStake(h) /\ SoundClaims(h)
      BY SoundInv
    <3>2. /\ stake'[h] = stake[h] /\ life'[h] = life[h] /\ since'[h] = since[h]
          /\ sums'[h] = sums[h]
          /\ \A d \in Delegators : delegation'[d][h] = delegation[d][h]
      BY <2>2 DEF OnlyAt
    <3>3. SoundStake(h)'
      BY <3>1, <3>2 DEF SoundStake
    <3>4. SoundClaims(h)'
      BY <3>1, <3>2 DEF SoundClaims
    <3> QED
      BY <3>3, <3>4
  <2> QED
    BY <2>1, <2>2
<1>3. (MoneyFollowsStatus /\ StakeIsLocked /\ DelegationsFollowStatus /\ SumsFollowStatus)'
  BY <1>2 DEF MoneyFollowsStatus, StakeIsLocked, DelegationsFollowStatus, SumsFollowStatus,
              SoundStake, SoundClaims
<1> QED
  BY <1>1, <1>3 DEF IInv

LEMMA StakeIncreaseInv ==
    ASSUME IInv, NEW g \in Gens, NEW a \in 1..MaxStake, StakeIncrease(g, a)
    PROVE  IInv'
<1>1. g = nodeGen /\ a \in Nat /\ life[g].status = "candidate"
  BY StakingAssumption DEF StakeIncrease, Accepts
<1>2. nodeGen > 0 /\ nodeStake = stake[g] /\ nodeLife = life[g]
  BY <1>1, PresentStaking
<1>3. TypeOK
  BY DEF IInv
<1>4. stake[g].hes \in Nat /\ stake[g].locked \in Nat /\ stake[g].red \in Nat
  BY <1>3, Fields
<1> DEFINE m == Money(stake[g].hes + a, stake[g].locked, stake[g].red)
<1>5. /\ m \in Stake /\ m.hes = stake[g].hes + a
      /\ m.locked = stake[g].locked /\ m.red = stake[g].red
  BY <1>1, <1>4 DEF Money, Stake
<1>6. /\ stake' = [stake EXCEPT ![g] = m] /\ nodeStake' = m
      /\ nodeSums' = Totals(nodeSums.total + a, nodeSums.delegated, nodeSums.released)
      /\ UNCHANGED <<nodeGen, nodeLife, life, sums, since, frozen, delegation, reports,
                     verifier, epoch, stage, epochEnds, overwritten>>
  BY <1>2 DEF StakeIncrease, round
<1> HIDE DEF m
<1>7. stake' \in [Gens -> Stake] /\ stake'[g] = m /\ \A h \in Gens : h # g => stake'[h] = stake[h]
  BY <1>3, <1>5, <1>6 DEF TypeOK
<1>8. /\ nodeSums' \in NodeSums /\ nodeSums'.total = nodeSums.total + a
      /\ nodeSums'.delegated = nodeSums.delegated
  BY <1>1, <1>3, <1>6, Fields, TotalsAre
<1>9. TypeOK'
  BY <1>3, <1>5, <1>6, <1>7, <1>8 DEF TypeOK
<1>10. OnlyAt(g)
  BY <1>6, <1>7 DEF OnlyAt
<1>11. SoundStake(g) /\ SoundClaims(g)
  BY SoundInv
<1>12. SoundStake(g)'
  BY <1>1, <1>4, <1>5, <1>6, <1>7, <1>11 DEF SoundStake
<1>13. SoundClaims(g)'
  BY <1>6, <1>11 DEF SoundClaims
<1>14. NodeTotals'
  BY <1>1, <1>2, <1>3, <1>4, <1>5, <1>6, <1>8, Fields DEF IInv, NodeTotals
<1>15. VerifierIsAtWork' /\ ReportsWait'
  BY <1>6 DEF IInv, VerifierIsAtWork, ReportsWait, Active, Pending
<1> QED
  BY <1>1, <1>2, <1>6, <1>7, <1>9, <1>10, <1>12, <1>13, <1>14, <1>15, OneStaking

LEMMA DelegateCreateInv ==
    ASSUME IInv, NEW d \in Delegators, NEW g \in Gens, NEW a \in 1..MaxClaim,
           DelegateCreate(d, g, a)
    PROVE  IInv'
<1>1. g = nodeGen /\ a \in Nat /\ life[g].status = "candidate"
  BY StakingAssumption DEF DelegateCreate, Accepts
<1>2. nodeGen > 0 /\ nodeStake = stake[g] /\ nodeLife = life[g]
  BY <1>1, PresentStaking
<1>3. TypeOK
  BY DEF IInv
<1>4. /\ delegation[d][g].hes \in Nat /\ delegation[d][g].locked \in Nat
      /\ delegation[d][g].released \in Nat
      /\ sums[g].hes \in Int /\ sums[g].locked \in Int /\ sums[g].released \in Int
  BY <1>3, Fields
<1> DEFINE r == Row(delegation[d][g].hes + a, delegation[d][g].locked,
                    delegation[d][g].released, FALSE)
           c == Claimed(sums[g].hes + a, sums[g].locked, sums[g].released)
<1>5. /\ r \in DelegationRow /\ r.released = delegation[d][g].released /\ r.history = FALSE
  BY <1>1, <1>4 DEF Row, DelegationRow
<1>6. c \in StakingSums /\ c.hes = sums[g].hes + a /\ c.locked = sums[g].locked
  BY <1>1, <1>4 DEF Claimed, StakingSums
<1>7. /\ delegation' = [delegation EXCEPT ![d][g] = r] /\ sums' = [sums EXCEPT ![g] = c]
      /\ nodeSums' = Totals(nodeSums.total + a, nodeSums.delegated + a, nodeSums.released)
      /\ UNCHANGED <<nodeGen, nodeStake, nodeLife, stake, life, since, frozen, reports,
                     verifier, epoch, stage, epochEnds, overwritten>>
  BY DEF DelegateCreate, round
<1> HIDE DEF r, c
<1>8. /\ delegation' \in [Delegators -> [Gens -> DelegationRow]]
      /\ delegation'[d][g] = r
      /\ \A x \in Delegators, h \in Gens :
            x # d \/ h # g => delegation'[x][h] = delegation[x][h]
  BY <1>3, <1>5, <1>7 DEF TypeOK
<1>9. sums' \in [Gens -> StakingSums] /\ sums'[g] = c /\ \A h \in Gens : h # g => sums'[h] = sums[h]
  BY <1>3, <1>6, <1>7 DEF TypeOK
<1>10. /\ nodeSums' \in NodeSums /\ nodeSums'.total = nodeSums.total + a
       /\ nodeSums'.delegated = nodeSums.delegated + a
  BY <1>1, <1>3, <1>7, Fields DEF Totals, NodeSums
<1>11. TypeOK'
  BY <1>3, <1>7, <1>8, <1>9, <1>10 DEF TypeOK
<1>12. OnlyAt(g)
  BY <1>7, <1>8, <1>9 DEF OnlyAt
<1>13. SoundStake(g) /\ SoundClaims(g)
  BY SoundInv
<1>14. SoundStake(g)'
  BY <1>7, <1>13 DEF SoundStake
<1>15. SoundClaims(g)'
  BY <1>1, <1>5, <1>7, <1>8, <1>9, <1>13 DEF SoundClaims
<1>16. NodeTotals'
  BY <1>1, <1>2, <1>3, <1>4, <1>6, <1>7, <1>9, <1>10, Fields DEF IInv, NodeTotals
<1>17. VerifierIsAtWork' /\ ReportsWait'
  BY <1>7 DEF IInv, VerifierIsAtWork, ReportsWait, Active, Pending
<1> QED
  BY <1>1, <1>2, <1>7, <1>11, <1>12, <1>14, <1>15, <1>16, <1>17, OneStaking

LEMMA RefundIsOwed ==
    ASSUME NEW row \in DelegationRow, NEW a \in Nat, a <= Worth(row)
    PROVE  /\ RealRefund(row, a) \in Nat /\ RealRefund(row, a) <= Worth(row)
           /\ IsRefundAll(row, a) \in BOOLEAN
           /\ IsRefundAll(row, a) => RealRefund(row, a) = Worth(row)
BY StakingAssumption DEF RealRefund, IsRefundAll, Worth, DelegationRow

\* What a withdrawal leaves of a delegation and takes off the sums.
LEMMA BalanceIs ==
    ASSUME NEW row \in DelegationRow, NEW real \in Nat, real <= Worth(row),
           NEW candidate \in BOOLEAN, NEW all \in BOOLEAN, all => real = Worth(row),
           candidate => row.released = 0, ~candidate => row.hes = 0 /\ row.locked = 0
    PROVE  /\ Balance(row, candidate, real, all) \in DelegationRow
           /\ Worth(Balance(row, candidate, real, all)) = Worth(row) - real
           /\ all => Worth(Balance(row, candidate, real, all)) = 0
           /\ Balance(row, candidate, real, all).history = all
           /\ candidate => Balance(row, candidate, real, all).released = 0
           /\ ~candidate => /\ Balance(row, candidate, real, all).hes = 0
                            /\ Balance(row, candidate, real, all).locked = 0
<1> DEFINE b == Balance(row, candidate, real, all)
<1>1. /\ row.hes \in Nat /\ row.locked \in Nat /\ row.released \in Nat
      /\ real <= row.hes + row.locked + row.released
      /\ all => real = row.hes + row.locked + row.released
  BY DEF DelegationRow, Worth
<1>2. CASE ~candidate
  <2>1. /\ b = Row(0, 0, row.released - real, all) /\ row.released - real \in Nat
        /\ row.hes = 0 /\ row.locked = 0
    BY <1>1, <1>2 DEF Balance, NotNegative
  <2> QED
    BY <1>1, <1>2, <2>1 DEF Row, DelegationRow, Worth
<1>3. CASE candidate /\ row.hes >= real
  <2>1. /\ b = Row(row.hes - real, row.locked, row.released, all) /\ row.hes - real \in Nat
        /\ row.released = 0
    BY <1>1, <1>3 DEF Balance
  <2> HIDE DEF b
  <2>2. /\ b \in DelegationRow /\ b.hes = row.hes - real /\ b.locked = row.locked
        /\ b.released = 0 /\ b.history = all
    BY <1>1, <2>1 DEF Row, DelegationRow
  <2>3. Worth(b) = Worth(row) - real /\ (all => Worth(b) = 0)
    BY <1>1, <2>1, <2>2 DEF Worth
  <2> QED
    BY <1>3, <2>2, <2>3 DEF b
<1>4. CASE candidate /\ ~(row.hes >= real)
  <2>1. /\ b = Row(0, row.locked + row.hes - real, row.released, all)
        /\ row.locked + row.hes - real \in Nat
        /\ row.released = 0
    BY <1>1, <1>4 DEF Balance, NotNegative
  <2> HIDE DEF b
  <2>2. /\ b \in DelegationRow /\ b.hes = 0 /\ b.locked = row.locked + row.hes - real
        /\ b.released = 0 /\ b.history = all
    BY <1>1, <2>1 DEF Row, DelegationRow
  <2>3. Worth(b) = Worth(row) - real /\ (all => Worth(b) = 0)
    BY <1>1, <2>1, <2>2 DEF Worth
  <2> QED
    BY <1>4, <2>2, <2>3 DEF b
<1> QED
  BY <1>2, <1>3, <1>4

LEMMA DecreaseIs ==
    ASSUME NEW row \in DelegationRow, NEW real \in Nat, NEW candidate \in BOOLEAN
    PROVE  LET decrease == Decrease(row, candidate, real) IN
           /\ decrease \in StakingSums
           /\ decrease.hes + decrease.locked = IF candidate THEN real ELSE 0
           /\ decrease.hes \in Int /\ decrease.locked \in Int /\ decrease.released \in Int
BY DEF Decrease, Claimed, StakingSums, DelegationRow

\* The row a withdrawal is from, before and after it.
LEMMA ExitRow ==
    ASSUME IInv, NEW d \in Delegators, NEW g \in Gens, NEW a \in 1..MaxClaim,
           DelegateExit(d, g, a)
    PROVE  LET row == delegation[d][g]
               real == RealRefund(row, a)
               balance == delegation'[d][g]
           IN  /\ real \in Nat /\ real <= Worth(row)
               /\ IsRefundAll(row, a) => real = Worth(row)
               /\ delegation' = [delegation EXCEPT ![d][g] = balance]
               /\ balance \in DelegationRow
               /\ Worth(balance) = Worth(row) - real
               /\ balance.history => Worth(balance) = 0
               /\ IsCandidate(g) => balance.released = 0
               /\ ~IsCandidate(g) => balance.hes = 0 /\ balance.locked = 0
               /\ life[g].status # "none"
<1> DEFINE row == delegation[d][g]
           real == RealRefund(row, a)
           all == IsRefundAll(row, a)
           b == Balance(row, IsCandidate(g), real, all)
<1>1. /\ row \in DelegationRow /\ row.hes \in Nat /\ row.locked \in Nat /\ row.released \in Nat
      /\ life[g].status \in {"none", "candidate", "exiting", "exited", "locked"}
  BY Fields DEF IInv, TypeOK
<1>2. a \in Nat /\ a > 0 /\ a <= Worth(row) /\ ~row.history
  BY StakingAssumption DEF DelegateExit
<1>3. SoundClaims(g)
  BY SoundInv
<1>4. life[g].status # "none"
  BY <1>1, <1>2, <1>3 DEF SoundClaims, Worth
<1>5. /\ IsCandidate(g) \in BOOLEAN
      /\ IsCandidate(g) => row.released = 0
      /\ ~IsCandidate(g) => row.hes = 0 /\ row.locked = 0
  BY <1>1, <1>3 DEF SoundClaims, IsCandidate
<1>6. /\ real \in Nat /\ real <= Worth(row) /\ all \in BOOLEAN
      /\ all => real = Worth(row)
  BY <1>1, <1>2, RefundIsOwed
<1>7. delegation' = [delegation EXCEPT ![d][g] = b]
  BY DEF DelegateExit
<1>8. delegation'[d][g] = b
  BY <1>7 DEF IInv, TypeOK
<1> HIDE DEF row, real, all
<1>9. /\ b \in DelegationRow /\ Worth(b) = Worth(row) - real
      /\ all => Worth(b) = 0
      /\ b.history = all
      /\ IsCandidate(g) => b.released = 0
      /\ ~IsCandidate(g) => b.hes = 0 /\ b.locked = 0
  BY <1>1, <1>5, <1>6, BalanceIs
<1> QED
  BY <1>4, <1>6, <1>7, <1>8, <1>9 DEF row, real, all

LEMMA DelegateExitInv ==
    ASSUME IInv, NEW d \in Delegators, NEW g \in Gens, NEW a \in 1..MaxClaim,
           DelegateExit(d, g, a)
    PROVE  IInv'
<1> DEFINE real == RealRefund(delegation[d][g], a)
           decrease == Decrease(delegation[d][g], IsCandidate(g), real)
           present == IF IsCandidate(g) THEN real ELSE 0
           c == Claimed(sums[g].hes - decrease.hes, sums[g].locked - decrease.locked,
                        sums[g].released - decrease.released)
<1>1. TypeOK
  BY DEF IInv
<1>2. real \in Nat /\ life[g].status # "none"
  BY ExitRow
<1>b. PICK balance \in DelegationRow :
         /\ delegation' = [delegation EXCEPT ![d][g] = balance]
         /\ balance.history => Worth(balance) = 0
         /\ IsCandidate(g) => balance.released = 0
         /\ ~IsCandidate(g) => balance.hes = 0 /\ balance.locked = 0
  BY ExitRow
<1>3. /\ decrease.hes \in Int /\ decrease.locked \in Int /\ decrease.released \in Int
      /\ decrease.hes + decrease.locked = present
  <2>1. delegation[d][g] \in DelegationRow /\ IsCandidate(g) \in BOOLEAN
    BY <1>1 DEF TypeOK, IsCandidate
  <2> QED
    BY <1>2, <2>1, DecreaseIs
<1>4. /\ sums' = [sums EXCEPT ![g] = c]
      /\ nodeSums' = Totals(nodeSums.total - present, nodeSums.delegated - present,
                            nodeSums.released - decrease.released)
      /\ UNCHANGED <<nodeGen, nodeStake, nodeLife, stake, life, since, frozen, reports,
                     verifier, epoch, stage, epochEnds, overwritten>>
  BY DEF DelegateExit, round
<1> HIDE DEF real, decrease
<1>5. /\ present \in Int
      /\ sums[g].hes \in Int /\ sums[g].locked \in Int /\ sums[g].released \in Int
  BY <1>1, <1>2, Fields
<1> HIDE DEF present
<1>6. /\ c \in StakingSums /\ c.hes = sums[g].hes - decrease.hes
      /\ c.locked = sums[g].locked - decrease.locked
  BY <1>3, <1>5 DEF Claimed, StakingSums
<1> HIDE DEF c
<1>7. /\ delegation' \in [Delegators -> [Gens -> DelegationRow]]
      /\ delegation'[d][g] = balance
      /\ \A x \in Delegators, h \in Gens :
            x # d \/ h # g => delegation'[x][h] = delegation[x][h]
  BY <1>1, <1>b DEF TypeOK
<1>8. sums' \in [Gens -> StakingSums] /\ sums'[g] = c /\ \A h \in Gens : h # g => sums'[h] = sums[h]
  BY <1>1, <1>4, <1>6 DEF TypeOK
<1>9. /\ nodeSums' \in NodeSums /\ nodeSums'.total = nodeSums.total - present
      /\ nodeSums'.delegated = nodeSums.delegated - present
  BY <1>1, <1>3, <1>4, <1>5, Fields DEF Totals, NodeSums
<1>10. TypeOK'
  BY <1>1, <1>4, <1>7, <1>8, <1>9 DEF TypeOK
<1>11. life[g].status \in {"candidate", "exiting", "exited", "locked"}
  BY <1>1, <1>2, Fields
<1>12. sums'[g].hes + sums'[g].locked = sums[g].hes + sums[g].locked - present
  BY <1>3, <1>5, <1>6, <1>8
<1>13. ASSUME NEW h \in Gens
       PROVE  (SoundStake(h) /\ SoundClaims(h))'
  <2>1. SoundStake(h) /\ SoundClaims(h)
    BY SoundInv
  <2>2. SoundStake(h)'
    BY <1>4, <2>1 DEF SoundStake
  <2>3. CASE h # g
    BY <1>4, <1>7, <1>8, <2>1, <2>2, <2>3 DEF SoundClaims
  <2>4. CASE h = g
    <3>1. life[g].status \in {"none", "exiting", "exited"} => sums'[g].hes + sums'[g].locked = 0
      BY <1>5, <1>11, <1>12, <2>1, <2>4 DEF SoundClaims, IsCandidate, present
    <3>2. balance.history => balance.hes = 0 /\ balance.locked = 0 /\ balance.released = 0
      BY <1>b DEF DelegationRow, Worth
    <3> QED
      BY <1>b, <1>4, <1>7, <1>11, <2>1, <2>2, <2>4, <3>1, <3>2 DEF SoundClaims, IsCandidate
  <2> QED
    BY <2>3, <2>4
<1>14. (MoneyFollowsStatus /\ StakeIsLocked /\ DelegationsFollowStatus /\ SumsFollowStatus)'
  <2>1. (MoneyFollowsStatus /\ StakeIsLocked)'
    BY <1>13 DEF MoneyFollowsStatus, StakeIsLocked, SoundStake
  <2>2. (DelegationsFollowStatus /\ SumsFollowStatus)'
    BY <1>13 DEF DelegationsFollowStatus, SumsFollowStatus, SoundClaims
  <2> QED
    BY <2>1, <2>2
<1>15. NodeTotals'
  <2>1. CASE g = nodeGen
    <3>1. nodeGen > 0 /\ nodeLife = life[g] /\ nodeGen' > 0 /\ nodeGen' = g
      BY <1>4, <2>1, StakingAssumption DEF IInv, NodeMirrorsStaking, Gens
    <3>2. nodeSums'.delegated = sums'[g].hes + sums'[g].locked
      BY <1>1, <1>5, <1>9, <1>12, <2>1, <3>1, Fields DEF IInv, NodeTotals
    <3>3. life[g].status \in {"exiting", "exited"} => nodeSums'.delegated = 0
      <4>1. life[g].status \in {"exiting", "exited"} => nodeSums.delegated = 0 /\ present = 0
        BY <3>1 DEF IInv, NodeTotals, present, IsCandidate
      <4> QED
        BY <1>9, <4>1
    <3>4. nodeSums'.total =
              IF nodeLife.status \in {"candidate", "locked"}
              THEN nodeStake.hes + nodeStake.locked + nodeSums'.delegated ELSE 0
      <4>1. nodeStake = stake[g]
        BY <2>1, <3>1 DEF IInv, NodeMirrorsStaking
      <4>2. stake[g].hes \in Nat /\ stake[g].locked \in Nat /\ nodeSums.total \in Int
            /\ nodeSums.delegated \in Int
        BY <1>1, Fields
      <4>3. ~(life[g].status \in {"candidate", "locked"}) => present = 0
        BY <1>11 DEF present, IsCandidate
      <4> QED
        BY <1>5, <1>9, <3>1, <4>1, <4>2, <4>3 DEF IInv, NodeTotals
    <3> QED
      BY <1>4, <3>1, <3>2, <3>3, <3>4 DEF NodeTotals
  <2>2. CASE g # nodeGen
    <3>1. ~IsCandidate(g)
      BY <1>11, <2>2, PresentStaking DEF IsCandidate
    <3>2. nodeSums'.total = nodeSums.total /\ nodeSums'.delegated = nodeSums.delegated
      BY <1>1, <1>9, <3>1, Fields DEF present
    <3>3. nodeGen # 0 => nodeGen \in Gens
      BY <1>1, StakingAssumption DEF TypeOK, Gens
    <3> QED
      BY <1>4, <1>8, <2>2, <3>2, <3>3 DEF IInv, NodeTotals
  <2> QED
    BY <2>1, <2>2
<1>16. NodeMirrorsStaking' /\ VerifierIsAtWork' /\ ReportsWait'
  BY <1>4 DEF IInv, NodeMirrorsStaking, VerifierIsAtWork, ReportsWait, Active, Pending
<1> QED
  BY <1>10, <1>14, <1>15, <1>16 DEF IInv

LEMMA LeavingInv ==
    ASSUME IInv, NEW g \in Gens, life[g].status \in {"candidate", "exiting", "locked"},
           NEW status \in {"exiting", "exited"}, NEW red \in Nat, NEW end \in Nat,
           NEW low \in Nat, NEW exc \in {"normal", "reported", "slashed"},
           status = "exited" => red = 0, NEW adds \in BOOLEAN,
           LeaveStaking(g, status, red, end, low, exc), LeaveNode(status, red, end, low, exc),
           ReleaseDelegations(g, adds),
           reports' \in [Gens -> 0..MaxReports], verifier' \in BOOLEAN, epoch' = epoch,
           stage' \in {"blocks", "reports", "settlement"}, epochEnds' \in BOOLEAN,
           overwritten' \subseteq Gens, VerifierIsAtWork', ReportsWait'
    PROVE  IInv'
<1>1. TypeOK
  BY DEF IInv
<1>2. g = nodeGen /\ nodeGen > 0
  BY PresentStaking
<1> DEFINE m == Money(0, 0, red)
           s == State(status, end, low, exc)
           c == Claimed(0, 0, sums[g].hes + sums[g].locked)
           r(x) == ReleasedBy(delegation[x][g], IF adds THEN delegation[x][g].released ELSE 0)
<1>3. m \in Stake /\ m.hes = 0 /\ m.locked = 0 /\ m.red = red /\ (red = 0 => m = Nothing)
  BY DEF Money, Stake, Nothing
<1>4. s \in Life /\ s.status = status
  BY DEF State, Life
<1>5. c \in StakingSums /\ c.hes = 0 /\ c.locked = 0
  BY <1>1, Fields DEF Claimed, StakingSums
<1>6. ASSUME NEW x \in Delegators
      PROVE  /\ r(x) \in DelegationRow /\ r(x).hes = 0 /\ r(x).locked = 0
             /\ r(x).history => r(x).released = 0
  <2>1. delegation[x][g] \in DelegationRow
    BY <1>1 DEF TypeOK
  <2>2. /\ delegation[x][g].hes \in Nat /\ delegation[x][g].locked \in Nat
        /\ delegation[x][g].released \in Nat /\ delegation[x][g].history \in BOOLEAN
    BY <1>1, Fields
  <2>3. SoundClaims(g)
    BY SoundInv
  <2>4. CASE delegation[x][g].history
    BY <2>1, <2>3, <2>4 DEF ReleasedBy, SoundClaims
  <2>5. CASE ~delegation[x][g].history
    BY <2>2, <2>5 DEF ReleasedBy, Row, DelegationRow
  <2> QED
    BY <2>4, <2>5
<1>7. /\ stake' = [stake EXCEPT ![g] = m] /\ life' = [life EXCEPT ![g] = s]
      /\ sums' = [sums EXCEPT ![g] = c] /\ UNCHANGED <<since, frozen>>
  BY DEF LeaveStaking
<1>8. /\ nodeStake' = m /\ nodeLife' = s /\ nodeGen' = nodeGen
      /\ nodeSums' = Totals(0, 0, nodeSums.released + nodeSums.delegated)
  BY DEF LeaveNode
<1>9. delegation' = [x \in Delegators |-> [h \in Gens |->
                        IF h = g THEN r(x) ELSE delegation[x][h]]]
  BY DEF ReleaseDelegations
<1> HIDE DEF m, s, c, r
<1>10. /\ nodeSums' \in NodeSums /\ nodeSums'.total = 0 /\ nodeSums'.delegated = 0
  BY <1>1, <1>8, Fields DEF Totals, NodeSums
<1>11. /\ stake' \in [Gens -> Stake] /\ stake'[g] = m
       /\ \A h \in Gens : h # g => stake'[h] = stake[h]
  BY <1>1, <1>3, <1>7 DEF TypeOK
<1>12. /\ life' \in [Gens -> Life] /\ life'[g] = s
       /\ \A h \in Gens : h # g => life'[h] = life[h]
  BY <1>1, <1>4, <1>7 DEF TypeOK
<1>13. /\ sums' \in [Gens -> StakingSums] /\ sums'[g] = c
       /\ \A h \in Gens : h # g => sums'[h] = sums[h]
  BY <1>1, <1>5, <1>7 DEF TypeOK
<1>14. /\ delegation' \in [Delegators -> [Gens -> DelegationRow]]
       /\ \A x \in Delegators : delegation'[x][g] = r(x)
       /\ \A x \in Delegators, h \in Gens : h # g => delegation'[x][h] = delegation[x][h]
  BY <1>1, <1>6, <1>9 DEF TypeOK
<1>15. TypeOK'
  BY <1>1, <1>3, <1>4, <1>7, <1>8, <1>10, <1>11, <1>12, <1>13, <1>14 DEF TypeOK
<1>16. OnlyAt(g)
  BY <1>7, <1>11, <1>12, <1>13, <1>14 DEF OnlyAt
<1>17. SoundStake(g)'
  BY <1>3, <1>4, <1>11, <1>12 DEF SoundStake, Nothing
<1>18. SoundClaims(g)'
  BY <1>4, <1>5, <1>6, <1>12, <1>13, <1>14 DEF SoundClaims
<1>19. NodeTotals'
  BY <1>2, <1>4, <1>5, <1>8, <1>10, <1>13 DEF NodeTotals
<1> QED
  BY <1>2, <1>4, <1>8, <1>11, <1>12, <1>15, <1>16, <1>17, <1>18, <1>19, OneStaking

\* What LeavingInv leaves to its users: the state of the staking that left.
LEMMA LeftStaking ==
    ASSUME TypeOK, NEW g \in Gens, NEW status, NEW red, NEW end, NEW low, NEW exc,
           LeaveStaking(g, status, red, end, low, exc)
    PROVE  /\ life'[g].status = status /\ life'[g].end = end /\ life'[g].exc = exc
           /\ \A h \in Gens : h # g => life'[h] = life[h]
           /\ since' = since /\ frozen' = frozen
<1>1. /\ life' = [life EXCEPT ![g] = State(status, end, low, exc)]
      /\ since' = since /\ frozen' = frozen
  BY DEF LeaveStaking
<1>2. life'[g] = State(status, end, low, exc) /\ \A h \in Gens : h # g => life'[h] = life[h]
  BY <1>1 DEF TypeOK
<1> QED
  BY <1>1, <1>2 DEF State

LEMMA NoReportsWait ==
    ASSUME IInv, NEW g \in Gens, Accepts(g)
    PROVE  \A h \in Gens : reports[h] = 0
<1>1. \A h \in Gens : reports[h] \in Nat
  BY StakingAssumption DEF IInv, TypeOK
<1>2. \A h \in Gens : ~(reports[h] > 0)
  BY DEF IInv, ReportsWait, Accepts
<1> QED
  BY <1>1, <1>2

LEMMA StakeExitLockedInv ==
    ASSUME IInv, NEW g \in Gens, StakeExitLocked(g)
    PROVE  IInv'
<1>1. /\ g = nodeGen /\ life[g].status = "candidate" /\ since[g] < epoch /\ stage = "blocks"
  BY DEF StakeExitLocked, Accepts
<1>2. nodeGen > 0 /\ nodeStake = stake[g] /\ nodeLife = life[g]
  BY <1>1, PresentStaking
<1>3. TypeOK
  BY DEF IInv
<1>4. /\ stake[g].locked \in Nat /\ life[g].low \in Nat
      /\ life[g].exc \in {"normal", "reported", "slashed"}
      /\ stake[g].locked > 0
  BY <1>1, <1>3, Fields, SoundInv DEF SoundStake
<1>5. PICK end \in EndBlocks(TRUE) :
         /\ LeaveNode("exiting", stake[g].locked, end, life[g].low, life[g].exc)
         /\ LeaveStaking(g, "exiting", stake[g].locked, end, life[g].low, life[g].exc)
  BY <1>2, <1>4 DEF StakeExitLocked
<1>6. end \in Nat /\ end > epoch
  BY <1>3, StakingAssumption DEF EndBlocks, TypeOK
<1>7. /\ ReleaseDelegations(g, FALSE)
      /\ UNCHANGED <<reports, verifier, epoch, stage, epochEnds, overwritten>>
  BY DEF StakeExitLocked, round
<1>8. /\ life'[g].status = "exiting" /\ life'[g].end = end /\ since' = since /\ frozen' = frozen
      /\ nodeGen' = nodeGen
  BY <1>3, <1>5, LeftStaking DEF LeaveNode
<1>9. VerifierIsAtWork'
  BY <1>1, <1>6, <1>7, <1>8 DEF VerifierIsAtWork, Active
<1>10. ReportsWait'
  <2>1. \A h \in Gens : ~(reports'[h] > 0)
    BY <1>7, NoReportsWait DEF StakeExitLocked
  <2> QED
    BY <2>1 DEF ReportsWait, Pending
<1>11. /\ reports' \in [Gens -> 0..MaxReports] /\ verifier' \in BOOLEAN /\ epoch' = epoch
       /\ stage' \in {"blocks", "reports", "settlement"} /\ epochEnds' \in BOOLEAN
       /\ overwritten' \subseteq Gens
  BY <1>3, <1>7 DEF TypeOK
<1> QED
  <2>1. life[g].status \in {"candidate", "exiting", "locked"}
    BY <1>1
  <2> QED
    BY <1>4, <1>5, <1>6, <1>7, <1>9, <1>10, <1>11, <2>1, LeavingInv

LEMMA StakeExitUnlockedInv ==
    ASSUME IInv, NEW g \in Gens, StakeExitUnlocked(g)
    PROVE  IInv'
<1>1. /\ g = nodeGen /\ life[g].status = "candidate" /\ ~(since[g] < epoch) /\ stage = "blocks"
  BY DEF StakeExitUnlocked, Accepts, IInv, TypeOK
<1>2. nodeGen > 0 /\ nodeStake = stake[g] /\ nodeLife = life[g]
  BY <1>1, PresentStaking
<1>3. TypeOK
  BY DEF IInv
<1>4. /\ life[g].end \in Nat /\ life[g].low \in Nat
      /\ life[g].exc \in {"normal", "reported", "slashed"}
  BY <1>3, Fields
<1>5. /\ LeaveNode("exited", 0, life[g].end, life[g].low, life[g].exc)
      /\ LeaveStaking(g, "exited", 0, life[g].end, life[g].low, life[g].exc)
  BY <1>2 DEF StakeExitUnlocked
<1>7. /\ ReleaseDelegations(g, FALSE)
      /\ UNCHANGED <<reports, verifier, epoch, stage, epochEnds, overwritten>>
  BY DEF StakeExitUnlocked, round
<1>9. VerifierIsAtWork'
  BY <1>1, <1>7 DEF VerifierIsAtWork, IInv
<1>10. ReportsWait'
  <2>1. \A h \in Gens : ~(reports'[h] > 0)
    BY <1>7, NoReportsWait DEF StakeExitUnlocked
  <2> QED
    BY <2>1 DEF ReportsWait, Pending
<1>11. /\ reports' \in [Gens -> 0..MaxReports] /\ verifier' \in BOOLEAN /\ epoch' = epoch
       /\ stage' \in {"blocks", "reports", "settlement"} /\ epochEnds' \in BOOLEAN
       /\ overwritten' \subseteq Gens
  BY <1>3, <1>7 DEF TypeOK
<1> QED
  BY <1>1, <1>4, <1>5, <1>7, <1>9, <1>10, <1>11, LeavingInv

LEMMA ElectionLeaveInv ==
    ASSUME IInv, NEW g \in Gens, ElectionLeave(g)
    PROVE  IInv'
<1>1. life[g].status \in {"candidate", "exiting"} /\ stage = "blocks" /\ verifier
  BY DEF ElectionLeave, LowRate
<1>2. g = nodeGen /\ nodeGen > 0 /\ nodeStake = stake[g] /\ nodeLife = life[g]
  BY <1>1, PresentStaking
<1>3. TypeOK
  BY DEF IInv
<1>4. /\ stake[g].locked \in Nat /\ stake[g].hes \in Nat /\ life[g].low + 1 \in Nat
      /\ life[g].exc \in {"normal", "reported", "slashed"} /\ life[g].end \in Nat
  BY <1>3, Fields
<1> DEFINE red == AfterPenalty(stake[g])
<1>5. red \in Nat
  BY <1>4, StakingAssumption DEF AfterPenalty, NotNegative
<1> HIDE DEF red
<1>6. PICK end \in EndBlocks(TRUE)
                  \cup {IF life[g].status = "exiting" THEN life[g].end ELSE epoch + Freeze} :
         /\ LeaveNode("exiting", red, end, life[g].low + 1, life[g].exc)
         /\ LeaveStaking(g, "exiting", red, end, life[g].low + 1, life[g].exc)
  BY <1>2 DEF ElectionLeave, red
<1>7. end \in Nat /\ end > epoch
  <2>1. life[g].status = "exiting" => life[g].end > epoch
    BY <1>1, <1>2 DEF IInv, VerifierIsAtWork
  <2> QED
    BY <1>3, <1>4, <2>1, StakingAssumption DEF EndBlocks, TypeOK
<1>8. /\ ReleaseDelegations(g, TRUE)
      /\ UNCHANGED <<reports, verifier, epoch, stage, epochEnds>>
      /\ overwritten' \subseteq Gens
  BY <1>3 DEF ElectionLeave, round, TypeOK
<1>9. /\ life'[g].status = "exiting" /\ life'[g].end = end /\ life'[g].exc = life[g].exc
      /\ \A h \in Gens : h # g => life'[h] = life[h]
      /\ since' = since /\ frozen' = frozen /\ nodeGen' = nodeGen
  BY <1>3, <1>6, LeftStaking DEF LeaveNode
<1>10. VerifierIsAtWork'
  BY <1>1, <1>2, <1>7, <1>8, <1>9 DEF IInv, VerifierIsAtWork, Active
<1>11. ReportsWait'
  BY <1>1, <1>2, <1>8, <1>9 DEF IInv, ReportsWait, Active
<1>12. /\ reports' \in [Gens -> 0..MaxReports] /\ verifier' \in BOOLEAN /\ epoch' = epoch
       /\ stage' \in {"blocks", "reports", "settlement"} /\ epochEnds' \in BOOLEAN
  BY <1>3, <1>8 DEF TypeOK
<1> QED
  BY <1>1, <1>4, <1>5, <1>6, <1>7, <1>8, <1>10, <1>11, <1>12, LeavingInv

\* A double sign never takes more than is there.
LEMMA RemainingIsLeft ==
    ASSUME NEW row \in Stake, NEW status, status = "exiting" => row.locked = 0
    PROVE  Remaining(row, status) \in Nat
<1>1. row.hes \in Nat /\ row.locked \in Nat /\ row.red \in Nat
  BY DEF Stake
<1>2. /\ row.red \div SlashDivisor \in Nat /\ row.red \div SlashDivisor <= row.red
      /\ row.locked \div SlashDivisor \in Nat /\ row.locked \div SlashDivisor <= row.locked
  BY <1>1, SlashShare
<1>3. row.locked = 0 => row.red - row.red \div SlashDivisor \in Nat
  BY <1>1, <1>2
<1>4. row.locked > 0 => row.locked - row.locked \div SlashDivisor \in Nat
  BY <1>1, <1>2
<1> QED
  BY <1>1, <1>2, <1>3, <1>4 DEF Remaining

LEMMA SlashNodeInv ==
    ASSUME IInv, NEW g \in Gens, SlashNode(g)
    PROVE  IInv'
<1>1. reports[g] > 0 /\ stage = "reports"
  BY DEF SlashNode
<1>2. /\ g = nodeGen /\ life[g].status \in {"candidate", "exiting", "locked"}
      /\ \A h \in Gens : reports[h] > 0 => h = g
  BY <1>1 DEF IInv, ReportsWait, Active
<1>3. TypeOK /\ nodeStake = stake[g] /\ nodeLife = life[g]
  BY <1>2, PresentStaking DEF IInv
<1>4. life[g].end \in Nat /\ life[g].low \in Nat /\ stake[g] \in Stake
  BY <1>3, Fields DEF TypeOK
<1> DEFINE remain == Remaining(stake[g], life[g].status)
<1>5. remain \in Nat
  <2>1. life[g].status = "exiting" => stake[g].locked = 0
    BY SoundInv DEF SoundStake
  <2> QED
    BY <1>4, <2>1, RemainingIsLeft
<1>6. /\ LeaveNode("exiting", remain, life[g].end, life[g].low, "slashed")
      /\ LeaveStaking(g, "exiting", remain, life[g].end, life[g].low, "slashed")
  <2>1. remain >= 0 /\ NotNegative(remain) = remain
    BY <1>5 DEF NotNegative
  <2> HIDE DEF remain
  <2> QED
    BY <1>3, <2>1 DEF SlashNode, remain
<1> HIDE DEF remain
<1>7. /\ reports' = [reports EXCEPT ![g] = reports[g] - 1] /\ ReleaseDelegations(g, TRUE)
      /\ UNCHANGED <<epoch, stage, epochEnds>> /\ verifier' = FALSE
      /\ overwritten' \subseteq Gens
  BY <1>3 DEF SlashNode, TypeOK
<1>8. /\ life'[g].status = "exiting" /\ nodeGen' = nodeGen
  BY <1>3, <1>6, LeftStaking DEF LeaveNode
<1>9. reports' \in [Gens -> 0..MaxReports] /\ \A h \in Gens : h # g => reports'[h] = reports[h]
  BY <1>1, <1>3, <1>7, StakingAssumption DEF TypeOK
<1>10. VerifierIsAtWork'
  BY <1>7 DEF VerifierIsAtWork
<1>11. ReportsWait'
  BY <1>1, <1>2, <1>7, <1>8, <1>9 DEF ReportsWait, Active
<1>12. /\ verifier' \in BOOLEAN /\ epoch' = epoch
       /\ stage' \in {"blocks", "reports", "settlement"} /\ epochEnds' \in BOOLEAN
  BY <1>3, <1>7 DEF TypeOK
<1> QED
  BY <1>2, <1>4, <1>5, <1>6, <1>7, <1>9, <1>10, <1>11, <1>12, LeavingInv

LEMMA ReportInv ==
    ASSUME IInv, NEW g \in Gens, Report(g)
    PROVE  IInv'
<1>1. /\ g = nodeGen /\ life[g].status \in {"candidate", "exiting", "locked"}
      /\ stage = "blocks" /\ reports[g] < MaxReports /\ since[g] < epoch
  BY DEF Report, Active
<1>2. nodeGen > 0 /\ nodeStake = stake[g] /\ nodeLife = life[g]
  BY <1>1, PresentStaking
<1>3. TypeOK
  BY DEF IInv
<1>4. life[g].end \in Nat /\ life[g].low \in Nat
  BY <1>3, Fields
<1>5. \E end \in Nat :
         /\ life[g].status = "exiting" => end = life[g].end
         /\ life' = [life EXCEPT ![g] = State(life[g].status, end, life[g].low, "reported")]
         /\ nodeLife' = State(life[g].status, end, life[g].low, "reported")
  <2>1. CASE life[g].status = "candidate"
    <3>1. PICK end \in EndBlocks(TRUE) :
             /\ life' = [life EXCEPT ![g] = WithException(life[g], "reported", end)]
             /\ nodeLife' = WithException(life[g], "reported", end)
      BY <1>2, <2>1 DEF Report
    <3>2. end \in Nat
      BY <1>3, StakingAssumption DEF EndBlocks, TypeOK
    <3> QED
      BY <2>1, <3>1, <3>2 DEF WithException
  <2>2. CASE life[g].status # "candidate"
    BY <1>2, <1>4, <2>2 DEF Report, WithException
  <2> QED
    BY <2>1, <2>2
<1>6. PICK end \in Nat :
         /\ life[g].status = "exiting" => end = life[g].end
         /\ life' = [life EXCEPT ![g] = State(life[g].status, end, life[g].low, "reported")]
         /\ nodeLife' = State(life[g].status, end, life[g].low, "reported")
  BY <1>5
<1> DEFINE s == State(life[g].status, end, life[g].low, "reported")
<1>7. s \in Life /\ s.status = life[g].status /\ s.end = end /\ s.exc = "reported"
  BY <1>1, <1>4 DEF State, Life
<1> HIDE DEF s
<1>8. /\ life' \in [Gens -> Life] /\ life'[g] = s /\ nodeLife' = s
      /\ \A h \in Gens : h # g => life'[h] = life[h]
  BY <1>3, <1>6, <1>7 DEF TypeOK, s
<1>9. /\ reports' = [reports EXCEPT ![g] = reports[g] + 1]
      /\ UNCHANGED <<nodeGen, nodeStake, nodeSums, stake, sums, since, frozen, delegation,
                     verifier, epoch, stage, epochEnds, overwritten>>
  BY DEF Report, round
<1>10. reports' \in [Gens -> 0..MaxReports] /\ \A h \in Gens : h # g => reports'[h] = reports[h]
  BY <1>1, <1>3, <1>9, StakingAssumption DEF TypeOK
<1>11. TypeOK'
  BY <1>3, <1>7, <1>8, <1>9, <1>10 DEF TypeOK
<1>12. OnlyAt(g)
  BY <1>8, <1>9 DEF OnlyAt
<1>13. SoundStake(g) /\ SoundClaims(g)
  BY SoundInv
<1>14. SoundStake(g)' /\ SoundClaims(g)'
  BY <1>7, <1>8, <1>9, <1>13 DEF SoundStake, SoundClaims
<1>15. NodeTotals'
  BY <1>2, <1>7, <1>8, <1>9 DEF IInv, NodeTotals
<1>16. VerifierIsAtWork'
  BY <1>1, <1>6, <1>7, <1>8, <1>9 DEF IInv, VerifierIsAtWork, Active
<1>17. ReportsWait'
  BY <1>1, <1>7, <1>8, <1>9, <1>10 DEF IInv, ReportsWait, Active
<1> QED
  BY <1>1, <1>2, <1>7, <1>8, <1>9, <1>11, <1>12, <1>14, <1>15, <1>16, <1>17, OneStaking

\* The penalty of a node that stays leaves what the threshold asks for.
LEMMA PenalisedIs ==
    ASSUME NEW row \in Stake, ~(row.hes + row.locked - LowRateSlash < StakeThreshold)
    PROVE  /\ Penalised(row) \in Stake
           /\ Penalised(row).hes + Penalised(row).locked = row.hes + row.locked - LowRateSlash
           /\ Penalised(row).hes + Penalised(row).locked > 0
           /\ row.locked > 0 => Penalised(row).locked > 0
           /\ Penalised(row).red = row.red
           /\ Penalised(row) = Money(Penalised(row).hes, Penalised(row).locked, row.red)
<1>1. row.hes \in Nat /\ row.locked \in Nat /\ row.red \in Nat
  BY DEF Stake
<1>2. /\ LowRateSlash \in Nat /\ StakeThreshold \in Nat /\ StakeThreshold > 0
      /\ row.hes + row.locked - LowRateSlash >= StakeThreshold
  BY <1>1, StakingAssumption
<1>3. CASE row.hes >= LowRateSlash
  <2>1. PICK hes \in Nat : hes = row.hes - LowRateSlash
    BY <1>1, <1>2, <1>3
  <2>2. Penalised(row) = Money(hes, row.locked, row.red)
    BY <1>3, <2>1 DEF Penalised
  <2>3. /\ Penalised(row) \in Stake /\ Penalised(row).hes = hes
        /\ Penalised(row).locked = row.locked /\ Penalised(row).red = row.red
    BY <1>1, <2>2 DEF Money, Stake
  <2> QED
    BY <1>1, <1>2, <2>1, <2>2, <2>3
<1>4. CASE ~(row.hes >= LowRateSlash)
  <2>1. PICK locked \in Nat : locked = row.locked - (LowRateSlash - row.hes)
    BY <1>1, <1>2, <1>4
  <2>2. Penalised(row) = Money(0, locked, row.red)
    BY <1>4, <2>1 DEF Penalised
  <2>3. /\ Penalised(row) \in Stake /\ Penalised(row).hes = 0
        /\ Penalised(row).locked = locked /\ Penalised(row).red = row.red
    BY <1>1, <2>2 DEF Money, Stake
  <2> QED
    BY <1>1, <1>2, <2>1, <2>2, <2>3
<1> QED
  BY <1>3, <1>4

LEMMA ElectionLockInv ==
    ASSUME IInv, NEW g \in Gens, ElectionLock(g)
    PROVE  IInv'
<1>1. life[g].status = "candidate" /\ stage = "blocks" /\ verifier /\ ~BelowThreshold(g)
  BY DEF ElectionLock, LowRate
<1>2. g = nodeGen /\ nodeGen > 0 /\ nodeStake = stake[g] /\ nodeLife = life[g]
  BY <1>1, PresentStaking
<1>3. TypeOK /\ stake[g] \in Stake
  BY DEF IInv, TypeOK
<1>4. /\ stake[g].locked \in Nat /\ stake[g].hes \in Nat /\ life[g].low + 1 \in Nat
      /\ life[g].exc \in {"normal", "reported", "slashed"} /\ life[g].end \in Nat
      /\ epoch \in Nat
  BY <1>3, Fields DEF TypeOK
<1> DEFINE m == Penalised(stake[g])
           s == State("locked", life[g].end, life[g].low + 1, life[g].exc)
<1>5. /\ m \in Stake /\ m.hes + m.locked = stake[g].hes + stake[g].locked - LowRateSlash
      /\ m.hes + m.locked > 0 /\ (stake[g].locked > 0 => m.locked > 0)
      /\ m.red = stake[g].red /\ m = Money(m.hes, m.locked, stake[g].red)
  BY <1>1, <1>3, PenalisedIs DEF BelowThreshold
<1>6. s \in Life /\ s.status = "locked" /\ s.exc = life[g].exc
  BY <1>4 DEF State, Life
<1>7. /\ stake' = [stake EXCEPT ![g] = m] /\ nodeStake' = m
      /\ life' = [life EXCEPT ![g] = s] /\ nodeLife' = s
      /\ frozen' = [frozen EXCEPT ![g] = epoch]
      /\ nodeSums' = Totals(nodeSums.total - LowRateSlash, nodeSums.delegated, nodeSums.released)
      /\ UNCHANGED <<nodeGen, sums, since, delegation, reports, verifier, epoch, stage,
                     epochEnds, overwritten>>
  BY <1>2, <1>5 DEF ElectionLock, round
<1> HIDE DEF m, s
<1>8. stake' \in [Gens -> Stake] /\ stake'[g] = m /\ \A h \in Gens : h # g => stake'[h] = stake[h]
  BY <1>3, <1>5, <1>7 DEF TypeOK
<1>9. life' \in [Gens -> Life] /\ life'[g] = s /\ \A h \in Gens : h # g => life'[h] = life[h]
  BY <1>3, <1>6, <1>7 DEF TypeOK
<1>10. frozen' \in [Gens -> Nat] /\ frozen'[g] = epoch
  BY <1>3, <1>4, <1>7 DEF TypeOK
<1>11. /\ nodeSums' \in NodeSums /\ nodeSums'.total = nodeSums.total - LowRateSlash
       /\ nodeSums'.delegated = nodeSums.delegated
  BY <1>3, <1>7, Fields, StakingAssumption DEF Totals, NodeSums
<1>12. TypeOK'
  BY <1>3, <1>5, <1>6, <1>7, <1>8, <1>9, <1>10, <1>11 DEF TypeOK
<1>13. OnlyAt(g)
  BY <1>7, <1>8, <1>9 DEF OnlyAt
<1>14. SoundStake(g) /\ SoundClaims(g)
  BY SoundInv
<1>15. SoundStake(g)'
  BY <1>1, <1>5, <1>6, <1>7, <1>8, <1>9, <1>14 DEF SoundStake
<1>16. SoundClaims(g)'
  BY <1>1, <1>6, <1>7, <1>9, <1>14 DEF SoundClaims
<1>17. NodeTotals'
  <2>1. m.hes \in Nat /\ m.locked \in Nat
    BY <1>5 DEF Stake
  <2>2. nodeSums.total = stake[g].hes + stake[g].locked + nodeSums.delegated
    BY <1>1, <1>2 DEF IInv, NodeTotals
  <2>3. nodeSums'.total = m.hes + m.locked + nodeSums.delegated
    BY <1>3, <1>4, <1>5, <1>11, <2>1, <2>2, Fields, StakingAssumption
  <2> QED
    BY <1>2, <1>6, <1>7, <1>11, <2>3 DEF IInv, NodeTotals
<1>18. VerifierIsAtWork'
  BY <1>1, <1>2, <1>4, <1>6, <1>7, <1>9, <1>10 DEF IInv, VerifierIsAtWork, Active
<1>19. ReportsWait'
  BY <1>1, <1>2, <1>6, <1>7, <1>9 DEF IInv, ReportsWait, Active
<1> QED
  BY <1>2, <1>6, <1>7, <1>8, <1>9, <1>12, <1>13, <1>15, <1>16, <1>17, <1>18, <1>19, OneStaking

LEMMA StakeCreateInv ==
    ASSUME IInv, NEW a \in StakeThreshold..MaxStake, StakeCreate(a)
    PROVE  IInv'
<1> DEFINE g == nodeGen + 1
           m == Money(a, 0, 0)
           s == State("candidate", epoch + Freeze, 0, "normal")
<1>1. TypeOK /\ nodeGen \in 0..MaxGen /\ epoch \in Nat
  BY DEF IInv, TypeOK
<1>2. /\ nodeLife.status \in {"none", "exited"} /\ stage = "blocks"
      /\ g \in Gens /\ g > 0 /\ g > nodeGen /\ a \in Nat /\ a > 0
  BY <1>1, StakingAssumption DEF StakeCreate, Gens
<1>3. \A h \in Gens : life[h].status \in {"none", "exited"}
  <2>1. \A h \in Gens : life[h].status \in {"candidate", "exiting", "locked"} =>
           nodeLife.status = life[h].status
    BY PresentStaking
  <2>2. \A h \in Gens : ~(life[h].status \in {"candidate", "exiting", "locked"})
    BY <1>2, <2>1
  <2> QED
    BY <1>1, <2>2, Fields
<1>4. verifier = FALSE /\ \A h \in Gens : ~(reports[h] > 0)
  BY <1>1, <1>3 DEF IInv, VerifierIsAtWork, ReportsWait, Active, TypeOK
<1>5. nodeStake = Nothing
  BY <1>1, <1>3, StakingAssumption DEF IInv, NodeMirrorsStaking, MoneyFollowsStatus, Gens
<1>6. m \in Stake /\ m.hes = a /\ m.locked = 0 /\ m.red = 0
  BY <1>2 DEF Money, Stake
<1>7. s \in Life /\ s.status = "candidate"
  BY <1>1, StakingAssumption DEF State, Life
<1>8. /\ stake' = [stake EXCEPT ![g] = m] /\ life' = [life EXCEPT ![g] = s]
      /\ since' = [since EXCEPT ![g] = epoch] /\ nodeGen' = g
      /\ nodeStake' = m /\ nodeLife' = s
      /\ nodeSums' = Totals(nodeSums.total + a, nodeSums.delegated, nodeSums.released)
      /\ UNCHANGED <<sums, frozen, delegation, reports, verifier, epoch, stage, epochEnds,
                     overwritten>>
  BY <1>5 DEF StakeCreate, round, Nothing, Money
<1> HIDE DEF m, s
<1>9. /\ stake' \in [Gens -> Stake] /\ stake'[g] = m
      /\ \A h \in Gens : h # g => stake'[h] = stake[h]
  BY <1>1, <1>2, <1>6, <1>8 DEF TypeOK
<1>10. /\ life' \in [Gens -> Life] /\ life'[g] = s
       /\ \A h \in Gens : h # g => life'[h] = life[h]
  BY <1>1, <1>2, <1>7, <1>8 DEF TypeOK
<1>11. /\ since' \in [Gens -> Nat] /\ since'[g] = epoch
       /\ \A h \in Gens : h # g => since'[h] = since[h]
  BY <1>1, <1>2, <1>8 DEF TypeOK
<1>12. nodeSums.delegated = 0 /\ nodeSums.total = 0
  BY <1>1, <1>2 DEF IInv, NodeTotals, NodeMirrorsStaking
<1>13. nodeSums' \in NodeSums /\ nodeSums'.total = a /\ nodeSums'.delegated = 0
  BY <1>1, <1>2, <1>8, <1>12, Fields DEF Totals, NodeSums
<1>14. TypeOK'
  <2>1. nodeGen' \in 0..MaxGen
    BY <1>2, <1>8, StakingAssumption DEF Gens
  <2> QED
    BY <1>1, <1>6, <1>7, <1>8, <1>9, <1>10, <1>11, <1>13, <2>1 DEF TypeOK
<1>15. NodeMirrorsStaking'
  <2>1. ASSUME NEW h \in Gens, h < nodeGen'
        PROVE  life'[h].status = "exited"
    <3>1. h \in Nat /\ h > 0 /\ h # g /\ (h < nodeGen \/ h = nodeGen)
      BY <1>1, <1>8, <2>1, StakingAssumption DEF Gens
    <3>2. nodeGen > 0 => life[nodeGen].status = "exited"
      BY <1>2 DEF IInv, NodeMirrorsStaking
    <3>3. life[h].status = "exited"
      BY <3>1, <3>2 DEF IInv, NodeMirrorsStaking
    <3> QED
      BY <1>10, <3>1, <3>3
  <2>2. ASSUME NEW h \in Gens, h > nodeGen'
        PROVE  stake'[h] = Nothing /\ life'[h] = Unborn
    <3>1. h # g /\ h > nodeGen
      BY <1>1, <1>8, <2>2, StakingAssumption DEF Gens
    <3> QED
      BY <1>9, <1>10, <3>1 DEF IInv, NodeMirrorsStaking
  <2> QED
    BY <1>2, <1>7, <1>8, <1>9, <1>10, <2>1, <2>2 DEF NodeMirrorsStaking
<1>16. ASSUME NEW h \in Gens
       PROVE  (SoundStake(h) /\ SoundClaims(h))'
  <2>1. SoundStake(h) /\ SoundClaims(h)
    BY SoundInv
  <2>2. CASE h # g
    BY <1>8, <1>9, <1>10, <1>11, <2>1, <2>2 DEF SoundStake, SoundClaims
  <2>3. CASE h = g
    <3>1. SoundStake(h)'
      BY <1>1, <1>2, <1>6, <1>7, <1>8, <1>9, <1>10, <1>11, <2>3 DEF SoundStake
    <3>2. SoundClaims(h)'
      <4>1. life[g] = Unborn
        BY <1>2 DEF IInv, NodeMirrorsStaking
      <4> QED
        BY <1>7, <1>8, <1>10, <2>1, <2>3, <4>1 DEF SoundClaims, Unborn, State
    <3> QED
      BY <3>1, <3>2
  <2> QED
    BY <2>2, <2>3
<1>17. (MoneyFollowsStatus /\ StakeIsLocked /\ DelegationsFollowStatus /\ SumsFollowStatus)'
  <2>1. (MoneyFollowsStatus /\ StakeIsLocked)'
    BY <1>16 DEF MoneyFollowsStatus, StakeIsLocked, SoundStake
  <2>2. (DelegationsFollowStatus /\ SumsFollowStatus)'
    BY <1>16 DEF DelegationsFollowStatus, SumsFollowStatus, SoundClaims
  <2> QED
    BY <2>1, <2>2
<1>18. NodeTotals'
  <2>1. sums[g].hes + sums[g].locked = 0
    <3>1. life[g].status = "none"
      BY <1>2 DEF IInv, NodeMirrorsStaking, Unborn, State
    <3> QED
      BY <1>2, <3>1, SoundInv DEF SoundClaims
  <2> QED
    BY <1>2, <1>6, <1>7, <1>8, <1>13, <2>1 DEF NodeTotals
<1>19. VerifierIsAtWork' /\ ReportsWait'
  BY <1>2, <1>4, <1>8 DEF VerifierIsAtWork, ReportsWait, Pending
<1> QED
  BY <1>14, <1>15, <1>17, <1>18, <1>19 DEF IInv

LEMMA ConsensusSwitchInv ==
    ASSUME IInv, NEW inNextRound \in BOOLEAN, NEW endsEpoch \in BOOLEAN,
           ConsensusSwitch(inNextRound, endsEpoch)
    PROVE  IInv'
<1> DEFINE handled == ~inNextRound /\ Pending /\ \E g \in Gens : life[g].exc = "reported"
<1>1. /\ stage = "blocks" /\ (inNextRound => verifier)
      /\ stage' = (IF handled THEN "reports" ELSE "settlement") /\ epochEnds' = endsEpoch
      /\ UNCHANGED <<nodeGen, nodeStake, nodeLife, nodeSums, stake, life, sums, since, frozen,
                     delegation, reports, verifier, epoch, overwritten>>
  BY DEF ConsensusSwitch, nodeRow, stakingRows
<1>2. TypeOK'
  BY <1>1 DEF IInv, TypeOK
<1>3. ReportsWait'
  <2>1. ~handled /\ Pending => verifier
    BY <1>1 DEF IInv, ReportsWait, Pending
  <2> QED
    BY <1>1, <2>1 DEF IInv, ReportsWait, Pending, Active
<1>4. (/\ NodeMirrorsStaking /\ MoneyFollowsStatus /\ NodeTotals /\ DelegationsFollowStatus
       /\ SumsFollowStatus /\ StakeIsLocked /\ VerifierIsAtWork)'
  BY <1>1 DEF IInv, NodeMirrorsStaking, MoneyFollowsStatus, NodeTotals, DelegationsFollowStatus,
              SumsFollowStatus, StakeIsLocked, VerifierIsAtWork, Active
<1> QED
  BY <1>2, <1>3, <1>4 DEF IInv

LEMMA ReportsHandledInv ==
    ASSUME IInv, ReportsHandled
    PROVE  IInv'
<1>1. /\ ~Pending /\ stage' \in {"settlement", "blocks"}
      /\ UNCHANGED <<nodeGen, nodeStake, nodeLife, nodeSums, stake, life, sums, since, frozen,
                     delegation, reports, verifier, epoch, epochEnds, overwritten>>
  BY DEF ReportsHandled, nodeRow, stakingRows
<1>2. TypeOK'
  BY <1>1 DEF IInv, TypeOK
<1>3. ReportsWait'
  BY <1>1 DEF ReportsWait, Pending
<1>4. (/\ NodeMirrorsStaking /\ MoneyFollowsStatus /\ NodeTotals /\ DelegationsFollowStatus
       /\ SumsFollowStatus /\ StakeIsLocked /\ VerifierIsAtWork)'
  BY <1>1 DEF IInv, NodeMirrorsStaking, MoneyFollowsStatus, NodeTotals, DelegationsFollowStatus,
              SumsFollowStatus, StakeIsLocked, VerifierIsAtWork, Active
<1> QED
  BY <1>2, <1>3, <1>4 DEF IInv

\* A staking over a settlement.
LEMMA SettledStakeIs ==
    ASSUME IInv, NEW g \in Gens
    PROVE  /\ SettledStake(g) \in Stake
           /\ g \in Active => /\ SettledStake(g).hes = 0
                              /\ SettledStake(g).locked = stake[g].hes + stake[g].locked
                              /\ SettledStake(g).red = IF IsOver(g) THEN 0 ELSE stake[g].red
           /\ g \notin Active => SettledStake(g) = stake[g]
<1>1. /\ stake[g] \in Stake
      /\ stake[g].hes \in Nat /\ stake[g].locked \in Nat /\ stake[g].red \in Nat
  BY Fields DEF IInv, TypeOK
<1>2. CASE g \in Active
  <2> DEFINE red == IF IsOver(g) THEN 0 ELSE stake[g].red
  <2>1. SettledStake(g) = Money(0, stake[g].locked + stake[g].hes, red) /\ red \in Nat
    BY <1>1, <1>2 DEF SettledStake
  <2> HIDE DEF red
  <2>2. /\ SettledStake(g) \in Stake /\ SettledStake(g).hes = 0
        /\ SettledStake(g).locked = stake[g].hes + stake[g].locked /\ SettledStake(g).red = red
    BY <1>1, <2>1 DEF Money, Stake
  <2> QED
    BY <1>2, <2>2 DEF red
<1>3. CASE g \notin Active
  BY <1>1, <1>3 DEF SettledStake
<1> QED
  BY <1>2, <1>3

LEMMA SettledLifeIs ==
    ASSUME IInv, NEW g \in Gens
    PROVE  /\ SettledLife(g) \in Life
           /\ SettledLife(g).end = life[g].end
           /\ IsOver(g) => SettledLife(g).status = "exited"
           /\ IsUnlocked(g) => SettledLife(g).status = "candidate"
           /\ ~IsOver(g) /\ ~IsUnlocked(g) => SettledLife(g) = life[g]
           /\ IsOver(g) => life[g].status = "exiting"
           /\ IsUnlocked(g) => life[g].status = "locked"
<1>1. /\ life[g] \in Life /\ life[g].end \in Nat
      /\ life[g].exc \in {"normal", "reported", "slashed"}
  BY Fields DEF IInv, TypeOK
<1>2. (IsOver(g) => life[g].status = "exiting") /\ (IsUnlocked(g) => life[g].status = "locked")
  BY DEF IsOver, IsUnlocked
<1>3. CASE IsOver(g)
  BY <1>1, <1>2, <1>3 DEF SettledLife, State, Life
<1>4. CASE IsUnlocked(g) /\ ~IsOver(g)
  BY <1>1, <1>2, <1>4 DEF SettledLife, State, Life
<1>5. CASE ~IsUnlocked(g) /\ ~IsOver(g)
  BY <1>1, <1>2, <1>5 DEF SettledLife
<1> QED
  BY <1>2, <1>3, <1>4, <1>5

LEMMA SettledSumsAre ==
    ASSUME NEW row \in StakingSums
    PROVE  /\ SettledSums(row) \in StakingSums
           /\ SettledSums(row).hes + SettledSums(row).locked = row.hes + row.locked
<1>1. row.hes \in Int /\ row.locked \in Int /\ row.released \in Int
  BY DEF StakingSums
<1>2. CASE row.hes > 0
  <2>1. SettledSums(row) = Claimed(0, row.hes + row.locked, row.released)
    BY <1>2 DEF SettledSums
  <2> QED
    BY <1>1, <2>1 DEF Claimed, StakingSums
<1>3. CASE ~(row.hes > 0)
  BY <1>3 DEF SettledSums
<1> QED
  BY <1>2, <1>3

LEMMA SettledDelegationIs ==
    ASSUME NEW row \in DelegationRow
    PROVE  /\ SettledDelegation(row) \in DelegationRow
           /\ SettledDelegation(row).hes + SettledDelegation(row).locked = row.hes + row.locked
           /\ SettledDelegation(row).released = row.released
           /\ SettledDelegation(row).history = row.history
<1>1. /\ row.hes \in Nat /\ row.locked \in Nat /\ row.released \in Nat /\ row.history \in BOOLEAN
  BY DEF DelegationRow
<1>2. CASE ~row.history /\ row.hes > 0
  <2>1. SettledDelegation(row) = Row(0, row.hes + row.locked, row.released, row.history)
    BY <1>2 DEF SettledDelegation
  <2> QED
    BY <1>1, <2>1 DEF Row, DelegationRow
<1>3. CASE ~(~row.history /\ row.hes > 0)
  BY <1>3 DEF SettledDelegation
<1> QED
  BY <1>2, <1>3

\* The node's row over a settlement.
LEMMA SettledNode ==
    ASSUME IInv, Settlement
    PROVE  /\ nodeGen = 0 => nodeStake' = nodeStake /\ nodeLife' = nodeLife
           /\ nodeGen > 0 => nodeStake' = SettledStake(nodeGen) /\ nodeLife' = SettledLife(nodeGen)
<1>1. \A g \in Active : g = nodeGen /\ nodeGen > 0
  BY PresentStaking DEF Active
<1>2. nodeGen \in 0..MaxGen /\ (nodeGen > 0 => nodeGen \in Gens)
  BY StakingAssumption DEF IInv, TypeOK, Gens
<1>3. CASE Active = {}
  <2>1. nodeStake' = nodeStake /\ nodeLife' = nodeLife
    BY <1>3 DEF Settlement
  <2>2. nodeGen > 0 => SettledStake(nodeGen) = stake[nodeGen]
    BY <1>3 DEF SettledStake
  <2>3. nodeGen > 0 => SettledLife(nodeGen) = life[nodeGen]
    BY <1>2, <1>3 DEF SettledLife, IsOver, IsUnlocked, Active
  <2> QED
    BY <1>2, <2>1, <2>2, <2>3 DEF IInv, NodeMirrorsStaking
<1>4. CASE Active # {}
  <2>1. PICK g \in Active :
           /\ nodeStake' = SettledStake(g)
           /\ nodeLife' = State(SettledLife(g).status, nodeLife.end,
                                SettledLife(g).low, SettledLife(g).exc)
    BY <1>4 DEF Settlement
  <2>2. g = nodeGen /\ nodeGen > 0 /\ g \in Gens /\ nodeLife = life[g]
    BY <1>1, <1>2, <2>1 DEF IInv, NodeMirrorsStaking
  <2>3. SettledLife(g) \in Life /\ SettledLife(g).end = nodeLife.end
    BY <2>2, SettledLifeIs
  <2>4. SettledLife(g) = State(SettledLife(g).status, SettledLife(g).end,
                               SettledLife(g).low, SettledLife(g).exc)
    BY <2>3, LifeIs
  <2> QED
    BY <1>2, <2>1, <2>2, <2>3, <2>4
<1> QED
  BY <1>3, <1>4

LEMMA SettlementInv ==
    ASSUME IInv, Settlement
    PROVE  IInv'
<1>1. TypeOK /\ stage = "settlement" /\ epoch \in Nat
  BY DEF IInv, TypeOK, Settlement
<1>2. /\ stake' = [g \in Gens |-> SettledStake(g)] /\ life' = [g \in Gens |-> SettledLife(g)]
      /\ sums' = [g \in Gens |-> SettledSums(sums[g])]
      /\ delegation' = [d \in Delegators |-> [g \in Gens |-> SettledDelegation(delegation[d][g])]]
      /\ epoch' = epoch + 1 /\ stage' = "blocks" /\ epochEnds' = FALSE
      /\ UNCHANGED <<nodeGen, nodeSums, since, frozen, reports, overwritten>>
  BY DEF Settlement
<1>3. /\ verifier' \in BOOLEAN
      /\ verifier' => nodeLife'.status = "candidate" /\ nodeLife'.exc # "reported"
  BY DEF Settlement
<1>4. nodeGen > 0 => nodeGen \in Gens
  BY <1>1, StakingAssumption DEF TypeOK, Gens
<1>5. TypeOK'
  <2>1. stake' \in [Gens -> Stake] /\ life' \in [Gens -> Life]
    BY <1>2, SettledStakeIs, SettledLifeIs
  <2>2. sums' \in [Gens -> StakingSums]
    BY <1>1, <1>2, SettledSumsAre DEF TypeOK
  <2>3. delegation' \in [Delegators -> [Gens -> DelegationRow]]
    BY <1>1, <1>2, SettledDelegationIs DEF TypeOK
  <2>4. nodeStake' \in Stake /\ nodeLife' \in Life
    BY <1>1, <1>4, SettledNode, SettledStakeIs, SettledLifeIs DEF TypeOK
  <2>5. epoch' \in Nat /\ stage' \in {"blocks", "reports", "settlement"}
    BY <1>1, <1>2
  <2>7. epochEnds' \in BOOLEAN
    BY <1>2
  <2>6. /\ nodeGen' \in 0..MaxGen /\ nodeSums' \in NodeSums /\ since' \in [Gens -> Nat]
        /\ frozen' \in [Gens -> Nat] /\ reports' \in [Gens -> 0..MaxReports]
        /\ overwritten' \subseteq Gens
    BY <1>1, <1>2 DEF TypeOK
  <2> QED
    BY <1>3, <2>1, <2>2, <2>3, <2>4, <2>5, <2>6, <2>7 DEF TypeOK
<1>6. ASSUME NEW g \in Gens
      PROVE  (SoundStake(g) /\ SoundClaims(g))'
  <2>1. SoundStake(g) /\ SoundClaims(g)
    BY SoundInv
  <2>2. /\ stake[g].hes \in Nat /\ stake[g].locked \in Nat /\ since[g] \in Nat
        /\ life[g].status \in {"none", "candidate", "exiting", "exited", "locked"}
    BY <1>1, Fields DEF TypeOK
  <2>3. stake'[g] = SettledStake(g) /\ life'[g] = SettledLife(g) /\ since'[g] = since[g]
    BY <1>2
  <2>4. g \in Active <=> life[g].status \in {"candidate", "exiting", "locked"}
    BY DEF Active
  <2>5. SoundStake(g)'
    <3>1. CASE IsOver(g)
      <4>1. life'[g].status = "exited" /\ g \in Active /\ life[g].status = "exiting"
        BY <2>3, <2>4, <3>1, SettledLifeIs
      <4>2. /\ stake'[g] \in Stake /\ stake'[g].hes = 0 /\ stake'[g].red = 0
            /\ stake'[g].locked = stake[g].hes + stake[g].locked
        BY <2>3, <3>1, <4>1, SettledStakeIs
      <4>3. stake'[g].locked = 0
        BY <2>1, <4>1, <4>2 DEF SoundStake
      <4>4. stake'[g] = Nothing
        BY <4>2, <4>3, StakeIs DEF Nothing
      <4> QED
        BY <4>1, <4>4 DEF SoundStake
    <3>2. CASE ~IsOver(g) /\ life[g].status \in {"candidate", "locked"}
      <4>1. life'[g].status \in {"candidate", "locked"}
        BY <2>3, <3>2, SettledLifeIs
      <4>2. /\ stake'[g].hes = 0 /\ stake'[g].red = stake[g].red
            /\ stake'[g].locked = stake[g].hes + stake[g].locked
        BY <2>3, <2>4, <3>2, SettledStakeIs
      <4> QED
        BY <1>1, <1>2, <2>1, <2>2, <2>3, <3>2, <4>1, <4>2 DEF SoundStake
    <3>3. CASE ~IsOver(g) /\ life[g].status = "exiting"
      <4>1. life'[g].status = "exiting"
        BY <2>3, <3>3, SettledLifeIs
      <4>2. stake'[g].hes = 0 /\ stake'[g].locked = stake[g].hes + stake[g].locked
        BY <2>3, <2>4, <3>3, SettledStakeIs
      <4> QED
        BY <2>1, <3>3, <4>1, <4>2 DEF SoundStake
    <3>4. CASE ~IsOver(g) /\ life[g].status \in {"none", "exited"}
      <4>1. life'[g] = life[g]
        BY <2>3, <3>4, SettledLifeIs
      <4>2. stake'[g] = stake[g]
        BY <2>3, <2>4, <3>4, SettledStakeIs
      <4> QED
        BY <2>1, <3>4, <4>1, <4>2 DEF SoundStake
    <3> QED
      BY <2>2, <3>1, <3>2, <3>3, <3>4, SettledLifeIs
  <2>6. SoundClaims(g)'
    <3>1. /\ life'[g].status \in {"none", "candidate", "locked"} =>
               life[g].status \in {"none", "candidate", "locked"}
          /\ life'[g].status \in {"none", "exiting", "exited"} =>
               life[g].status \in {"none", "exiting", "exited"}
      BY <2>3, SettledLifeIs
    <3>2. sums[g] \in StakingSums /\ sums'[g] = SettledSums(sums[g])
      BY <1>1, <1>2 DEF TypeOK
    <3>3. sums'[g].hes + sums'[g].locked = sums[g].hes + sums[g].locked
      BY <3>2, SettledSumsAre
    <3>4. ASSUME NEW d \in Delegators
          PROVE  LET row == delegation'[d][g] IN
                 /\ row.history => row.hes = 0 /\ row.locked = 0 /\ row.released = 0
                 /\ life'[g].status \in {"none", "candidate", "locked"} => row.released = 0
                 /\ life'[g].status \in {"none", "exiting", "exited"} =>
                      row.hes = 0 /\ row.locked = 0
      <4>1. /\ delegation[d][g] \in DelegationRow
            /\ delegation'[d][g] = SettledDelegation(delegation[d][g])
        BY <1>1, <1>2 DEF TypeOK
      <4>2. /\ delegation'[d][g] \in DelegationRow
            /\ delegation'[d][g].hes + delegation'[d][g].locked
                 = delegation[d][g].hes + delegation[d][g].locked
            /\ delegation'[d][g].released = delegation[d][g].released
            /\ delegation'[d][g].history = delegation[d][g].history
        BY <4>1, SettledDelegationIs
      <4>3. /\ delegation'[d][g].hes \in Nat /\ delegation'[d][g].locked \in Nat
            /\ delegation[d][g].hes \in Nat /\ delegation[d][g].locked \in Nat
        BY <4>1, <4>2 DEF DelegationRow
      <4> QED
        <5>1. delegation[d][g].hes + delegation[d][g].locked = 0
                 => delegation'[d][g].hes = 0 /\ delegation'[d][g].locked = 0
          BY <4>2, <4>3
        <5>2. /\ delegation[d][g].history =>
                   /\ delegation[d][g].hes = 0 /\ delegation[d][g].locked = 0
                   /\ delegation[d][g].released = 0
              /\ life[g].status \in {"none", "candidate", "locked"} =>
                   delegation[d][g].released = 0
              /\ life[g].status \in {"none", "exiting", "exited"} =>
                   delegation[d][g].hes = 0 /\ delegation[d][g].locked = 0
          BY <2>1 DEF SoundClaims
        <5> QED
          BY <3>1, <4>2, <5>1, <5>2
    <3> QED
      BY <2>1, <3>1, <3>3, <3>4 DEF SoundClaims
  <2> QED
    BY <2>5, <2>6
<1>7. (MoneyFollowsStatus /\ StakeIsLocked /\ DelegationsFollowStatus /\ SumsFollowStatus)'
  <2>1. (MoneyFollowsStatus /\ StakeIsLocked)'
    BY <1>6 DEF MoneyFollowsStatus, StakeIsLocked, SoundStake
  <2>2. (DelegationsFollowStatus /\ SumsFollowStatus)'
    BY <1>6 DEF DelegationsFollowStatus, SumsFollowStatus, SoundClaims
  <2> QED
    BY <2>1, <2>2
<1>8. nodeGen > 0 => /\ nodeStake' = stake'[nodeGen] /\ nodeLife' = life'[nodeGen]
                     /\ nodeStake = stake[nodeGen] /\ nodeLife = life[nodeGen]
  BY <1>2, <1>4, SettledNode DEF IInv, NodeMirrorsStaking
<1>9. NodeMirrorsStaking'
  <2>1. ASSUME NEW g \in Gens, g < nodeGen
        PROVE  life'[g].status = "exited"
    <3>1. life[g].status = "exited"
      BY <2>1 DEF IInv, NodeMirrorsStaking
    <3>2. life'[g] = life[g]
      BY <1>2, <3>1, SettledLifeIs
    <3> QED
      BY <3>1, <3>2
  <2>2. ASSUME NEW g \in Gens, g > nodeGen
        PROVE  stake'[g] = Nothing /\ life'[g] = Unborn
    <3>1. stake[g] = Nothing /\ life[g] = Unborn /\ life[g].status = "none"
      BY <2>2 DEF IInv, NodeMirrorsStaking, Unborn, State
    <3>2. life'[g] = life[g] /\ stake'[g] = stake[g]
      BY <1>2, <3>1, SettledLifeIs, SettledStakeIs DEF Active
    <3> QED
      BY <3>1, <3>2
  <2>3. nodeGen = 0 => nodeStake' = Nothing /\ nodeLife' = Unborn
    BY SettledNode DEF IInv, NodeMirrorsStaking
  <2>4. nodeGen > 0 => nodeLife'.status # "none"
    <3>1. nodeGen > 0 => life[nodeGen].status # "none" /\ life'[nodeGen] = SettledLife(nodeGen)
      BY <1>2, <1>4, <1>8 DEF IInv, NodeMirrorsStaking
    <3> QED
      BY <1>4, <1>8, <3>1, SettledLifeIs
  <2> QED
    BY <1>2, <1>8, <2>1, <2>2, <2>3, <2>4 DEF NodeMirrorsStaking
<1>10. NodeTotals'
  <2>1. CASE nodeGen > 0
    <3> DEFINE g == nodeGen
    <3>1. g \in Gens /\ life'[g] = SettledLife(g) /\ stake'[g] = SettledStake(g)
      BY <1>2, <1>4, <2>1
    <3>2. sums'[g].hes + sums'[g].locked = sums[g].hes + sums[g].locked
      BY <1>1, <1>2, <3>1, SettledSumsAre DEF TypeOK
    <3>3. /\ life[g].status \in {"candidate", "locked"} <=> life'[g].status \in {"candidate", "locked"}
          /\ life[g].status \in {"exiting", "exited"} <=> life'[g].status \in {"exiting", "exited"}
      BY <3>1, SettledLifeIs
    <3>4. life[g].status \in {"candidate", "locked"} =>
             stake'[g].hes + stake'[g].locked = stake[g].hes + stake[g].locked
      <4>1. ASSUME life[g].status \in {"candidate", "locked"}
            PROVE  stake'[g].hes = 0 /\ stake'[g].locked = stake[g].hes + stake[g].locked
        BY <3>1, <4>1, SettledStakeIs DEF Active
      <4>2. stake[g].hes \in Nat /\ stake[g].locked \in Nat
        BY <1>1, <3>1, Fields
      <4> QED
        BY <4>1, <4>2
    <3> QED
      BY <1>2, <1>8, <2>1, <3>2, <3>3, <3>4 DEF IInv, NodeTotals
  <2>2. CASE nodeGen = 0
    BY <1>2, <2>2, SettledNode DEF IInv, NodeTotals
  <2> QED
    BY <1>1, <2>1, <2>2 DEF TypeOK
<1>11. VerifierIsAtWork'
  <2> SUFFICES ASSUME verifier'
               PROVE  /\ nodeGen \in Gens /\ life'[nodeGen].status = "candidate"
                      /\ since'[nodeGen] < epoch'
    BY <1>2 DEF VerifierIsAtWork, Active
  <2>1. nodeLife'.status = "candidate"
    BY <1>3
  <2>2. nodeGen \in Gens /\ nodeGen > 0
    <3>1. nodeGen # 0
      BY <2>1, SettledNode DEF IInv, NodeMirrorsStaking, Unborn, State
    <3> QED
      BY <1>1, <1>4, <3>1 DEF TypeOK
  <2>3. life'[nodeGen].status = "candidate"
    BY <1>8, <2>1, <2>2
  <2>5. life[nodeGen].status \in {"candidate", "locked"}
    BY <1>2, <2>2, <2>3, SettledLifeIs
  <2>6. since[nodeGen] <= epoch /\ since[nodeGen] \in Nat
    BY <1>1, <2>2, <2>5, SoundInv DEF SoundStake, TypeOK
  <2> QED
    BY <1>1, <1>2, <2>2, <2>3, <2>6
<1>12. ReportsWait'
  <2> SUFFICES ASSUME NEW g \in Gens, reports[g] > 0
               PROVE  g = nodeGen /\ life'[g] = life[g] /\ g \in Active /\ life[g].exc = "reported"
    BY <1>2 DEF ReportsWait, Active
  <2>1. g = nodeGen /\ g \in Active /\ life[g].exc = "reported" /\ verifier
    BY <1>1 DEF IInv, ReportsWait, Pending
  <2>2. /\ life[g].status = "exiting" => life[g].end > epoch
        /\ life[g].status = "locked" => frozen[g] >= epoch
    BY <2>1 DEF IInv, VerifierIsAtWork
  <2>3. life[g].end \in Nat /\ frozen[g] \in Nat
    BY <1>1, Fields DEF TypeOK
  <2>4. ~IsOver(g) /\ ~IsUnlocked(g)
    BY <1>1, <2>2, <2>3, StakingAssumption DEF IsOver, IsUnlocked
  <2> QED
    BY <1>2, <2>1, <2>4, SettledLifeIs
<1> QED
  BY <1>5, <1>7, <1>9, <1>10, <1>11, <1>12 DEF IInv

LEMMA NextInv ==
    ASSUME IInv, [Next]_vars
    PROVE  IInv'
<1>1. CASE \E a \in StakeThreshold..MaxStake : StakeCreate(a)
  BY <1>1, StakeCreateInv
<1>2. ASSUME NEW g \in Gens, NEW a \in 1..MaxStake, StakeIncrease(g, a)
      PROVE  IInv'
  BY <1>2, StakeIncreaseInv
<1>3. ASSUME NEW g \in Gens, StakeExitLocked(g) \/ StakeExitUnlocked(g)
      PROVE  IInv'
  BY <1>3, StakeExitLockedInv, StakeExitUnlockedInv
<1>4. ASSUME NEW g \in Gens, NEW d \in Delegators, NEW a \in 1..MaxClaim,
             DelegateCreate(d, g, a) \/ DelegateExit(d, g, a)
      PROVE  IInv'
  BY <1>4, DelegateCreateInv, DelegateExitInv
<1>5. ASSUME NEW g \in Gens, Report(g) \/ ElectionLock(g) \/ ElectionLeave(g) \/ SlashNode(g)
      PROVE  IInv'
  BY <1>5, ReportInv, ElectionLockInv, ElectionLeaveInv, SlashNodeInv
<1>6. ASSUME NEW i \in BOOLEAN, NEW e \in BOOLEAN, ConsensusSwitch(i, e)
      PROVE  IInv'
  BY <1>6, ConsensusSwitchInv
<1>7. CASE ReportsHandled
  BY <1>7, ReportsHandledInv
<1>8. CASE Settlement
  BY <1>8, SettlementInv
<1>9. CASE UNCHANGED vars
  <2>1. UNCHANGED <<nodeGen, nodeStake, nodeLife, nodeSums, stake, life, sums, since, frozen,
                    delegation, reports, verifier, epoch, stage, epochEnds, overwritten>>
    BY <1>9 DEF vars, nodeRow, stakingRows, round
  <2>2. (TypeOK /\ NodeMirrorsStaking /\ MoneyFollowsStatus /\ NodeTotals)'
    BY <2>1 DEF IInv, TypeOK, NodeMirrorsStaking, MoneyFollowsStatus, NodeTotals
  <2>3. (/\ DelegationsFollowStatus /\ SumsFollowStatus /\ StakeIsLocked /\ VerifierIsAtWork
         /\ ReportsWait)'
    BY <2>1 DEF IInv, DelegationsFollowStatus, SumsFollowStatus, StakeIsLocked,
                VerifierIsAtWork, ReportsWait, Active, Pending
  <2> QED
    BY <2>2, <2>3 DEF IInv
<1> QED
  BY <1>1, <1>2, <1>3, <1>4, <1>5, <1>6, <1>7, <1>8, <1>9 DEF Next

THEOREM Invariance == Spec => []IInv
BY InitInv, NextInv, PTL DEF Spec

(***************************************************************************)
(* The rows of the tables keep their types: no statement takes more off a  *)
(* stake or a delegation than is there.                                    *)
(***************************************************************************)
THEOREM TypeCorrect == Spec => []TypeOK
<1>1. IInv => TypeOK
  BY DEF IInv
<1> QED
  BY <1>1, Invariance, PTL

(***************************************************************************)
(* The two statements that write a staking and its node never part: the    *)
(* row of the node says what the row of its latest staking says.           *)
(***************************************************************************)
THEOREM NodeAndStakingAgree == Spec => []NodeMirrorsStaking
<1>1. IInv => NodeMirrorsStaking
  BY DEF IInv
<1> QED
  BY <1>1, Invariance, PTL

(***************************************************************************)
(* A staking has locked or redeemed money, never both, and none when it is *)
(* over, whatever the order of exits, penalties and settlements.           *)
(***************************************************************************)
THEOREM LockedOrRedeemed == Spec => []MoneyFollowsStatus
<1>1. IInv => MoneyFollowsStatus
  BY DEF IInv
<1> QED
  BY <1>1, Invariance, PTL

(***************************************************************************)
(* The totals of the node follow its staking and what is delegated to it.  *)
(***************************************************************************)
THEOREM TotalsAddUp == Spec => []NodeTotals
<1>1. IInv => NodeTotals
  BY DEF IInv
<1> QED
  BY <1>1, Invariance, PTL

(***************************************************************************)
(* A double sign that waits is found by the switch that punishes it.       *)
(***************************************************************************)
THEOREM ReportsAreNotLost == Spec => []ReportsAreFound
<1>1. IInv => ReportsAreFound
  BY DEF IInv, ReportsWait, ReportsAreFound
<1> QED
  BY <1>1, Invariance, PTL
-----------------------------------------------------------------------------
(***************************************************************************)
(* The refinement of DelegationClaims.  A claim is what its row is worth;  *)
(* each step changes one claim or the phase of one staking, or neither.    *)
(***************************************************************************)
ClaimOf == [d \in Delegators |-> [g \in Gens |-> Worth(delegation[d][g])]]

PhaseOf == [g \in Gens |-> Phase(life[g].status)]

LEMMA PhaseIs ==
    /\ Phase("none") = "none" /\ Phase("exiting") = "leaving" /\ Phase("exited") = "closed"
    /\ Phase("candidate") = "open" /\ Phase("locked") = "open"
BY DEF Phase

LEMMA OneEntry ==
    ASSUME NEW V, NEW before \in [Delegators -> [Gens -> V]],
           NEW after \in [Delegators -> [Gens -> V]], NEW d \in Delegators, NEW g \in Gens,
           \A x \in Delegators, h \in Gens : x # d \/ h # g => after[x][h] = before[x][h]
    PROVE  after = [before EXCEPT ![d][g] = after[d][g]]
<1> DEFINE e == [before EXCEPT ![d][g] = after[d][g]]
<1>1. e \in [Delegators -> [Gens -> V]]
  OBVIOUS
<1>2. ASSUME NEW x \in Delegators
      PROVE  after[x] = e[x]
  <2>1. after[x] \in [Gens -> V] /\ e[x] \in [Gens -> V]
    BY <1>1
  <2>2. \A h \in Gens : after[x][h] = e[x][h]
    OBVIOUS
  <2> QED
    BY <2>1, <2>2
<1> QED
  BY <1>1, <1>2

LEMMA ClaimsAreInts ==
    ASSUME NEW table \in [Delegators -> [Gens -> DelegationRow]]
    PROVE  [d \in Delegators |-> [g \in Gens |-> Worth(table[d][g])]]
              \in [Delegators -> [Gens -> Int]]
<1>1. ASSUME NEW d \in Delegators, NEW g \in Gens
      PROVE  Worth(table[d][g]) \in Int
  BY DEF DelegationRow, Worth
<1> QED
  BY <1>1

LEMMA ClaimsStay ==
    ASSUME UNCHANGED delegation
    PROVE  UNCHANGED ClaimOf
BY DEF ClaimOf

\* A node that leaves moves what is delegated to it and takes none of it.
LEMMA ReleaseKeepsClaims ==
    ASSUME IInv, NEW g \in Gens, NEW adds \in BOOLEAN, ReleaseDelegations(g, adds),
           ~adds => life[g].status = "candidate"
    PROVE  UNCHANGED ClaimOf
<1>1. ASSUME NEW d \in Delegators, NEW h \in Gens
      PROVE  Worth(delegation'[d][h]) = Worth(delegation[d][h])
  <2> DEFINE row == delegation[d][h]
             before == IF adds THEN row.released ELSE 0
  <2>1. /\ row.hes \in Nat /\ row.locked \in Nat /\ row.released \in Nat
    BY Fields DEF IInv
  <2>2. CASE h = g
    <3>1. delegation'[d][h] = ReleasedBy(row, before)
      BY <2>2 DEF ReleaseDelegations
    <3>2. before = row.released
      BY <2>2, SoundInv DEF SoundClaims
    <3> HIDE DEF row, before
    <3>3. CASE ~row.history
      <4>1. ReleasedBy(row, before) = Row(0, 0, row.released + row.hes + row.locked, FALSE)
        BY <3>2, <3>3 DEF ReleasedBy
      <4>2. Worth(Row(0, 0, row.released + row.hes + row.locked, FALSE)) = Worth(row)
        BY <2>1 DEF Row, Worth
      <4> QED
        BY <3>1, <4>1, <4>2 DEF row
    <3>4. CASE row.history
      BY <3>1, <3>4 DEF ReleasedBy, row
    <3> QED
      BY <3>3, <3>4
  <2>3. CASE h # g
    BY <2>3 DEF ReleaseDelegations
  <2> QED
    BY <2>2, <2>3
<1> QED
  BY <1>1 DEF ClaimOf

LEMMA PhaseMoves ==
    ASSUME NEW g \in Gens, \A h \in Gens : h # g => life'[h] = life[h]
    PROVE  PhaseOf' = [PhaseOf EXCEPT ![g] = Phase(life'[g].status)]
BY DEF PhaseOf

LEMMA PhaseStays ==
    ASSUME \A h \in Gens : Phase(life'[h].status) = Phase(life[h].status)
    PROVE  UNCHANGED PhaseOf
BY DEF PhaseOf

\* A leaving node moves its staking on, or not at all.
LEMMA LeavingStep ==
    ASSUME IInv, NEW g \in Gens, NEW status \in {"exiting", "exited"}, NEW red, NEW end,
           NEW low, NEW exc, NEW adds \in BOOLEAN,
           life[g].status \in {"candidate", "exiting", "locked"},
           life[g].status = "exiting" => status = "exiting",
           LeaveStaking(g, status, red, end, low, exc), ReleaseDelegations(g, adds),
           ~adds => life[g].status = "candidate"
    PROVE  Claims!Next \/ UNCHANGED Claims!vars
<1>1. life'[g].status = status /\ \A h \in Gens : h # g => life'[h] = life[h]
  BY LeftStaking DEF IInv
<1>2. UNCHANGED ClaimOf
  BY ReleaseKeepsClaims
<1>3. PhaseOf' = [PhaseOf EXCEPT ![g] = Phase(status)] /\ PhaseOf[g] = Phase(life[g].status)
  BY <1>1, PhaseMoves DEF PhaseOf
<1>4. CASE life[g].status = "exiting"
  <2>1. UNCHANGED PhaseOf
    BY <1>1, <1>4, PhaseStays
  <2> QED
    BY <1>2, <2>1 DEF Claims!vars, ClaimOf, PhaseOf
<1>5. CASE life[g].status # "exiting" /\ status = "exiting"
  <2>1. PhaseOf[g] = "open" /\ PhaseOf' = [PhaseOf EXCEPT ![g] = "leaving"]
    BY <1>3, <1>5, PhaseIs
  <2>2. Claims!Leave(g)
    BY <1>2, <2>1 DEF Claims!Leave, ClaimOf, PhaseOf
  <2> QED
    BY <2>2 DEF Claims!Next, Claims!Gens, Gens
<1>6. CASE life[g].status # "exiting" /\ status = "exited"
  <2>1. PhaseOf[g] = "open" /\ PhaseOf' = [PhaseOf EXCEPT ![g] = "closed"]
    BY <1>3, <1>6, PhaseIs
  <2>2. Claims!Close(g)
    BY <1>2, <2>1 DEF Claims!Close, ClaimOf, PhaseOf
  <2> QED
    BY <2>2 DEF Claims!Next, Claims!Gens, Gens
<1> QED
  BY <1>4, <1>5, <1>6

LEMMA CreateStep ==
    ASSUME IInv, NEW a \in StakeThreshold..MaxStake, StakeCreate(a)
    PROVE  Claims!Next
<1> DEFINE g == nodeGen + 1
           s == State("candidate", epoch + Freeze, 0, "normal")
<1>1. /\ nodeLife.status \in {"none", "exited"} /\ g \in Gens /\ nodeGen \in Nat
      /\ life' = [life EXCEPT ![g] = s] /\ UNCHANGED delegation
  BY StakingAssumption DEF StakeCreate, Gens, IInv, TypeOK
<1>2. s.status = "candidate"
  BY DEF State
<1> HIDE DEF s
<1>3. life'[g].status = "candidate" /\ \A h \in Gens : h # g => life'[h] = life[h]
  BY <1>1, <1>2 DEF IInv, TypeOK
<1>4. \A h \in 1 .. g - 1 : h \in Gens /\ PhaseOf[h] = "closed"
  <2>1. ASSUME NEW h \in 1 .. g - 1
        PROVE  h \in Gens /\ life[h].status = "exited"
    <3>1. h \in Gens /\ (h < nodeGen \/ h = nodeGen) /\ nodeGen > 0
      BY <1>1, StakingAssumption DEF Gens
    <3>2. life[nodeGen].status = "exited"
      BY <1>1, <3>1 DEF IInv, NodeMirrorsStaking
    <3> QED
      BY <3>1, <3>2 DEF IInv, NodeMirrorsStaking
  <2> QED
    BY <2>1, PhaseIs DEF PhaseOf
<1>5. PhaseOf[g] = "none"
  <2>1. g > nodeGen
    BY <1>1
  <2>2. life[g] = Unborn
    BY <1>1, <2>1 DEF IInv, NodeMirrorsStaking
  <2> QED
    BY <1>1, <2>2, PhaseIs DEF PhaseOf, Unborn, State
<1>6. PhaseOf' = [PhaseOf EXCEPT ![g] = "open"]
  BY <1>1, <1>3, PhaseMoves, PhaseIs
<1>7. UNCHANGED ClaimOf
  BY <1>1, ClaimsStay
<1>8. Claims!Open(g)
  BY <1>4, <1>5, <1>6, <1>7 DEF Claims!Open, ClaimOf, PhaseOf
<1> QED
  BY <1>1, <1>8 DEF Claims!Next, Claims!Gens, Gens

LEMMA DelegateStep ==
    ASSUME IInv, NEW d \in Delegators, NEW g \in Gens, NEW a \in 1..MaxClaim,
           DelegateCreate(d, g, a)
    PROVE  Claims!Next
<1> DEFINE r == Row(delegation[d][g].hes + a, delegation[d][g].locked,
                    delegation[d][g].released, FALSE)
<1>1. /\ life[g].status = "candidate" /\ UNCHANGED life
      /\ delegation' = [delegation EXCEPT ![d][g] = r] /\ a \in Nat
  BY StakingAssumption DEF DelegateCreate, Accepts
<1>2. /\ delegation[d][g].hes \in Nat /\ delegation[d][g].locked \in Nat
      /\ delegation[d][g].released \in Nat
  BY Fields DEF IInv
<1>3. Worth(r) = Worth(delegation[d][g]) + a
  BY <1>1, <1>2 DEF Row, Worth
<1> HIDE DEF r
<1>4. /\ delegation'[d][g] = r
      /\ \A x \in Delegators, h \in Gens :
            x # d \/ h # g => delegation'[x][h] = delegation[x][h]
  BY <1>1 DEF IInv, TypeOK
<1>5. ClaimOf' = [ClaimOf EXCEPT ![d][g] = ClaimOf'[d][g]]
  <2>1. /\ ClaimOf \in [Delegators -> [Gens -> Int]] /\ ClaimOf' \in [Delegators -> [Gens -> Int]]
    BY ClaimsAreInts, DelegateCreateInv DEF IInv, TypeOK, ClaimOf
  <2>2. \A x \in Delegators, h \in Gens : x # d \/ h # g => ClaimOf'[x][h] = ClaimOf[x][h]
    BY <1>4 DEF ClaimOf
  <2> HIDE DEF ClaimOf
  <2> QED
    BY <2>1, <2>2, OneEntry
<1>6. ClaimOf'[d][g] = ClaimOf[d][g] + a
  BY <1>3, <1>4 DEF ClaimOf
<1>7. PhaseOf[g] = "open" /\ UNCHANGED PhaseOf
  BY <1>1, PhaseIs DEF PhaseOf
<1>8. Claims!Delegate(d, g, a)
  BY <1>5, <1>6, <1>7 DEF Claims!Delegate, Claims!OnlyClaim, ClaimOf, PhaseOf
<1> QED
  BY <1>8 DEF Claims!Next, Claims!Gens, Gens

LEMMA WithdrawStep ==
    ASSUME IInv, NEW d \in Delegators, NEW g \in Gens, NEW a \in 1..MaxClaim,
           DelegateExit(d, g, a)
    PROVE  Claims!Next
<1> DEFINE row == delegation[d][g]
           rest == ClaimOf[d][g] - a
<1>1. PICK balance \in DelegationRow :
         /\ delegation' = [delegation EXCEPT ![d][g] = balance]
         /\ Worth(balance) = Worth(row) - RealRefund(row, a)
  BY ExitRow
<1>2. a <= Worth(row) /\ a \in Nat /\ UNCHANGED life
  BY StakingAssumption DEF DelegateExit
<1>3. /\ delegation'[d][g] = balance
      /\ \A x \in Delegators, h \in Gens :
            x # d \/ h # g => delegation'[x][h] = delegation[x][h]
  BY <1>1 DEF IInv, TypeOK
<1>4. ClaimOf' = [ClaimOf EXCEPT ![d][g] = ClaimOf'[d][g]]
  <2>1. /\ ClaimOf \in [Delegators -> [Gens -> Int]] /\ ClaimOf' \in [Delegators -> [Gens -> Int]]
    BY ClaimsAreInts, DelegateExitInv DEF IInv, TypeOK, ClaimOf
  <2>2. \A x \in Delegators, h \in Gens : x # d \/ h # g => ClaimOf'[x][h] = ClaimOf[x][h]
    BY <1>3 DEF ClaimOf
  <2> HIDE DEF ClaimOf
  <2> QED
    BY <2>1, <2>2, OneEntry
<1>5. ClaimOf[d][g] = Worth(row) /\ ClaimOf'[d][g] = Worth(row) - RealRefund(row, a)
  BY <1>1, <1>3 DEF ClaimOf
<1>6. Worth(row) \in Nat
  BY Fields DEF IInv, Worth
<1>7. ClaimOf'[d][g] = IF rest < DelegateThreshold THEN 0 ELSE rest
  BY <1>2, <1>5, <1>6 DEF RealRefund, IsRefundAll
<1>8. a <= ClaimOf[d][g] /\ UNCHANGED PhaseOf
  BY <1>2, <1>5 DEF PhaseOf
<1>9. Claims!Withdraw(d, g, a)
  BY <1>4, <1>7, <1>8 DEF Claims!Withdraw, Claims!OnlyClaim, ClaimOf, PhaseOf
<1> QED
  BY <1>9 DEF Claims!Next, Claims!Gens, Gens

\* Steps that change neither a claim nor a phase.
LEMMA SettlementStep ==
    ASSUME IInv, Settlement
    PROVE  Claims!Next \/ UNCHANGED Claims!vars
<1>1. UNCHANGED ClaimOf
  <2>1. ASSUME NEW d \in Delegators, NEW g \in Gens
        PROVE  Worth(delegation'[d][g]) = Worth(delegation[d][g])
    <3>1. /\ delegation[d][g] \in DelegationRow
          /\ delegation'[d][g] = SettledDelegation(delegation[d][g])
      BY DEF Settlement, IInv, TypeOK
    <3> QED
      BY <3>1, SettledDelegationIs DEF Worth
  <2> QED
    BY <2>1 DEF ClaimOf
<1>2. \A g \in Gens : life'[g] = SettledLife(g)
  BY DEF Settlement
<1>3. CASE \E g \in Gens : IsOver(g)
  <2>1. PICK g \in Gens : IsOver(g)
    BY <1>3
  <2>2. life[g].status = "exiting" /\ life'[g].status = "exited" /\ g = nodeGen
    BY <1>2, <2>1, SettledLifeIs, PresentStaking
  <2>3. ASSUME NEW h \in Gens, h # g
        PROVE  life'[h] = life[h]
    <3>1. ~(life[h].status \in {"candidate", "exiting", "locked"})
      BY <2>2, <2>3, PresentStaking
    <3> QED
      BY <1>2, <3>1, SettledLifeIs
  <2>4. PhaseOf[g] = "leaving" /\ PhaseOf' = [PhaseOf EXCEPT ![g] = "closed"]
    BY <2>2, <2>3, PhaseMoves, PhaseIs DEF PhaseOf
  <2>5. Claims!Close(g)
    BY <1>1, <2>4 DEF Claims!Close, ClaimOf, PhaseOf
  <2> QED
    BY <2>5 DEF Claims!Next, Claims!Gens, Gens
<1>4. CASE ~(\E g \in Gens : IsOver(g))
  <2>1. \A g \in Gens : Phase(life'[g].status) = Phase(life[g].status)
    BY <1>2, <1>4, SettledLifeIs, PhaseIs
  <2> QED
    BY <1>1, <2>1, PhaseStays DEF Claims!vars, ClaimOf, PhaseOf
<1> QED
  BY <1>3, <1>4

LEMMA QuietStep ==
    ASSUME UNCHANGED delegation, \A h \in Gens : life'[h].status = life[h].status
    PROVE  UNCHANGED Claims!vars
BY ClaimsStay, PhaseStays DEF Claims!vars, ClaimOf, PhaseOf

LEMMA StepClaims ==
    ASSUME IInv, [Next]_vars
    PROVE  [Claims!Next]_(Claims!vars)
<1>1. ASSUME NEW a \in StakeThreshold..MaxStake, StakeCreate(a)
      PROVE  Claims!Next
  BY <1>1, CreateStep
<1>2. ASSUME NEW g \in Gens, NEW a \in 1..MaxStake, StakeIncrease(g, a)
      PROVE  UNCHANGED Claims!vars
  BY <1>2, QuietStep DEF StakeIncrease
<1>3. ASSUME NEW g \in Gens, StakeExitLocked(g) \/ StakeExitUnlocked(g)
      PROVE  Claims!Next \/ UNCHANGED Claims!vars
  <2>1. life[g].status = "candidate" /\ ReleaseDelegations(g, FALSE)
    BY <1>3 DEF StakeExitLocked, StakeExitUnlocked, Accepts
  <2>2. \E status \in {"exiting", "exited"} : \E red, end :
           LeaveStaking(g, status, red, end, life[g].low, life[g].exc)
    BY <1>3 DEF StakeExitLocked, StakeExitUnlocked
  <2> QED
    BY <2>1, <2>2, LeavingStep
<1>4. ASSUME NEW g \in Gens, NEW d \in Delegators, NEW a \in 1..MaxClaim,
             DelegateCreate(d, g, a) \/ DelegateExit(d, g, a)
      PROVE  Claims!Next
  BY <1>4, DelegateStep, WithdrawStep
<1>5. ASSUME NEW g \in Gens, Report(g)
      PROVE  UNCHANGED Claims!vars
  <2>1. UNCHANGED delegation
    BY <1>5 DEF Report
  <2>2. \E end : life' = [life EXCEPT ![g] = WithException(life[g], "reported", end)]
    BY <1>5 DEF Report
  <2>3. \A h \in Gens : life'[h].status = life[h].status
    BY <2>2 DEF IInv, TypeOK, WithException, State
  <2> QED
    BY <2>1, <2>3, QuietStep
<1>6. ASSUME NEW g \in Gens, ElectionLock(g)
      PROVE  UNCHANGED Claims!vars
  <2>1. /\ UNCHANGED delegation /\ life[g].status = "candidate"
        /\ \E end, low, exc : life' = [life EXCEPT ![g] = State("locked", end, low, exc)]
    BY <1>6 DEF ElectionLock
  <2>2. life'[g].status = "locked" /\ \A h \in Gens : h # g => life'[h] = life[h]
    BY <2>1 DEF IInv, TypeOK, State
  <2> QED
    BY <2>1, <2>2, ClaimsStay, PhaseStays, PhaseIs DEF Claims!vars, ClaimOf, PhaseOf
<1>7. ASSUME NEW g \in Gens, ElectionLeave(g)
      PROVE  Claims!Next \/ UNCHANGED Claims!vars
  <2>1. life[g].status \in {"candidate", "exiting"} /\ ReleaseDelegations(g, TRUE)
    BY <1>7 DEF ElectionLeave, LowRate
  <2>2. \E red, end, low, exc : LeaveStaking(g, "exiting", red, end, low, exc)
    BY <1>7 DEF ElectionLeave
  <2> QED
    BY <2>1, <2>2, LeavingStep
<1>8. ASSUME NEW g \in Gens, SlashNode(g)
      PROVE  Claims!Next \/ UNCHANGED Claims!vars
  <2>1. life[g].status \in {"candidate", "exiting", "locked"} /\ ReleaseDelegations(g, TRUE)
    BY <1>8 DEF SlashNode, IInv, ReportsWait, Active
  <2>2. Remaining(stake[g], life[g].status) \in Nat
    BY RemainingIsLeft, SoundInv DEF IInv, TypeOK, SoundStake
  <2>3. \E red, end, low, exc : LeaveStaking(g, "exiting", red, end, low, exc)
    BY <1>8, <2>2 DEF SlashNode
  <2> QED
    BY <2>1, <2>3, LeavingStep
<1>9. ASSUME NEW i \in BOOLEAN, NEW e \in BOOLEAN, ConsensusSwitch(i, e) \/ ReportsHandled
      PROVE  UNCHANGED Claims!vars
  BY <1>9, QuietStep DEF ConsensusSwitch, ReportsHandled, stakingRows
<1>10. CASE Settlement
  BY <1>10, SettlementStep
<1>11. CASE UNCHANGED vars
  BY <1>11, QuietStep DEF vars, stakingRows
<1> QED
  BY <1>1, <1>2, <1>3, <1>4, <1>5, <1>6, <1>7, <1>8, <1>9, <1>10, <1>11 DEF Next

LEMMA InitClaims == Init => Claims!Init
<1> SUFFICES ASSUME Init PROVE Claims!Init
  OBVIOUS
<1>1. Worth(NoDelegation) = 0
  BY DEF Worth, NoDelegation, Row
<1>2. ClaimOf = [d \in Delegators |-> [g \in Gens |-> 0]]
  BY <1>1 DEF Init, ClaimOf
<1>3. PhaseOf \in {[g \in Gens |-> "none"], [g \in Gens |-> IF g = 1 THEN "open" ELSE "none"]}
  <2>1. Phase(Unborn.status) = "none"
    BY PhaseIs DEF Unborn, State
  <2>2. Phase(State("candidate", 1 + Freeze, 0, "normal").status) = "open"
    BY PhaseIs DEF State
  <2> QED
    BY <2>1, <2>2 DEF Init, PhaseOf
<1> QED
  BY <1>2, <1>3 DEF Claims!Init, Claims!Gens, Gens, ClaimOf, PhaseOf

(***************************************************************************)
(* The tables implement the claims of the delegators: whatever becomes of  *)
(* the node, a claim is changed by its delegator only, and no staking that *)
(* is over comes back.                                                     *)
(***************************************************************************)
THEOREM TablesKeepClaims == Spec => ImplementsClaims
<1>1. Spec => Claims!Init /\ [][Claims!Next]_(Claims!vars)
  BY InitClaims, StepClaims, Invariance, PTL DEF Spec
<1> QED
  BY <1>1 DEF ImplementsClaims, Claims!Spec
-----------------------------------------------------------------------------
(***************************************************************************)
(* The sums.  What the rows of a table add up to for a staking, and how it *)
(* moves with the rows; then each step moves the columns stat_delegate_*   *)
(* by the same amounts.                                                    *)
(***************************************************************************)
DelegatedIn(table, g) ==
    SumFunctionOnSet([d \in Delegators |-> table[d][g].hes + table[d][g].locked], Delegators)

ReleasedIn(table, g) ==
    SumFunctionOnSet([d \in Delegators |-> table[d][g].released], Delegators)

ReleasedByAll(table) == SumFunctionOnSet([g \in Gens |-> ReleasedIn(table, g)], Gens)

SumsInv ==
    /\ \A g \in Gens : sums[g].hes + sums[g].locked = DelegatedIn(delegation, g)
    /\ nodeSums.released = ReleasedByAll(delegation)
    /\ \A g \in Gens \ overwritten : sums[g].released = ReleasedIn(delegation, g)

DelegationTable == [Delegators -> [Gens -> DelegationRow]]

LEMMA SumsInvIs == SumsInv <=> DelegatedSumIsKept /\ ReleasedIsOwed
<1>1. \A g \in Gens : Delegated(g) = DelegatedIn(delegation, g)
  BY DEF Delegated, DelegatedIn, SumFunction
<1>2. \A g \in Gens : Released(g) = ReleasedIn(delegation, g)
  BY DEF Released, ReleasedIn, SumFunction
<1>3. SumFunction([g \in Gens |-> Released(g)]) = ReleasedByAll(delegation)
  <2>1. [g \in Gens |-> Released(g)] = [g \in Gens |-> ReleasedIn(delegation, g)]
    BY <1>2
  <2> QED
    BY <2>1 DEF ReleasedByAll, SumFunction
<1> QED
  BY <1>1, <1>2, <1>3 DEF SumsInv, DelegatedSumIsKept, ReleasedIsOwed

LEMMA RowAmounts ==
    ASSUME NEW table \in DelegationTable, NEW d \in Delegators, NEW g \in Gens
    PROVE  /\ table[d][g] \in DelegationRow
           /\ table[d][g].hes \in Nat /\ table[d][g].locked \in Nat /\ table[d][g].released \in Nat
BY DEF DelegationTable, DelegationRow

LEMMA TableSums ==
    ASSUME NEW table \in DelegationTable, NEW g \in Gens
    PROVE  DelegatedIn(table, g) \in Int /\ ReleasedIn(table, g) \in Int
<1> DEFINE f == [d \in Delegators |-> table[d][g].hes + table[d][g].locked]
           r == [d \in Delegators |-> table[d][g].released]
<1>1. \A d \in Delegators : f[d] \in Int /\ r[d] \in Int
  BY RowAmounts
<1>2. IsFiniteSet(Delegators)
  BY StakingAssumption
<1> HIDE DEF f, r
<1>3. SumFunctionOnSet(f, Delegators) \in Int /\ SumFunctionOnSet(r, Delegators) \in Int
  BY <1>1, <1>2, SumTyped
<1> QED
  BY <1>3 DEF f, r, DelegatedIn, ReleasedIn

\* The sums when one row changes.
LEMMA OneRowSums ==
    ASSUME NEW before \in DelegationTable, NEW after \in DelegationTable,
           NEW d \in Delegators, NEW g \in Gens,
           \A x \in Delegators : x # d => after[x][g] = before[x][g]
    PROVE  /\ DelegatedIn(after, g) = DelegatedIn(before, g)
                 + (after[d][g].hes + after[d][g].locked)
                 - (before[d][g].hes + before[d][g].locked)
           /\ ReleasedIn(after, g) = ReleasedIn(before, g)
                 + after[d][g].released - before[d][g].released
<1> DEFINE value(table) == [x \in Delegators |-> table[x][g].hes + table[x][g].locked]
           freed(table) == [x \in Delegators |-> table[x][g].released]
<1>1. \A x \in Delegators : /\ value(before)[x] \in Int /\ value(after)[x] \in Int
                            /\ freed(before)[x] \in Int /\ freed(after)[x] \in Int
                            /\ x # d => /\ value(after)[x] = value(before)[x]
                                        /\ freed(after)[x] = freed(before)[x]
  BY RowAmounts
<1>2. /\ value(after)[d] = after[d][g].hes + after[d][g].locked
      /\ value(before)[d] = before[d][g].hes + before[d][g].locked
      /\ freed(after)[d] = after[d][g].released
      /\ freed(before)[d] = before[d][g].released
  OBVIOUS
<1>3. IsFiniteSet(Delegators)
  BY StakingAssumption
<1> DEFINE v == value(before)
           w == value(after)
           p == freed(before)
           q == freed(after)
<1>4. SumFunctionOnSet(w, Delegators) = SumFunctionOnSet(v, Delegators) + w[d] - v[d]
  <2>1. (\A x \in Delegators : v[x] \in Int /\ w[x] \in Int)
        /\ \A x \in Delegators : x # d => w[x] = v[x]
    BY <1>1
  <2> HIDE DEF v, w
  <2> QED
    BY <1>3, <2>1, SumChanges
<1>5. SumFunctionOnSet(q, Delegators) = SumFunctionOnSet(p, Delegators) + q[d] - p[d]
  <2>1. (\A x \in Delegators : p[x] \in Int /\ q[x] \in Int)
        /\ \A x \in Delegators : x # d => q[x] = p[x]
    BY <1>1
  <2> HIDE DEF p, q
  <2> QED
    BY <1>3, <2>1, SumChanges
<1> QED
  BY <1>2, <1>4, <1>5 DEF DelegatedIn, ReleasedIn

\* Rows that are worth the same add up to the same.
LEMMA SameSums ==
    ASSUME NEW before \in DelegationTable, NEW after \in DelegationTable, NEW g \in Gens,
           \A x \in Delegators :
              /\ after[x][g].hes + after[x][g].locked = before[x][g].hes + before[x][g].locked
              /\ after[x][g].released = before[x][g].released
    PROVE  /\ DelegatedIn(after, g) = DelegatedIn(before, g)
           /\ ReleasedIn(after, g) = ReleasedIn(before, g)
<1>1. /\ [x \in Delegators |-> after[x][g].hes + after[x][g].locked]
            = [x \in Delegators |-> before[x][g].hes + before[x][g].locked]
      /\ [x \in Delegators |-> after[x][g].released] = [x \in Delegators |-> before[x][g].released]
  OBVIOUS
<1> QED
  BY <1>1 DEF DelegatedIn, ReleasedIn

\* The sum over all stakings when one of them changes.
LEMMA ReleasedChanges ==
    ASSUME NEW before \in DelegationTable, NEW after \in DelegationTable, NEW g \in Gens,
           \A h \in Gens : h # g => ReleasedIn(after, h) = ReleasedIn(before, h)
    PROVE  ReleasedByAll(after)
              = ReleasedByAll(before) + ReleasedIn(after, g) - ReleasedIn(before, g)
<1> DEFINE v == [h \in Gens |-> ReleasedIn(before, h)]
           w == [h \in Gens |-> ReleasedIn(after, h)]
<1>1. (\A h \in Gens : v[h] \in Int /\ w[h] \in Int) /\ \A h \in Gens : h # g => w[h] = v[h]
  BY TableSums
<1>2. IsFiniteSet(Gens)
  BY FS_Interval, StakingAssumption DEF Gens
<1>3. v[g] = ReleasedIn(before, g) /\ w[g] = ReleasedIn(after, g)
  OBVIOUS
<1> HIDE DEF v, w
<1>4. SumFunctionOnSet(w, Gens) = SumFunctionOnSet(v, Gens) + w[g] - v[g]
  BY <1>1, <1>2, SumChanges
<1> QED
  BY <1>3, <1>4 DEF v, w, ReleasedByAll

LEMMA InitSums == Init => SumsInv
<1> SUFFICES ASSUME Init PROVE SumsInv
  OBVIOUS
<1>1. IsFiniteSet(Delegators) /\ IsFiniteSet(Gens)
  BY FS_Interval, StakingAssumption DEF Gens
<1>2. \A d \in Delegators, g \in Gens :
         delegation[d][g].hes = 0 /\ delegation[d][g].locked = 0 /\ delegation[d][g].released = 0
  BY DEF Init, NoDelegation, Row
<1>3. ASSUME NEW g \in Gens
      PROVE  DelegatedIn(delegation, g) = 0 /\ ReleasedIn(delegation, g) = 0
  <2> DEFINE v == [d \in Delegators |-> delegation[d][g].hes + delegation[d][g].locked]
             w == [d \in Delegators |-> delegation[d][g].released]
  <2>1. \A d \in Delegators : v[d] = 0 /\ w[d] = 0
    BY <1>2
  <2> HIDE DEF v, w
  <2>2. SumFunctionOnSet(v, Delegators) = 0 /\ SumFunctionOnSet(w, Delegators) = 0
    BY <1>1, <2>1, SumZero
  <2> QED
    BY <2>2 DEF v, w, DelegatedIn, ReleasedIn
<1>4. ReleasedByAll(delegation) = 0
  <2> DEFINE v == [g \in Gens |-> ReleasedIn(delegation, g)]
  <2>1. \A g \in Gens : v[g] = 0
    BY <1>3
  <2> HIDE DEF v
  <2>2. SumFunctionOnSet(v, Gens) = 0
    BY <1>1, <2>1, SumZero
  <2> QED
    BY <2>2 DEF v, ReleasedByAll
<1>5. /\ nodeSums.released = 0
      /\ \A g \in Gens : sums[g].hes = 0 /\ sums[g].locked = 0 /\ sums[g].released = 0
  BY DEF Init, Totals, Claimed
<1> QED
  BY <1>3, <1>4, <1>5 DEF SumsInv

\* A step that writes the rows of one staking moves its sums with them.
LEMMA SumsMove ==
    ASSUME SumsInv, TypeOK, TypeOK', NEW g \in Gens,
           \A h \in Gens : h # g => /\ sums'[h] = sums[h]
                                    /\ \A d \in Delegators : delegation'[d][h] = delegation[d][h],
           sums'[g].hes + sums'[g].locked = DelegatedIn(delegation', g),
           nodeSums'.released = nodeSums.released
                                + ReleasedIn(delegation', g) - ReleasedIn(delegation, g),
           overwritten \subseteq overwritten',
           g \notin overwritten' => sums'[g].released = ReleasedIn(delegation', g)
    PROVE  SumsInv'
<1> DEFINE before == delegation
           after == delegation'
<1>1. before \in DelegationTable /\ after \in DelegationTable
  BY DEF TypeOK, DelegationTable
<1>2. \A h \in Gens, d \in Delegators : h # g => after[d][h] = before[d][h]
  OBVIOUS
<1> HIDE DEF before, after
<1>3. ASSUME NEW h \in Gens, h # g
      PROVE  DelegatedIn(after, h) = DelegatedIn(before, h) /\ ReleasedIn(after, h) = ReleasedIn(before, h)
  <2>1. \A d \in Delegators :
           /\ after[d][h].hes + after[d][h].locked = before[d][h].hes + before[d][h].locked
           /\ after[d][h].released = before[d][h].released
    BY <1>2, <1>3
  <2> QED
    BY <1>1, <2>1, SameSums
<1>4. ReleasedByAll(after) = ReleasedByAll(before) + ReleasedIn(after, g) - ReleasedIn(before, g)
  BY <1>1, <1>3, ReleasedChanges
<1>5. /\ \A h \in Gens : sums[h].hes + sums[h].locked = DelegatedIn(before, h)
      /\ nodeSums.released = ReleasedByAll(before)
      /\ \A h \in Gens \ overwritten : sums[h].released = ReleasedIn(before, h)
  BY DEF SumsInv, before
<1>6. \A h \in Gens : sums'[h].hes + sums'[h].locked = DelegatedIn(after, h)
  BY <1>3, <1>5 DEF after
<1>7. nodeSums'.released = ReleasedByAll(after)
  BY <1>4, <1>5 DEF before, after
<1>8. \A h \in Gens \ overwritten' : sums'[h].released = ReleasedIn(after, h)
  BY <1>3, <1>5 DEF after
<1> QED
  BY <1>6, <1>7, <1>8 DEF SumsInv, after

LEMMA QuietSums ==
    ASSUME SumsInv, UNCHANGED <<delegation, sums, overwritten>>,
           nodeSums'.released = nodeSums.released
    PROVE  SumsInv'
BY DEF SumsInv

LEMMA DelegateCreateSums ==
    ASSUME IInv, IInv', SumsInv, NEW d \in Delegators, NEW g \in Gens, NEW a \in 1..MaxClaim,
           DelegateCreate(d, g, a)
    PROVE  SumsInv'
<1> DEFINE row == delegation[d][g]
           balance == Row(row.hes + a, row.locked, row.released, FALSE)
           claimed == Claimed(sums[g].hes + a, sums[g].locked, sums[g].released)
<1>1. TypeOK /\ TypeOK' /\ a \in Int
  BY StakingAssumption DEF IInv
<1>2. /\ delegation' = [delegation EXCEPT ![d][g] = balance]
      /\ sums' = [sums EXCEPT ![g] = claimed]
      /\ UNCHANGED overwritten
      /\ nodeSums' = Totals(nodeSums.total + a, nodeSums.delegated + a, nodeSums.released)
  BY DEF DelegateCreate
<1>3. /\ balance.hes = row.hes + a /\ balance.locked = row.locked /\ balance.released = row.released
      /\ claimed.hes = sums[g].hes + a /\ claimed.locked = sums[g].locked
      /\ claimed.released = sums[g].released
      /\ nodeSums'.released = nodeSums.released
  BY <1>2 DEF Row, Claimed, Totals
<1> HIDE DEF balance, claimed
<1>4. /\ delegation'[d][g] = balance /\ sums'[g] = claimed
      /\ \A x \in Delegators, h \in Gens :
            x # d \/ h # g => delegation'[x][h] = delegation[x][h]
      /\ \A h \in Gens : h # g => sums'[h] = sums[h]
  BY <1>1, <1>2 DEF TypeOK
<1> DEFINE before == delegation
           after == delegation'
<1>5. before \in DelegationTable /\ after \in DelegationTable
  BY <1>1 DEF TypeOK, DelegationTable
<1>6. /\ \A x \in Delegators : x # d => after[x][g] = before[x][g]
      /\ after[d][g] = balance /\ before[d][g] = row
  BY <1>4
<1>7. /\ row.hes \in Int /\ row.locked \in Int /\ row.released \in Int
      /\ sums[g].hes \in Int /\ sums[g].locked \in Int
      /\ nodeSums.released \in Int
  BY <1>1, Fields
<1> HIDE DEF before, after, row
<1>8. /\ DelegatedIn(after, g) = DelegatedIn(before, g)
            + (balance.hes + balance.locked) - (row.hes + row.locked)
      /\ ReleasedIn(after, g) = ReleasedIn(before, g) + balance.released - row.released
  BY <1>5, <1>6, OneRowSums
<1>9. DelegatedIn(before, g) \in Int /\ ReleasedIn(before, g) \in Int
  BY <1>5, TableSums
<1>10. /\ sums[g].hes + sums[g].locked = DelegatedIn(before, g)
       /\ g \notin overwritten => sums[g].released = ReleasedIn(before, g)
  BY DEF SumsInv, before
<1>11. /\ DelegatedIn(after, g) = DelegatedIn(before, g) + a
       /\ ReleasedIn(after, g) = ReleasedIn(before, g)
  BY <1>1, <1>3, <1>7, <1>8, <1>9
<1>12. sums'[g].hes + sums'[g].locked = DelegatedIn(after, g)
  BY <1>1, <1>3, <1>4, <1>7, <1>10, <1>11
<1>13. nodeSums'.released = nodeSums.released + ReleasedIn(after, g) - ReleasedIn(before, g)
  BY <1>3, <1>7, <1>9, <1>11
<1>14. g \notin overwritten' => sums'[g].released = ReleasedIn(after, g)
  BY <1>2, <1>3, <1>4, <1>10, <1>11
<1> QED
  BY <1>1, <1>2, <1>4, <1>12, <1>13, <1>14, SumsMove DEF before, after

\* A withdrawal takes off the sums what it takes off the row.
LEMMA ExitAmounts ==
    ASSUME IInv, NEW d \in Delegators, NEW g \in Gens, NEW a \in 1..MaxClaim,
           DelegateExit(d, g, a)
    PROVE  LET row == delegation[d][g]
               balance == delegation'[d][g]
               decrease == Decrease(row, IsCandidate(g), RealRefund(row, a))
           IN  /\ decrease.hes \in Int /\ decrease.locked \in Int /\ decrease.released \in Int
               /\ balance.hes \in Int /\ balance.locked \in Int /\ balance.released \in Int
               /\ balance.hes + balance.locked
                     = row.hes + row.locked - (decrease.hes + decrease.locked)
               /\ balance.released = row.released - decrease.released
<1> DEFINE row == delegation[d][g]
           real == RealRefund(row, a)
           candidate == IsCandidate(g)
           balance == delegation'[d][g]
           decrease == Decrease(row, candidate, real)
<1>1. /\ row \in DelegationRow /\ row.hes \in Nat /\ row.locked \in Nat /\ row.released \in Nat
      /\ candidate \in BOOLEAN
  BY Fields DEF IInv, TypeOK, IsCandidate
<1>2. /\ real \in Nat /\ balance \in DelegationRow /\ Worth(balance) = Worth(row) - real
      /\ candidate => balance.released = 0
      /\ ~candidate => balance.hes = 0 /\ balance.locked = 0
      /\ life[g].status # "none"
  BY ExitRow
<1>3. /\ candidate => row.released = 0
      /\ ~candidate => row.hes = 0 /\ row.locked = 0
  <2>1. life[g].status \in {"none", "candidate", "exiting", "exited", "locked"}
    BY Fields DEF IInv
  <2> QED
    BY <2>1, SoundInv DEF SoundClaims, IsCandidate
<1>4. /\ ~candidate => decrease = Claimed(0, 0, real)
      /\ candidate => decrease \in {Claimed(real, 0, 0), Claimed(0, real, row.released)}
  BY DEF Decrease
<1> HIDE DEF row, real, candidate, balance, decrease
<1>5. balance.hes \in Nat /\ balance.locked \in Nat /\ balance.released \in Nat
  BY <1>2 DEF DelegationRow
<1>6. balance.hes + balance.locked + balance.released = row.hes + row.locked + row.released - real
  BY <1>1, <1>2, <1>5 DEF Worth
<1>7. CASE candidate
  <2>1. decrease.hes + decrease.locked = real /\ decrease.released = 0
        /\ decrease.hes \in Int /\ decrease.locked \in Int
    BY <1>1, <1>2, <1>3, <1>4, <1>7 DEF Claimed
  <2>2. /\ balance.hes + balance.locked = row.hes + row.locked - (decrease.hes + decrease.locked)
        /\ balance.released = row.released - decrease.released
    BY <1>1, <1>2, <1>3, <1>5, <1>6, <1>7, <2>1
  <2> QED
    BY <1>5, <2>1, <2>2 DEF row, real, candidate, balance, decrease
<1>8. CASE ~candidate
  <2>1. decrease.hes = 0 /\ decrease.locked = 0 /\ decrease.released = real
    BY <1>4, <1>8 DEF Claimed
  <2>2. /\ balance.hes + balance.locked = row.hes + row.locked - (decrease.hes + decrease.locked)
        /\ balance.released = row.released - decrease.released
    BY <1>1, <1>2, <1>3, <1>5, <1>6, <1>8, <2>1
  <2> QED
    BY <1>2, <1>5, <2>1, <2>2 DEF row, real, candidate, balance, decrease
<1> QED
  BY <1>7, <1>8

LEMMA DelegateExitSums ==
    ASSUME IInv, IInv', SumsInv, NEW d \in Delegators, NEW g \in Gens, NEW a \in 1..MaxClaim,
           DelegateExit(d, g, a)
    PROVE  SumsInv'
<1> DEFINE row == delegation[d][g]
           balance == delegation'[d][g]
           decrease == Decrease(row, IsCandidate(g), RealRefund(row, a))
           claimed == Claimed(sums[g].hes - decrease.hes, sums[g].locked - decrease.locked,
                              sums[g].released - decrease.released)
<1>1. TypeOK /\ TypeOK'
  BY DEF IInv
<1>2. /\ delegation' = [delegation EXCEPT ![d][g] = balance]
      /\ sums' = [sums EXCEPT ![g] = claimed]
      /\ UNCHANGED overwritten
      /\ nodeSums'.released = nodeSums.released - decrease.released
  <2>1. delegation' = [delegation EXCEPT ![d][g] = balance]
    BY ExitRow
  <2> QED
    BY <2>1 DEF DelegateExit, Totals
<1>3. /\ decrease.hes \in Int /\ decrease.locked \in Int /\ decrease.released \in Int
      /\ balance.hes \in Int /\ balance.locked \in Int /\ balance.released \in Int
      /\ balance.hes + balance.locked = row.hes + row.locked - (decrease.hes + decrease.locked)
      /\ balance.released = row.released - decrease.released
  BY ExitAmounts
<1>4. /\ claimed.hes = sums[g].hes - decrease.hes
      /\ claimed.locked = sums[g].locked - decrease.locked
      /\ claimed.released = sums[g].released - decrease.released
  BY DEF Claimed
<1> HIDE DEF claimed
<1>5. /\ sums'[g] = claimed
      /\ \A x \in Delegators, h \in Gens :
            x # d \/ h # g => delegation'[x][h] = delegation[x][h]
      /\ \A h \in Gens : h # g => sums'[h] = sums[h]
  BY <1>1, <1>2 DEF TypeOK
<1>6. /\ row.hes \in Int /\ row.locked \in Int /\ row.released \in Int
      /\ sums[g].hes \in Int /\ sums[g].locked \in Int /\ sums[g].released \in Int
      /\ nodeSums.released \in Int
  BY <1>1, Fields
<1> DEFINE before == delegation
           after == delegation'
<1>7. before \in DelegationTable /\ after \in DelegationTable
  BY <1>1 DEF TypeOK, DelegationTable
<1>8. /\ \A x \in Delegators : x # d => after[x][g] = before[x][g]
      /\ after[d][g] = balance /\ before[d][g] = row
  BY <1>5
<1> HIDE DEF before, after, row, balance, decrease
<1>9. /\ DelegatedIn(after, g) = DelegatedIn(before, g)
            + (balance.hes + balance.locked) - (row.hes + row.locked)
      /\ ReleasedIn(after, g) = ReleasedIn(before, g) + balance.released - row.released
  BY <1>7, <1>8, OneRowSums
<1>10. DelegatedIn(before, g) \in Int /\ ReleasedIn(before, g) \in Int
  BY <1>7, TableSums
<1>11. /\ sums[g].hes + sums[g].locked = DelegatedIn(before, g)
       /\ g \notin overwritten => sums[g].released = ReleasedIn(before, g)
  BY DEF SumsInv, before
<1>12. /\ DelegatedIn(after, g) = DelegatedIn(before, g) - (decrease.hes + decrease.locked)
       /\ ReleasedIn(after, g) = ReleasedIn(before, g) - decrease.released
  BY <1>3, <1>6, <1>9, <1>10
<1>13. sums'[g].hes + sums'[g].locked = DelegatedIn(after, g)
  BY <1>3, <1>4, <1>5, <1>6, <1>11, <1>12
<1>14. nodeSums'.released = nodeSums.released + ReleasedIn(after, g) - ReleasedIn(before, g)
  BY <1>2, <1>3, <1>6, <1>10, <1>12
<1>15. g \notin overwritten' => sums'[g].released = ReleasedIn(after, g)
  BY <1>2, <1>4, <1>5, <1>11, <1>12
<1> QED
  BY <1>1, <1>2, <1>5, <1>13, <1>14, <1>15, SumsMove DEF before, after

\* Every delegation to a staking that leaves is released, and none before.
LEMMA LeavingSums ==
    ASSUME IInv, IInv', SumsInv, NEW g \in Gens,
           life[g].status \in {"candidate", "exiting", "locked"},
           NEW status, NEW red, NEW end, NEW low, NEW exc, NEW adds \in BOOLEAN,
           adds \/ life[g].status = "candidate",
           LeaveStaking(g, status, red, end, low, exc), LeaveNode(status, red, end, low, exc),
           ReleaseDelegations(g, adds), overwritten \subseteq overwritten',
           life[g].status = "exiting" => g \in overwritten'
    PROVE  SumsInv'
<1> DEFINE row(d) == delegation[d][g]
           before == delegation
           after == delegation'
           freed == [d \in Delegators |-> before[d][g].released]
           open == [d \in Delegators |-> before[d][g].hes + before[d][g].locked]
           owed == [d \in Delegators |-> after[d][g].released]
           none == [d \in Delegators |-> after[d][g].hes + after[d][g].locked]
<1>1. TypeOK /\ TypeOK' /\ g = nodeGen /\ nodeGen > 0
  BY PresentStaking DEF IInv
<1>2. /\ nodeSums'.released = nodeSums.released + nodeSums.delegated
      /\ sums' = [sums EXCEPT ![g] = Claimed(0, 0, sums[g].hes + sums[g].locked)]
  BY DEF LeaveStaking, LeaveNode, Totals
<1>3. /\ sums'[g].hes = 0 /\ sums'[g].locked = 0
      /\ sums'[g].released = sums[g].hes + sums[g].locked
      /\ \A h \in Gens : h # g => sums'[h] = sums[h]
  BY <1>1, <1>2 DEF TypeOK, Claimed
<1>4. nodeSums.delegated = sums[g].hes + sums[g].locked
  <2>1. nodeGen # 0
    BY <1>1, StakingAssumption DEF TypeOK
  <2> QED
    BY <1>1, <2>1 DEF IInv, NodeTotals
<1>5. before \in DelegationTable /\ after \in DelegationTable
  BY <1>1 DEF TypeOK, DelegationTable
<1>6. ASSUME NEW d \in Delegators
      PROVE  /\ before[d][g].hes \in Nat /\ before[d][g].locked \in Nat
             /\ before[d][g].released \in Nat
             /\ after[d][g].hes = 0 /\ after[d][g].locked = 0
             /\ after[d][g].released
                   = before[d][g].released + (before[d][g].hes + before[d][g].locked)
             /\ life[g].status \in {"candidate", "locked"} => before[d][g].released = 0
             /\ \A h \in Gens : h # g => after[d][h] = before[d][h]
  <2>1. /\ row(d).hes \in Nat /\ row(d).locked \in Nat /\ row(d).released \in Nat
    BY <1>1, Fields
  <2>2. /\ row(d).history => row(d).hes = 0 /\ row(d).locked = 0 /\ row(d).released = 0
        /\ life[g].status \in {"candidate", "locked"} => row(d).released = 0
    BY SoundInv DEF SoundClaims
  <2>3. /\ after[d][g] = ReleasedBy(row(d), IF adds THEN row(d).released ELSE 0)
        /\ \A h \in Gens : h # g => after[d][h] = before[d][h]
    BY DEF ReleaseDelegations
  <2>4. (IF adds THEN row(d).released ELSE 0) = row(d).released
    BY <2>2
  <2> HIDE DEF after
  <2>5. after[d][g] = ReleasedBy(row(d), row(d).released)
    BY <2>3, <2>4
  <2>6. CASE row(d).history
    BY <2>1, <2>2, <2>3, <2>5, <2>6 DEF ReleasedBy
  <2>7. CASE ~row(d).history
    <3>1. /\ after[d][g].hes = 0 /\ after[d][g].locked = 0
          /\ after[d][g].released = row(d).released + row(d).hes + row(d).locked
      BY <2>5, <2>7 DEF ReleasedBy, Row
    <3> QED
      BY <2>1, <2>2, <2>3, <3>1
  <2> QED
    BY <2>6, <2>7
<1> HIDE DEF before, after, row
<1>7. /\ IsFiniteSet(Delegators)
      /\ \A d \in Delegators : /\ freed[d] \in Int /\ open[d] \in Int
                               /\ owed[d] = freed[d] + open[d] /\ none[d] = 0
                               /\ life[g].status \in {"candidate", "locked"} => freed[d] = 0
  BY <1>6, StakingAssumption
<1>8. /\ ReleasedIn(before, g) = SumFunctionOnSet(freed, Delegators)
      /\ DelegatedIn(before, g) = SumFunctionOnSet(open, Delegators)
      /\ ReleasedIn(after, g) = SumFunctionOnSet(owed, Delegators)
      /\ DelegatedIn(after, g) = SumFunctionOnSet(none, Delegators)
  BY DEF ReleasedIn, DelegatedIn
<1> HIDE DEF freed, open, owed, none
<1>9. DelegatedIn(after, g) = 0
  BY <1>7, <1>8, SumZero
<1>10. ReleasedIn(after, g) = ReleasedIn(before, g) + DelegatedIn(before, g)
  BY <1>7, <1>8, SumOfBoth
<1>11. life[g].status \in {"candidate", "locked"} => ReleasedIn(before, g) = 0
  BY <1>7, <1>8, SumZero
<1>12. DelegatedIn(before, g) \in Int /\ ReleasedIn(before, g) \in Int
  BY <1>5, TableSums
<1>13. sums[g].hes + sums[g].locked = DelegatedIn(before, g)
  BY DEF SumsInv, before
<1>14. sums'[g].hes + sums'[g].locked = DelegatedIn(after, g)
  BY <1>3, <1>9
<1>15. nodeSums'.released = nodeSums.released + ReleasedIn(after, g) - ReleasedIn(before, g)
  <2>1. nodeSums.released \in Int
    BY <1>1, Fields
  <2> QED
    BY <1>2, <1>4, <1>10, <1>12, <1>13, <2>1
<1>16. g \notin overwritten' => sums'[g].released = ReleasedIn(after, g)
  BY <1>3, <1>10, <1>11, <1>12, <1>13
<1>17. \A h \in Gens, d \in Delegators : h # g => after[d][h] = before[d][h]
  BY <1>6
<1> QED
  BY <1>1, <1>3, <1>14, <1>15, <1>16, <1>17, SumsMove DEF before, after

LEMMA LeavesSums ==
    ASSUME IInv, IInv', SumsInv, NEW g \in Gens,
           StakeExitLocked(g) \/ StakeExitUnlocked(g) \/ ElectionLeave(g) \/ SlashNode(g)
    PROVE  SumsInv'
<1>1. /\ life[g].status \in {"candidate", "exiting", "locked"}
      /\ StakeExitLocked(g) \/ StakeExitUnlocked(g) => life[g].status = "candidate"
  BY DEF StakeExitLocked, StakeExitUnlocked, Accepts, ElectionLeave, LowRate, SlashNode,
         IInv, ReportsWait, Active
<1>2. nodeStake = stake[g] /\ nodeLife = life[g]
  BY <1>1, PresentStaking
<1>3. CASE StakeExitLocked(g) \/ StakeExitUnlocked(g)
  <2>1. ReleaseDelegations(g, FALSE) /\ UNCHANGED overwritten
    BY <1>3 DEF StakeExitLocked, StakeExitUnlocked
  <2>2. \E status, red, end, low, exc :
           LeaveNode(status, red, end, low, exc) /\ LeaveStaking(g, status, red, end, low, exc)
    BY <1>2, <1>3 DEF StakeExitLocked, StakeExitUnlocked
  <2> QED
    BY <1>1, <1>3, <2>1, <2>2, LeavingSums
<1>4. CASE ElectionLeave(g) \/ SlashNode(g)
  <2>1. /\ ReleaseDelegations(g, TRUE)
        /\ overwritten' = IF life[g].status = "exiting" THEN overwritten \cup {g} ELSE overwritten
    BY <1>4 DEF ElectionLeave, SlashNode
  <2>2. \E status, red, end, low, exc :
           LeaveNode(status, red, end, low, exc) /\ LeaveStaking(g, status, red, end, low, exc)
    BY <1>2, <1>4 DEF ElectionLeave, SlashNode
  <2> QED
    BY <1>1, <2>1, <2>2, LeavingSums
<1> QED
  BY <1>3, <1>4

LEMMA SettlementSums ==
    ASSUME IInv, IInv', SumsInv, Settlement
    PROVE  SumsInv'
<1> DEFINE before == delegation
           after == delegation'
<1>1. TypeOK /\ TypeOK'
  BY DEF IInv
<1>2. before \in DelegationTable /\ after \in DelegationTable
  BY <1>1 DEF TypeOK, DelegationTable
<1>3. ASSUME NEW d \in Delegators, NEW h \in Gens
      PROVE  /\ after[d][h].hes + after[d][h].locked = before[d][h].hes + before[d][h].locked
             /\ after[d][h].released = before[d][h].released
  <2>1. before[d][h] \in DelegationRow /\ after[d][h] = SettledDelegation(before[d][h])
    BY <1>1 DEF Settlement, TypeOK
  <2> QED
    BY <2>1, SettledDelegationIs
<1>4. ASSUME NEW h \in Gens
      PROVE  /\ sums'[h].hes + sums'[h].locked = sums[h].hes + sums[h].locked
             /\ sums'[h].released = sums[h].released
  <2>1. sums[h] \in StakingSums /\ sums'[h] = SettledSums(sums[h])
    BY <1>1 DEF Settlement, TypeOK
  <2>2. SettledSums(sums[h]).released = sums[h].released
    BY DEF SettledSums, Claimed
  <2> QED
    BY <2>1, <2>2, SettledSumsAre
<1>5. UNCHANGED <<nodeSums, overwritten>>
  BY DEF Settlement
<1> HIDE DEF before, after
<1>6. \A h \in Gens : /\ DelegatedIn(after, h) = DelegatedIn(before, h)
                      /\ ReleasedIn(after, h) = ReleasedIn(before, h)
  BY <1>2, <1>3, SameSums
<1>7. ReleasedByAll(after) = ReleasedByAll(before)
  <2>1. [h \in Gens |-> ReleasedIn(after, h)] = [h \in Gens |-> ReleasedIn(before, h)]
    BY <1>6
  <2> QED
    BY <2>1 DEF ReleasedByAll
<1>8. /\ \A h \in Gens : sums[h].hes + sums[h].locked = DelegatedIn(before, h)
      /\ nodeSums.released = ReleasedByAll(before)
      /\ \A h \in Gens \ overwritten : sums[h].released = ReleasedIn(before, h)
  BY DEF SumsInv, before
<1>9. /\ \A h \in Gens : sums'[h].hes + sums'[h].locked = DelegatedIn(after, h)
      /\ nodeSums'.released = ReleasedByAll(after)
      /\ \A h \in Gens \ overwritten' : sums'[h].released = ReleasedIn(after, h)
  BY <1>4, <1>5, <1>6, <1>7, <1>8
<1> QED
  BY <1>9 DEF SumsInv, after

LEMMA NextSums ==
    ASSUME IInv, SumsInv, [Next]_vars
    PROVE  IInv' /\ SumsInv'
<1>1. IInv'
  BY NextInv
<1>2. ASSUME NEW a \in StakeThreshold..MaxStake, StakeCreate(a)
      PROVE  SumsInv'
  BY <1>2, QuietSums DEF StakeCreate, Totals
<1>3. ASSUME NEW g \in Gens, NEW a \in 1..MaxStake, StakeIncrease(g, a)
      PROVE  SumsInv'
  BY <1>3, QuietSums DEF StakeIncrease, Totals
<1>4. ASSUME NEW g \in Gens,
             StakeExitLocked(g) \/ StakeExitUnlocked(g) \/ ElectionLeave(g) \/ SlashNode(g)
      PROVE  SumsInv'
  BY <1>1, <1>4, LeavesSums
<1>5. ASSUME NEW g \in Gens, NEW d \in Delegators, NEW a \in 1..MaxClaim,
             DelegateCreate(d, g, a) \/ DelegateExit(d, g, a)
      PROVE  SumsInv'
  BY <1>1, <1>5, DelegateCreateSums, DelegateExitSums
<1>6. ASSUME NEW g \in Gens, Report(g) \/ ElectionLock(g)
      PROVE  SumsInv'
  <2>1. UNCHANGED <<delegation, sums, overwritten>>
    BY <1>6 DEF Report, ElectionLock
  <2>2. nodeSums'.released = nodeSums.released
    <3>1. CASE Report(g)
      BY <3>1 DEF Report
    <3>2. CASE ElectionLock(g)
      <4>1. \E total : nodeSums' = Totals(total, nodeSums.delegated, nodeSums.released)
        BY <3>2 DEF ElectionLock
      <4> QED
        BY <4>1 DEF Totals
    <3> QED
      BY <1>6, <3>1, <3>2
  <2> QED
    BY <2>1, <2>2, QuietSums
<1>7. ASSUME NEW i \in BOOLEAN, NEW e \in BOOLEAN, ConsensusSwitch(i, e) \/ ReportsHandled
      PROVE  SumsInv'
  BY <1>7, QuietSums DEF ConsensusSwitch, ReportsHandled, nodeRow, stakingRows
<1>8. CASE Settlement
  BY <1>1, <1>8, SettlementSums
<1>9. CASE UNCHANGED vars
  BY <1>1, <1>9, QuietSums DEF vars, nodeRow, stakingRows
<1>10. SumsInv'
  BY <1>2, <1>3, <1>4, <1>5, <1>6, <1>7, <1>8, <1>9 DEF Next
<1> QED
  BY <1>1, <1>10

(***************************************************************************)
(* Staking and delegation rows are moved by statements of their own, by    *)
(* amounts each computes for itself; yet stat_delegate_hes and _locked of  *)
(* every staking always add up to the delegations to it, however many      *)
(* delegators there are and however the node leaves.                       *)
(***************************************************************************)
THEOREM DelegatedSumKept == Spec => []DelegatedSumIsKept
<1>1. SumsInv => DelegatedSumIsKept
  BY SumsInvIs
<1>2. Spec => [](IInv /\ SumsInv)
  BY InitInv, InitSums, NextSums, PTL DEF Spec
<1> QED
  BY <1>1, <1>2, PTL

(***************************************************************************)
(* stat_delegate_released of the node is what the delegators of all its    *)
(* stakings can still withdraw, and that of a staking what they can of it; *)
(* only a second penalty on a leaving node overwrites the latter.          *)
(***************************************************************************)
THEOREM ReleasedSumKept == Spec => []ReleasedIsOwed
<1>1. SumsInv => ReleasedIsOwed
  BY SumsInvIs
<1>2. Spec => [](IInv /\ SumsInv)
  BY InitInv, InitSums, NextSums, PTL DEF Spec
<1> QED
  BY <1>1, <1>2, PTL
=============================================================================
