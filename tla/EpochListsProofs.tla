-------------------------- MODULE EpochListsProofs --------------------------
(***************************************************************************)
(* Proofs about EpochLists for every chain, epoch size and kind of fault.  *)
(* The composition only takes steps of BlockCollection, whose invariant    *)
(* comes along.  The inductive invariant adds where the main thread is     *)
(* (WhereInLoop), up to which block the lists in memory hold (ListsFit)    *)
(* and how max and the table block_node agree (RoundsInStep).              *)
(***************************************************************************)
EXTENDS EpochLists, BlockCollectionProofs

\* The steps of the main thread, by the state of the agent.
WhereInLoop ==
    /\ collected <= chainHead
    /\ agent \in {"down", "stopped"} => step = "none"
    /\ agent = "post" => step \in {"settlement", "consensus", "ready"}
    /\ agent = "running" => step \in {"settlement", "consensus", "insert", "ready"}
    /\ agent \in {"down", "post"} => messages = {} /\ max = -1
    /\ agent = "running" =>
          /\ step = "settlement" => Starts(collected + 1, "settlement")
          /\ step \in {"consensus", "insert"} => Starts(collected + 1, "consensus")
          /\ step = "insert" => collected < chainHead

\* The change of this kind is still to come.
Ahead(kind) == step = kind \/ (kind = "consensus" /\ step = "settlement")

\* The lists and the reward are those of block n while the chain is at head.
Fits(pair, earned, kind, n, head) ==
    /\ pair.pre = ListAt(PreEpochLast(n, kind), kind)
    /\ pair.cur \in ListAt(n, kind) .. ListAt(head, kind)
    /\ kind = "settlement" => earned = ListAt(PreEpochLast(n, kind), kind)

\* The lists in memory are, unless their change failed.
FitsAt(kind, n) ==
    kind \notin stale => Fits(lists[kind], reward, kind, n, chainHead)

\* The lists in memory are those of the collected block, and of the next one
\* once its change is made.
ListsFit ==
    \A kind \in Kinds :
        /\ agent = "running" => FitsAt(kind, IF Ahead(kind) THEN collected ELSE collected + 1)
        /\ agent = "post" /\ ~Ahead(kind) => FitsAt(kind, collected)

\* max is the number of rows, and the round of a block ready for its event is there.
RoundsInStep ==
    /\ Len(blockNode) <= Epoch(MaxBlock, "consensus")
    /\ agent = "running" /\ max # -1 => max = Len(blockNode)
    /\ skipped = {} /\ agent = "running" /\ step = "ready" =>
          Epoch(collected + 1, "consensus") <= Len(blockNode)

EpochInv ==
    /\ ListsTypeOK
    /\ WhereInLoop
    /\ ListsFit
    /\ MessagesFit
    /\ RoundsRecorded
    /\ RoundsInStep

-----------------------------------------------------------------------------
\* The composition takes no step that BlockCollection does not.
LEMMA StepIsCollectionStep == [EpochNext]_allVars => [Next]_vars
<1> SUFFICES ASSUME [EpochNext]_allVars
             PROVE  [Next]_vars
  OBVIOUS
<1>1. CASE UNCHANGED vars
  BY <1>1
<1>2. CASE EpochNext /\ ~UNCHANGED vars
  <2>1. \/ ChainGrows \/ Boot \/ PostSucceeds \/ PostFails \/ LoopBreaks \/ CollectBlock
        \/ HandleBlock \/ RecoverBlock \/ AttemptFails \/ PublishBlock \/ AnalysisStuck
        \/ CommitGenesis \/ CommitBlock \/ CommitFails \/ Crash
    BY <1>2 DEF EpochNext, BootLists, EnterLoop, PostFailsLists, ReadLatest, ChangeLists,
       ChangeFails, RecordRound, RoundWasRecorded, RoundWithoutValidators, BatchInsertFails,
       CollectWithMessage, PublishAnalysed, AnalysisNeverSucceeds, CrashLists
  <2> QED
    BY <2>1 DEF Next
<1> QED
  BY <1>1, <1>2 DEF allVars

\* Block collection with its epoch changes behaves as BlockCollection allows:
\* what is proved of BlockCollection holds of the composition.
THEOREM ComposedCollects == EpochSpec => Spec
<1>1. EpochInit => Init
  BY DEF EpochInit
<1> QED
  BY <1>1, StepIsCollectionStep, PTL DEF EpochSpec, Spec

-----------------------------------------------------------------------------
\* Arithmetic of epochs.

\* Every kind of epoch has at least two blocks.
LEMMA Sizes ==
  ASSUME NEW kind \in Kinds
  PROVE  Size(kind) \in Nat \ {0, 1}
  BY EpochAssumption DEF Size

\* A product with a positive size is monotone.
LEMMA Products ==
  ASSUME NEW s \in Nat \ {0}, NEW x \in Int, NEW y \in Int, x * s < y * s
  PROVE  x < y
<1> SUFFICES ASSUME y <= x
             PROVE  FALSE
  OBVIOUS
<1>1. (x - y) * s >= 0
  <2>1. x - y \in Nat
    OBVIOUS
  <2> QED
    BY <2>1
<1>2. (x - y) * s = x * s - y * s
  OBVIOUS
<1> QED
  BY <1>1, <1>2

\* Quotient and remainder.
LEMMA Division ==
  ASSUME NEW s \in Nat \ {0}, NEW n \in Int
  PROVE  /\ n \div s \in Int
         /\ n % s \in 0 .. s - 1
         /\ n % s = n - s * (n \div s)
<1>1. /\ n \div s \in Int
      /\ n % s \in 0 .. s - 1
  OBVIOUS
<1>2. s \in Int /\ s > 0
  OBVIOUS
<1>3. n % s = n - s * (n \div s)
  BY <1>2, SMTT(60)
<1> QED
  BY <1>1, <1>3

\* The epoch of a block n is the one whose last block is the first at or above n.
LEMMA EpochIs ==
  ASSUME NEW kind \in Kinds, NEW n \in Nat
  PROVE  /\ Epoch(n, kind) \in Nat
         /\ (Epoch(n, kind) - 1) * Size(kind) < n
         /\ n <= Epoch(n, kind) * Size(kind)
<1> DEFINE s == Size(kind)
           e == Epoch(n, kind)
           x == n + s - 1
<1>1. s \in Nat \ {0, 1} /\ x \in Int /\ x = n + s - 1
  BY Sizes
<1>2. e = x \div s
  BY DEF Epoch
<1> HIDE DEF s, e, x
<1>3. /\ e \in Int
      /\ x % s \in 0 .. s - 1
      /\ x % s = x - s * e
  BY <1>1, <1>2, Division
<1>4. /\ (e - 1) * s = e * s - s
      /\ s * e = e * s
      /\ e * s \in Int
  BY <1>1, <1>3
<1>5. (e - 1) * s < n /\ n <= e * s
  BY <1>1, <1>3, <1>4
<1>6. e \in Nat
  <2>1. 0 * s < (e + 1) * s
    <3>1. (e + 1) * s = e * s + s /\ 0 * s = 0
      BY <1>1, <1>3
    <3> QED
      BY <1>1, <1>3, <1>5, <3>1
  <2> QED
    BY <1>1, <1>3, <2>1, Products
<1> QED
  BY <1>5, <1>6 DEF s, e

\* There is only one such epoch.
LEMMA EpochUnique ==
  ASSUME NEW kind \in Kinds, NEW n \in Nat, NEW e \in Int,
         (e - 1) * Size(kind) < n, n <= e * Size(kind)
  PROVE  e = Epoch(n, kind)
<1> DEFINE s == Size(kind)
           f == Epoch(n, kind)
<1>1. s \in Nat \ {0}
  BY Sizes
<1>2. f \in Nat /\ (f - 1) * s < n /\ n <= f * s
  BY EpochIs
<1>3. (e - 1) * s < n /\ n <= e * s
  OBVIOUS
<1> HIDE DEF s, f
<1>4. /\ (e - 1) * s \in Int /\ (f - 1) * s \in Int
      /\ e * s \in Int /\ f * s \in Int
  BY <1>1, <1>2
<1>5. e - 1 < f
  BY <1>1, <1>2, <1>3, <1>4, Products
<1>6. f - 1 < e
  BY <1>1, <1>2, <1>3, <1>4, Products
<1> QED
  BY <1>2, <1>5, <1>6 DEF f

\* Epochs, lists and last blocks of epochs are natural numbers, lists never empty.
LEMMA EpochTyped ==
  ASSUME NEW kind \in Kinds, NEW n \in Int
  PROVE  /\ Epoch(n, kind) \in Nat
         /\ ListAt(n, kind) \in Nat \ {0}
         /\ PreEpochLast(n, kind) \in Nat
<1>1. Epoch(n, kind) \in Nat
  <2>1. CASE n < 0
    BY <2>1 DEF Epoch
  <2>2. CASE n >= 0
    BY <2>2, EpochIs
  <2> QED
    BY <2>1, <2>2
<1>2. \A e \in Nat \ {0} : (e - 1) * Size(kind) \in Nat
  BY Sizes
<1> QED
  BY <1>1, <1>2 DEF ListAt, PreEpochLast

\* The genesis block alone is in epoch 0.
LEMMA EpochZero ==
  ASSUME NEW kind \in Kinds
  PROVE  /\ Epoch(-1, kind) = 0
         /\ Epoch(0, kind) = 0
         /\ \A n \in Nat \ {0} : Epoch(n, kind) >= 1
<1>1. Size(kind) \in Nat \ {0}
  BY Sizes
<1>2. 0 = Epoch(0, kind)
  <2>1. (0 - 1) * Size(kind) < 0 /\ 0 <= 0 * Size(kind)
    BY <1>1
  <2> QED
    BY <2>1, EpochUnique
<1>3. ASSUME NEW n \in Nat \ {0}
      PROVE  Epoch(n, kind) >= 1
  <2>1. Epoch(n, kind) \in Nat /\ n <= Epoch(n, kind) * Size(kind)
    BY EpochIs
  <2>2. Epoch(n, kind) # 0
    <3> SUFFICES ASSUME Epoch(n, kind) = 0
                 PROVE  FALSE
      OBVIOUS
    <3>1. 0 * Size(kind) = 0
      BY <1>1
    <3> QED
      BY <2>1, <3>1
  <2> QED
    BY <2>1, <2>2
<1> QED
  BY <1>2, <1>3 DEF Epoch

\* The chain does not go back in its epochs.
LEMMA EpochGrows ==
  ASSUME NEW kind \in Kinds, NEW m \in Int, NEW n \in Int, m <= n
  PROVE  /\ Epoch(m, kind) <= Epoch(n, kind)
         /\ ListAt(m, kind) <= ListAt(n, kind)
<1>1. Epoch(m, kind) \in Nat /\ Epoch(n, kind) \in Nat
  BY EpochTyped
<1>2. Epoch(m, kind) <= Epoch(n, kind)
  <2>1. CASE m < 0
    BY <1>1, <2>1 DEF Epoch
  <2>2. CASE m >= 0
    <3> DEFINE s == Size(kind)
               e == Epoch(m, kind)
               f == Epoch(n, kind)
    <3>1. s \in Nat \ {0}
      BY Sizes
    <3>2. (e - 1) * s < m /\ n <= f * s
      BY <2>2, EpochIs
    <3>3. e \in Nat /\ f \in Nat
      BY <1>1
    <3> HIDE DEF s, e, f
    <3>4. (e - 1) * s \in Int /\ f * s \in Int
      BY <3>1, <3>3
    <3>5. e - 1 < f
      BY <3>1, <3>2, <3>3, <3>4, Products
    <3> QED
      BY <3>3, <3>5 DEF e, f
  <2> QED
    BY <2>1, <2>2
<1> QED
  BY <1>1, <1>2 DEF ListAt

\* A number below the size that is a multiple of it is zero.
LEMMA Multiples ==
  ASSUME NEW s \in Nat \ {0}, NEW n \in Int, NEW q \in Int, n = q * s
  PROVE  n % s = 0 /\ n \div s = q
<1> DEFINE d == n \div s
           r == n % s
<1>1. d \in Int /\ r \in 0 .. s - 1 /\ r = n - s * d
  BY Division
<1> HIDE DEF d, r
<1>2. d = q
  <2>1. s * d = d * s /\ d * s \in Int /\ q * s \in Int
    BY <1>1
  <2>2. (d + 1) * s = d * s + s
    BY <1>1
  <2>3. d * s <= q * s /\ q * s < (d + 1) * s
    BY <1>1, <2>1, <2>2
  <2>4. q < d + 1
    BY <1>1, <2>3, Products
  <2>5. d < q + 1
    <3>1. (q + 1) * s = q * s + s
      OBVIOUS
    <3>2. d * s < (q + 1) * s
      BY <2>1, <2>3, <3>1
    <3> QED
      BY <1>1, <3>2, Products
  <2> QED
    BY <1>1, <2>4, <2>5
<1>3. r = 0
  <2>1. s * d = q * s
    BY <1>1, <1>2
  <2> QED
    BY <1>1, <2>1
<1> QED
  BY <1>2, <1>3 DEF d, r

\* Block 0 starts no epoch: Java's -1 % size is not 0.
LEMMA GenesisStartsNothing ==
  ASSUME NEW kind \in Kinds
  PROVE  ~Starts(0, kind)
<1> SUFFICES ASSUME (-1) % Size(kind) = 0
             PROVE  FALSE
  BY DEF Starts
<1> DEFINE s == Size(kind)
           m == -1
           d == m \div s
<1>1. s \in Nat \ {0, 1} /\ m = -1 /\ m \in Int /\ d = m \div s /\ m % s = 0
  BY Sizes
<1> HIDE DEF s, m, d
<1>2. d \in Int /\ m % s = m - s * d
  BY <1>1, Division
<1>3. s * d = -1
  <2>1. s * d \in Int
    BY <1>1, <1>2
  <2> QED
    BY <1>1, <1>2, <2>1
<1>4. s * d = d * s /\ (-1) * s = -s /\ 0 * s = 0
  BY <1>1, <1>2
<1>5. (-1) * s < d * s /\ d * s < 0 * s
  BY <1>1, <1>3, <1>4
<1>6. -1 < d /\ d < 0
  BY <1>1, <1>2, <1>5, Products
<1> QED
  BY <1>2, <1>6

\* A block that starts an epoch: the one before it ends the previous epoch.
LEMMA StartOfEpoch ==
  ASSUME NEW kind \in Kinds, NEW n \in Nat, Starts(n + 1, kind)
  PROVE  /\ Epoch(n, kind) = n \div Size(kind)
         /\ Epoch(n + 1, kind) = n \div Size(kind) + 1
<1> DEFINE s == Size(kind)
           q == n \div s
<1>1. s \in Nat \ {0} /\ n \in Int /\ q = n \div s
  BY Sizes
<1>3. n % s = 0
  <2>1. (n + 1) - 1 = n
    OBVIOUS
  <2> QED
    BY <2>1 DEF Starts
<1> HIDE DEF s, q
<1>2. q \in Int /\ n % s = n - s * q
  <2>1. n \div s \in Int /\ n % s = n - s * (n \div s)
    BY <1>1, Division
  <2> QED
    BY <1>1, <2>1, Zenon
<1>4. n = q * s
  <2>1. s * q = q * s /\ q * s \in Int
    BY <1>1, <1>2
  <2> QED
    BY <1>2, <1>3, <2>1
<1>5. (q - 1) * s = q * s - s /\ (q + 1) * s = q * s + s /\ (q + 1) - 1 = q
  BY <1>1, <1>2
<1>6. q = Epoch(n, kind)
  <2>1. (q - 1) * s < n /\ n <= q * s
    BY <1>1, <1>4, <1>5
  <2> QED
    BY <1>2, <2>1, EpochUnique DEF s
<1>7. q + 1 = Epoch(n + 1, kind)
  <2>1. ((q + 1) - 1) * s < n + 1 /\ n + 1 <= (q + 1) * s
    BY <1>1, <1>4, <1>5
  <2>2. q + 1 \in Int /\ n + 1 \in Nat
    BY <1>2
  <2> QED
    BY <2>1, <2>2, EpochUnique DEF s
<1> QED
  BY <1>1, <1>6, <1>7 DEF s

\* A block that starts no epoch is in that of the block before.
LEMMA SameEpoch ==
  ASSUME NEW kind \in Kinds, NEW n \in Int, n >= -1, ~Starts(n + 1, kind)
  PROVE  Epoch(n + 1, kind) = Epoch(n, kind)
<1>1. CASE n = -1
  BY <1>1, EpochZero
<1>2. CASE n >= 0
  <2> DEFINE s == Size(kind)
             e == Epoch(n, kind)
  <2>1. s \in Nat \ {0}
    BY Sizes
  <2>2. e \in Nat /\ (e - 1) * s < n /\ n <= e * s
    BY <1>2, EpochIs
  <2>3. n # e * s
    <3> SUFFICES ASSUME n = e * s
                 PROVE  FALSE
      OBVIOUS
    <3>1. n % s = 0
      <4> HIDE DEF e, s
      <4> QED
        BY <2>1, <2>2, Multiples
    <3>2. (n + 1) - 1 = n
      OBVIOUS
    <3> QED
      BY <3>1, <3>2 DEF Starts
  <2>4. (e - 1) * s < n + 1 /\ n + 1 <= e * s /\ n + 1 \in Nat
    <3> HIDE DEF e, s
    <3>1. (e - 1) * s \in Int /\ e * s \in Int
      BY <2>1, <2>2
    <3> QED
      BY <1>2, <2>2, <2>3, <3>1
  <2>5. e = Epoch(n + 1, kind)
    BY <2>2, <2>4, EpochUnique
  <2> QED
    BY <2>5
<1> QED
  BY <1>1, <1>2

\* The block the current list is asked for belongs to the block's own epoch.
LEMMA TargetBlock ==
  ASSUME NEW kind \in Kinds, NEW n \in Int, n >= -1
  PROVE  LET last == PreEpochLast(n, kind)
         IN  ListAt(IF last = 0 THEN 0 ELSE last + 1, kind) = ListAt(n, kind)
<1> DEFINE s == Size(kind)
           e == Epoch(n, kind)
           last == PreEpochLast(n, kind)
<1>1. s \in Nat \ {0} /\ e \in Nat /\ last \in Nat
  BY Sizes, EpochTyped
<1>2. CASE last = 0
  <2>1. ListAt(0, kind) = 1
    BY EpochZero DEF ListAt
  <2>2. e = 0 \/ e = 1
    <3> SUFFICES ASSUME e # 0
                 PROVE  e = 1
      OBVIOUS
    <3>1. (e - 1) * s = 0
      BY <1>2 DEF PreEpochLast
    <3> HIDE DEF e, s
    <3>2. 0 * s = 0 /\ 1 * s = s
      BY <1>1
    <3>3. (e - 1) * s < 1 * s
      BY <1>1, <3>1, <3>2
    <3>4. e - 1 < 1
      BY <1>1, <3>3, Products
    <3> QED
      BY <1>1, <3>4
  <2> QED
    BY <1>2, <2>1, <2>2 DEF ListAt
<1>3. CASE last # 0
  <2>1. e # 0 /\ last = (e - 1) * s
    BY <1>3 DEF PreEpochLast
  <2>2. (e - 1) * s < last + 1 /\ last + 1 <= e * s
    <3> HIDE DEF e, s, last
    <3>1. e * s = (e - 1) * s + s /\ (e - 1) * s \in Int
      BY <1>1
    <3> QED
      BY <1>1, <2>1, <3>1
  <2>3. e = Epoch(last + 1, kind)
    BY <1>1, <2>2, EpochUnique
  <2> QED
    BY <1>3, <2>3 DEF ListAt
<1> QED
  BY <1>2, <1>3

-----------------------------------------------------------------------------
\* The numbers of a state, in terms of integers.
LEMMA StateNumbers ==
  ASSUME TypeOK, RingInvariant
  PROVE  /\ collected \in Int /\ chainHead \in Int /\ curNumber \in Int
         /\ collected >= -1 /\ curNumber >= -1
         /\ curNumber <= collected
         /\ MaxBlock \in Nat /\ chainHead <= MaxBlock
  BY CollectionAssumption DEF TypeOK, RingInvariant, InChainOrder, Blocks

\* The first thing the loop does for a block is a change that the block starts.
LEMMA FirstStepIs ==
  ASSUME NEW n \in Int
  PROVE  /\ FirstStep(n) \in {"settlement", "consensus", "ready"}
         /\ FirstStep(n) = "settlement" => Starts(n, "settlement")
         /\ FirstStep(n) = "consensus" => Starts(n, "consensus") /\ ~Starts(n, "settlement")
         /\ FirstStep(n) = "ready" => ~Starts(n, "consensus") /\ ~Starts(n, "settlement")
  BY DEF FirstStep

\* What follows a change, at the start and in the loop.
LEMMA StepAfterIs ==
  ASSUME NEW kind \in Kinds
  PROVE  /\ agent = "post" => StepAfter(kind) = IF kind = "consensus" THEN "ready" ELSE "consensus"
         /\ agent = "running" =>
               /\ kind = "consensus" => StepAfter(kind) = "insert"
               /\ kind = "settlement" =>
                     StepAfter(kind) = IF Starts(collected + 1, "consensus") THEN "consensus" ELSE "ready"
  BY DEF StepAfter, ChangeBlock, Kinds

\* A change leaves the agent, the chain and the rings alone and goes on.
LEMMA ChangeIs ==
  ASSUME NEW kind \in Kinds, ChangeLists(kind) \/ ChangeFails(kind)
  PROVE  /\ UNCHANGED <<vars, roundVars, messages>>
         /\ step = kind
         /\ step' = StepAfter(kind)
         /\ latest' = -1
         /\ \/ agent = "post"
            \/ agent = "running" /\ collected < chainHead
  BY DEF ChangeLists, ChangeFails, Changing

\* The steps that leave everything of the epochs alone but the messages.
Elsewhere ==
    /\ UNCHANGED <<step, latest, listVars, roundVars, failedChanges, collected>>
    /\ chainHead <= chainHead'
    /\ agent' = agent
    /\ messages' \subseteq messages

\* Every step of the composition, by what it does to the epochs.
LEMMA EpochSteps ==
  ASSUME TypeOK, RingInvariant, [EpochNext]_allVars
  PROVE  \/ Elsewhere
         \/ BootLists
         \/ EnterLoop
         \/ PostFailsLists
         \/ \E kind \in Kinds : ReadLatest(kind) \/ ChangeLists(kind) \/ ChangeFails(kind)
         \/ RecordRound
         \/ RoundWasRecorded
         \/ RoundWithoutValidators
         \/ BatchInsertFails
         \/ CollectWithMessage
         \/ CrashLists
<1> USE StateNumbers DEF epochVars, listVars, roundVars, ringVars, mysqlVars, budgetVars
<1>1. CASE ChainGrows /\ UNCHANGED epochVars
  BY <1>1 DEF ChainGrows, Elsewhere
<1>2. CASE HandleBlock /\ UNCHANGED epochVars
  BY <1>2 DEF HandleBlock, Elsewhere
<1>3. CASE RecoverBlock /\ Released(Head(blockRing))
  BY <1>3 DEF RecoverBlock, Released, Elsewhere
<1>4. CASE AttemptFails /\ UNCHANGED epochVars
  BY <1>4 DEF AttemptFails, Elsewhere
<1>5. CASE PublishAnalysed
  BY <1>5 DEF PublishAnalysed, PublishBlock, Elsewhere
<1>6. CASE AnalysisNeverSucceeds
  BY <1>6 DEF AnalysisNeverSucceeds, AnalysisStuck, Elsewhere
<1>7. CASE CommitGenesis /\ Released(Head(collectionRing))
  BY <1>7 DEF CommitGenesis, Released, Elsewhere
<1>8. CASE CommitBlock /\ Released(Head(collectionRing))
  BY <1>8 DEF CommitBlock, Released, Elsewhere
<1>9. CASE CommitFails /\ UNCHANGED epochVars
  BY <1>9 DEF CommitFails, Elsewhere
<1>10. CASE UNCHANGED allVars
  BY <1>10 DEF allVars, vars, Elsewhere
<1> QED
  BY <1>1, <1>2, <1>3, <1>4, <1>5, <1>6, <1>7, <1>8, <1>9, <1>10 DEF EpochNext

-----------------------------------------------------------------------------
\* Every step keeps the main thread where its agent and its block allow it.
LEMMA NextWhere ==
  ASSUME TypeOK, RingInvariant, TypeOK', RingInvariant', ListsTypeOK, WhereInLoop, [EpochNext]_allVars
  PROVE  WhereInLoop'
<1> USE StateNumbers DEF WhereInLoop
<1>0. chainHead' \in Int
  BY CollectionAssumption DEF TypeOK, Blocks
<1>1. CASE Elsewhere
  <2>1. /\ UNCHANGED <<step, agent, collected, max>>
        /\ chainHead <= chainHead'
        /\ messages = {} => messages' = {}
    BY <1>1 DEF Elsewhere, roundVars
  <2>2. UNCHANGED Starts(collected + 1, "settlement") /\ UNCHANGED Starts(collected + 1, "consensus")
    BY <2>1 DEF Starts, Size
  <2>3. collected' <= chainHead' /\ (collected < chainHead => collected' < chainHead')
    BY <1>0, <2>1
  <2> QED
    BY <2>1, <2>2, <2>3
<1>2. CASE BootLists
  BY <1>2 DEF BootLists, Boot, roundVars
<1>3. CASE EnterLoop
  <2>1. /\ agent' = "running" /\ UNCHANGED <<collected, chainHead>>
        /\ step' = FirstStep(collected + 1)
        /\ collected + 1 \in Int
    BY <1>3 DEF EnterLoop, PostSucceeds
  <2> QED
    BY <2>1, FirstStepIs DEF Starts, Size
<1>4. CASE PostFailsLists
  BY <1>4 DEF PostFailsLists, PostFails, roundVars
<1>5. ASSUME NEW kind \in Kinds, ReadLatest(kind)
      PROVE  WhereInLoop'
  BY <1>5 DEF ReadLatest, vars, roundVars, Starts, Size
<1>6. ASSUME NEW kind \in Kinds, ChangeLists(kind) \/ ChangeFails(kind)
      PROVE  WhereInLoop'
  <2>1. /\ UNCHANGED <<agent, collected, chainHead, max, messages>>
        /\ step = kind
        /\ step' = StepAfter(kind)
        /\ agent = "post" \/ (agent = "running" /\ collected < chainHead)
    BY <1>6, ChangeIs DEF vars, roundVars
  <2>2. CASE agent = "post"
    BY <2>1, <2>2, StepAfterIs DEF Kinds
  <2>3. CASE agent = "running" /\ collected < chainHead
    BY <2>1, <2>3, StepAfterIs DEF Kinds, Starts, Size
  <2> QED
    BY <2>1, <2>2, <2>3
<1>7. CASE RecordRound \/ RoundWasRecorded \/ RoundWithoutValidators
  <2>1. /\ UNCHANGED <<agent, collected, chainHead, messages>>
        /\ agent = "running" /\ step' = "ready"
    BY <1>7 DEF RecordRound, RoundWasRecorded, RoundWithoutValidators, Inserting, vars
  <2> QED
    BY <2>1
<1>8. CASE BatchInsertFails
  BY <1>8 DEF BatchInsertFails, LoopBreaks
<1>9. CASE CollectWithMessage
  <2>1. /\ agent = "running" /\ collected < chainHead /\ UNCHANGED <<agent, chainHead>>
        /\ collected' = collected + 1
        /\ step' = FirstStep(collected + 2)
        /\ collected' + 1 \in Int /\ collected' + 1 = collected + 2
    BY <1>9 DEF CollectWithMessage, CollectBlock
  <2>2. step' = FirstStep(collected' + 1)
    BY <2>1
  <2>3. /\ step' \in {"settlement", "consensus", "ready"}
        /\ step' = "settlement" => Starts(collected' + 1, "settlement")
        /\ step' = "consensus" => Starts(collected' + 1, "consensus")
    BY <2>1, <2>2, FirstStepIs
  <2>4. collected' <= chainHead'
    BY <2>1
  <2>5. agent' = "running"
    BY <2>1
  <2>6. /\ step' = "settlement" => Starts(collected + 1, "settlement")'
        /\ step' = "consensus" => Starts(collected + 1, "consensus")'
    BY <2>3 DEF Starts, Size
  <2> QED
    BY <2>3, <2>4, <2>5, <2>6
<1>10. CASE CrashLists
  BY <1>10 DEF CrashLists, Crash
<1> QED
  BY <1>1, <1>2, <1>3, <1>4, <1>5, <1>6, <1>7, <1>8, <1>9, <1>10, EpochSteps
-----------------------------------------------------------------------------
\* The lists in memory and those of the events.

\* A list fits its block however far the chain grows.
LEMMA FitsGrows ==
  ASSUME NEW kind \in Kinds, NEW n \in Int, NEW h \in Int, NEW k \in Int, h <= k,
         NEW pair, NEW earned, Fits(pair, earned, kind, n, h)
  PROVE  Fits(pair, earned, kind, n, k)
<1>1. ListAt(h, kind) <= ListAt(k, kind)
  BY EpochGrows
<1>2. ListAt(n, kind) \in Nat /\ ListAt(h, kind) \in Nat /\ ListAt(k, kind) \in Nat
  BY EpochTyped
<1> QED
  BY <1>1, <1>2 DEF Fits

\* And it fits the next block when that starts no epoch.
LEMMA FitsNext ==
  ASSUME NEW kind \in Kinds, NEW n \in Int, n >= -1, ~Starts(n + 1, kind), NEW h,
         NEW pair, NEW earned, Fits(pair, earned, kind, n, h)
  PROVE  Fits(pair, earned, kind, n + 1, h)
<1>1. Epoch(n + 1, kind) = Epoch(n, kind)
  BY SameEpoch
<1>2. ListAt(n + 1, kind) = ListAt(n, kind) /\ PreEpochLast(n + 1, kind) = PreEpochLast(n, kind)
  BY <1>1 DEF ListAt, PreEpochLast
<1> QED
  BY <1>2 DEF Fits

\* What a change reads for block n fits it.
LEMMA ReadFits ==
  ASSUME NEW kind \in Kinds, NEW n \in Int, n >= -1, chainHead \in Int, n <= chainHead
  PROVE  Fits(ListsRead(kind, n), ListsRead(kind, n).pre, kind, n, chainHead)
<1>1. ListAt(n, kind) <= ListAt(chainHead, kind)
  BY EpochGrows
<1>2. ListAt(n, kind) \in Nat /\ ListAt(chainHead, kind) \in Nat
  BY EpochTyped
<1>3. ListsRead(kind, n).cur \in ListAt(n, kind) .. ListAt(chainHead, kind)
  BY <1>1, <1>2, TargetBlock DEF ListsRead
<1> QED
  BY <1>3 DEF Fits, ListsRead

\* MessagesFit by kind.
LEMMA MessagesFitIs ==
  MessagesFit <=> \A m \in messages : \A kind \in Kinds \ m.stale :
                      Fits(m.lists[kind], m.reward, kind, m.block, chainHead)
  BY DEF MessagesFit, FitsBlock, Fits, Kinds

\* The first step for block n + 1 leaves the lists of block n in place.
LEMMA ListsAtNext ==
  ASSUME NEW n \in Int, n >= -1, NEW h, NEW kind \in Kinds, NEW pair, NEW earned,
         Fits(pair, earned, kind, n, h)
  PROVE  LET first == FirstStep(n + 1)
             ahead == first = kind \/ (kind = "consensus" /\ first = "settlement")
         IN  Fits(pair, earned, kind, IF ahead THEN n ELSE n + 1, h)
<1>1. CASE FirstStep(n + 1) = kind \/ (kind = "consensus" /\ FirstStep(n + 1) = "settlement")
  BY <1>1
<1>2. CASE ~(FirstStep(n + 1) = kind \/ (kind = "consensus" /\ FirstStep(n + 1) = "settlement"))
  <2>1. ~Starts(n + 1, kind)
    BY <1>2, FirstStepIs DEF Kinds, FirstStep
  <2>2. Fits(pair, earned, kind, n + 1, h)
    BY <2>1, FitsNext
  <2> QED
    BY <1>2, <2>2
<1> QED
  BY <1>1, <1>2

\* Every step keeps what the lists in memory are of.
LEMMA NextListsFit ==
  ASSUME TypeOK, RingInvariant, TypeOK', RingInvariant', ListsTypeOK, WhereInLoop, ListsFit,
         [EpochNext]_allVars
  PROVE  ListsFit'
<1> USE StateNumbers
<1>0. collected' \in Int /\ chainHead' \in Int
  BY CollectionAssumption DEF TypeOK, Blocks
\* The goal with its primes at the variables.
<1> DEFINE AheadNext(kind) == step' = kind \/ (kind = "consensus" /\ step' = "settlement")
           FitsThen(kind, n) == kind \notin stale' => Fits(lists'[kind], reward', kind, n, chainHead')
           Goal(kind) ==
               /\ agent' = "running" =>
                     FitsThen(kind, IF AheadNext(kind) THEN collected' ELSE collected' + 1)
               /\ agent' = "post" /\ ~AheadNext(kind) => FitsThen(kind, collected')
<1> SUFFICES \A kind \in Kinds : Goal(kind)
  BY DEF ListsFit, FitsAt, Ahead, Fits, ListAt, PreEpochLast, Epoch, Size
<1> TAKE kind \in Kinds
<1>1. CASE Elsewhere
  <2>1. /\ UNCHANGED <<step, agent, collected, lists, reward, stale>>
        /\ chainHead <= chainHead'
    BY <1>1 DEF Elsewhere, listVars
  <2>2. ASSUME NEW n \in Int, FitsAt(kind, n)
        PROVE  FitsThen(kind, n)
    BY <1>0, <2>1, <2>2, FitsGrows DEF FitsAt
  <2>3. AheadNext(kind) <=> Ahead(kind)
    BY <2>1 DEF Ahead
  <2>4. agent' = "running" => FitsThen(kind, IF AheadNext(kind) THEN collected' ELSE collected' + 1)
    <3> SUFFICES ASSUME agent' = "running"
                 PROVE  FitsThen(kind, IF AheadNext(kind) THEN collected' ELSE collected' + 1)
      OBVIOUS
    <3>1. FitsAt(kind, IF Ahead(kind) THEN collected ELSE collected + 1)
      BY <2>1 DEF ListsFit
    <3> HIDE DEF FitsThen, AheadNext
    <3>2. FitsThen(kind, IF Ahead(kind) THEN collected ELSE collected + 1)
      BY <2>2, <3>1
    <3> QED
      BY <2>1, <2>3, <3>2
  <2>5. agent' = "post" /\ ~AheadNext(kind) => FitsThen(kind, collected')
    <3> SUFFICES ASSUME agent' = "post", ~AheadNext(kind)
                 PROVE  FitsThen(kind, collected')
      OBVIOUS
    <3>1. FitsAt(kind, collected)
      BY <2>1, <2>3 DEF ListsFit
    <3> HIDE DEF FitsThen, AheadNext
    <3>2. FitsThen(kind, collected)
      BY <2>2, <3>1
    <3> QED
      BY <2>1, <3>2
  <2> QED
    BY <2>4, <2>5
<1>2. CASE BootLists
  BY <1>2 DEF BootLists, Boot, Kinds
<1>3. CASE PostFailsLists \/ BatchInsertFails \/ CrashLists
  BY <1>3 DEF PostFailsLists, PostFails, BatchInsertFails, LoopBreaks, CrashLists, Crash
<1>4. CASE EnterLoop
  <2>1. /\ agent = "post" /\ agent' = "running" /\ step = "ready"
        /\ step' = FirstStep(collected + 1)
        /\ UNCHANGED <<collected, chainHead, lists, reward, stale>>
    BY <1>4 DEF EnterLoop, PostSucceeds, listVars
  <2>2. FitsAt(kind, collected)
    BY <2>1 DEF ListsFit, Ahead, Kinds
  <2>3. kind \notin stale =>
            Fits(lists[kind], reward, kind, IF AheadNext(kind) THEN collected ELSE collected + 1, chainHead)
    BY <2>1, <2>2, ListsAtNext DEF FitsAt
  <2> QED
    BY <2>1, <2>3
<1>5. CASE CollectWithMessage
  <2>1. /\ agent = "running" /\ agent' = "running" /\ step = "ready"
        /\ collected' = collected + 1
        /\ collected' \in Int /\ collected' >= -1
        /\ step' = FirstStep(collected + 2)
        /\ UNCHANGED <<chainHead, lists, reward, stale>>
    BY <1>5 DEF CollectWithMessage, CollectBlock, listVars
  <2>2. FitsAt(kind, collected + 1)
    BY <2>1 DEF ListsFit, Ahead, Kinds
  <2>3. step' = FirstStep(collected' + 1)
    BY <2>1
  <2>4. kind \notin stale => Fits(lists[kind], reward, kind, collected', chainHead)
    BY <2>1, <2>2 DEF FitsAt
  <2>5. kind \notin stale =>
            Fits(lists[kind], reward, kind, IF AheadNext(kind) THEN collected' ELSE collected' + 1, chainHead)
    BY <2>1, <2>3, <2>4, ListsAtNext
  <2> QED
    BY <2>1, <2>5
<1>6. ASSUME NEW k \in Kinds, ReadLatest(k)
      PROVE  Goal(kind)
  BY <1>6 DEF ReadLatest, vars, listVars, ListsFit, FitsAt, Ahead
<1>7. ASSUME NEW k \in Kinds, ChangeLists(k) \/ ChangeFails(k)
      PROVE  Goal(kind)
  <2>1. /\ UNCHANGED <<agent, collected, chainHead>>
        /\ step = k /\ step' = StepAfter(k)
        /\ agent = "post" \/ (agent = "running" /\ collected < chainHead)
    BY <1>7, ChangeIs DEF vars
  <2>2. /\ ChangeBlock \in Int /\ ChangeBlock >= -1 /\ ChangeBlock <= chainHead
        /\ ChangeBlock = IF agent = "post" THEN collected ELSE collected + 1
    BY <2>1 DEF ChangeBlock, WhereInLoop
  <2>3. CASE kind = k
    <3>1. ~AheadNext(kind)
      BY <2>1, <2>3, StepAfterIs DEF Kinds
    <3>2. FitsThen(kind, ChangeBlock)
      <4>1. CASE ChangeFails(k)
        BY <2>3, <4>1 DEF ChangeFails
      <4>2. CASE ChangeLists(k) /\ kind \notin stale'
        <5>1. lists'[kind] = ListsRead(kind, ChangeBlock)
          BY <2>3, <4>2 DEF ChangeLists, ListPairs, ListsTypeOK
        <5>2. kind = "settlement" => reward' = ListsRead(kind, ChangeBlock).pre
          BY <2>3, <4>2 DEF ChangeLists
        <5>3. Fits(ListsRead(kind, ChangeBlock), ListsRead(kind, ChangeBlock).pre, kind,
                   ChangeBlock, chainHead)
          BY <2>2, ReadFits
        <5>4. Fits(lists'[kind], reward', kind, ChangeBlock, chainHead)
          BY <5>1, <5>2, <5>3 DEF Fits
        <5> QED
          BY <2>1, <5>4
      <4> QED
        BY <1>7, <4>1, <4>2
    <3> QED
      BY <2>1, <2>2, <3>1, <3>2
  <2>4. CASE kind # k
    <3>1. /\ lists'[kind] = lists[kind]
          /\ kind = "settlement" => reward' = reward
          /\ kind \in stale => kind \in stale'
      BY <1>7, <2>4 DEF ChangeLists, ChangeFails, LeftBehind, Kinds, ListPairs, ListsTypeOK
    <3>2. ASSUME NEW n \in Int, FitsAt(kind, n)
          PROVE  FitsThen(kind, n)
      BY <2>1, <3>1, <3>2 DEF FitsAt, Fits
    <3>3. CASE k = "consensus"
      <4>1. kind = "settlement" /\ ~AheadNext(kind) /\ ~Ahead(kind)
        BY <2>1, <2>4, <3>3, StepAfterIs DEF Kinds, Ahead
      <4>2. /\ agent = "running" => FitsAt(kind, collected + 1)
            /\ agent = "post" => FitsAt(kind, collected)
        BY <4>1 DEF ListsFit
      <4> HIDE DEF FitsThen, AheadNext
      <4>3. /\ agent = "running" => FitsThen(kind, collected + 1)
            /\ agent = "post" => FitsThen(kind, collected)
        BY <3>2, <4>2
      <4> QED
        BY <2>1, <4>1, <4>3
    <3>4. CASE k = "settlement"
      <4>1. kind = "consensus" /\ Ahead(kind)
        BY <2>1, <2>4, <3>4 DEF Kinds, Ahead
      <4>2. CASE agent = "post"
        BY <2>1, <3>4, <4>1, <4>2, StepAfterIs
      <4>3. CASE agent = "running"
        <5>1. FitsAt(kind, collected)
          BY <4>1, <4>3 DEF ListsFit
        <5>2. AheadNext(kind) \/ ~Starts(collected + 1, kind)
          BY <2>1, <3>4, <4>1, <4>3, StepAfterIs
        <5>3. ~Starts(collected + 1, kind) => FitsAt(kind, collected + 1)
          BY <5>1, FitsNext DEF FitsAt
        <5>4. ~AheadNext(kind) => FitsAt(kind, collected + 1)
          BY <5>2, <5>3
        <5> HIDE DEF FitsThen, AheadNext
        <5>5. FitsThen(kind, collected) /\ (~AheadNext(kind) => FitsThen(kind, collected + 1))
          BY <3>2, <5>1, <5>4
        <5> QED
          BY <2>1, <4>3, <5>5
      <4> QED
        BY <2>1, <4>2, <4>3
    <3> QED
      BY <3>3, <3>4 DEF Kinds
  <2> QED
    BY <2>3, <2>4
<1>8. CASE RecordRound \/ RoundWasRecorded \/ RoundWithoutValidators
  <2>1. /\ UNCHANGED <<agent, collected, chainHead, lists, reward, stale>>
        /\ agent = "running" /\ step = "insert" /\ step' = "ready"
    BY <1>8 DEF RecordRound, RoundWasRecorded, RoundWithoutValidators, Inserting, vars, listVars
  <2>2. FitsAt(kind, collected + 1)
    BY <2>1 DEF ListsFit, Ahead, Kinds
  <2> QED
    BY <2>1, <2>2 DEF FitsAt, Kinds
<1> QED
  BY <1>1, <1>2, <1>3, <1>4, <1>5, <1>6, <1>7, <1>8, EpochSteps

\* An event takes along the lists of its own block, and the chain only grows.
LEMMA NextMessagesFit ==
  ASSUME TypeOK, RingInvariant, TypeOK', ListsTypeOK, WhereInLoop, ListsFit, MessagesFit,
         [EpochNext]_allVars
  PROVE  MessagesFit'
<1> USE StateNumbers
<1>0. chainHead' \in Int
  BY CollectionAssumption DEF TypeOK, Blocks
<1> DEFINE FitsThen(m) == \A kind \in Kinds \ m.stale :
                              Fits(m.lists[kind], m.reward, kind, m.block, chainHead')
<1> SUFFICES \A m \in messages' : FitsThen(m)
  BY DEF MessagesFit, FitsBlock, Fits, ListAt, PreEpochLast, Epoch, Size, Kinds
<1>1. ASSUME chainHead <= chainHead', NEW m \in messages
      PROVE  FitsThen(m)
  <2>1. m.block \in Int
    BY CollectionAssumption DEF ListsTypeOK, Blocks
  <2>2. \A kind \in Kinds \ m.stale : Fits(m.lists[kind], m.reward, kind, m.block, chainHead)
    BY MessagesFitIs
  <2> QED
    BY <1>0, <1>1, <2>1, <2>2, FitsGrows
<1>2. CASE CollectWithMessage
  <2> DEFINE new == [block |-> collected + 1, lists |-> lists, reward |-> reward, stale |-> stale]
  <2>1. /\ agent = "running" /\ step = "ready" /\ chainHead' = chainHead
        /\ messages' = messages \cup {new}
    BY <1>2 DEF CollectWithMessage, CollectBlock
  <2>2. ASSUME NEW kind \in Kinds \ new.stale
        PROVE  Fits(new.lists[kind], new.reward, kind, new.block, chainHead')
    <3>1. FitsAt(kind, collected + 1)
      BY <2>1 DEF ListsFit, Ahead, Kinds
    <3> QED
      BY <2>1, <3>1 DEF FitsAt
  <2>3. FitsThen(new)
    BY <2>2
  <2>4. chainHead <= chainHead'
    BY <2>1
  <2> HIDE DEF new, FitsThen
  <2> QED
    BY <1>1, <2>1, <2>3, <2>4
<1>3. CASE Elsewhere
  <2>1. messages' \subseteq messages /\ chainHead <= chainHead'
    BY <1>3 DEF Elsewhere
  <2> HIDE DEF FitsThen
  <2> QED
    BY <1>1, <2>1
<1>4. ASSUME NEW kind \in Kinds, ReadLatest(kind) \/ ChangeLists(kind) \/ ChangeFails(kind)
      PROVE  UNCHANGED <<messages, chainHead>>
  BY <1>4, ChangeIs DEF ReadLatest, vars
<1>5. ASSUME \/ BootLists \/ EnterLoop \/ PostFailsLists \/ RecordRound \/ RoundWasRecorded
             \/ RoundWithoutValidators \/ BatchInsertFails
      PROVE  UNCHANGED <<messages, chainHead>>
  BY <1>5 DEF BootLists, Boot, EnterLoop, PostSucceeds, PostFailsLists, PostFails, RecordRound,
     RoundWasRecorded, RoundWithoutValidators, BatchInsertFails, LoopBreaks, vars
<1>6. CASE CrashLists
  BY <1>6 DEF CrashLists
<1>7. CASE UNCHANGED <<messages, chainHead>>
  <2>1. chainHead <= chainHead'
    BY <1>7
  <2> HIDE DEF FitsThen
  <2> QED
    BY <1>1, <1>7, <2>1
<1> QED
  <2>1. (\E kind \in Kinds : ReadLatest(kind) \/ ChangeLists(kind) \/ ChangeFails(kind))
           => UNCHANGED <<messages, chainHead>>
    BY <1>4
  <2> HIDE DEF FitsThen
  <2> QED
    BY <1>2, <1>3, <1>5, <1>6, <1>7, <2>1, EpochSteps

-----------------------------------------------------------------------------
\* max and the table block_node.

\* The static max is the number of recorded rounds.
LEMMA KnownMaxIs ==
  ASSUME ListsTypeOK, RoundsRecorded, RoundsInStep, agent = "running"
  PROVE  KnownMax = Len(blockNode)
<1> DEFINE numbers == {0} \cup {blockNode[i].number : i \in 1..Len(blockNode)}
<1>1. Len(blockNode) \in Nat
  BY DEF ListsTypeOK
<1>2. numbers = 0 .. Len(blockNode)
  <2>1. \A i \in 1..Len(blockNode) : blockNode[i].number = i
    BY DEF RoundsRecorded
  <2> QED
    BY <1>1, <2>1
<1>3. SelectMaxNum = Len(blockNode)
  <2>1. SelectMaxNum = CHOOSE m \in numbers : \A n \in numbers : n <= m
    BY DEF SelectMaxNum
  <2>2. Len(blockNode) \in numbers /\ \A n \in numbers : n <= Len(blockNode)
    BY <1>1, <1>2
  <2>3. ASSUME NEW m \in numbers, \A n \in numbers : n <= m
        PROVE  m = Len(blockNode)
    <3>1. m \in 0 .. Len(blockNode)
      BY <1>2
    <3>2. Len(blockNode) <= m
      BY <2>2, <2>3
    <3> QED
      BY <1>1, <3>1, <3>2
  <2> HIDE DEF numbers
  <2> QED
    BY <2>1, <2>2, <2>3
<1> QED
  BY <1>3 DEF KnownMax, RoundsInStep

\* The numbers of a round about to be inserted.
LEMMA InsertNumbers ==
  ASSUME TypeOK, RingInvariant, ListsTypeOK, WhereInLoop, RoundsRecorded, RoundsInStep, Inserting
  PROVE  /\ KnownMax = Len(blockNode)
         /\ Len(blockNode) \in Nat
         /\ Epoch(collected, "consensus") = collected \div ConsensusSize
         /\ Epoch(collected + 1, "consensus") = collected \div ConsensusSize + 1
         /\ collected \div ConsensusSize \in Nat
         /\ Epoch(collected + 1, "consensus") <= Epoch(MaxBlock, "consensus")
<1> USE StateNumbers
<1>1. /\ agent = "running" /\ collected < chainHead
      /\ Starts(collected + 1, "consensus")
      /\ "consensus" \in Kinds /\ Size("consensus") = ConsensusSize
  BY DEF Inserting, WhereInLoop, Kinds, Size
<1>2. collected # -1
  <2> SUFFICES ASSUME collected = -1
               PROVE  FALSE
    OBVIOUS
  <2>1. collected + 1 = 0
    OBVIOUS
  <2> QED
    BY <1>1, <2>1, GenesisStartsNothing
<1>3. collected \in Nat
  BY <1>2
<1>4. /\ Epoch(collected, "consensus") = collected \div ConsensusSize
      /\ Epoch(collected + 1, "consensus") = collected \div ConsensusSize + 1
  BY <1>1, <1>3, StartOfEpoch
<1>5. Epoch(collected, "consensus") \in Nat
  BY <1>1, EpochTyped
<1>6. Epoch(collected + 1, "consensus") <= Epoch(MaxBlock, "consensus")
  <2>1. collected + 1 <= MaxBlock /\ collected + 1 \in Int /\ MaxBlock \in Int
    BY <1>1
  <2> QED
    BY <1>1, <2>1, EpochGrows
<1>7. KnownMax = Len(blockNode)
  BY <1>1, KnownMaxIs
<1>8. Len(blockNode) \in Nat
  BY DEF ListsTypeOK
<1> QED
  BY <1>4, <1>5, <1>6, <1>7, <1>8

\* What a change reads is a pair of lists.
LEMMA ReadTyped ==
  ASSUME NEW kind \in Kinds, NEW n \in Int, latest \in Int, chainHead \in Int
  PROVE  ListsRead(kind, n) \in [pre : Nat, cur : Nat]
<1> DEFINE last == PreEpochLast(n, kind)
<1>1. last \in Nat
  BY EpochTyped
<1>2. /\ ListAt(last, kind) \in Nat
      /\ ListAt(IF last = 0 THEN 0 ELSE last + 1, kind) \in Nat
      /\ ListAt(chainHead, kind) \in Nat
  <2> HIDE DEF last
  <2> QED
    BY <1>1, EpochTyped
<1> QED
  BY <1>2 DEF ListsRead

\* Every step keeps the types of the lists; max stays within the epochs of the chain.
LEMMA NextListsTyped ==
  ASSUME TypeOK, RingInvariant, TypeOK', ListsTypeOK, WhereInLoop, RoundsRecorded, RoundsInStep,
         [EpochNext]_allVars
  PROVE  ListsTypeOK'
<1> USE StateNumbers DEF ListsTypeOK, listVars, roundVars
<1>0. Epoch(MaxBlock, "consensus") \in Nat
  BY EpochTyped DEF Kinds
<1>a. Epoch(collected + 1, "consensus") \in Nat
  <2>1. collected + 1 \in Int /\ "consensus" \in Kinds
    BY DEF Kinds
  <2> QED
    BY <2>1, EpochTyped
<1>1. CASE Elsewhere
  BY <1>1 DEF Elsewhere
<1>2. CASE BootLists
  BY <1>2 DEF BootLists
<1>3. CASE EnterLoop
  <2>1. step' \in {"settlement", "consensus", "ready"}
    BY <1>3, FirstStepIs DEF EnterLoop, PostSucceeds
  <2> QED
    BY <1>3, <2>1 DEF EnterLoop
<1>4. CASE PostFailsLists
  BY <1>4 DEF PostFailsLists, NoLists, ListPairs, Empty
<1>5. ASSUME NEW kind \in Kinds, ReadLatest(kind)
      PROVE  ListsTypeOK'
  BY <1>5 DEF ReadLatest, TypeOK
<1>6. ASSUME NEW kind \in Kinds, ChangeLists(kind) \/ ChangeFails(kind)
      PROVE  ListsTypeOK'
  <2>1. /\ UNCHANGED <<max, blockNode, skipped, messages>>
        /\ latest' = -1
        /\ step' \in {"settlement", "consensus", "insert", "ready"}
    <3>1. /\ UNCHANGED <<max, blockNode, skipped, messages>>
          /\ latest' = -1
          /\ step' = StepAfter(kind)
          /\ agent = "post" \/ agent = "running"
      BY <1>6, ChangeIs
    <3>2. StepAfter(kind) \in {"settlement", "consensus", "insert", "ready"}
      BY <3>1, StepAfterIs DEF Kinds
    <3> QED
      BY <3>1, <3>2
  <2>2. ListsRead(kind, ChangeBlock) \in [pre : Nat, cur : Nat]
    <3>1. ChangeBlock \in Int /\ latest \in Int
      BY CollectionAssumption DEF ChangeBlock, Blocks
    <3> QED
      BY <3>1, ReadTyped
  <2>3. lists'[kind] \in [pre : Nat, cur : Nat] => lists' \in ListPairs
    BY <1>6 DEF ChangeLists, ChangeFails, ListPairs
  <2>4. lists'[kind] \in [pre : Nat, cur : Nat]
    <3>1. CASE ChangeLists(kind)
      BY <2>2, <3>1 DEF ChangeLists, ListPairs
    <3>2. CASE ChangeFails(kind)
      <4> DEFINE read == ListsRead(kind, ChangeBlock)
      <4>1. PICK left \in {lists[kind], [lists[kind] EXCEPT !.pre = read.pre],
                           [read EXCEPT !.cur = Empty], read} :
                lists' = [lists EXCEPT ![kind] = left]
        <5>1. PICK pair \in LeftBehind(kind, read) : lists' = [lists EXCEPT ![kind] = pair[1]]
          BY <3>2 DEF ChangeFails
        <5> HIDE DEF read
        <5>2. pair[1] \in {lists[kind], [lists[kind] EXCEPT !.pre = read.pre],
                           [read EXCEPT !.cur = Empty], read}
          BY DEF LeftBehind
        <5> QED
          BY <5>1, <5>2
      <4>2. lists'[kind] = left /\ lists[kind] \in [pre : Nat, cur : Nat]
        BY <4>1 DEF ListPairs
      <4>3. read \in [pre : Nat, cur : Nat]
        BY <2>2
      <4> HIDE DEF read
      <4>4. /\ [lists[kind] EXCEPT !.pre = read.pre] \in [pre : Nat, cur : Nat]
            /\ [read EXCEPT !.cur = Empty] \in [pre : Nat, cur : Nat]
        BY <4>2, <4>3 DEF Empty
      <4>5. left \in [pre : Nat, cur : Nat]
        BY <4>2, <4>3, <4>4
      <4> QED
        BY <4>2, <4>5
    <3> QED
      BY <1>6, <3>1, <3>2
  <2>5. reward' \in Nat
    BY <1>6, <2>2 DEF ChangeLists, ChangeFails, LeftBehind
  <2>6. stale' \subseteq Kinds /\ failedChanges' \in 0..MaxFailedChange
    BY <1>6, EpochAssumption DEF ChangeLists, ChangeFails
  <2> QED
    BY <2>1, <2>3, <2>4, <2>5, <2>6
<1>7. CASE RecordRound
  <2>1. /\ Inserting /\ RoundIsNew
        /\ max' = KnownMax + 1
        /\ blockNode' = Append(blockNode, [number |-> KnownMax + 1,
                                           round |-> Epoch(collected + 1, "consensus"),
                                           list |-> Validators])
        /\ step' = "ready"
        /\ UNCHANGED <<latest, lists, reward, stale, skipped, messages, failedChanges>>
    BY <1>7 DEF RecordRound
  <2>2. KnownMax + 1 \in Nat /\ KnownMax + 1 <= Epoch(MaxBlock, "consensus")
    BY <1>0, <2>1, InsertNumbers DEF RoundIsNew
  <2>3. Validators \in Nat
    BY DEF Validators, ListPairs, Kinds
  <2>4. Epoch(collected + 1, "consensus") \in Nat
    BY <1>a
  <2>5. blockNode' \in Seq([number : Nat, round : Nat, list : Nat])
    BY <2>1, <2>2, <2>3, <2>4
  <2> QED
    BY <1>0, <2>1, <2>2, <2>5
<1>8. CASE RoundWasRecorded
  <2>1. KnownMax \in Nat /\ KnownMax <= Epoch(MaxBlock, "consensus")
    <3>1. Inserting
      BY <1>8 DEF RoundWasRecorded
    <3> QED
      BY <3>1, InsertNumbers DEF RoundsInStep
  <2> QED
    BY <1>0, <1>8, <2>1 DEF RoundWasRecorded
<1>9. CASE RoundWithoutValidators
  BY <1>9, <1>a DEF RoundWithoutValidators
<1>10. CASE BatchInsertFails
  <2>1. KnownMax + 1 \in Nat /\ KnownMax + 1 <= Epoch(MaxBlock, "consensus")
    <3>1. Inserting /\ RoundIsNew
      BY <1>10 DEF BatchInsertFails
    <3> QED
      BY <1>0, <3>1, InsertNumbers DEF RoundIsNew
  <2> QED
    BY <1>0, <1>10, <2>1 DEF BatchInsertFails
<1>11. CASE CollectWithMessage
  <2>1. step' \in {"settlement", "consensus", "ready"}
    <3>1. collected + 2 \in Int
      OBVIOUS
    <3> QED
      BY <1>11, <3>1, FirstStepIs DEF CollectWithMessage
  <2>2. collected + 1 \in Blocks
    BY <1>11 DEF CollectWithMessage, CollectBlock, Blocks
  <2> QED
    BY <1>11, <2>1, <2>2 DEF CollectWithMessage
<1>12. CASE CrashLists
  BY <1>12, <1>0 DEF CrashLists, NoLists, ListPairs, Empty
<1> QED
  BY <1>1, <1>2, <1>3, <1>4, <1>5, <1>6, <1>7, <1>8, <1>9, <1>10, <1>11, <1>12, EpochSteps

\* A block that starts no round belongs to one that is recorded already.
LEMMA NoNewRound ==
  ASSUME NEW n \in Int, n >= -1, NEW rows, FirstStep(n + 1) = "ready",
         Epoch(n, "consensus") <= rows
  PROVE  Epoch(n + 1, "consensus") <= rows
<1>1. "consensus" \in Kinds /\ ~Starts(n + 1, "consensus")
  BY FirstStepIs DEF Kinds
<1> QED
  BY <1>1, SameEpoch

\* Every step keeps the table and max in step with the collected block.
LEMMA NextRounds ==
  ASSUME TypeOK, RingInvariant, TypeOK', ListsTypeOK, WhereInLoop, RoundsRecorded, RoundsInStep,
         [EpochNext]_allVars
  PROVE  RoundsRecorded' /\ RoundsInStep'
<1> USE StateNumbers DEF roundVars
<1>0. Len(blockNode) \in Nat /\ "consensus" \in Kinds /\ collected + 1 \in Int
  BY DEF ListsTypeOK, Kinds
\* The goal with its primes at the variables.
<1> DEFINE Numbered == \A i \in 1..Len(blockNode') :
                           blockNode'[i].number = i /\ i <= blockNode'[i].round
           Complete == skipped' = {} =>
                           /\ \A i \in 1..Len(blockNode') : blockNode'[i].round = i
                           /\ Epoch(collected', "consensus") <= Len(blockNode')
           Bounded == Len(blockNode') <= Epoch(MaxBlock, "consensus")
           InStep == agent' = "running" /\ max' # -1 => max' = Len(blockNode')
           NextComplete == skipped' = {} /\ agent' = "running" /\ step' = "ready" =>
                               Epoch(collected' + 1, "consensus") <= Len(blockNode')
<1> SUFFICES Numbered /\ Complete /\ Bounded /\ InStep /\ NextComplete
  BY DEF RoundsRecorded, RoundsInStep, Epoch, Size
\* A step that adds no row keeps the first three as long as the height does not grow.
<1>a. ASSUME UNCHANGED <<blockNode, skipped, collected>>
      PROVE  Numbered /\ Complete /\ Bounded
  BY <1>a DEF RoundsRecorded, RoundsInStep
<1>1. CASE Elsewhere
  <2>1. UNCHANGED <<blockNode, skipped, max, collected, agent, step>>
    BY <1>1 DEF Elsewhere
  <2>2. InStep /\ NextComplete
    BY <2>1 DEF RoundsInStep
  <2> QED
    BY <1>a, <2>1, <2>2
<1>2. CASE BootLists
  <2>1. /\ UNCHANGED <<blockNode, skipped, max>>
        /\ collected' = curNumber /\ agent' = "post"
    BY <1>2 DEF BootLists, Boot
  <2>2. Epoch(collected', "consensus") <= Epoch(collected, "consensus")
    BY <1>0, <2>1, EpochGrows
  <2>3. Epoch(collected', "consensus") \in Nat /\ Epoch(collected, "consensus") \in Nat
    BY <1>0, <2>1, EpochTyped
  <2>4. Complete
    BY <1>0, <2>1, <2>2, <2>3 DEF RoundsRecorded
  <2>5. Numbered /\ Bounded /\ InStep /\ NextComplete
    BY <2>1 DEF RoundsRecorded, RoundsInStep
  <2> QED
    BY <2>4, <2>5
<1>3. CASE EnterLoop
  <2>1. /\ UNCHANGED <<blockNode, skipped, max, collected>>
        /\ agent = "post"
        /\ step' = FirstStep(collected + 1)
    BY <1>3 DEF EnterLoop, PostSucceeds
  <2>2. max = -1
    BY <2>1 DEF WhereInLoop
  <2>3. NextComplete
    BY <1>0, <2>1, NoNewRound DEF RoundsRecorded
  <2> QED
    BY <1>a, <2>1, <2>2, <2>3
<1>4. CASE PostFailsLists \/ CrashLists
  <2>1. UNCHANGED <<blockNode, skipped, collected>> /\ agent' = "down"
    BY <1>4 DEF PostFailsLists, PostFails, CrashLists, Crash
  <2> QED
    BY <1>a, <2>1
<1>5. ASSUME NEW kind \in Kinds, ReadLatest(kind)
      PROVE  Numbered /\ Complete /\ Bounded /\ InStep /\ NextComplete
  <2>1. UNCHANGED <<blockNode, skipped, max, collected, agent, step>>
    BY <1>5 DEF ReadLatest, vars
  <2>2. InStep /\ NextComplete
    BY <2>1 DEF RoundsInStep
  <2> QED
    BY <1>a, <2>1, <2>2
<1>6. ASSUME NEW kind \in Kinds, ChangeLists(kind) \/ ChangeFails(kind)
      PROVE  Numbered /\ Complete /\ Bounded /\ InStep /\ NextComplete
  <2>1. /\ UNCHANGED <<blockNode, skipped, max, collected, agent>>
        /\ step' = StepAfter(kind)
    BY <1>6, ChangeIs DEF vars
  <2>2. InStep
    BY <2>1 DEF RoundsInStep
  <2>3. NextComplete
    <3> SUFFICES ASSUME skipped' = {}, agent' = "running", step' = "ready"
                 PROVE  Epoch(collected' + 1, "consensus") <= Len(blockNode')
      OBVIOUS
    <3>1. ~Starts(collected + 1, "consensus")
      BY <2>1, StepAfterIs DEF Kinds
    <3>2. Epoch(collected + 1, "consensus") = Epoch(collected, "consensus")
      BY <1>0, <3>1, SameEpoch
    <3> QED
      BY <2>1, <3>2 DEF RoundsRecorded
  <2> QED
    BY <1>a, <2>1, <2>2, <2>3
<1>7. CASE RecordRound
  <2> DEFINE new == [number |-> KnownMax + 1, round |-> Epoch(collected + 1, "consensus"),
                     list |-> Validators]
             len == Len(blockNode)
  <2>1. /\ Inserting /\ RoundIsNew
        /\ max' = KnownMax + 1
        /\ blockNode' = Append(blockNode, new)
        /\ UNCHANGED <<skipped, collected>>
    BY <1>7 DEF RecordRound, vars
  <2>2. /\ KnownMax = len /\ len \in Nat
        /\ Epoch(collected, "consensus") = collected \div ConsensusSize
        /\ Epoch(collected + 1, "consensus") = collected \div ConsensusSize + 1
        /\ collected \div ConsensusSize \in Nat
        /\ collected \div ConsensusSize >= len
        /\ Epoch(collected + 1, "consensus") <= Epoch(MaxBlock, "consensus")
    BY <2>1, InsertNumbers DEF RoundIsNew
  <2>3. /\ Len(blockNode') = len + 1
        /\ blockNode'[len + 1] = new
        /\ \A i \in 1..len : blockNode'[i] = blockNode[i]
    <3> HIDE DEF new
    <3> QED
      BY <2>1 DEF ListsTypeOK
  <2>4. new.number = len + 1 /\ new.round = Epoch(collected + 1, "consensus")
    BY <2>2
  <2>5. skipped = {} => Epoch(collected + 1, "consensus") = len + 1
    BY <2>2 DEF RoundsRecorded
  <2> HIDE DEF new, len
  <2>6. \A i \in 1..len : blockNode[i].number = i /\ i <= blockNode[i].round
    BY DEF RoundsRecorded, len
  <2>7. skipped = {} => \A i \in 1..len : blockNode[i].round = i
    BY DEF RoundsRecorded, len
  <2>8. Numbered
    BY <2>2, <2>3, <2>4, <2>6
  <2>9. Complete
    BY <2>1, <2>2, <2>3, <2>4, <2>5, <2>7
  <2>10. Bounded
    <3>1. Epoch(MaxBlock, "consensus") \in Nat
      BY <1>0, EpochTyped
    <3> QED
      BY <2>2, <2>3, <3>1
  <2>11. InStep
    BY <2>1, <2>2, <2>3
  <2>12. NextComplete
    BY <2>1, <2>2, <2>3, <2>5
  <2> QED
    BY <2>8, <2>9, <2>10, <2>11, <2>12
<1>8. CASE RoundWasRecorded
  <2>1. /\ UNCHANGED <<blockNode, skipped, collected>>
        /\ Inserting /\ ~RoundIsNew
        /\ max' = KnownMax
    BY <1>8 DEF RoundWasRecorded, vars
  <2>2. InStep /\ NextComplete
    BY <1>0, <2>1, InsertNumbers DEF RoundIsNew
  <2> QED
    BY <1>a, <2>1, <2>2
<1>9. CASE RoundWithoutValidators
  <2>1. /\ UNCHANGED <<blockNode, collected, max, agent>> /\ skipped' # {}
    BY <1>9 DEF RoundWithoutValidators, vars
  <2> QED
    BY <2>1 DEF RoundsRecorded, RoundsInStep
<1>10. CASE BatchInsertFails
  <2>1. UNCHANGED <<blockNode, skipped, collected>> /\ agent' = "stopped"
    BY <1>10 DEF BatchInsertFails, LoopBreaks
  <2> QED
    BY <1>a, <2>1
<1>11. CASE CollectWithMessage
  <2>1. /\ UNCHANGED <<blockNode, skipped, max, agent>>
        /\ agent = "running" /\ step = "ready"
        /\ collected' = collected + 1
        /\ step' = FirstStep(collected + 2)
    BY <1>11 DEF CollectWithMessage, CollectBlock
  <2>2. skipped' = {} => Epoch(collected', "consensus") <= Len(blockNode)
    BY <2>1 DEF RoundsInStep
  <2>3. NextComplete
    <3>1. collected' \in Int /\ collected' >= -1 /\ step' = FirstStep(collected' + 1)
      BY <2>1
    <3> QED
      BY <2>1, <2>2, <3>1, NoNewRound
  <2>4. Numbered /\ Bounded /\ InStep /\ Complete
    BY <2>1, <2>2 DEF RoundsRecorded, RoundsInStep
  <2> QED
    BY <2>3, <2>4
<1> QED
  BY <1>1, <1>2, <1>3, <1>4, <1>5, <1>6, <1>7, <1>8, <1>9, <1>10, <1>11, EpochSteps

-----------------------------------------------------------------------------
\* An agent that is down has no lists, an empty table and no messages.
LEMMA InitEpochInv == EpochInit => EpochInv
<1> SUFFICES ASSUME EpochInit
             PROVE  EpochInv
  OBVIOUS
<1> USE DEF EpochInit, Init
<1>0. /\ Epoch(MaxBlock, "consensus") \in Nat
      /\ Epoch(collected, "consensus") = 0
  <2>1. "consensus" \in Kinds /\ MaxBlock \in Int
    BY CollectionAssumption DEF Kinds
  <2> QED
    BY <2>1, EpochTyped, EpochZero
<1>1. ListsTypeOK
  BY <1>0, EpochAssumption DEF ListsTypeOK, NoLists, ListPairs, Empty
<1>2. WhereInLoop
  BY DEF WhereInLoop
<1>3. ListsFit /\ MessagesFit
  BY DEF ListsFit, MessagesFit
<1>4. RoundsRecorded /\ RoundsInStep
  BY <1>0 DEF RoundsRecorded, RoundsInStep
<1> QED
  BY <1>1, <1>2, <1>3, <1>4 DEF EpochInv

\* With the invariant of BlockCollection, every step keeps it.
LEMMA NextEpochInv == IInv /\ IInv' /\ EpochInv /\ [EpochNext]_allVars => EpochInv'
<1> SUFFICES ASSUME IInv, IInv', EpochInv, [EpochNext]_allVars
             PROVE  EpochInv'
  OBVIOUS
<1>1. TypeOK /\ RingInvariant /\ TypeOK' /\ RingInvariant'
  BY DEF IInv
<1> QED
  BY <1>1, NextListsTyped, NextWhere, NextListsFit, NextMessagesFit, NextRounds DEF EpochInv

\* The composition keeps the inductive invariant of both modules.
LEMMA EpochInvariance == EpochSpec => []EpochInv
<1>1. EpochSpec => []IInv
  BY ComposedCollects, Invariance, PTL
<1> QED
  BY <1>1, InitEpochInv, NextEpochInv, PTL DEF EpochSpec

\* The types, max and with it block_node within the epochs of the chain.
THEOREM ListsTyped == EpochSpec => []ListsTypeOK
<1>1. EpochInv => ListsTypeOK
  BY DEF EpochInv
<1> QED
  BY <1>1, EpochInvariance, PTL

\* Every event carries the lists and the reward of its own block, over every
\* restart and however far the loop runs ahead, unless that epoch's change failed.
THEOREM MessagesCarryTheirLists == EpochSpec => []MessagesFit
<1>1. EpochInv => MessagesFit
  BY DEF EpochInv
<1> QED
  BY <1>1, EpochInvariance, PTL

\* The table of rounds has no gap and no number twice; without a round lost to
\* a failed change, every round stands under its own number.
THEOREM RoundsAreRecorded == EpochSpec => []RoundsRecorded
<1>1. EpochInv => RoundsRecorded
  BY DEF EpochInv
<1> QED
  BY <1>1, EpochInvariance, PTL
=============================================================================
