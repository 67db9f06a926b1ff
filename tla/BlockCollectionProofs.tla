----------------------- MODULE BlockCollectionProofs -----------------------
(***************************************************************************)
(* Proofs about BlockCollection for every chain, ring size, set of faulty  *)
(* blocks and kind of fault.  The inductive invariant is IInv: types, the  *)
(* contents of the rings, and what MySQL has been told.  The rings have to *)
(* be in it: that a commit applies a block once, and passes over none, is  *)
(* a fact about what the Collection ring holds when the commit happens.    *)
(***************************************************************************)
EXTENDS BlockCollection, SequenceTheorems, TLAPS

IInv ==
    /\ TypeOK
    /\ RingInvariant
    /\ AppliedExactlyOnce

-----------------------------------------------------------------------------
\* The two ring operations, with the facts about them the proofs need.

\* Publishing to a ring with a free slot.
LEMMA Published ==
  ASSUME NEW ring \in Seq(Blocks), NEW b \in Blocks
  PROVE  /\ Append(ring, b) \in Seq(Blocks)
         /\ Append(ring, b) # <<>>
         /\ Len(ring) \in Nat
         /\ Len(Append(ring, b)) = Len(ring) + 1
         /\ \A i \in 1..Len(ring) : Append(ring, b)[i] = ring[i]
         /\ Append(ring, b)[Len(ring) + 1] = b
  BY AppendProperties, LenProperties

\* Freeing the slot at the head of a ring.
LEMMA Consumed ==
  ASSUME NEW ring \in Seq(Blocks), ring # <<>>
  PROVE  /\ Head(ring) \in Blocks
         /\ Head(ring) = ring[1]
         /\ Tail(ring) \in Seq(Blocks)
         /\ Len(ring) \in Nat \ {0}
         /\ Len(Tail(ring)) = Len(ring) - 1
         /\ \A i \in 1 .. Len(ring) - 1 : Tail(ring)[i] = ring[i + 1]
  BY HeadTailProperties, LenProperties, EmptySeq

-----------------------------------------------------------------------------
\* Types.  The Head of the Collection ring that a commit writes to MySQL is a
\* block because an open transaction has its event there (DownIsEmpty).

\* The initial state is well typed, with empty rings.
LEMMA InitTyped == Init => TypeOK /\ DownIsEmpty
  BY CollectionAssumption DEF Init, TypeOK, DownIsEmpty, Alive, Blocks, Counted

\* Every step keeps the types and the tie between transaction and ring.
LEMMA NextTyped == TypeOK /\ DownIsEmpty /\ [Next]_vars => TypeOK' /\ DownIsEmpty'
<1> SUFFICES ASSUME TypeOK, DownIsEmpty, [Next]_vars
             PROVE  TypeOK' /\ DownIsEmpty'
  OBVIOUS
<1> USE CollectionAssumption DEF TypeOK, DownIsEmpty, Alive, ringVars, mysqlVars, budgetVars
<1>1. CASE ChainGrows
  BY <1>1 DEF ChainGrows, Blocks
<1>2. CASE Boot
  BY <1>2 DEF Boot
<1>3. CASE PostSucceeds
  BY <1>3 DEF PostSucceeds
<1>4. CASE PostFails
  BY <1>4 DEF PostFails
<1>5. CASE CollectBlock
  <2>1. collected + 1 \in Blocks
    BY <1>5 DEF CollectBlock, Blocks
  <2>2. /\ blockRing' \in Seq(Blocks)
        /\ Len(blockRing') <= RingSize
    BY <1>5, <2>1, Published DEF CollectBlock
  <2> QED
    BY <1>5, <2>1, <2>2 DEF CollectBlock
<1>6. CASE LoopBreaks
  BY <1>6 DEF LoopBreaks, Fault
<1>7. CASE HandleBlock
  <2>1. /\ Head(blockRing) \in Blocks
        /\ blockRing' \in Seq(Blocks)
        /\ Len(blockRing') <= RingSize
    BY <1>7, Consumed DEF HandleBlock
  <2>2. /\ collectionRing' \in Seq(Blocks)
        /\ collectionRing' # <<>>
        /\ Len(collectionRing') <= RingSize
    BY <1>7, <2>1, Published DEF HandleBlock
  <2> QED
    BY <1>7, <2>1, <2>2 DEF HandleBlock
<1>8. CASE RecoverBlock
  <2>1. /\ Head(blockRing) \in Blocks
        /\ blockRing' \in Seq(Blocks)
        /\ Len(blockRing') <= RingSize
    BY <1>8, Consumed DEF RecoverBlock
  <2> QED
    BY <1>8, <2>1 DEF RecoverBlock
<1>9. CASE AttemptFails
  BY <1>9 DEF AttemptFails, Fault
<1>10. CASE PublishBlock
  BY <1>10 DEF PublishBlock
<1>11. CASE CommitBlock
  <2>1. /\ Head(collectionRing) \in Blocks
        /\ collectionRing' \in Seq(Blocks)
        /\ Len(collectionRing') <= RingSize
    BY <1>11, Consumed DEF CommitBlock
  <2>2. applied' \in [Counted -> Nat]
    <3>1. applied' = [applied EXCEPT ![Head(collectionRing)] = @ + 1]
      BY <1>11 DEF CommitBlock
    <3>2. \A b \in Counted : [applied EXCEPT ![b] = @ + 1] \in [Counted -> Nat]
      OBVIOUS
    <3>3. Head(collectionRing) \in Counted
      BY <1>11, <2>1 DEF CommitBlock, Blocks, Counted
    <3> QED
      BY <3>1, <3>2, <3>3
  <2>3. /\ curNumber' \in Blocks \cup {-1}
        /\ transaction' = "none"
        /\ Alive
    BY <1>11, <2>1 DEF CommitBlock
  <2>4. UNCHANGED <<chainHead, agent, collected, blockRing, dropped, budgetVars>>
    BY <1>11 DEF CommitBlock
  <2> QED
    BY <2>1, <2>2, <2>3, <2>4
<1>12. CASE CommitGenesis
  <2>1. /\ collectionRing' \in Seq(Blocks)
        /\ Len(collectionRing') <= RingSize
    BY <1>12, Consumed DEF CommitGenesis
  <2> QED
    BY <1>12, <2>1 DEF CommitGenesis
<1>13. CASE CommitFails
  BY <1>13 DEF CommitFails, Fault
<1>14. CASE AnalysisStuck
  BY <1>14 DEF AnalysisStuck
<1>15. CASE Crash
  <2>1. crashes' \in 0..MaxCrash
    BY <1>15 DEF Crash
  <2>2. /\ <<>> \in Seq(Blocks)
        /\ Len(<<>>) <= RingSize
    BY EmptySeq
  <2> QED
    BY <1>15, <2>1, <2>2 DEF Crash
<1>16. CASE UNCHANGED vars
  BY <1>16 DEF vars
<1> QED
  BY <1>1, <1>2, <1>3, <1>4, <1>5, <1>6, <1>7, <1>8, <1>9, <1>10, <1>11, <1>12,
     <1>13, <1>14, <1>15, <1>16 DEF Next

\* Type correctness of block collection, however large chain and rings are.
THEOREM TypeCorrect == Spec => []TypeOK
<1>1. Spec => [](TypeOK /\ DownIsEmpty)
  BY InitTyped, NextTyped, PTL DEF Spec
<1> QED
  BY <1>1, PTL

-----------------------------------------------------------------------------
\* What TypeOK says of the rings, in terms of integers.
LEMMA RingNumbers ==
  ASSUME TypeOK
  PROVE  /\ blockRing \in Seq(Blocks)
         /\ collectionRing \in Seq(Blocks)
         /\ Len(blockRing) \in Nat
         /\ Len(collectionRing) \in Nat
         /\ \A i \in 1..Len(blockRing) : blockRing[i] \in Int
         /\ \A i \in 1..Len(collectionRing) : collectionRing[i] \in Int
         /\ curNumber \in Int
         /\ collected \in Int
<1>1. /\ blockRing \in Seq(Blocks)
      /\ collectionRing \in Seq(Blocks)
      /\ curNumber \in Int
      /\ collected \in Int
      /\ Blocks \subseteq Int
  BY CollectionAssumption DEF TypeOK, Blocks
<1>2. \A ring \in Seq(Blocks) : Len(ring) \in Nat /\ \A i \in 1..Len(ring) : ring[i] \in Blocks
  BY ElementOfSeq, LenProperties
<1> QED
  BY <1>1, <1>2

\* The rings.  A step either leaves them alone or is one of the five below.

\* An append, a move between the rings or a removal keeps the chain order.
LEMMA NextInOrder ==
  ASSUME TypeOK, RingInvariant, [Next]_vars
  PROVE  InChainOrder'
<1> USE DEF RingInvariant, DownIsEmpty, Alive, ringVars, mysqlVars, budgetVars
<1>0. /\ blockRing \in Seq(Blocks)
      /\ collectionRing \in Seq(Blocks)
      /\ Len(blockRing) \in Nat
      /\ Len(collectionRing) \in Nat
      /\ \A i \in 1..Len(blockRing) : blockRing[i] \in Int
      /\ \A i \in 1..Len(collectionRing) : collectionRing[i] \in Int
      /\ curNumber \in Int
      /\ collected \in Int
  BY RingNumbers
<1>1. CASE Boot
  BY <1>0, <1>1 DEF Boot, InChainOrder
<1>2. CASE CollectBlock
  <2>1. collected + 1 \in Blocks
    BY <1>2, CollectionAssumption DEF CollectBlock, TypeOK, Blocks
  <2>2. /\ Len(blockRing') = Len(blockRing) + 1
        /\ Len(blockRing) \in Nat
        /\ \A i \in 1..Len(blockRing) : blockRing'[i] = blockRing[i]
        /\ blockRing'[Len(blockRing) + 1] = collected + 1
    BY <1>0, <1>2, <2>1, Published DEF CollectBlock
  <2>3. \A i \in 1..Len(blockRing') :
           \/ i \in 1..Len(blockRing) /\ blockRing'[i] = blockRing[i]
           \/ i = Len(blockRing) + 1 /\ blockRing'[i] = collected + 1
    BY <2>2
  <2> QED
    BY <1>0, <1>2, <2>2, <2>3 DEF CollectBlock, InChainOrder
<1>3. CASE HandleBlock
  <2>1. /\ Head(blockRing) \in Blocks
        /\ Head(blockRing) = blockRing[1]
        /\ Len(blockRing) \in Nat \ {0}
        /\ Len(blockRing') = Len(blockRing) - 1
        /\ \A i \in 1..Len(blockRing') : blockRing'[i] = blockRing[i + 1]
    BY <1>0, <1>3, Consumed DEF HandleBlock
  <2>2. /\ Len(collectionRing') = Len(collectionRing) + 1
        /\ Len(collectionRing) \in Nat
        /\ \A i \in 1..Len(collectionRing) : collectionRing'[i] = collectionRing[i]
        /\ collectionRing'[Len(collectionRing) + 1] = blockRing[1]
    BY <1>0, <1>3, <2>1, Published DEF HandleBlock
  <2>3. \A i \in 1..Len(collectionRing') :
           \/ i \in 1..Len(collectionRing) /\ collectionRing'[i] = collectionRing[i]
           \/ i = Len(collectionRing) + 1 /\ collectionRing'[i] = blockRing[1]
    BY <2>2
  <2>4. \A i \in 1..Len(blockRing') : i + 1 \in 1..Len(blockRing) /\ 1 < i + 1
    BY <2>1
  <2> QED
    BY <1>0, <1>3, <2>1, <2>2, <2>3, <2>4 DEF HandleBlock, InChainOrder
<1>4. CASE RecoverBlock
  <2>1. /\ Len(blockRing) \in Nat \ {0}
        /\ Len(blockRing') = Len(blockRing) - 1
        /\ \A i \in 1..Len(blockRing') : blockRing'[i] = blockRing[i + 1]
    BY <1>0, <1>4, Consumed DEF RecoverBlock
  <2>2. \A i \in 1..Len(blockRing') : i + 1 \in 1..Len(blockRing)
    BY <2>1
  <2> QED
    BY <1>0, <1>4, <2>1, <2>2 DEF RecoverBlock, InChainOrder
<1>5. CASE CommitBlock
  <2>1. /\ curNumber' = collectionRing[1]
        /\ Len(collectionRing) \in Nat \ {0}
        /\ Len(collectionRing') = Len(collectionRing) - 1
        /\ \A i \in 1..Len(collectionRing') : collectionRing'[i] = collectionRing[i + 1]
    BY <1>0, <1>5, Consumed DEF CommitBlock
  <2>2. \A i \in 1..Len(collectionRing') : i + 1 \in 1..Len(collectionRing) /\ 1 < i + 1
    BY <2>1
  <2>3. 1 \in 1..Len(collectionRing)
    BY <2>1
  <2> QED
    BY <1>0, <1>5, <2>1, <2>2, <2>3 DEF CommitBlock, InChainOrder
<1>6. CASE CommitGenesis
  <2>1. /\ Len(collectionRing) \in Nat \ {0}
        /\ Len(collectionRing') = Len(collectionRing) - 1
        /\ \A i \in 1..Len(collectionRing') : collectionRing'[i] = collectionRing[i + 1]
    BY <1>0, <1>6, Consumed DEF CommitGenesis
  <2>2. \A i \in 1..Len(collectionRing') : i + 1 \in 1..Len(collectionRing)
    BY <2>1
  <2> QED
    BY <1>0, <1>6, <2>1, <2>2 DEF CommitGenesis, InChainOrder
<1>7. CASE Crash
  BY <1>0, <1>7 DEF Crash, InChainOrder
<1>8. CASE UNCHANGED <<collected, ringVars, curNumber>>
  BY <1>8 DEF InChainOrder
<1> QED
  BY <1>1, <1>2, <1>3, <1>4, <1>5, <1>6, <1>7, <1>8
  DEF Next, vars, ChainGrows, PostSucceeds, PostFails, LoopBreaks, AttemptFails,
      PublishBlock, CommitFails, AnalysisStuck

\* No step takes an uncommitted block out of the rings but a commit and
\* recover() of BlockEventHandler.
LEMMA NextNothingLost ==
  ASSUME TypeOK, RingInvariant, [Next]_vars
  PROVE  NothingLostInRings'
<1> USE DEF RingInvariant, DownIsEmpty, Alive, ringVars, mysqlVars, budgetVars
<1>0. /\ blockRing \in Seq(Blocks)
      /\ collectionRing \in Seq(Blocks)
      /\ Len(blockRing) \in Nat
      /\ Len(collectionRing) \in Nat
      /\ \A i \in 1..Len(blockRing) : blockRing[i] \in Int
      /\ \A i \in 1..Len(collectionRing) : collectionRing[i] \in Int
      /\ curNumber \in Int
      /\ collected \in Int
  BY RingNumbers
<1>1. CASE Boot
  BY <1>0, <1>1 DEF Boot, NothingLostInRings
<1>2. CASE CollectBlock
  <2>1. collected + 1 \in Blocks
    BY <1>2, CollectionAssumption DEF CollectBlock, TypeOK, Blocks
  <2>2. /\ Len(blockRing') = Len(blockRing) + 1
        /\ Len(blockRing) \in Nat
        /\ \A i \in 1..Len(blockRing) : blockRing'[i] = blockRing[i]
        /\ blockRing'[Len(blockRing) + 1] = collected + 1
    BY <1>0, <1>2, <2>1, Published DEF CollectBlock
  <2>3. /\ \A i \in 1..Len(blockRing) : i \in 1..Len(blockRing')
        /\ Len(blockRing) + 1 \in 1..Len(blockRing')
    BY <2>2
  <2>4. \A n \in curNumber + 1 .. collected' : n \in curNumber + 1 .. collected \/ n = collected + 1
    BY <1>0, <1>2 DEF CollectBlock
  <2> QED
    BY <1>2, <2>2, <2>3, <2>4 DEF CollectBlock, NothingLostInRings
<1>3. CASE HandleBlock
  <2>1. /\ Head(blockRing) \in Blocks
        /\ Head(blockRing) = blockRing[1]
        /\ Len(blockRing) \in Nat \ {0}
        /\ Len(blockRing') = Len(blockRing) - 1
        /\ \A i \in 1..Len(blockRing') : blockRing'[i] = blockRing[i + 1]
    BY <1>0, <1>3, Consumed DEF HandleBlock
  <2>2. /\ Len(collectionRing') = Len(collectionRing) + 1
        /\ Len(collectionRing) \in Nat
        /\ \A i \in 1..Len(collectionRing) : collectionRing'[i] = collectionRing[i]
        /\ collectionRing'[Len(collectionRing) + 1] = blockRing[1]
    BY <1>0, <1>3, <2>1, Published DEF HandleBlock
  <2>3. /\ \A i \in 1..Len(collectionRing) : i \in 1..Len(collectionRing')
        /\ Len(collectionRing) + 1 \in 1..Len(collectionRing')
    BY <2>2
  <2>4. \A i \in 1..Len(blockRing) :
           i = 1 \/ (i - 1 \in 1..Len(blockRing') /\ blockRing'[i - 1] = blockRing[i])
    <3> TAKE i \in 1..Len(blockRing)
    <3> CASE i # 1
      <4>1. i - 1 \in 1..Len(blockRing') /\ (i - 1) + 1 = i
        BY <2>1
      <4> QED
        BY <2>1, <4>1
    <3> QED
      OBVIOUS
  <2>5. ASSUME NEW n, \E i \in 1..Len(blockRing) : blockRing[i] = n
        PROVE  \/ \E i \in 1..Len(collectionRing') : collectionRing'[i] = n
               \/ \E i \in 1..Len(blockRing') : blockRing'[i] = n
    <3> PICK i \in 1..Len(blockRing) : blockRing[i] = n
      BY <2>5
    <3>1. CASE i = 1
      BY <3>1, <2>2, <2>3
    <3>2. CASE i # 1
      BY <3>2, <2>4
    <3> QED
      BY <3>1, <3>2
  <2>6. ASSUME NEW n, \E i \in 1..Len(collectionRing) : collectionRing[i] = n
        PROVE  \E i \in 1..Len(collectionRing') : collectionRing'[i] = n
    BY <2>2, <2>3, <2>6
  <2> QED
    BY <1>3, <2>5, <2>6 DEF HandleBlock, NothingLostInRings
<1>4. CASE RecoverBlock
  <2>1. /\ Head(blockRing) = blockRing[1]
        /\ Len(blockRing) \in Nat \ {0}
        /\ Len(blockRing') = Len(blockRing) - 1
        /\ \A i \in 1..Len(blockRing') : blockRing'[i] = blockRing[i + 1]
    BY <1>0, <1>4, Consumed DEF RecoverBlock
  <2>2. \A i \in 1..Len(blockRing) :
           i = 1 \/ (i - 1 \in 1..Len(blockRing') /\ blockRing'[i - 1] = blockRing[i])
    <3> TAKE i \in 1..Len(blockRing)
    <3> CASE i # 1
      <4>1. i - 1 \in 1..Len(blockRing') /\ (i - 1) + 1 = i
        BY <2>1
      <4> QED
        BY <2>1, <4>1
    <3> QED
      OBVIOUS
  <2>3. ASSUME NEW n, \E i \in 1..Len(blockRing) : blockRing[i] = n
        PROVE  n = Head(blockRing) \/ \E i \in 1..Len(blockRing') : blockRing'[i] = n
    BY <2>1, <2>2, <2>3
  <2>4. dropped' = dropped \cup {Head(blockRing)} /\ Head(blockRing) \in FaultyBlocks
    BY <1>4 DEF RecoverBlock
  <2> QED
    BY <1>4, <2>3, <2>4 DEF RecoverBlock, NothingLostInRings
<1>5. CASE CommitBlock
  <2>1. /\ curNumber' = collectionRing[1]
        /\ Len(collectionRing) \in Nat \ {0}
        /\ Len(collectionRing') = Len(collectionRing) - 1
        /\ \A i \in 1..Len(collectionRing') : collectionRing'[i] = collectionRing[i + 1]
    BY <1>0, <1>5, Consumed DEF CommitBlock
  <2>2. 1 \in 1..Len(collectionRing) /\ collectionRing[1] \in Int
    BY <1>0, <2>1
  <2>3. \A n \in curNumber' + 1 .. collected : n \in curNumber + 1 .. collected /\ n # collectionRing[1]
    BY <1>0, <2>1, <2>2 DEF InChainOrder
  <2>4. \A i \in 1..Len(collectionRing) :
           i = 1 \/ (i - 1 \in 1..Len(collectionRing') /\ collectionRing'[i - 1] = collectionRing[i])
    <3> TAKE i \in 1..Len(collectionRing)
    <3> CASE i # 1
      <4>1. i - 1 \in 1..Len(collectionRing') /\ (i - 1) + 1 = i
        BY <2>1
      <4> QED
        BY <2>1, <4>1
    <3> QED
      OBVIOUS
  <2>5. ASSUME NEW n, n # collectionRing[1], \E i \in 1..Len(collectionRing) : collectionRing[i] = n
        PROVE  \E i \in 1..Len(collectionRing') : collectionRing'[i] = n
    BY <2>4, <2>5
  <2> QED
    BY <1>5, <2>3, <2>5 DEF CommitBlock, NothingLostInRings
<1>6. CASE CommitGenesis
  <2>1. /\ collectionRing[1] = 0
        /\ Len(collectionRing) \in Nat \ {0}
        /\ Len(collectionRing') = Len(collectionRing) - 1
        /\ \A i \in 1..Len(collectionRing') : collectionRing'[i] = collectionRing[i + 1]
    BY <1>0, <1>6, Consumed DEF CommitGenesis
  <2>2. \A i \in 1..Len(collectionRing) :
           i = 1 \/ (i - 1 \in 1..Len(collectionRing') /\ collectionRing'[i - 1] = collectionRing[i])
    <3> TAKE i \in 1..Len(collectionRing)
    <3> CASE i # 1
      <4>1. i - 1 \in 1..Len(collectionRing') /\ (i - 1) + 1 = i
        BY <2>1
      <4> QED
        BY <2>1, <4>1
    <3> QED
      OBVIOUS
  <2>3. ASSUME NEW n, n # 0, \E i \in 1..Len(collectionRing) : collectionRing[i] = n
        PROVE  \E i \in 1..Len(collectionRing') : collectionRing'[i] = n
    BY <2>1, <2>2, <2>3
  <2> QED
    BY <1>6, <2>3 DEF CommitGenesis, NothingLostInRings
<1>7. CASE Crash
  BY <1>7 DEF Crash, NothingLostInRings
<1>8. CASE UNCHANGED <<collected, ringVars, curNumber, dropped>> /\ (agent' # "down" => agent # "down")
  BY <1>8 DEF NothingLostInRings
<1> QED
  BY <1>1, <1>2, <1>3, <1>4, <1>5, <1>6, <1>7, <1>8
  DEF Next, vars, ChainGrows, PostSucceeds, PostFails, LoopBreaks, AttemptFails,
      PublishBlock, CommitFails, AnalysisStuck

-----------------------------------------------------------------------------
\* MySQL.  What a commit finds at the head of the Collection ring is the
\* first uncommitted block that nobody gave up on.
LEMMA CommitsNextBlock ==
  ASSUME TypeOK, RingInvariant, AppliedExactlyOnce, CommitBlock
  PROVE  /\ Head(collectionRing) \in Counted
         /\ curNumber < Head(collectionRing)
         /\ \A n \in curNumber + 1 .. Head(collectionRing) - 1 : n \in dropped \/ n = 0
         /\ applied[Head(collectionRing)] = 0
<1>1. /\ Head(collectionRing) = collectionRing[1]
      /\ 1 \in 1..Len(collectionRing)
      /\ Head(collectionRing) \in Counted
  <2>1. collectionRing # <<>> /\ collectionRing \in Seq(Blocks)
    BY DEF CommitBlock, RingInvariant, DownIsEmpty, TypeOK
  <2>2. /\ Head(collectionRing) = collectionRing[1]
        /\ Head(collectionRing) \in Blocks
        /\ Len(collectionRing) \in Nat \ {0}
    BY <2>1, Consumed
  <2>3. Head(collectionRing) # 0
    BY DEF CommitBlock
  <2> QED
    BY <2>2, <2>3, CollectionAssumption DEF Blocks, Counted
<1>2. /\ curNumber < Head(collectionRing)
      /\ Head(collectionRing) <= collected
  BY <1>1 DEF RingInvariant, InChainOrder
<1>3. ASSUME NEW n \in curNumber + 1 .. Head(collectionRing) - 1
      PROVE  n \in dropped \/ n = 0
  <2>1. n \in curNumber + 1 .. collected /\ n \in Int /\ n < Head(collectionRing)
    BY <1>1, <1>2, <1>3, RingNumbers
  <2>2. \A i \in 1..Len(collectionRing) : n < collectionRing[i]
    BY <1>1, <2>1, RingNumbers DEF RingInvariant, InChainOrder
  <2>3. \A i \in 1..Len(blockRing) : n < blockRing[i]
    BY <1>1, <2>1, RingNumbers DEF RingInvariant, InChainOrder
  <2>4. agent # "down"
    BY DEF CommitBlock, Alive
  <2>5. \/ \E i \in 1..Len(collectionRing) : collectionRing[i] = n
        \/ \E i \in 1..Len(blockRing) : blockRing[i] = n
        \/ n \in dropped
        \/ n = 0
    BY <2>1, <2>4 DEF RingInvariant, NothingLostInRings
  <2> QED
    BY <2>1, <2>2, <2>3, <2>5, RingNumbers
<1>4. applied[Head(collectionRing)] = 0
  BY <1>1, <1>2 DEF AppliedExactlyOnce
<1> QED
  BY <1>1, <1>2, <1>3, <1>4

\* Nothing but a commit writes the statistics.
LEMMA OnlyCommitApplies ==
  ASSUME TypeOK, [Next]_vars
  PROVE  CommitBlock \/ (UNCHANGED <<curNumber, applied>> /\ dropped \subseteq dropped')
  BY DEF Next, vars, mysqlVars, ChainGrows, Boot, PostSucceeds, PostFails, CollectBlock,
         LoopBreaks, HandleBlock, RecoverBlock, AttemptFails, PublishBlock, CommitGenesis,
         CommitFails, AnalysisStuck, Crash

\* The step of the exactly-once invariant.
LEMMA NextAppliesOnce ==
  ASSUME TypeOK, RingInvariant, AppliedExactlyOnce, [Next]_vars
  PROVE  AppliedExactlyOnce'
<1>1. CASE CommitBlock
  <2> DEFINE h == Head(collectionRing)
  <2>1. /\ h \in Counted
        /\ curNumber < h
        /\ \A n \in curNumber + 1 .. h - 1 : n \in dropped \/ n = 0
        /\ applied[h] = 0
    BY <1>1, CommitsNextBlock
  <2>2. /\ curNumber' = h
        /\ applied' = [applied EXCEPT ![h] = @ + 1]
        /\ dropped' = dropped
    BY <1>1 DEF CommitBlock
  <2>3. /\ curNumber \in Int
        /\ Counted \subseteq Nat \ {0}
        /\ applied \in [Counted -> Nat]
    BY CollectionAssumption DEF TypeOK, Blocks, Counted
  <2> HIDE DEF h
  <2>4. /\ applied'[h] = 1
        /\ \A b \in Counted \ {h} : applied'[b] = applied[b]
    BY <2>1, <2>2, <2>3
  <2> SUFFICES ASSUME NEW b \in Counted
               PROVE  /\ b > curNumber' => applied'[b] = 0
                      /\ b <= curNumber' => applied'[b] = 1 \/ (applied'[b] = 0 /\ b \in dropped')
    BY DEF AppliedExactlyOnce
  <2>5. CASE b = h
    BY <2>1, <2>2, <2>3, <2>4, <2>5
  <2>6. CASE b # h
    <3>1. b < h => b <= curNumber \/ b \in dropped
      BY <2>1, <2>3
    <3> QED
      BY <2>1, <2>2, <2>3, <2>4, <2>6, <3>1 DEF AppliedExactlyOnce
  <2> QED
    BY <2>5, <2>6
<1>2. CASE UNCHANGED <<curNumber, applied>> /\ dropped \subseteq dropped'
  BY <1>2 DEF AppliedExactlyOnce
<1> QED
  BY <1>1, <1>2, OnlyCommitApplies

-----------------------------------------------------------------------------
\* The inductive invariant and what follows from it.

LEMMA InitIInv == Init => IInv
<1> SUFFICES ASSUME Init
             PROVE  IInv
  OBVIOUS
<1>1. TypeOK /\ DownIsEmpty
  BY InitTyped
<1>2. InChainOrder /\ NothingLostInRings
  <2>1. Len(blockRing) = 0 /\ Len(collectionRing) = 0
    BY EmptySeq DEF Init
  <2> QED
    BY <2>1 DEF Init, InChainOrder, NothingLostInRings
<1>3. AppliedExactlyOnce
  BY CollectionAssumption DEF Init, AppliedExactlyOnce, Counted
<1> QED
  BY <1>1, <1>2, <1>3 DEF IInv, RingInvariant

LEMMA NextIInv == IInv /\ [Next]_vars => IInv'
  BY NextTyped, NextInOrder, NextNothingLost, NextAppliesOnce DEF IInv, RingInvariant

LEMMA Invariance == Spec => []IInv
  BY InitIInv, NextIInv, PTL DEF Spec

\* A collected block that is not committed is in exactly one ring, in chain
\* order, or was given up on, over any number of crashes and restarts.
THEOREM RingsKeepBlocks == Spec => []RingInvariant
<1>1. IInv => RingInvariant
  BY DEF IInv
<1> QED
  BY <1>1, Invariance, PTL

\* Each block is applied to the statistics at most once, and none is passed
\* over that recover() of BlockEventHandler did not give up on.
THEOREM ExactlyOnce == Spec => []AppliedExactlyOnce
<1>1. IInv => AppliedExactlyOnce
  BY DEF IInv
<1> QED
  BY <1>1, Invariance, PTL

\* The statistics in MySQL are a ledger of the chain: each step of block
\* collection applies the next block of the chain, or leaves MySQL alone.
THEOREM Refinement == Spec => ImplementsLedger
<1>1. Init => Ledger!Init
  BY DEF Init, Ledger!Init, Counted, Ledger!Counted
<1>2. IInv /\ [Next]_vars => [Ledger!Next]_(Ledger!vars)
  <2> SUFFICES ASSUME IInv, [Next]_vars
               PROVE  [Ledger!Next]_(Ledger!vars)
    OBVIOUS
  <2> USE DEF IInv
  <2>1. CASE CommitBlock
    <3> DEFINE h == Head(collectionRing)
    <3>1. /\ h \in Counted
          /\ h > curNumber
          /\ \A n \in 1 .. h - 1 : n > curNumber => n \in FaultyBlocks
          /\ applied[h] = 0
      <4>1. /\ h \in Counted
            /\ curNumber < h
            /\ \A n \in curNumber + 1 .. h - 1 : n \in dropped \/ n = 0
            /\ applied[h] = 0
        BY <2>1, CommitsNextBlock
      <4>2. curNumber \in Int /\ h \in Int /\ dropped \subseteq FaultyBlocks
        BY <4>1, CollectionAssumption, RingNumbers DEF Counted, RingInvariant, NothingLostInRings
      <4>3. \A n \in 1 .. h - 1 : n > curNumber => n \in curNumber + 1 .. h - 1 /\ n # 0
        BY <4>2
      <4> QED
        BY <4>1, <4>2, <4>3
    <3>2. /\ curNumber' = h
          /\ applied' = [applied EXCEPT ![h] = @ + 1]
      BY <2>1 DEF CommitBlock
    <3> HIDE DEF h
    <3>3. applied' = [applied EXCEPT ![h] = 1]
      BY <3>1, <3>2
    <3> QED
      BY <3>1, <3>2, <3>3 DEF Ledger!Next, Ledger!Apply, Ledger!Counted, Counted
  <2>2. CASE UNCHANGED <<curNumber, applied>>
    BY <2>2 DEF Ledger!vars
  <2> QED
    BY <2>1, <2>2, OnlyCommitApplies
<1> QED
  BY <1>1, <1>2, Invariance, PTL DEF Spec, ImplementsLedger, Ledger!Spec
=============================================================================
