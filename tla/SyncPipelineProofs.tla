------------------------- MODULE SyncPipelineProofs -------------------------
(***************************************************************************)
(* Theorems about SyncPipeline, for every chain, ring size, batch size and *)
(* number of faults.  Block collection in it is the one                    *)
(* BlockCollectionProofs is about, and its theorems are used here.         *)
(***************************************************************************)
EXTENDS SyncPipeline, SequenceTheorems, SetTheorems, TLAPS

Chain == INSTANCE BlockCollectionProofs

Event == [num : Blocks, tx : SUBSET (Nat \ {0})]

\* The documents of an event, by the service that saves them.
Carried(e) == [block |-> {e.num}, tx |-> e.tx]

\* The events on their way to the staging area, in one queue.  During an
\* import the event at the head of the Persistence ring is staged already.
Unstaged == IF import = "idle" THEN persistenceRing ELSE Tail(persistenceRing)
Queue    == Unstaged \o complementRing

Holds(q, s, d) == \E i \in 1..Len(q) : d \in Carried(q[i])[s]

Ascending(q) ==
    \A i, j \in 1..Len(q) :
        i < j => \A s \in Services :
                    \A d \in Carried(q[i])[s], e \in Carried(q[j])[s] : d < e

\* The block whose documents were published last, or would have been.
Reached == IF transaction = "none" THEN curNumber ELSE Head(collectionRing)

\* Blocks in the rings that are not published.
ToPublish ==
    {collectionRing[i] : i \in (IF transaction = "none" THEN 1 ELSE 2)..Len(collectionRing)}
        \cup {blockRing[i] : i \in 1..Len(blockRing)}

Rows     == txBak \cup openTx
Wanted   == [block |-> 1..Reached, tx |-> Rows]
Claims   == [block |-> 1..MaxBlock, tx |-> Rows]
Excepted == [block |-> dropped \cup excused.block, tx |-> excused.tx]

-----------------------------------------------------------------------------
\* The invariant, in parts.

Typed ==
    /\ TypeOK
    /\ complementRing \in Seq(Event)
    /\ persistenceRing \in Seq(Event)

\* Staged documents, import and open transaction belong to a running process;
\* a service that is done has saved what is staged.
Importing ==
    /\ ~Chain!Alive =>
          /\ complementRing = <<>> /\ persistenceRing = <<>>
          /\ blockStage = {} /\ transactionStage = {}
          /\ import = "idle" /\ late = {}
    /\ transaction = "none" => openTx = {}
    /\ import = "idle" => pending = {}
    /\ import # "idle" =>
          /\ persistenceRing # <<>>
          /\ \A s \in Services :
                /\ Carried(Head(persistenceRing))[s] \subseteq Stage[s]
                /\ s \notin pending => Stage[s] \subseteq es[s] \cup excused[s]

\* Documents are staged in the order of the queue, which is the order of the
\* chain and of the ids.
InOrder ==
    /\ Ascending(Queue)
    /\ \A s \in Services : \A d \in Stage[s] : \A e \in Nat : Holds(Queue, s, e) => d < e

\* What left for the stores is behind what is still to be published.
Published ==
    \A n \in Blocks :
        n \in blockStage \/ Holds(Queue, "block", n) =>
            /\ n <= collected
            /\ n = 0 \/ n <= Reached
            /\ \A u \in ToPublish : n < u
            /\ dropped = {} => n <= curNumber + 1 \/ n <= 1

Covered ==
    Chain!Alive =>
        \A s \in Services : \A d \in Wanted[s] :
            d \in es[s] \cup Excepted[s] \cup Stage[s] \/ Holds(Queue, s, d)

\* A hole is above every document.
Holes ==
    \A s \in Services : \A d \in Claims[s] :
        d \in es[s] \cup Excepted[s] \/ \A x \in es[s] : x < d

Ahead == dropped = {} => \A n \in es.block : n <= curNumber + 1 \/ n <= 1

PipelineInv ==
    /\ Chain!IInv
    /\ Typed /\ Importing /\ InOrder /\ Published /\ Covered /\ Holes /\ Ahead

-----------------------------------------------------------------------------
\* Queues of events.

LEMMA CarriedTyped ==
    ASSUME NEW e \in Event
    PROVE  /\ e.num \in Blocks
           /\ Carried(e)["block"] = {e.num}
           /\ Carried(e)["tx"] = e.tx
           /\ \A s \in Services : Carried(e)[s] \subseteq Nat
  BY PipelineAssumption DEF Event, Carried, Services, Blocks

LEMMA HoldsTyped ==
    ASSUME NEW q \in Seq(Event), NEW s \in Services, NEW d, Holds(q, s, d)
    PROVE  d \in Nat /\ (s = "block" => d \in Blocks)
<1>1. PICK i \in 1..Len(q) : d \in Carried(q[i])[s]
  BY DEF Holds
<1>2. q[i] \in Event
  OBVIOUS
<1> QED BY <1>1, <1>2, CarriedTyped

LEMMA HoldsNothing == ASSUME NEW s, NEW d PROVE ~Holds(<<>>, s, d)
  BY DEF Holds

\* Taking the head of a queue.
LEMMA TakeHead ==
    ASSUME NEW q \in Seq(Event), q # <<>>
    PROVE  /\ Head(q) \in Event /\ Tail(q) \in Seq(Event)
           /\ \A s, d : Holds(q, s, d) <=> d \in Carried(Head(q))[s] \/ Holds(Tail(q), s, d)
           /\ Ascending(q) =>
                 /\ Ascending(Tail(q))
                 /\ \A s \in Services : \A d \in Carried(Head(q))[s] :
                       \A e : Holds(Tail(q), s, e) => d < e
<1>1. /\ Head(q) \in Event /\ Tail(q) \in Seq(Event) /\ Len(Tail(q)) = Len(q) - 1
      /\ Head(q) = q[1] /\ Len(q) \in Nat /\ Len(q) >= 1
      /\ \A i \in 1 .. Len(q) - 1 : Tail(q)[i] = q[i + 1]
  BY HeadTailProperties, LenProperties, EmptySeq
<1>2. ASSUME NEW s, NEW d, Holds(q, s, d)
      PROVE  d \in Carried(Head(q))[s] \/ Holds(Tail(q), s, d)
  <2>1. PICK i \in 1..Len(q) : d \in Carried(q[i])[s]
    BY <1>2 DEF Holds
  <2>2. CASE i = 1
    BY <1>1, <2>1, <2>2
  <2>3. CASE i # 1
    <3>1. i - 1 \in 1..Len(Tail(q)) /\ i - 1 \in 1 .. Len(q) - 1 /\ (i - 1) + 1 = i
      BY <1>1, <2>3
    <3>2. Tail(q)[i - 1] = q[i]
      BY <1>1, <3>1
    <3> QED BY <2>1, <3>1, <3>2 DEF Holds
  <2> QED BY <2>2, <2>3
<1>3. ASSUME NEW s, NEW d, d \in Carried(Head(q))[s] \/ Holds(Tail(q), s, d)
      PROVE  Holds(q, s, d)
  <2>1. CASE d \in Carried(Head(q))[s]
    <3>1. 1 \in 1..Len(q)
      BY <1>1
    <3> QED BY <1>1, <2>1, <3>1 DEF Holds
  <2>2. CASE Holds(Tail(q), s, d)
    <3>1. PICK i \in 1..Len(Tail(q)) : d \in Carried(Tail(q)[i])[s]
      BY <2>2 DEF Holds
    <3>2. i + 1 \in 1..Len(q) /\ Tail(q)[i] = q[i + 1]
      BY <1>1, <3>1
    <3> QED BY <3>1, <3>2 DEF Holds
  <2> QED BY <1>3, <2>1, <2>2
<1>4. ASSUME Ascending(q) PROVE Ascending(Tail(q))
  <2> SUFFICES ASSUME NEW i \in 1..Len(Tail(q)), NEW j \in 1..Len(Tail(q)), i < j,
                      NEW s \in Services,
                      NEW d \in Carried(Tail(q)[i])[s], NEW e \in Carried(Tail(q)[j])[s]
               PROVE  d < e
    BY DEF Ascending
  <2>1. /\ i + 1 \in 1..Len(q) /\ j + 1 \in 1..Len(q) /\ i + 1 < j + 1
        /\ Tail(q)[i] = q[i + 1] /\ Tail(q)[j] = q[j + 1]
    BY <1>1
  <2> QED BY <1>4, <2>1 DEF Ascending
<1>5. ASSUME Ascending(q), NEW s \in Services, NEW d \in Carried(Head(q))[s], NEW e,
             Holds(Tail(q), s, e)
      PROVE  d < e
  <2>1. PICK i \in 1..Len(Tail(q)) : e \in Carried(Tail(q)[i])[s]
    BY <1>5 DEF Holds
  <2>2. i + 1 \in 1..Len(q) /\ 1 \in 1..Len(q) /\ 1 < i + 1 /\ Tail(q)[i] = q[i + 1]
    BY <1>1
  <2> QED BY <1>1, <1>5, <2>1, <2>2 DEF Ascending
<1> QED BY <1>1, <1>2, <1>3, <1>4, <1>5

\* Publishing to a queue.
LEMMA PutLast ==
    ASSUME NEW q \in Seq(Event), NEW new \in Event
    PROVE  /\ Append(q, new) \in Seq(Event)
           /\ \A s, d : Holds(Append(q, new), s, d) <=> Holds(q, s, d) \/ d \in Carried(new)[s]
           /\ (/\ Ascending(q)
               /\ \A s \in Services : \A d, e : Holds(q, s, d) /\ e \in Carried(new)[s] => d < e)
              => Ascending(Append(q, new))
<1> DEFINE r == Append(q, new)
<1>1. /\ r \in Seq(Event) /\ Len(r) = Len(q) + 1 /\ Len(q) \in Nat
      /\ \A i \in 1..Len(q) : r[i] = q[i]
      /\ r[Len(q) + 1] = new
  BY AppendProperties, LenProperties
<1> HIDE DEF r
<1>2. ASSUME NEW s, NEW d, Holds(r, s, d) PROVE Holds(q, s, d) \/ d \in Carried(new)[s]
  <2>1. PICK i \in 1..Len(r) : d \in Carried(r[i])[s]
    BY <1>2 DEF Holds
  <2>2. i \in 1..Len(q) \/ i = Len(q) + 1
    BY <1>1
  <2> QED BY <1>1, <2>1, <2>2 DEF Holds
<1>3. ASSUME NEW s, NEW d, Holds(q, s, d) \/ d \in Carried(new)[s] PROVE Holds(r, s, d)
  <2>1. 1..Len(q) \subseteq 1..Len(r) /\ Len(q) + 1 \in 1..Len(r)
    BY <1>1
  <2> QED BY <1>1, <1>3, <2>1 DEF Holds
<1>4. ASSUME Ascending(q),
             \A s \in Services : \A d, e : Holds(q, s, d) /\ e \in Carried(new)[s] => d < e
      PROVE  Ascending(r)
  <2> SUFFICES ASSUME NEW i \in 1..Len(r), NEW j \in 1..Len(r), i < j, NEW s \in Services,
                      NEW d \in Carried(r[i])[s], NEW e \in Carried(r[j])[s]
               PROVE  d < e
    BY DEF Ascending
  <2>1. i \in 1..Len(q) /\ (j \in 1..Len(q) \/ j = Len(q) + 1)
    BY <1>1
  <2>2. CASE j \in 1..Len(q)
    BY <1>1, <1>4, <2>1, <2>2 DEF Ascending
  <2>3. CASE j = Len(q) + 1
    <3>1. Holds(q, s, d)
      BY <1>1, <2>1 DEF Holds
    <3> QED BY <1>1, <1>4, <2>3, <3>1
  <2> QED BY <2>1, <2>2, <2>3
<1> QED BY <1>1, <1>2, <1>3, <1>4 DEF r

\* Handing an event from the second of two rings to the first.
LEMMA QueueMoves ==
    ASSUME NEW a \in Seq(Event), NEW b \in Seq(Event)
    PROVE  /\ a \o b \in Seq(Event)
           /\ \A e \in Event : a \o Append(b, e) = Append(a \o b, e)
           /\ b # <<>> => Append(a, Head(b)) \o Tail(b) = a \o b
           /\ a # <<>> => /\ a \o b # <<>> /\ Head(a \o b) = Head(a)
                          /\ Tail(a \o b) = Tail(a) \o b
           /\ <<>> \o <<>> = <<>>
<1>1. a \o b \in Seq(Event)
  BY ConcatProperties
<1>2. ASSUME NEW e \in Event PROVE a \o Append(b, e) = Append(a \o b, e)
  <2>1. <<e>> \in Seq(Event)
    OBVIOUS
  <2>2. Append(b, e) = b \o <<e>> /\ Append(a \o b, e) = (a \o b) \o <<e>>
    BY <1>1, AppendIsConcat
  <2> QED BY <2>1, <2>2, ConcatAssociative
<1>3. ASSUME b # <<>> PROVE Append(a, Head(b)) \o Tail(b) = a \o b
  <2>1. Head(b) \in Event /\ Tail(b) \in Seq(Event) /\ <<Head(b)>> \in Seq(Event)
    BY <1>3, HeadTailProperties
  <2>2. Append(a, Head(b)) = a \o <<Head(b)>>
    BY <2>1, AppendIsConcat
  <2>3. b = <<Head(b)>> \o Tail(b)
    <3> DEFINE r == <<Head(b)>> \o Tail(b)
    <3>1. /\ Len(b) \in Nat /\ Len(b) >= 1 /\ Len(Tail(b)) = Len(b) - 1 /\ Head(b) = b[1]
          /\ \A i \in 1 .. Len(b) - 1 : Tail(b)[i] = b[i + 1]
      BY <1>3, HeadTailProperties, LenProperties, EmptySeq
    <3>2. Len(<<Head(b)>>) = 1 /\ <<Head(b)>>[1] = Head(b)
      OBVIOUS
    <3>3. /\ r \in Seq(Event) /\ Len(r) = 1 + (Len(b) - 1)
          /\ \A i \in 1 .. 1 + (Len(b) - 1) :
                r[i] = IF i <= 1 THEN <<Head(b)>>[i] ELSE Tail(b)[i - 1]
      <4> HIDE DEF r
      <4>1. /\ r \in Seq(Event) /\ Len(r) = Len(<<Head(b)>>) + Len(Tail(b))
            /\ \A i \in 1 .. Len(<<Head(b)>>) + Len(Tail(b)) :
                  r[i] = IF i <= Len(<<Head(b)>>) THEN <<Head(b)>>[i] ELSE Tail(b)[i - Len(<<Head(b)>>)]
        BY <2>1, ConcatProperties DEF r
      <4> QED BY <3>1, <3>2, <4>1
    <3> HIDE DEF r
    <3>4. ASSUME NEW i \in 1..Len(b) PROVE b[i] = r[i]
      <4>1. CASE i = 1
        BY <3>1, <3>2, <3>3, <4>1
      <4>2. CASE i # 1
        <5>1. i - 1 \in 1 .. Len(b) - 1 /\ ~(i <= 1) /\ i \in 1 .. 1 + (Len(b) - 1)
              /\ (i - 1) + 1 = i
          BY <3>1, <4>2
        <5> QED BY <3>1, <3>3, <5>1
      <4> QED BY <4>1, <4>2
    <3>5. Len(b) = Len(r)
      BY <3>1, <3>3
    <3>6. b = r
      BY <3>3, <3>4, <3>5, SeqEqual
    <3> QED BY <3>6 DEF r
  <2>4. a \o (<<Head(b)>> \o Tail(b)) = (a \o <<Head(b)>>) \o Tail(b)
    BY <2>1, ConcatAssociative
  <2> QED BY <2>2, <2>3, <2>4
<1>4. ASSUME a # <<>>
      PROVE  /\ a \o b # <<>> /\ Head(a \o b) = Head(a)
             /\ Tail(a \o b) = Tail(a) \o b
  <2> DEFINE n == Len(a)
             m == Len(b)
             q == a \o b
             t == Tail(a)
             r == t \o b
  <2>1. /\ n \in Nat /\ n >= 1 /\ m \in Nat
        /\ t \in Seq(Event) /\ Len(t) = n - 1 /\ Head(a) = a[1]
        /\ \A i \in 1 .. n - 1 : t[i] = a[i + 1]
    BY <1>4, HeadTailProperties, LenProperties, EmptySeq
  <2>2. /\ q \in Seq(Event) /\ Len(q) = n + m
        /\ \A i \in 1 .. n + m : q[i] = IF i <= n THEN a[i] ELSE b[i - n]
    BY ConcatProperties
  <2> HIDE DEF t
  <2>3. /\ r \in Seq(Event) /\ Len(r) = (n - 1) + m
        /\ \A i \in 1 .. (n - 1) + m : r[i] = IF i <= n - 1 THEN t[i] ELSE b[i - (n - 1)]
    <3>1. /\ r \in Seq(Event) /\ Len(r) = Len(t) + m
          /\ \A i \in 1 .. Len(t) + m : r[i] = IF i <= Len(t) THEN t[i] ELSE b[i - Len(t)]
      BY <2>1, ConcatProperties
    <3> QED BY <2>1, <3>1
  <2> HIDE DEF q, r, n, m
  <2>4. q # <<>> /\ Head(q) = q[1] /\ Len(q) >= 1
    BY <2>1, <2>2, EmptySeq, LenProperties
  <2>5. q[1] = a[1]
    <3>1. 1 \in 1 .. n + m
      BY <2>1
    <3> QED BY <2>1, <2>2, <3>1
  <2>6. /\ Tail(q) \in Seq(Event) /\ Len(Tail(q)) = (n + m) - 1
        /\ \A i \in 1 .. (n + m) - 1 : Tail(q)[i] = q[i + 1]
    BY <2>2, <2>4, HeadTailProperties
  <2>7. ASSUME NEW i \in 1..Len(Tail(q)) PROVE Tail(q)[i] = r[i]
    <3>1. /\ i \in 1 .. (n + m) - 1 /\ i + 1 \in 1 .. n + m /\ i \in 1 .. (n - 1) + m
          /\ (i + 1) - n = i - (n - 1)
      BY <2>1, <2>6
    <3>2. Tail(q)[i] = q[i + 1]
      BY <2>6, <3>1
    <3>3. CASE i <= n - 1
      <4>1. i \in 1 .. n - 1 /\ i + 1 <= n
        BY <2>1, <3>3
      <4>2. q[i + 1] = a[i + 1] /\ r[i] = t[i]
        BY <2>2, <2>3, <3>1, <3>3, <4>1
      <4> QED BY <2>1, <3>2, <4>1, <4>2
    <3>4. CASE ~(i <= n - 1)
      <4>1. ~(i + 1 <= n)
        BY <2>1, <3>4
      <4>2. q[i + 1] = b[(i + 1) - n] /\ r[i] = b[i - (n - 1)]
        BY <2>2, <2>3, <3>1, <3>4, <4>1
      <4> QED BY <3>1, <3>2, <4>2
    <3> QED BY <3>3, <3>4
  <2>8. Len(Tail(q)) = Len(r)
    BY <2>1, <2>3, <2>6
  <2>9. Tail(q) = r
    BY <2>3, <2>6, <2>7, <2>8, SeqEqual
  <2> QED BY <2>1, <2>4, <2>5, <2>9 DEF q, r, t
<1>5. <<>> \o <<>> = <<>>
  BY ConcatEmptySeq, EmptySeq
<1> QED BY <1>1, <1>2, <1>3, <1>4, <1>5

-----------------------------------------------------------------------------
\* Documents and holes.

LEMMA NewestIs ==
    ASSUME NEW docs, IsFiniteSet(docs), docs \subseteq Nat
    PROVE  /\ Newest(docs) \in Nat
           /\ Newest(docs) \in docs \cup {0}
           /\ \A d \in docs : d <= Newest(docs)
<1> DEFINE S == docs \cup {0}
<1>1. IsFiniteSet(S) /\ S \subseteq Int /\ S # {} /\ S \subseteq Nat
  BY FS_AddElement
<1> HIDE DEF S
<1>2. \E m \in S : \A d \in S : d <= m
  BY <1>1, GreatestExists
<1>3. \E m \in S : \A d \in S : m >= d
  BY <1>1, <1>2
<1>4. Newest(docs) = CHOOSE m \in S : \A d \in S : m >= d
  BY DEF Newest, Max, S
<1>5. Newest(docs) \in S /\ \A d \in S : Newest(docs) >= d
  BY <1>3, <1>4
<1> QED BY <1>1, <1>5 DEF S

\* What is above the newest document is above all of them.
LEMMA AboveNewest ==
    ASSUME NEW docs, IsFiniteSet(docs), docs \subseteq Nat, NEW d \in Nat \ {0}
    PROVE  (\A x \in docs : x < d) <=> d > Newest(docs)
<1>1. /\ Newest(docs) \in Nat
      /\ Newest(docs) \in docs \cup {0}
      /\ \A x \in docs : x <= Newest(docs)
  BY NewestIs
<1> QED BY <1>1

(***************************************************************************)
(* Documents of a request land, perhaps not all of them.  If everything    *)
(* below them that ES lacks is in the request or exempt, holes stay above. *)
(***************************************************************************)
SafeLanding(claims, docs, excepted, request, waiting, landed, after) ==
    /\ claims \subseteq Nat /\ docs \subseteq Nat /\ request \subseteq Nat /\ waiting \subseteq Nat
    /\ landed \subseteq request
    /\ excepted \cup Torn(request, landed) \subseteq after
    /\ \A d \in claims : d \in docs \cup excepted \/ \A x \in docs : x < d
    /\ \A d \in request : \A e \in waiting : d < e
    /\ \A d \in claims : \A l \in request :
          d <= l => d \in docs \cup excepted \cup request \cup waiting

LEMMA LandingKeepsHoles ==
    ASSUME NEW claims, NEW docs, NEW excepted, NEW request, NEW waiting, NEW landed, NEW after,
           SafeLanding(claims, docs, excepted, request, waiting, landed, after)
    PROVE  \A d \in claims :
              d \in (docs \cup landed) \cup after \/ \A x \in docs \cup landed : x < d
<1> USE DEF SafeLanding
<1> SUFFICES ASSUME NEW d \in claims, d \notin docs \cup landed \cup after,
                    NEW x \in docs \cup landed
             PROVE  x < d
  OBVIOUS
<1>1. d \in Nat /\ x \in Nat
  OBVIOUS
<1>2. CASE x \in docs
  BY <1>2
<1>3. CASE x \in landed
  <2> SUFFICES ASSUME d <= x PROVE FALSE
    BY <1>1
  <2>1. x \in request /\ d # x /\ d < x
    BY <1>1, <1>3
  <2>2. d \in request \cup waiting
    BY <2>1
  <2>3. CASE d \in request
    <3>1. d \in Torn(request, landed)
      BY <1>3, <2>1, <2>3 DEF Torn
    <3> QED BY <3>1
  <2>4. CASE d \in waiting
    <3>1. x < d
      BY <2>1, <2>4
    <3> QED BY <1>1, <2>1, <3>1
  <2> QED BY <2>2, <2>3, <2>4
<1> QED BY <1>2, <1>3

LEMMA NothingTorn ==
    ASSUME NEW docs, docs \subseteq Nat, NEW refused, refused \subseteq docs
    PROVE  Torn(docs, docs \ refused) \subseteq refused /\ Torn(docs, docs) = {}
  BY DEF Torn

-----------------------------------------------------------------------------
\* Block collection takes its own steps.

LEMMA ChainAssumption == Chain!CollectionAssumption
  BY PipelineAssumption DEF Chain!CollectionAssumption, Chain!FaultKinds

LEMMA ChainInit == Init => Chain!Init
  BY DEF Init, Collection!Init, Chain!Init, Collection!Counted, Chain!Counted

LEMMA ChainActions ==
    /\ Collection!Alive <=> Chain!Alive
    /\ Collection!ChainGrows => Chain!ChainGrows
    /\ Collection!Boot => Chain!Boot
    /\ Collection!PostSucceeds => Chain!PostSucceeds
    /\ Collection!PostFails => Chain!PostFails
    /\ Collection!CollectBlock => Chain!CollectBlock
    /\ Collection!LoopBreaks => Chain!LoopBreaks
    /\ Collection!HandleBlock => Chain!HandleBlock
    /\ Collection!RecoverBlock => Chain!RecoverBlock
    /\ Collection!AttemptFails => Chain!AttemptFails
    /\ Collection!PublishBlock => Chain!PublishBlock
    /\ Collection!CommitGenesis => Chain!CommitGenesis
    /\ Collection!CommitBlock => Chain!CommitBlock
    /\ Collection!CommitFails => Chain!CommitFails
    /\ Collection!Crash => Chain!Crash
<1> USE DEF Collection!Alive, Chain!Alive, Collection!ringVars, Chain!ringVars,
            Collection!mysqlVars, Chain!mysqlVars, Collection!budgetVars, Chain!budgetVars
<1>1. Collection!Alive <=> Chain!Alive
  OBVIOUS
<1>2. Collection!ChainGrows => Chain!ChainGrows
  BY DEF Collection!ChainGrows, Chain!ChainGrows
<1>3. Collection!Boot => Chain!Boot
  BY DEF Collection!Boot, Chain!Boot
<1>4. Collection!PostSucceeds => Chain!PostSucceeds
  BY DEF Collection!PostSucceeds, Chain!PostSucceeds
<1>5. Collection!PostFails => Chain!PostFails
  BY DEF Collection!PostFails, Chain!PostFails
<1>6. Collection!CollectBlock => Chain!CollectBlock
  BY DEF Collection!CollectBlock, Chain!CollectBlock
<1>7. Collection!LoopBreaks => Chain!LoopBreaks
  BY DEF Collection!LoopBreaks, Chain!LoopBreaks, Collection!Fault, Chain!Fault
<1>8. Collection!HandleBlock => Chain!HandleBlock
  BY DEF Collection!HandleBlock, Chain!HandleBlock
<1>9. Collection!RecoverBlock => Chain!RecoverBlock
  BY DEF Collection!RecoverBlock, Chain!RecoverBlock
<1>10. Collection!AttemptFails => Chain!AttemptFails
  BY DEF Collection!AttemptFails, Chain!AttemptFails, Collection!Fault, Chain!Fault
<1>11. Collection!PublishBlock => Chain!PublishBlock
  BY DEF Collection!PublishBlock, Chain!PublishBlock
<1>12. Collection!CommitGenesis => Chain!CommitGenesis
  BY DEF Collection!CommitGenesis, Chain!CommitGenesis
<1>13. Collection!CommitBlock => Chain!CommitBlock
  BY DEF Collection!CommitBlock, Chain!CommitBlock
<1>14. Collection!CommitFails => Chain!CommitFails
  BY DEF Collection!CommitFails, Chain!CommitFails, Collection!Fault, Chain!Fault
<1>15. Collection!Crash => Chain!Crash
  BY DEF Collection!Crash, Chain!Crash
<1> QED
  BY <1>1, <1>2, <1>3, <1>4, <1>5, <1>6, <1>7, <1>8, <1>9, <1>10, <1>11, <1>12, <1>13,
     <1>14, <1>15

LEMMA ChainStep == [Next]_vars => [Chain!Next]_(Chain!vars)
<1> SUFFICES ASSUME [Next]_vars PROVE [Chain!Next]_(Chain!vars)
  OBVIOUS
<1> USE ChainActions DEF Chain!Next
<1>1. CASE CollectionOnly
  BY <1>1 DEF CollectionOnly
<1>2. CASE PostSucceeds \/ PostFails
  BY <1>2 DEF PostSucceeds, PostFails
<1>3. CASE AttemptFails \/ PublishBlock \/ CommitBlock \/ Crash
  BY <1>3 DEF AttemptFails, PublishBlock, CommitBlock, Crash
<1>4. CASE UNCHANGED collectionVars
  BY <1>4 DEF collectionVars, Chain!vars, Chain!ringVars, Chain!mysqlVars, Chain!budgetVars
<1>5. \/ CollectionOnly \/ PostSucceeds \/ PostFails \/ AttemptFails \/ PublishBlock
      \/ CommitBlock \/ Crash \/ UNCHANGED collectionVars
  BY DEF Next, vars, ForwardEvent, StageEvent, EsSave, EsSaveRefused, LateSave, EsReturns,
         RedisImport, BatchSizeAdjust
<1> QED BY <1>1, <1>2, <1>3, <1>4, <1>5

-----------------------------------------------------------------------------
\* What the steps of block collection do to the rings and heights.

LEMMA ChainFacts ==
    ASSUME Chain!IInv
    PROVE  /\ collectionRing \in Seq(Blocks) /\ blockRing \in Seq(Blocks)
           /\ Len(collectionRing) \in Nat /\ Len(blockRing) \in Nat
           /\ collected \in Int /\ curNumber \in Int /\ collected >= -1 /\ collected <= MaxBlock
           /\ curNumber >= -1 /\ curNumber <= collected
           /\ transaction \in {"none", "published", "wedged"}
           /\ transaction # "none" => collectionRing # <<>> /\ Chain!Alive
           /\ collectionRing # <<>> =>
                 /\ Len(collectionRing) >= 1
                 /\ Head(collectionRing) = collectionRing[1] /\ Head(collectionRing) \in Blocks
                 /\ curNumber < Head(collectionRing) /\ Head(collectionRing) <= collected
<1> USE DEF Chain!IInv
<1>1. Chain!Blocks = Blocks
  BY DEF Chain!Blocks, Blocks
<1>2. /\ collectionRing \in Seq(Blocks) /\ blockRing \in Seq(Blocks)
      /\ collected \in Blocks \cup {-1} /\ curNumber \in Blocks \cup {-1}
      /\ transaction \in {"none", "published", "wedged"}
  BY <1>1 DEF Chain!TypeOK
<1>3. Len(collectionRing) \in Nat /\ Len(blockRing) \in Nat
  BY <1>2, LenProperties
<1>4. curNumber <= collected
  BY DEF Chain!RingInvariant, Chain!InChainOrder
<1>5. transaction # "none" => collectionRing # <<>> /\ Chain!Alive
  BY DEF Chain!RingInvariant, Chain!DownIsEmpty
<1>6. ASSUME collectionRing # <<>>
      PROVE  /\ Len(collectionRing) >= 1
             /\ Head(collectionRing) = collectionRing[1] /\ Head(collectionRing) \in Blocks
             /\ curNumber < Head(collectionRing) /\ Head(collectionRing) <= collected
  <2>1. /\ Len(collectionRing) >= 1
        /\ Head(collectionRing) = collectionRing[1] /\ Head(collectionRing) \in Blocks
    BY <1>2, <1>3, <1>6, HeadTailProperties, EmptySeq
  <2>2. 1 \in 1..Len(collectionRing)
    BY <1>3, <2>1
  <2>3. curNumber < collectionRing[1] /\ collectionRing[1] <= collected
    BY <2>2 DEF Chain!RingInvariant, Chain!InChainOrder
  <2> QED BY <2>1, <2>3
<1>7. MaxBlock \in Nat
  BY PipelineAssumption
<1>8. collected \in Int /\ curNumber \in Int /\ collected >= -1 /\ collected <= MaxBlock /\ curNumber >= -1
  BY <1>2, <1>7 DEF Blocks
<1> QED BY <1>2, <1>3, <1>4, <1>5, <1>6, <1>8

\* What is to be published is above what was.
LEMMA ReachedIs ==
    ASSUME Chain!IInv
    PROVE  /\ Reached \in Int /\ curNumber <= Reached /\ Reached <= collected
           /\ transaction = "none" => Reached = curNumber
           /\ transaction # "none" => Reached = Head(collectionRing)
  BY ChainFacts DEF Reached, Blocks

LEMMA ToPublishIs ==
    ASSUME Chain!IInv, NEW u \in ToPublish
    PROVE  u \in Blocks /\ Reached < u /\ u <= collected
<1>1. /\ collectionRing \in Seq(Blocks) /\ blockRing \in Seq(Blocks)
      /\ Len(collectionRing) \in Nat /\ Len(blockRing) \in Nat
  BY ChainFacts
<1>2. CASE \E i \in (IF transaction = "none" THEN 1 ELSE 2)..Len(collectionRing) : u = collectionRing[i]
  <2>1. PICK i \in (IF transaction = "none" THEN 1 ELSE 2)..Len(collectionRing) : u = collectionRing[i]
    BY <1>2
  <2>2. i \in 1..Len(collectionRing) /\ (transaction # "none" => 1 < i)
    BY <1>1, <2>1
  <2>3. /\ u \in Blocks /\ curNumber < u /\ u <= collected
    BY <1>1, <2>1, <2>2 DEF Chain!IInv, Chain!RingInvariant, Chain!InChainOrder
  <2>4. ASSUME transaction # "none" PROVE Head(collectionRing) < u
    <3>1. Head(collectionRing) = collectionRing[1] /\ 1 \in 1..Len(collectionRing)
      BY <2>4, ChainFacts
    <3> QED BY <2>1, <2>2, <2>4, <3>1 DEF Chain!IInv, Chain!RingInvariant, Chain!InChainOrder
  <2> QED BY <2>3, <2>4 DEF Reached
<1>3. CASE \E i \in 1..Len(blockRing) : u = blockRing[i]
  <2>1. PICK i \in 1..Len(blockRing) : u = blockRing[i]
    BY <1>3
  <2>2. /\ u \in Blocks /\ curNumber < u /\ u <= collected
    BY <1>1, <2>1 DEF Chain!IInv, Chain!RingInvariant, Chain!InChainOrder
  <2>3. ASSUME transaction # "none" PROVE Head(collectionRing) < u
    <3>1. Head(collectionRing) = collectionRing[1] /\ 1 \in 1..Len(collectionRing)
      BY <2>3, ChainFacts
    <3> QED BY <2>1, <3>1 DEF Chain!IInv, Chain!RingInvariant, Chain!InChainOrder
  <2> QED BY <2>2, <2>3 DEF Reached
<1> QED BY <1>2, <1>3 DEF ToPublish

\* The steps of the handlers of block collection that publish nothing.
ChainMove ==
    \/ Chain!ChainGrows \/ Chain!CollectBlock \/ Chain!LoopBreaks \/ Chain!HandleBlock
    \/ Chain!RecoverBlock \/ Chain!AttemptFails
    \/ Chain!CommitGenesis \/ Chain!CommitBlock \/ Chain!CommitFails
    \/ UNCHANGED Chain!vars

LEMMA ChainMoves ==
    ASSUME Chain!IInv, ChainMove
    PROVE  /\ Chain!Alive' <=> Chain!Alive
           /\ collected' \in Int /\ collected <= collected'
           /\ curNumber' \in Int /\ curNumber <= curNumber'
           /\ dropped \subseteq dropped'
           /\ Reached' \in Int /\ Reached' <= Reached /\ (Reached <= 0 \/ Reached' = Reached)
           /\ \A u \in ToPublish' : u \in ToPublish \/ u = collected + 1
<1> USE DEF Chain!ringVars, Chain!mysqlVars, Chain!budgetVars, Chain!Alive
<1> DEFINE first == IF transaction = "none" THEN 1 ELSE 2
           n == Len(collectionRing)
           m == Len(blockRing)
<1>1. /\ collectionRing \in Seq(Blocks) /\ blockRing \in Seq(Blocks) /\ n \in Nat /\ m \in Nat
      /\ collected \in Int /\ curNumber \in Int /\ curNumber <= Reached /\ Reached \in Int
      /\ transaction # "none" => n >= 1
  BY ChainFacts, ReachedIs
<1> HIDE DEF n, m
<1>2. ToPublish = {collectionRing[i] : i \in first..n} \cup {blockRing[i] : i \in 1..m}
  BY DEF ToPublish, n, m
<1>3. CASE \/ Chain!ChainGrows \/ Chain!LoopBreaks \/ Chain!AttemptFails \/ UNCHANGED Chain!vars
  <2>1. /\ UNCHANGED <<collectionRing, blockRing, transaction, curNumber, collected, dropped>>
        /\ Chain!Alive' <=> Chain!Alive
    BY <1>3 DEF Chain!ChainGrows, Chain!LoopBreaks, Chain!AttemptFails, Chain!vars
  <2>2. Reached' = Reached /\ ToPublish' = ToPublish
    BY <2>1 DEF Reached, ToPublish
  <2> QED BY <1>1, <2>1, <2>2
<1>4. CASE Chain!CommitFails
  <2>1. /\ UNCHANGED <<collectionRing, blockRing, curNumber, collected, dropped, agent>>
        /\ transaction = "published" /\ transaction' = "wedged"
    BY <1>4 DEF Chain!CommitFails
  <2>2. Reached' = Reached /\ ToPublish' = ToPublish
    BY <2>1 DEF Reached, ToPublish
  <2> QED BY <1>1, <2>1, <2>2
<1>5. CASE Chain!CollectBlock
  <2>1. /\ UNCHANGED <<collectionRing, transaction, curNumber, dropped, agent>>
        /\ collected' = collected + 1 /\ collected < chainHead
        /\ blockRing' = Append(blockRing, collected + 1)
    BY <1>5 DEF Chain!CollectBlock
  <2>2. collected + 1 \in Int /\ chainHead \in Blocks
    BY <1>1 DEF Chain!IInv, Chain!TypeOK, Chain!Blocks, Blocks
  <2>3. collected + 1 \in Blocks
    BY <2>1, <2>2, ChainFacts, PipelineAssumption DEF Blocks
  <2>4. /\ Len(blockRing') = m + 1 /\ \A i \in 1..m : blockRing'[i] = blockRing[i]
        /\ blockRing'[m + 1] = collected + 1
    BY <1>1, <2>1, <2>3, AppendProperties DEF m
  <2>5. ToPublish' = {collectionRing[i] : i \in first..n} \cup {blockRing'[i] : i \in 1 .. m + 1}
    BY <2>1, <2>4 DEF ToPublish, n
  <2>6. \A i \in 1 .. m + 1 : i \in 1..m \/ i = m + 1
    BY <1>1
  <2>7. \A u \in ToPublish' : u \in ToPublish \/ u = collected + 1
    BY <1>2, <2>4, <2>5, <2>6
  <2>8. Reached' = Reached
    BY <2>1 DEF Reached
  <2> QED BY <1>1, <2>1, <2>7, <2>8
<1>6. CASE Chain!HandleBlock
  <2>1. /\ UNCHANGED <<collected, transaction, curNumber, dropped, agent>>
        /\ blockRing # <<>> /\ blockRing' = Tail(blockRing)
        /\ collectionRing' = Append(collectionRing, Head(blockRing))
    BY <1>6 DEF Chain!HandleBlock
  <2>2. /\ Head(blockRing) \in Blocks /\ m >= 1 /\ Head(blockRing) = blockRing[1]
        /\ Len(blockRing') = m - 1 /\ \A i \in 1 .. m - 1 : blockRing'[i] = blockRing[i + 1]
    BY <1>1, <2>1, HeadTailProperties, EmptySeq DEF m
  <2>3. /\ Len(collectionRing') = n + 1 /\ \A i \in 1..n : collectionRing'[i] = collectionRing[i]
        /\ collectionRing'[n + 1] = blockRing[1]
    BY <1>1, <2>1, <2>2, AppendProperties DEF n
  <2>4. ToPublish' = {collectionRing'[i] : i \in first .. n + 1} \cup {blockRing'[i] : i \in 1 .. m - 1}
    BY <2>1, <2>2, <2>3 DEF ToPublish
  <2>5. \A i \in first .. n + 1 : (i \in 1..n /\ i \in first..n) \/ i = n + 1
    BY <1>1
  <2>6. \A i \in 1 .. m - 1 : i + 1 \in 1..m
    BY <1>1
  <2>7. 1 \in 1..m
    BY <1>1, <2>2
  <2>8. ToPublish' \subseteq ToPublish
    BY <1>2, <2>2, <2>3, <2>4, <2>5, <2>6, <2>7
  <2>9. Reached' = Reached
    <3>1. CASE transaction = "none"
      BY <2>1, <3>1 DEF Reached
    <3>2. CASE transaction # "none"
      <4>1. collectionRing # <<>> /\ Head(collectionRing) = collectionRing[1]
        BY <3>2, ChainFacts
      <4>2. collectionRing' \in Seq(Blocks) /\ collectionRing' # <<>>
        BY <1>1, <2>1, <2>2, AppendProperties
      <4>3. Head(collectionRing') = collectionRing'[1]
        BY <4>2, HeadTailProperties
      <4>4. 1 \in 1..n
        BY <1>1, <3>2
      <4> QED BY <2>1, <2>3, <3>2, <4>1, <4>3, <4>4 DEF Reached
    <3> QED BY <3>1, <3>2
  <2> QED BY <1>1, <2>1, <2>8, <2>9
<1>7. CASE Chain!RecoverBlock
  <2>1. /\ UNCHANGED <<collected, collectionRing, transaction, curNumber, agent>>
        /\ blockRing # <<>> /\ blockRing' = Tail(blockRing)
        /\ dropped \subseteq dropped'
    BY <1>7 DEF Chain!RecoverBlock
  <2>2. /\ Len(blockRing') = m - 1 /\ \A i \in 1 .. m - 1 : blockRing'[i] = blockRing[i + 1]
    BY <1>1, <2>1, HeadTailProperties, EmptySeq DEF m
  <2>3. ToPublish' = {collectionRing[i] : i \in first..n} \cup {blockRing'[i] : i \in 1 .. m - 1}
    BY <2>1, <2>2 DEF ToPublish, n
  <2>4. \A i \in 1 .. m - 1 : i + 1 \in 1..m
    BY <1>1
  <2>5. ToPublish' \subseteq ToPublish
    BY <1>2, <2>2, <2>3, <2>4
  <2>6. Reached' = Reached
    BY <2>1 DEF Reached
  <2> QED BY <1>1, <2>1, <2>5, <2>6
<1>8. CASE Chain!CommitGenesis \/ Chain!CommitBlock
  <2>1. /\ UNCHANGED <<collected, blockRing, dropped, agent>>
        /\ transaction = "published" /\ transaction' = "none"
        /\ collectionRing' = Tail(collectionRing)
    BY <1>8 DEF Chain!CommitGenesis, Chain!CommitBlock
  <2>2. /\ collectionRing # <<>> /\ Head(collectionRing) \in Blocks /\ Reached = Head(collectionRing)
    BY <2>1, ChainFacts, ReachedIs
  <2>3. /\ Len(collectionRing') = n - 1
        /\ \A i \in 1 .. n - 1 : collectionRing'[i] = collectionRing[i + 1]
    BY <1>1, <2>1, <2>2, HeadTailProperties, EmptySeq DEF n
  <2>4. ToPublish' = {collectionRing'[i] : i \in 1 .. n - 1} \cup {blockRing[i] : i \in 1..m}
    BY <2>1, <2>3 DEF ToPublish, m
  <2>5. \A i \in 1 .. n - 1 : i + 1 \in first..n
    BY <1>1, <2>1
  <2>6. ToPublish' \subseteq ToPublish
    BY <1>2, <2>3, <2>4, <2>5
  <2>7. Reached' = curNumber'
    BY <2>1 DEF Reached
  <2>8. CASE Chain!CommitGenesis
    <3>1. curNumber' = curNumber /\ Reached = 0
      BY <2>2, <2>8 DEF Chain!CommitGenesis
    <3> QED BY <1>1, <2>1, <2>6, <2>7, <3>1
  <2>9. CASE Chain!CommitBlock
    <3>1. curNumber' = Reached
      BY <2>2, <2>9 DEF Chain!CommitBlock
    <3> QED BY <1>1, <2>1, <2>6, <2>7, <3>1
  <2> QED BY <1>8, <2>8, <2>9
<1> QED BY <1>3, <1>4, <1>5, <1>6, <1>7, <1>8 DEF ChainMove

\* Publishing takes the first block that is neither published nor given up on.
LEMMA PublishesNext ==
    ASSUME Chain!IInv, Chain!PublishBlock
    PROVE  /\ collectionRing # <<>> /\ transaction = "none" /\ Chain!Alive /\ Chain!Alive'
           /\ Reached' = Head(collectionRing) /\ Reached = curNumber
           /\ UNCHANGED <<collected, curNumber, dropped>>
           /\ Head(collectionRing) \in ToPublish
           /\ \A u \in ToPublish' : u \in ToPublish /\ Head(collectionRing) < u
           /\ \A b \in curNumber + 1 .. Head(collectionRing) - 1 : b \in dropped \/ b = 0
<1> DEFINE h == Head(collectionRing)
           n == Len(collectionRing)
<1>1. /\ collectionRing # <<>> /\ transaction = "none" /\ transaction' = "published"
      /\ UNCHANGED <<collected, curNumber, dropped, collectionRing, blockRing, agent>>
      /\ Chain!Alive /\ Chain!Alive'
  BY DEF Chain!PublishBlock, Chain!Alive, Chain!ringVars, Chain!mysqlVars
<1>2. /\ h = collectionRing[1] /\ h \in Blocks /\ n >= 1 /\ n \in Nat /\ h \in Int
      /\ collected \in Int /\ curNumber \in Int /\ curNumber < h /\ h <= collected
      /\ collectionRing \in Seq(Blocks) /\ blockRing \in Seq(Blocks) /\ Len(blockRing) \in Nat
  BY <1>1, ChainFacts DEF Blocks
<1>3. 1 \in 1..n
  BY <1>2
<1>4. h \in ToPublish
  BY <1>1, <1>2, <1>3 DEF ToPublish
<1>5. ToPublish' = {collectionRing[i] : i \in 2..n} \cup {blockRing[i] : i \in 1..Len(blockRing)}
  BY <1>1 DEF ToPublish
<1>6. ToPublish = {collectionRing[i] : i \in 1..n} \cup {blockRing[i] : i \in 1..Len(blockRing)}
  BY <1>1 DEF ToPublish
<1>7. ASSUME NEW i \in 2..n PROVE i \in 1..n /\ h < collectionRing[i]
  <2>1. i \in 1..n /\ 1 < i
    BY <1>2
  <2> QED BY <1>2, <1>3, <2>1 DEF Chain!IInv, Chain!RingInvariant, Chain!InChainOrder
<1>8. ASSUME NEW i \in 1..Len(blockRing) PROVE h < blockRing[i]
  BY <1>2, <1>3 DEF Chain!IInv, Chain!RingInvariant, Chain!InChainOrder
<1>9. \A u \in ToPublish' : u \in ToPublish /\ h < u
  BY <1>5, <1>6, <1>7, <1>8
<1>10. ASSUME NEW b \in curNumber + 1 .. h - 1 PROVE b \in dropped \/ b = 0
  <2>1. b \in Int /\ b < h /\ b \in curNumber + 1 .. collected
    BY <1>2
  <2>2. agent # "down"
    BY <1>1 DEF Chain!Alive
  <2>3. \/ \E i \in 1..n : collectionRing[i] = b
        \/ \E i \in 1..Len(blockRing) : blockRing[i] = b
        \/ b \in dropped \/ b = 0
    BY <2>1, <2>2 DEF Chain!IInv, Chain!RingInvariant, Chain!NothingLostInRings
  <2>4. ASSUME NEW i \in 1..n PROVE collectionRing[i] # b
    <3>1. i = 1 \/ i \in 2..n
      BY <1>2
    <3> QED BY <1>2, <1>7, <2>1, <3>1
  <2>5. \A i \in 1..Len(blockRing) : blockRing[i] # b
    BY <1>2, <1>8, <2>1
  <2> QED BY <2>3, <2>4, <2>5
<1>11. Reached' = h /\ Reached = curNumber
  BY <1>1 DEF Reached
<1> QED BY <1>1, <1>4, <1>9, <1>10, <1>11

-----------------------------------------------------------------------------
\* What the types say.

LEMMA ServicesAre == Services = {"block", "tx"} /\ "block" \in Services /\ "tx" \in Services
  BY DEF Services

LEMMA StoresTyped ==
    ASSUME Typed
    PROVE  /\ nextId \in Nat \ {0}
           /\ openTx \subseteq 1 .. nextId - 1 /\ txBak \subseteq 1 .. nextId - 1
           /\ Stage["block"] = blockStage /\ Stage["tx"] = transactionStage
           /\ blockStage \subseteq Blocks /\ transactionStage \subseteq 1 .. nextId - 1
           /\ es["block"] \subseteq Blocks /\ es["tx"] \subseteq 1 .. nextId - 1
           /\ excused["block"] \subseteq Blocks /\ excused["tx"] \subseteq 1 .. nextId - 1
           /\ \A s \in Services : Stage[s] \subseteq Nat /\ es[s] \subseteq Nat /\ IsFiniteSet(es[s])
<1>1. /\ nextId \in Nat \ {0}
      /\ openTx \subseteq 1 .. nextId - 1 /\ txBak \subseteq 1 .. nextId - 1
      /\ blockStage \subseteq Blocks /\ transactionStage \subseteq 1 .. nextId - 1
      /\ es \in Docs([block |-> Blocks, tx |-> 1 .. nextId - 1])
      /\ excused \in Docs([block |-> Blocks, tx |-> 1 .. nextId - 1])
  BY DEF Typed, TypeOK
<1>2. /\ es["block"] \subseteq Blocks /\ es["tx"] \subseteq 1 .. nextId - 1
      /\ excused["block"] \subseteq Blocks /\ excused["tx"] \subseteq 1 .. nextId - 1
  BY <1>1 DEF Docs
<1>3. Stage["block"] = blockStage /\ Stage["tx"] = transactionStage
  BY DEF Stage
<1>4. Blocks \subseteq Nat /\ 1 .. nextId - 1 \subseteq Nat
  BY <1>1, PipelineAssumption DEF Blocks
<1>5. IsFiniteSet(Blocks) /\ IsFiniteSet(1 .. nextId - 1)
  <2>1. 0 \in Int /\ MaxBlock \in Int /\ 1 \in Int /\ nextId - 1 \in Int
    BY <1>1, PipelineAssumption
  <2> QED BY <2>1, FS_Interval DEF Blocks
<1>6. IsFiniteSet(es["block"]) /\ IsFiniteSet(es["tx"])
  BY <1>2, <1>5, FS_Subset
<1>7. ASSUME NEW s \in Services PROVE Stage[s] \subseteq Nat /\ es[s] \subseteq Nat /\ IsFiniteSet(es[s])
  BY <1>1, <1>2, <1>3, <1>4, <1>6, ServicesAre
<1> QED BY <1>1, <1>2, <1>3, <1>7

LEMMA QueueTyped ==
    ASSUME Typed, Importing
    PROVE  /\ complementRing \in Seq(Event) /\ persistenceRing \in Seq(Event)
           /\ Unstaged \in Seq(Event) /\ Queue \in Seq(Event)
<1>1. complementRing \in Seq(Event) /\ persistenceRing \in Seq(Event)
  BY DEF Typed
<1>2. CASE import = "idle"
  BY <1>1, <1>2, QueueMoves DEF Unstaged, Queue
<1>3. CASE import # "idle"
  <2>1. persistenceRing # <<>>
    BY <1>3 DEF Importing
  <2>2. Tail(persistenceRing) \in Seq(Event)
    BY <1>1, <2>1, TakeHead
  <2> QED BY <1>1, <1>3, <2>2, QueueMoves DEF Unstaged, Queue
<1> QED BY <1>2, <1>3

LEMMA AddDocsIs ==
    ASSUME Typed, NEW docs, NEW s \in Services
    PROVE  /\ Import!AddDocs(docs, s)[s] = es[s] \cup docs
           /\ \A t \in Services : t # s => Import!AddDocs(docs, s)[t] = es[t]
           /\ Import!AddDocs(docs, s) = [block |-> Import!AddDocs(docs, s)["block"], tx |-> Import!AddDocs(docs, s)["tx"]]
<1>1. es \in [block : SUBSET Blocks, tx : SUBSET (1 .. nextId - 1)]
  BY DEF Typed, TypeOK, Docs
<1>2. DOMAIN es = {"block", "tx"} /\ es = [t \in {"block", "tx"} |-> es[t]]
  BY <1>1
<1>3. Import!AddDocs(docs, s) = [t \in {"block", "tx"} |-> IF t = s THEN es[s] \cup docs ELSE es[t]]
  BY <1>2 DEF Import!AddDocs
<1> QED BY <1>3, ServicesAre

-----------------------------------------------------------------------------
\* What the parts of the invariant depend on.

LEMMA OrderFrame ==
    ASSUME InOrder, Queue' = Queue, \A s \in Services : Stage'[s] \subseteq Stage[s]
    PROVE  InOrder'
<1>1. Ascending(Queue')
  BY DEF InOrder
<1>2. ASSUME NEW s \in Services, NEW d \in Stage'[s], NEW e \in Nat, Holds(Queue', s, e) PROVE d < e
  BY <1>2 DEF InOrder
<1> QED BY <1>1, <1>2 DEF InOrder

LEMMA OrderEmpty ==
    ASSUME Queue' = <<>>, \A s \in Services : Stage'[s] = {}
    PROVE  InOrder'
<1>1. Ascending(Queue')
  BY DEF Ascending
<1> QED BY <1>1 DEF InOrder

LEMMA StillBehind ==
    ASSUME NEW n \in Nat, NEW x \in Int, NEW y \in Int, x <= y
    PROVE  /\ n <= x => n <= y
           /\ n <= x + 1 \/ n <= 1 => n <= y + 1 \/ n <= 1
  OBVIOUS

LEMMA PublishedFrame ==
    ASSUME Chain!IInv, Published, ChainMove,
           \A n \in Blocks : n \in blockStage' \/ Holds(Queue', "block", n)
                                => n \in blockStage \/ Holds(Queue, "block", n)
    PROVE  Published'
<1> SUFFICES ASSUME NEW n \in Blocks, n \in blockStage' \/ Holds(Queue', "block", n)
             PROVE  /\ n <= collected'
                    /\ n = 0 \/ n <= Reached'
                    /\ \A u \in ToPublish' : n < u
                    /\ dropped' = {} => n <= curNumber' + 1 \/ n <= 1
  BY DEF Published
<1>1. n \in Nat
  BY PipelineAssumption DEF Blocks
<1>2. /\ collected' \in Int /\ collected <= collected' /\ collected \in Int
      /\ curNumber' \in Int /\ curNumber <= curNumber' /\ curNumber \in Int
      /\ dropped \subseteq dropped'
      /\ Reached' \in Int /\ (Reached <= 0 \/ Reached' = Reached) /\ Reached \in Int
      /\ \A u \in ToPublish' : u \in ToPublish \/ u = collected + 1
  BY ChainMoves, ChainFacts, ReachedIs
<1>3. /\ n <= collected
      /\ n = 0 \/ n <= Reached
      /\ \A u \in ToPublish : n < u
      /\ dropped = {} => n <= curNumber + 1 \/ n <= 1
  BY DEF Published
<1>4. \A u \in ToPublish' : n < u
  BY <1>1, <1>2, <1>3
<1>5. dropped' = {} => n <= curNumber' + 1 \/ n <= 1
  BY <1>1, <1>2, <1>3, StillBehind
<1>6. n <= collected'
  BY <1>1, <1>2, <1>3, StillBehind
<1>7. n = 0 \/ n <= Reached'
  BY <1>1, <1>2, <1>3
<1> QED BY <1>4, <1>5, <1>6, <1>7

LEMMA PublishedEmpty ==
    ASSUME Queue' = <<>>, blockStage' = {}
    PROVE  Published'
  BY HoldsNothing DEF Published

LEMMA CoveredFrame ==
    ASSUME Chain!IInv, Covered, ChainMove, Rows' = Rows,
           \A s \in Services :
              /\ es[s] \subseteq es'[s]
              /\ excused[s] \subseteq excused'[s]
              /\ \A d : d \in Stage[s] \/ Holds(Queue, s, d)
                          => d \in es'[s] \cup excused'[s] \cup Stage'[s] \/ Holds(Queue', s, d)
    PROVE  Covered'
<1> SUFFICES ASSUME Chain!Alive', NEW s \in Services, NEW d \in Wanted'[s]
             PROVE  d \in es'[s] \cup Excepted'[s] \cup Stage'[s] \/ Holds(Queue', s, d)
  BY DEF Covered
<1>1. /\ Chain!Alive /\ dropped \subseteq dropped'
      /\ Reached' \in Int /\ Reached' <= Reached /\ Reached \in Int
  BY ChainMoves, ReachedIs
<1>2. d \in Wanted[s]
  <2>1. CASE s = "block"
    BY <1>1, <2>1 DEF Wanted
  <2>2. CASE s = "tx"
    BY <2>2 DEF Wanted
  <2> QED BY <2>1, <2>2, ServicesAre
<1>3. d \in es[s] \cup Excepted[s] \cup Stage[s] \/ Holds(Queue, s, d)
  BY <1>1, <1>2 DEF Covered
<1>4. Excepted[s] \subseteq Excepted'[s] /\ excused'[s] \subseteq Excepted'[s]
  <2>1. CASE s = "block"
    BY <1>1, <2>1 DEF Excepted
  <2>2. CASE s = "tx"
    BY <2>2 DEF Excepted
  <2> QED BY <2>1, <2>2, ServicesAre
<1> QED BY <1>3, <1>4

LEMMA HolesFrame ==
    ASSUME Holes, Rows' = Rows, dropped \subseteq dropped',
           \A s \in Services : es'[s] = es[s] /\ excused[s] \subseteq excused'[s]
    PROVE  Holes'
<1> SUFFICES ASSUME NEW s \in Services, NEW d \in Claims'[s]
             PROVE  d \in es'[s] \cup Excepted'[s] \/ \A x \in es'[s] : x < d
  BY DEF Holes
<1>1. CASE s = "block"
  BY <1>1 DEF Holes, Claims, Excepted
<1>2. CASE s = "tx"
  BY <1>2 DEF Holes, Claims, Excepted
<1> QED BY <1>1, <1>2, ServicesAre

LEMMA AheadFrame ==
    ASSUME Chain!IInv, Typed, Published, Ahead, dropped \subseteq dropped',
           curNumber' \in Int, curNumber <= curNumber', es'["block"] \subseteq Blocks,
           \A n \in es'["block"] : n \in es["block"] \cup blockStage \/ n <= curNumber
    PROVE  Ahead'
<1> SUFFICES ASSUME dropped' = {}, NEW n \in es'["block"]
             PROVE  n <= curNumber' + 1 \/ n <= 1
  BY DEF Ahead
<1>1. n \in Blocks /\ n \in Nat /\ curNumber \in Int /\ dropped = {}
  BY ChainFacts, PipelineAssumption DEF Blocks
<1>2. n <= curNumber + 1 \/ n <= 1
  <2>1. CASE n \in es["block"]
    BY <1>1, <2>1 DEF Ahead
  <2>2. CASE n \in blockStage
    BY <1>1, <2>2 DEF Published
  <2>3. CASE n <= curNumber
    BY <1>1, <2>3
  <2> QED BY <2>1, <2>2, <2>3
<1> QED BY <1>1, <1>2, StillBehind

-----------------------------------------------------------------------------
\* The steps, one after the other.

Downstream ==
    Typed /\ Importing /\ InOrder /\ Published /\ Covered /\ Holes /\ Ahead

LEMMA TypedFrame ==
    ASSUME Typed, UNCHANGED <<complementRing, persistenceRing, stageVars, maxBlockNumber,
                              batchSize, importVars, storeVars>>,
           nextId' \in Nat \ {0}, 1 .. nextId - 1 \subseteq 1 .. nextId' - 1,
           openTx' \subseteq 1 .. nextId' - 1, txBak' \subseteq 1 .. nextId' - 1
    PROVE  Typed'
<1>1. UNCHANGED <<complementRing, persistenceRing, blockStage, transactionStage, maxBlockNumber,
                  batchSize, import, pending, late, es, redis, excused, refusals>>
  BY DEF stageVars, importVars, storeVars
<1>2. \A ring \in {complementRing, persistenceRing} :
          /\ Len(ring) <= RingSize
          /\ Nums(ring) \subseteq Blocks
          /\ Ids(ring) \subseteq 1 .. nextId' - 1
  BY DEF Typed, TypeOK
<1>3. transactionStage \subseteq 1 .. nextId' - 1
  BY DEF Typed, TypeOK
<1>4. /\ es \in Docs([block |-> Blocks, tx |-> 1 .. nextId' - 1])
      /\ excused \in Docs([block |-> Blocks, tx |-> 1 .. nextId' - 1])
  BY DEF Typed, TypeOK, Docs
<1>5. /\ blockStage \subseteq Blocks
      /\ maxBlockNumber \in Blocks
      /\ batchSize \in {CatchUpSize, BehindSize}
      /\ import \in {"idle", "waiting", "returned"}
      /\ pending \subseteq Services
      /\ late \subseteq Services
      /\ redis \subseteq Blocks
      /\ refusals \in 0..MaxRefusal
      /\ complementRing \in Seq(Event) /\ persistenceRing \in Seq(Event)
  BY DEF Typed, TypeOK
<1>6. TypeOK'
  BY <1>1, <1>2, <1>3, <1>4, <1>5 DEF TypeOK
<1> QED BY <1>1, <1>5, <1>6 DEF Typed

LEMMA QueueFrame ==
    ASSUME UNCHANGED <<complementRing, persistenceRing, import>>
    PROVE  Queue' = Queue
  BY DEF Queue, Unstaged

\* Steps of block collection that leave the stores and the queue alone.
LEMMA MoveStep ==
    ASSUME PipelineInv, ChainMove, Typed', Rows' = Rows,
           transaction' = "none" => openTx' = {},
           UNCHANGED <<complementRing, persistenceRing, stageVars, maxBlockNumber, batchSize,
                       importVars, storeVars>>
    PROVE  Downstream'
<1> USE DEF PipelineInv
<1>1. /\ UNCHANGED <<complementRing, persistenceRing, blockStage, transactionStage,
                     import, pending, late, es, excused>>
      /\ Queue' = Queue /\ Stage' = Stage
  BY QueueFrame DEF stageVars, importVars, storeVars, Stage
<1>2. /\ Chain!Alive' <=> Chain!Alive
      /\ dropped \subseteq dropped' /\ curNumber' \in Int /\ curNumber <= curNumber'
  BY ChainMoves
<1>3. Importing'
  BY <1>1, <1>2 DEF Importing
<1>4. InOrder'
  BY <1>1, OrderFrame
<1>5. Published'
  BY <1>1, PublishedFrame
<1>6. Covered'
  BY <1>1, CoveredFrame
<1>7. Holes'
  BY <1>1, <1>2, HolesFrame
<1>8. Ahead'
  <2>1. es'["block"] \subseteq Blocks
    BY <1>1, StoresTyped
  <2>2. \A n \in es'["block"] : n \in es["block"]
    BY <1>1
  <2> QED BY <1>2, <2>1, <2>2, AheadFrame
<1> QED BY <1>3, <1>4, <1>5, <1>6, <1>7, <1>8 DEF Downstream

LEMMA QuietStep ==
    ASSUME PipelineInv, ChainMove, UNCHANGED downstreamVars,
           transaction' = "none" => transaction = "none"
    PROVE  Downstream'
<1>1. UNCHANGED <<nextId, openTx, txBak, complementRing, persistenceRing, stageVars,
                  maxBlockNumber, batchSize, importVars, storeVars>>
  BY DEF downstreamVars, idVars
<1>2. Typed'
  BY <1>1, TypedFrame, StoresTyped DEF PipelineInv
<1>3. Rows' = Rows
  BY <1>1 DEF Rows
<1>4. transaction' = "none" => openTx' = {}
  BY <1>1 DEF PipelineInv, Importing
<1> QED BY <1>1, <1>2, <1>3, <1>4, MoveStep

\* While the process is down, or checks itself, nothing is on its way.
LEMMA DownStep ==
    ASSUME PipelineInv, ~Chain!Alive, ~Chain!Alive', UNCHANGED downstreamVars,
           UNCHANGED <<curNumber, dropped, transaction>>
    PROVE  Downstream'
<1> USE DEF PipelineInv
<1>1. UNCHANGED <<nextId, openTx, txBak, complementRing, persistenceRing, blockStage,
                  transactionStage, maxBlockNumber, batchSize, import, pending, late,
                  es, redis, excused, refusals>>
  BY DEF downstreamVars, idVars, stageVars, importVars, storeVars
<1>2. Typed'
  BY <1>1, TypedFrame, StoresTyped DEF stageVars, importVars, storeVars
<1>3. /\ complementRing = <<>> /\ persistenceRing = <<>> /\ import = "idle"
      /\ blockStage = {} /\ transactionStage = {} /\ late = {}
  BY DEF Importing
<1>4. Queue' = <<>> /\ blockStage' = {} /\ \A s \in Services : Stage'[s] = {}
  BY <1>1, <1>3, QueueMoves, EmptySeq, ServicesAre DEF Queue, Unstaged, Stage
<1>5. Importing'
  BY <1>1, <1>3 DEF Importing
<1>6. InOrder' /\ Published'
  BY <1>4, OrderEmpty, PublishedEmpty
<1>7. Covered'
  BY DEF Covered
<1>8. Holes'
  BY <1>1, HolesFrame DEF Rows
<1>9. Ahead'
  BY <1>1 DEF Ahead
<1> QED BY <1>2, <1>5, <1>6, <1>7, <1>8, <1>9 DEF Downstream

LEMMA CollectionStep == ASSUME PipelineInv, CollectionOnly PROVE Downstream'
<1>1. UNCHANGED downstreamVars
  BY DEF CollectionOnly
<1>2. CASE Chain!Boot
  <2>1. ~Chain!Alive /\ ~Chain!Alive' /\ UNCHANGED <<curNumber, dropped, transaction>>
    BY <1>2 DEF Chain!Boot, Chain!Alive, Chain!mysqlVars
  <2> QED BY <1>1, <2>1, DownStep
<1>3. CASE \/ Chain!ChainGrows \/ Chain!CollectBlock \/ Chain!LoopBreaks
           \/ Chain!HandleBlock \/ Chain!RecoverBlock \/ Chain!CommitFails
  <2>1. ChainMove
    BY <1>3 DEF ChainMove
  <2>2. transaction' = "none" => transaction = "none"
    BY <1>3 DEF Chain!ChainGrows, Chain!CollectBlock, Chain!LoopBreaks, Chain!HandleBlock,
                Chain!RecoverBlock, Chain!CommitFails
  <2> QED BY <1>1, <2>1, <2>2, QuietStep
<1> QED BY <1>2, <1>3, ChainActions DEF CollectionOnly

LEMMA PostFailsStep == ASSUME PipelineInv, PostFails PROVE Downstream'
<1>1. ~Chain!Alive /\ ~Chain!Alive' /\ UNCHANGED <<curNumber, dropped, transaction>>
  BY ChainActions DEF PostFails, Chain!PostFails, Chain!Alive, Chain!mysqlVars
<1>2. UNCHANGED downstreamVars
  BY DEF PostFails
<1> QED BY <1>1, <1>2, DownStep

LEMMA StutterStep == ASSUME PipelineInv, UNCHANGED vars PROVE Downstream'
<1>1. ChainMove /\ UNCHANGED transaction /\ UNCHANGED downstreamVars
  BY DEF ChainMove, vars, collectionVars, downstreamVars, Chain!vars, Chain!ringVars,
         Chain!mysqlVars, Chain!budgetVars
<1> QED BY <1>1, QuietStep

LEMMA AttemptStep == ASSUME PipelineInv, AttemptFails PROVE Downstream'
<1>1. Chain!AttemptFails /\ ChainMove
  BY ChainActions DEF AttemptFails, ChainMove
<1>2. UNCHANGED <<openTx, txBak, complementRing, persistenceRing, stageVars,
                  maxBlockNumber, batchSize, importVars, storeVars>>
  BY DEF AttemptFails
<1>3. nextId' \in Nat \ {0} /\ 1 .. nextId - 1 \subseteq 1 .. nextId' - 1
  <2> DEFINE k == Cardinality({Head(collectionRing)} \cap TxBlocks)
  <2>1. k \in Nat
    BY FS_Singleton, FS_Intersection, FS_CardinalityType
  <2>2. nextId' \in {nextId, nextId + k} /\ nextId \in Nat \ {0}
    BY StoresTyped DEF AttemptFails, PipelineInv
  <2> HIDE DEF k
  <2>3. PICK n \in {nextId, nextId + k} : nextId' = n
    BY <2>2
  <2>4. n \in Nat \ {0} /\ 1 .. nextId - 1 \subseteq 1 .. n - 1
    BY <2>1, <2>2
  <2> QED BY <2>3, <2>4
<1>4. Typed'
  BY <1>2, <1>3, TypedFrame, StoresTyped DEF PipelineInv
<1>5. transaction' = "none" => openTx' = {}
  BY <1>1, <1>2 DEF PipelineInv, Importing, Chain!AttemptFails
<1> QED BY <1>1, <1>2, <1>4, <1>5, MoveStep DEF Rows

LEMMA CommitStep == ASSUME PipelineInv, CommitBlock PROVE Downstream'
<1>1. ChainMove
  BY ChainActions DEF CommitBlock, ChainMove
<1>2. /\ UNCHANGED <<nextId, complementRing, persistenceRing, stageVars,
                     maxBlockNumber, batchSize, importVars, storeVars>>
      /\ txBak' = txBak \cup openTx /\ openTx' = {}
  BY DEF CommitBlock
<1>3. Typed'
  BY <1>2, TypedFrame, StoresTyped DEF PipelineInv
<1> QED BY <1>1, <1>2, <1>3, MoveStep DEF Rows

LEMMA ChainStill ==
    ASSUME PipelineInv, UNCHANGED collectionVars
    PROVE  /\ ChainMove /\ (Chain!Alive' <=> Chain!Alive)
           /\ UNCHANGED <<transaction, dropped, curNumber>>
           /\ curNumber \in Int
  BY ChainFacts DEF PipelineInv, collectionVars, ChainMove, Chain!vars, Chain!ringVars,
     Chain!mysqlVars, Chain!budgetVars, Chain!Alive

\* Steps that move events and batches and leave block collection and ES alone.
LEMMA FlowStep ==
    ASSUME PipelineInv, UNCHANGED <<collectionVars, idVars, es>>, Typed', Importing', InOrder',
           \A s \in Services : excused[s] \subseteq excused'[s],
           \A n \in Blocks : n \in blockStage' \/ Holds(Queue', "block", n)
                                => n \in blockStage \/ Holds(Queue, "block", n),
           \A s \in Services : \A d :
              d \in Stage[s] \/ Holds(Queue, s, d)
                 => d \in es[s] \cup excused'[s] \cup Stage'[s] \/ Holds(Queue', s, d)
    PROVE  Downstream'
<1>1. ChainMove /\ UNCHANGED <<dropped, curNumber>> /\ es' = es /\ Rows' = Rows /\ curNumber \in Int
  BY ChainStill DEF idVars, Rows
<1>2. Published'
  BY <1>1, PublishedFrame DEF PipelineInv
<1>3. Covered'
  BY <1>1, CoveredFrame DEF PipelineInv
<1>4. Holes'
  BY <1>1, HolesFrame DEF PipelineInv
<1>5. Ahead'
  BY <1>1 DEF PipelineInv, Ahead
<1> QED BY <1>2, <1>3, <1>4, <1>5 DEF Downstream

\* ... the same events in the queue, and the same documents staged.
LEMMA SameFlowStep ==
    ASSUME PipelineInv, UNCHANGED <<collectionVars, idVars, es, excused, stageVars>>,
           Queue' = Queue, Typed', Importing'
    PROVE  Downstream'
<1>1. Stage' = Stage /\ blockStage' = blockStage /\ es' = es /\ excused' = excused
  BY DEF Stage, stageVars
<1>2. InOrder'
  BY <1>1, OrderFrame DEF PipelineInv
<1> QED BY <1>1, <1>2, FlowStep

\* Rings of events keep their types.
RingTyped(ring, n) ==
    /\ ring \in Seq(Event)
    /\ Len(ring) <= RingSize /\ Nums(ring) \subseteq Blocks /\ Ids(ring) \subseteq 1 .. n

LEMMA RingsTyped ==
    TypeOK /\ complementRing \in Seq(Event) /\ persistenceRing \in Seq(Event)
       => RingTyped(complementRing, nextId - 1) /\ RingTyped(persistenceRing, nextId - 1)
  BY DEF TypeOK, RingTyped

LEMMA TailTyped ==
    ASSUME NEW ring, NEW n, RingTyped(ring, n), ring # <<>>
    PROVE  /\ RingTyped(Tail(ring), n) /\ Head(ring) \in Event
           /\ Head(ring).num \in Blocks /\ Head(ring).tx \subseteq 1 .. n
<1>1. /\ ring \in Seq(Event) /\ Tail(ring) \in Seq(Event) /\ Head(ring) \in Event
      /\ Head(ring) = ring[1] /\ 1 \in 1..Len(ring)
      /\ Len(ring) \in Nat /\ Len(Tail(ring)) = Len(ring) - 1
      /\ \A i \in 1..Len(Tail(ring)) : Tail(ring)[i] = ring[i + 1]
  BY HeadTailProperties, LenProperties, EmptySeq DEF RingTyped
<1>2. DOMAIN ring = 1..Len(ring) /\ DOMAIN Tail(ring) = 1..Len(Tail(ring))
  BY <1>1
<1>3. ASSUME NEW i \in 1..Len(Tail(ring)) PROVE \E j \in 1..Len(ring) : Tail(ring)[i] = ring[j]
  BY <1>1
<1>4. Nums(Tail(ring)) \subseteq Nums(ring) /\ Ids(Tail(ring)) \subseteq Ids(ring)
  BY <1>2, <1>3 DEF Nums, Ids
<1>5. Head(ring).num \in Blocks
  BY <1>1, CarriedTyped
<1>6. Head(ring).tx \subseteq Ids(ring)
  BY <1>1, <1>2 DEF Ids
<1>7. RingSize \in Nat
  BY PipelineAssumption
<1>8. Len(Tail(ring)) <= RingSize
  BY <1>1, <1>7 DEF RingTyped
<1> QED BY <1>1, <1>4, <1>5, <1>6, <1>8 DEF RingTyped

LEMMA AppendTyped ==
    ASSUME NEW ring, NEW n, RingTyped(ring, n), Len(ring) < RingSize,
           NEW e \in Event, e.tx \subseteq 1 .. n
    PROVE  RingTyped(Append(ring, e), n)
<1> USE DEF RingTyped
<1> DEFINE r == Append(ring, e)
<1>1. /\ r \in Seq(Event) /\ Len(r) = Len(ring) + 1 /\ Len(ring) \in Nat
      /\ \A i \in 1..Len(ring) : r[i] = ring[i]
      /\ r[Len(ring) + 1] = e
  BY AppendProperties, LenProperties
<1> HIDE DEF r
<1>2. DOMAIN ring = 1..Len(ring) /\ DOMAIN r = 1..Len(r)
  BY <1>1
<1>3. \A i \in 1..Len(r) : i \in 1..Len(ring) \/ i = Len(ring) + 1
  BY <1>1
<1>4. \A i \in 1..Len(r) : r[i] = e \/ \E j \in 1..Len(ring) : r[i] = ring[j]
  BY <1>1, <1>3
<1>5. e.num \in Blocks
  BY CarriedTyped
<1>6. Nums(r) \subseteq Nums(ring) \cup {e.num} /\ Ids(r) \subseteq Ids(ring) \cup e.tx
  BY <1>2, <1>4 DEF Nums, Ids
<1>7. Len(r) <= RingSize
  BY <1>1, PipelineAssumption
<1> QED BY <1>1, <1>5, <1>6, <1>7 DEF r

LEMMA ForwardStep == ASSUME PipelineInv, ForwardEvent PROVE Downstream'
<1> USE DEF PipelineInv
<1>1. /\ UNCHANGED <<collectionVars, idVars, stageVars, maxBlockNumber, batchSize,
                     importVars, storeVars>>
      /\ complementRing # <<>> /\ Len(persistenceRing) < RingSize
      /\ complementRing' = Tail(complementRing)
      /\ persistenceRing' = Append(persistenceRing, Head(complementRing))
  BY DEF ForwardEvent
<1>2. /\ UNCHANGED <<nextId, openTx, txBak, blockStage, transactionStage, import, pending, late,
                     es, redis, excused, refusals, maxBlockNumber, batchSize>>
      /\ Stage' = Stage
  BY <1>1 DEF idVars, stageVars, importVars, storeVars, Stage
<1>3. RingTyped(complementRing, nextId - 1) /\ RingTyped(persistenceRing, nextId - 1)
  BY RingsTyped DEF Typed
<1>4. /\ RingTyped(complementRing', nextId - 1) /\ RingTyped(persistenceRing', nextId - 1)
      /\ Head(complementRing) \in Event
  BY <1>1, <1>3, TailTyped, AppendTyped
<1>5. Typed'
  BY <1>2, <1>4 DEF Typed, TypeOK, RingTyped
<1>6. Queue' = Queue /\ (import # "idle" => Head(persistenceRing') = Head(persistenceRing))
      /\ persistenceRing' # <<>>
  <2> DEFINE e == Head(complementRing)
  <2>1. /\ persistenceRing \in Seq(Event) /\ complementRing \in Seq(Event) /\ Unstaged \in Seq(Event)
        /\ persistenceRing' # <<>>
    BY <1>1, <1>4, QueueTyped, AppendProperties
  <2>2. Append(Unstaged, e) \o Tail(complementRing) = Queue
    BY <1>1, <2>1, QueueMoves DEF Queue
  <2>3. CASE import = "idle"
    <3>1. Unstaged' = Append(Unstaged, e)
      BY <1>1, <1>2, <2>3 DEF Unstaged
    <3> QED BY <1>1, <2>1, <2>2, <2>3, <3>1 DEF Queue
  <2>4. CASE import # "idle"
    <3>1. persistenceRing # <<>>
      BY <2>4 DEF Importing
    <3>2. /\ Head(Append(persistenceRing, e)) = Head(persistenceRing)
          /\ Tail(Append(persistenceRing, e)) = Append(Tail(persistenceRing), e)
      BY <1>4, <2>1, <3>1, HeadTailAppend
    <3>3. Unstaged' = Append(Unstaged, e)
      BY <1>1, <1>2, <2>4, <3>2 DEF Unstaged
    <3> QED BY <1>1, <2>1, <2>2, <3>2, <3>3 DEF Queue
  <2> QED BY <2>3, <2>4
<1>7. Importing'
  <2>1. UNCHANGED transaction /\ (Chain!Alive' <=> Chain!Alive)
    BY <1>1, ChainStill
  <2>2. Chain!Alive
    BY ChainActions DEF ForwardEvent
  <2> QED BY <1>2, <1>6, <2>1, <2>2 DEF Importing
<1>8. UNCHANGED <<collectionVars, idVars, es, excused, stageVars>>
  BY <1>1, <1>2
<1> QED BY <1>5, <1>6, <1>7, <1>8, SameFlowStep

LEMMA ReturnStep == ASSUME PipelineInv, EsReturns \/ BatchSizeAdjust PROVE Downstream'
<1> USE DEF PipelineInv
<1>1. /\ UNCHANGED <<collectionVars, idVars, complementRing, persistenceRing, stageVars,
                     maxBlockNumber, storeVars, pending, late>>
      /\ batchSize' \in {batchSize, CatchUpSize, BehindSize}
      /\ UNCHANGED import \/ (import = "waiting" /\ import' = "returned")
  BY DEF EsReturns, BatchSizeAdjust, importVars, storeVars, Import!Return
<1>2. /\ UNCHANGED <<nextId, openTx, txBak, blockStage, transactionStage, es, redis, excused, refusals>>
      /\ Stage' = Stage
  BY <1>1 DEF idVars, stageVars, storeVars, Stage
<1>3. Typed'
  BY <1>1, <1>2 DEF Typed, TypeOK
<1>4. Queue' = Queue
  BY <1>1 DEF Queue, Unstaged
<1>5. Importing'
  <2>1. UNCHANGED transaction /\ (Chain!Alive' <=> Chain!Alive)
    BY <1>1, ChainStill
  <2> QED BY <1>1, <1>2, <2>1 DEF Importing
<1>6. UNCHANGED <<collectionVars, idVars, es, excused, stageVars>>
  BY <1>1, <1>2
<1> QED BY <1>3, <1>4, <1>5, <1>6, SameFlowStep

LEMMA RedisStep == ASSUME PipelineInv, RedisImport PROVE Downstream'
<1> USE DEF PipelineInv
<1>1. /\ UNCHANGED <<collectionVars, idVars, complementRing, batchSize, es, refusals>>
      /\ import = "returned" /\ import' = "idle"
      /\ redis' = redis \cup blockStage
      /\ late' = late \cup pending
      /\ pending' = {}
      /\ excused' = [s \in Services |-> excused[s] \cup (IF s \in pending THEN Stage[s] ELSE {})]
      /\ blockStage' = {}
      /\ transactionStage' = {}
      /\ maxBlockNumber' = Head(persistenceRing).num
      /\ persistenceRing' = Tail(persistenceRing)
      /\ Chain!Alive
  BY ChainActions DEF RedisImport, Import!Clear
<1>2. /\ UNCHANGED <<nextId, openTx, txBak>>
      /\ \A s \in Services : Stage'[s] = {}
  BY <1>1, ServicesAre DEF idVars, Stage
<1>3. persistenceRing # <<>>
  BY <1>1 DEF Importing
<1>4. RingTyped(persistenceRing', nextId - 1) /\ maxBlockNumber' \in Blocks
  BY <1>1, <1>3, RingsTyped, TailTyped DEF Typed
<1>5. /\ excused' = [block |-> excused'["block"], tx |-> excused'["tx"]]
      /\ excused'["block"] \subseteq excused["block"] \cup blockStage
      /\ excused'["tx"] \subseteq excused["tx"] \cup transactionStage
  <2>1. excused' = [s \in {"block", "tx"} |-> excused'[s]]
    BY <1>1, ServicesAre
  <2> QED BY <1>1, <2>1, ServicesAre, StoresTyped
<1>6. excused' \in Docs([block |-> Blocks, tx |-> 1 .. nextId - 1])
  <2>1. excused'["block"] \subseteq Blocks /\ excused'["tx"] \subseteq 1 .. nextId - 1
    BY <1>5, StoresTyped
  <2> QED BY <1>5, <2>1 DEF Docs
<1>7. Typed'
  BY <1>1, <1>2, <1>4, <1>6 DEF Typed, TypeOK, RingTyped
<1>8. Queue' = Queue
  BY <1>1 DEF Queue, Unstaged
<1>9. Importing'
  <2>1. UNCHANGED transaction /\ Chain!Alive'
    BY <1>1, ChainStill
  <2> QED BY <1>1, <1>2, <2>1 DEF Importing
<1>10. InOrder'
  BY <1>2, <1>8, OrderFrame
<1>11. \A s \in Services : excused[s] \subseteq excused'[s]
  BY <1>1
<1>12. \A s \in Services : Stage[s] \subseteq es[s] \cup excused'[s]
  BY <1>1 DEF Importing
<1> QED BY <1>1, <1>7, <1>8, <1>9, <1>10, <1>11, <1>12, FlowStep

\* An event is staged: the head of the queue joins the documents before it.
LEMMA StageStep == ASSUME PipelineInv, StageEvent PROVE Downstream'
<1> USE DEF PipelineInv
<1> DEFINE event == Head(persistenceRing)
<1>1. /\ UNCHANGED <<collectionVars, idVars, complementRing, batchSize, late, storeVars>>
      /\ import = "idle" /\ persistenceRing # <<>> /\ Chain!Alive
      /\ blockStage' = blockStage \cup {event.num}
      /\ transactionStage' = transactionStage \cup event.tx
      /\ \/ /\ maxBlockNumber' = event.num
            /\ persistenceRing' = Tail(persistenceRing)
            /\ UNCHANGED <<import, pending>>
         \/ /\ import' = "waiting" /\ pending' = Services
            /\ UNCHANGED <<maxBlockNumber, persistenceRing>>
  BY ChainActions DEF StageEvent, storeVars, Import!Collect, Import!Call
<1>2. UNCHANGED <<nextId, openTx, txBak, es, redis, excused, refusals>>
  BY <1>1 DEF idVars, storeVars
<1>3. RingTyped(persistenceRing, nextId - 1)
  BY RingsTyped DEF Typed
<1>4. /\ RingTyped(Tail(persistenceRing), nextId - 1) /\ event \in Event
      /\ event.num \in Blocks /\ event.tx \subseteq 1 .. nextId - 1
  BY <1>1, <1>3, TailTyped
<1> HIDE DEF event
<1>5. RingTyped(persistenceRing', nextId - 1) /\ maxBlockNumber' \in Blocks
      /\ import' \in {"idle", "waiting", "returned"} /\ pending' \subseteq Services
  BY <1>1, <1>3, <1>4 DEF Typed, TypeOK
<1>6. blockStage' \subseteq Blocks /\ transactionStage' \subseteq 1 .. nextId - 1
  BY <1>1, <1>4, StoresTyped
<1>7. Typed'
  BY <1>1, <1>2, <1>5, <1>6 DEF Typed, TypeOK, RingTyped
<1>8. ASSUME NEW s \in Services PROVE Stage'[s] = Stage[s] \cup Carried(event)[s]
  <2>1. CASE s = "block"
    BY <1>1, <1>4, <2>1, CarriedTyped DEF Stage
  <2>2. CASE s = "tx"
    BY <1>1, <1>4, <2>2, CarriedTyped DEF Stage
  <2> QED BY <2>1, <2>2, ServicesAre
<1>9. Queue # <<>> /\ Queue \in Seq(Event) /\ Head(Queue) = event /\ Queue' = Tail(Queue)
  <2>1. /\ persistenceRing \in Seq(Event) /\ complementRing \in Seq(Event) /\ Queue \in Seq(Event)
        /\ Unstaged = persistenceRing
    BY <1>1, QueueTyped DEF Unstaged
  <2>2. /\ Queue # <<>> /\ Head(Queue) = event
        /\ Tail(Queue) = Tail(persistenceRing) \o complementRing
    BY <1>1, <2>1, QueueMoves DEF Queue, event
  <2>3. Unstaged' = Tail(persistenceRing)
    BY <1>1 DEF Unstaged
  <2> QED BY <1>1, <2>1, <2>2, <2>3 DEF Queue
<1>10. /\ \A s, d : Holds(Queue, s, d) <=> d \in Carried(event)[s] \/ Holds(Queue', s, d)
       /\ Ascending(Queue')
       /\ \A s \in Services : \A d \in Carried(event)[s] : \A e : Holds(Queue', s, e) => d < e
  BY <1>9, TakeHead DEF InOrder
<1>11. Importing'
  <2>1. UNCHANGED transaction /\ Chain!Alive'
    BY <1>1, ChainStill
  <2>2. import' = "idle" => pending' = {}
    BY <1>1 DEF Importing
  <2>3. ASSUME import' # "idle"
        PROVE  /\ persistenceRing' # <<>>
               /\ \A s \in Services : /\ Carried(Head(persistenceRing'))[s] \subseteq Stage'[s]
                                      /\ s \in pending'
    BY <1>1, <1>8, <2>3 DEF event
  <2> QED BY <1>2, <2>1, <2>2, <2>3 DEF Importing
<1>12. InOrder'
  <2>1. ASSUME NEW s \in Services, NEW d \in Stage'[s], NEW e \in Nat, Holds(Queue', s, e)
        PROVE  d < e
    <3>1. Holds(Queue, s, e)
      BY <1>10, <2>1
    <3> QED BY <1>8, <1>10, <2>1, <3>1 DEF InOrder
  <2> QED BY <1>10, <2>1 DEF InOrder
<1>13. ASSUME NEW n \in Blocks, n \in blockStage' \/ Holds(Queue', "block", n)
       PROVE  n \in blockStage \/ Holds(Queue, "block", n)
  BY <1>1, <1>4, <1>10, <1>13, CarriedTyped
<1>14. ASSUME NEW s \in Services, NEW d, d \in Stage[s] \/ Holds(Queue, s, d)
       PROVE  d \in es[s] \cup excused'[s] \cup Stage'[s] \/ Holds(Queue', s, d)
  BY <1>8, <1>10, <1>14
<1>15. \A s \in Services : excused[s] \subseteq excused'[s]
  BY <1>2
<1>16. UNCHANGED <<collectionVars, idVars, es>>
  BY <1>1, <1>2
<1> QED BY <1>7, <1>11, <1>12, <1>13, <1>14, <1>15, <1>16, FlowStep

\* A request built from the staged documents keeps holes above.
LEMMA StageRequest ==
    ASSUME PipelineInv, Chain!Alive, NEW s \in Services, NEW landed, landed \subseteq Stage[s],
           NEW after, Excepted[s] \cup Torn(Stage[s], landed) \subseteq after
    PROVE  \A d \in Claims[s] :
              d \in (es[s] \cup landed) \cup after \/ \A x \in es[s] \cup landed : x < d
<1> USE DEF PipelineInv
<1>1. Claims[s] \subseteq Nat
  <2>1. CASE s = "block"
    BY <2>1 DEF Claims
  <2>2. CASE s = "tx"
    BY <2>2, StoresTyped DEF Claims, Rows
  <2> QED BY <2>1, <2>2, ServicesAre
<1>2. ASSUME NEW d \in Claims[s], NEW l \in Stage[s], d <= l
      PROVE  d \in es[s] \cup Excepted[s] \cup Stage[s] \/ (d \in Nat /\ Holds(Queue, s, d))
  <2>1. d \in Wanted[s]
    <3>1. CASE s = "block"
      <4>1. l \in blockStage /\ d \in 1..MaxBlock /\ l \in Blocks
        BY <1>2, <3>1, StoresTyped DEF Claims
      <4>2. l = 0 \/ l <= Reached
        BY <4>1 DEF Published
      <4>3. d \in 1..Reached
        BY <1>2, <4>1, <4>2, ReachedIs, PipelineAssumption DEF Blocks
      <4> QED BY <3>1, <4>3 DEF Wanted
    <3>2. CASE s = "tx"
      BY <3>2 DEF Claims, Wanted
    <3> QED BY <3>1, <3>2, ServicesAre
  <2> QED BY <1>1, <2>1 DEF Covered
<1> DEFINE waiting == {d \in Nat : Holds(Queue, s, d)}
           claims == Claims[s]
           docs == es[s]
           before == Excepted[s]
           request == Stage[s]
<1>3. claims \subseteq Nat /\ docs \subseteq Nat /\ request \subseteq Nat /\ waiting \subseteq Nat
  BY <1>1, StoresTyped
<1>4. \A d \in claims : d \in docs \cup before \/ \A x \in docs : x < d
  BY DEF Holes
<1>5. \A d \in request : \A e \in waiting : d < e
  BY DEF InOrder
<1>6. \A d \in claims : \A l \in request :
         d <= l => d \in docs \cup before \cup request \cup waiting
  BY <1>2
<1>7. landed \subseteq request /\ before \cup Torn(request, landed) \subseteq after
  OBVIOUS
<1> HIDE DEF waiting, claims, docs, before, request, PipelineInv
<1>8. SafeLanding(claims, docs, before, request, waiting, landed, after)
  BY <1>3, <1>4, <1>5, <1>6, <1>7 DEF SafeLanding
<1>9. \A d \in claims : d \in (docs \cup landed) \cup after \/ \A x \in docs \cup landed : x < d
  BY <1>8, LandingKeepsHoles
<1> QED BY <1>9 DEF claims, docs

(***************************************************************************)
(* A request lands, perhaps not all of it.  What is exempt afterwards has  *)
(* what the request lacks below what landed.                               *)
(***************************************************************************)
LEMMA LandStep ==
    ASSUME PipelineInv, Chain!Alive, NEW s \in Services, NEW landed, landed \subseteq Stage[s],
           UNCHANGED <<collectionVars, idVars, stageVars>>, Queue' = Queue, Typed', Importing',
           es' = Import!AddDocs(landed, s),
           \A t \in Services : excused[t] \subseteq excused'[t],
           Torn(Stage[s], landed) \subseteq excused'[s]
    PROVE  Downstream'
<1> USE DEF PipelineInv
<1>1. /\ ChainMove /\ UNCHANGED <<dropped, curNumber>> /\ curNumber \in Int
      /\ Rows' = Rows /\ Stage' = Stage /\ blockStage' = blockStage
  BY ChainStill DEF idVars, Rows, stageVars, Stage
<1>2. /\ es'[s] = es[s] \cup landed
      /\ \A t \in Services : t # s => es'[t] = es[t]
  BY AddDocsIs
<1>3. InOrder'
  BY <1>1, OrderFrame
<1>4. Published'
  BY <1>1, PublishedFrame
<1>5. Covered'
  <2>1. \A t \in Services : es[t] \subseteq es'[t]
    BY <1>2
  <2> QED BY <1>1, <2>1, CoveredFrame
<1>6. Ahead'
  <2>1. es'["block"] \subseteq Blocks /\ es'["block"] \subseteq es["block"] \cup blockStage
    <3>1. CASE s = "block"
      BY <1>2, <3>1, StoresTyped
    <3>2. CASE s # "block"
      BY <1>2, <3>2, StoresTyped, ServicesAre
    <3> QED BY <3>1, <3>2
  <2> QED BY <1>1, <2>1, AheadFrame
<1>7. ASSUME NEW t \in Services PROVE Claims'[t] = Claims[t] /\ Excepted[t] \subseteq Excepted'[t]
                                      /\ excused'[t] \subseteq Excepted'[t] /\ Claims[t] \subseteq Nat
  <2>1. CASE t = "block"
    BY <1>1, <2>1 DEF Claims, Excepted
  <2>2. CASE t = "tx"
    BY <1>1, <2>2, StoresTyped DEF Claims, Excepted, Rows
  <2> QED BY <2>1, <2>2, ServicesAre
<1>8. \A d \in Claims[s] : d \in (es[s] \cup landed) \cup Excepted'[s]
                               \/ \A x \in es[s] \cup landed : x < d
  <2>1. Excepted[s] \cup Torn(Stage[s], landed) \subseteq Excepted'[s]
    BY <1>7
  <2> QED BY <2>1, StageRequest
<1>9. \A d \in Claims[s] : d \in es'[s] \cup Excepted'[s] \/ \A x \in es'[s] : x < d
  BY <1>2, <1>8
<1>10. Holes'
  <2> SUFFICES ASSUME NEW t \in Services, NEW d \in Claims'[t]
               PROVE  d \in es'[t] \cup Excepted'[t] \/ \A x \in es'[t] : x < d
    BY DEF Holes
  <2>1. CASE t = s
    BY <1>7, <1>9, <2>1
  <2>2. CASE t # s
    BY <1>2, <1>7, <2>2 DEF Holes
  <2> QED BY <2>1, <2>2
<1> QED BY <1>3, <1>4, <1>5, <1>6, <1>10 DEF Downstream

LEMMA LandedTyped ==
    ASSUME Typed, NEW s \in Services, NEW landed, landed \subseteq Stage[s]
    PROVE  Import!AddDocs(landed, s) \in Docs([block |-> Blocks, tx |-> 1 .. nextId - 1])
<1>1. /\ Import!AddDocs(landed, s)[s] = es[s] \cup landed
      /\ \A t \in Services : t # s => Import!AddDocs(landed, s)[t] = es[t]
      /\ Import!AddDocs(landed, s) = [block |-> Import!AddDocs(landed, s)["block"], tx |-> Import!AddDocs(landed, s)["tx"]]
  BY AddDocsIs
<1>2. Import!AddDocs(landed, s)["block"] \subseteq Blocks /\ Import!AddDocs(landed, s)["tx"] \subseteq 1 .. nextId - 1
  <2>1. CASE s = "block"
    BY <1>1, <2>1, StoresTyped, ServicesAre
  <2>2. CASE s = "tx"
    BY <1>1, <2>2, StoresTyped, ServicesAre
  <2> QED BY <2>1, <2>2, ServicesAre
<1> QED BY <1>1, <1>2 DEF Docs

LEMMA ExcusedIs ==
    ASSUME Typed, NEW s \in Services, NEW refused, refused \subseteq Stage[s],
           excused' = [excused EXCEPT ![s] = @ \cup refused]
    PROVE  /\ excused'[s] = excused[s] \cup refused
           /\ \A t \in Services : t # s => excused'[t] = excused[t]
           /\ excused' \in Docs([block |-> Blocks, tx |-> 1 .. nextId - 1])
<1>1. excused \in [block : SUBSET Blocks, tx : SUBSET (1 .. nextId - 1)]
  BY DEF Typed, TypeOK, Docs
<1>2. DOMAIN excused = {"block", "tx"} /\ excused = [t \in {"block", "tx"} |-> excused[t]]
  BY <1>1
<1>3. excused' = [t \in {"block", "tx"} |-> IF t = s THEN excused[s] \cup refused ELSE excused[t]]
  BY <1>2
<1>4. excused'["block"] \subseteq Blocks /\ excused'["tx"] \subseteq 1 .. nextId - 1
  <2>1. CASE s = "block"
    BY <1>3, <2>1, StoresTyped
  <2>2. CASE s = "tx"
    BY <1>3, <2>2, StoresTyped
  <2> QED BY <2>1, <2>2, ServicesAre
<1>5. excused' = [block |-> excused'["block"], tx |-> excused'["tx"]]
  BY <1>3
<1>6. excused' \in Docs([block |-> Blocks, tx |-> 1 .. nextId - 1])
  BY <1>4, <1>5 DEF Docs
<1> QED BY <1>3, <1>6, ServicesAre

\* A service gets its request through, to the last document or not.
LEMMA SaveStep ==
    ASSUME PipelineInv, NEW s \in Services, EsSave(s) \/ EsSaveRefused(s) \/ LateSave(s)
    PROVE  Downstream'
<1> USE DEF PipelineInv
<1>1. PICK refused \in SUBSET Stage[s] :
         /\ UNCHANGED <<collectionVars, idVars, complementRing, persistenceRing, stageVars,
                        maxBlockNumber, batchSize, import, redis>>
         /\ Chain!Alive
         /\ es' = Import!AddDocs(Stage[s] \ refused, s)
         /\ \/ excused' = [excused EXCEPT ![s] = @ \cup refused]
            \/ excused' = excused /\ refused = {}
         /\ refusals' \in 0..MaxRefusal
         /\ \/ pending' = pending \ {s} /\ late' = late
            \/ pending' = pending /\ late' \in {late, late \ {s}}
  <2>1. Chain!Alive /\ refusals \in 0..MaxRefusal
    BY ChainActions DEF EsSave, EsSaveRefused, LateSave, Typed, TypeOK
  <2>2. CASE EsSave(s)
    <3>1. {} \in SUBSET Stage[s] /\ Stage[s] \ {} = Stage[s]
      OBVIOUS
    <3> QED BY <2>1, <2>2, <3>1 DEF EsSave, Import!Save
  <2>3. CASE EsSaveRefused(s)
    <3>1. refusals' \in 0..MaxRefusal
      BY <2>1, <2>3, PipelineAssumption DEF EsSaveRefused
    <3> QED BY <2>1, <2>3, <3>1 DEF EsSaveRefused
  <2>4. CASE LateSave(s)
    <3>1. {} \in SUBSET Stage[s] /\ Stage[s] \ {} = Stage[s]
      OBVIOUS
    <3> QED BY <2>1, <2>4, <3>1 DEF LateSave, Import!LateSave
  <2> QED BY <2>2, <2>3, <2>4
<1> DEFINE landed == Stage[s] \ refused
<1>2. /\ UNCHANGED <<nextId, openTx, txBak, blockStage, transactionStage>> /\ Stage' = Stage
      /\ Queue' = Queue
  BY <1>1, QueueFrame DEF idVars, stageVars, Stage
<1>3. /\ es'[s] = es[s] \cup landed
      /\ \A t \in Services : t # s => es'[t] = es[t]
  BY <1>1, AddDocsIs
<1>4. /\ refused \subseteq excused'[s] /\ excused[s] \subseteq excused'[s]
      /\ \A t \in Services : t # s => excused'[t] = excused[t]
      /\ excused' \in Docs([block |-> Blocks, tx |-> 1 .. nextId - 1])
  <2>1. CASE excused' = [excused EXCEPT ![s] = @ \cup refused]
    <3>1. refused \subseteq Stage[s] /\ Typed
      OBVIOUS
    <3>2. /\ excused'[s] = excused[s] \cup refused
          /\ \A t \in Services : t # s => excused'[t] = excused[t]
          /\ excused' \in Docs([block |-> Blocks, tx |-> 1 .. nextId - 1])
      BY <2>1, <3>1, ExcusedIs
    <3> QED BY <3>2
  <2>2. CASE excused' = excused /\ refused = {}
    BY <2>2 DEF Typed, TypeOK
  <2> QED BY <1>1, <2>1, <2>2
<1>5. es' \in Docs([block |-> Blocks, tx |-> 1 .. nextId - 1])
  BY <1>1, LandedTyped
<1>6. Typed'
  BY <1>1, <1>2, <1>4, <1>5 DEF Typed, TypeOK
<1>7. Importing'
  <2>1. UNCHANGED transaction /\ Chain!Alive'
    BY <1>1, ChainStill
  <2>2. import' = "idle" => pending' = {}
    BY <1>1 DEF Importing
  <2>3. ASSUME import' # "idle", NEW t \in Services, t \notin pending'
        PROVE  Stage'[t] \subseteq es'[t] \cup excused'[t]
    <3>1. CASE t = s
      BY <1>2, <1>3, <1>4, <3>1
    <3>2. CASE t # s
      BY <1>1, <1>2, <1>3, <1>4, <2>3, <3>2 DEF Importing
    <3> QED BY <3>1, <3>2
  <2> QED BY <1>1, <1>2, <2>1, <2>2, <2>3 DEF Importing
<1>8. Torn(Stage[s], landed) \subseteq excused'[s]
  BY <1>4, NothingTorn, StoresTyped
<1>9. \A t \in Services : excused[t] \subseteq excused'[t]
  BY <1>4
<1>10. landed \subseteq Stage[s] /\ es' = Import!AddDocs(landed, s)
  BY <1>1
<1>11. UNCHANGED <<collectionVars, idVars, stageVars>> /\ Chain!Alive
  BY <1>1
<1> HIDE DEF landed
<1> QED BY <1>2, <1>6, <1>7, <1>8, <1>9, <1>10, <1>11, LandStep

-----------------------------------------------------------------------------
\* The queue and the rings hold the same events.

LEMMA HoldsConcat ==
    ASSUME NEW a \in Seq(Event), NEW b \in Seq(Event), NEW s, NEW d
    PROVE  Holds(a \o b, s, d) <=> Holds(a, s, d) \/ Holds(b, s, d)
<1> DEFINE n == Len(a)
           m == Len(b)
           q == a \o b
<1>1. /\ n \in Nat /\ m \in Nat /\ Len(q) = n + m
      /\ \A i \in 1 .. n + m : q[i] = IF i <= n THEN a[i] ELSE b[i - n]
  BY ConcatProperties, LenProperties
<1> HIDE DEF n, m, q
<1>2. ASSUME Holds(q, s, d) PROVE Holds(a, s, d) \/ Holds(b, s, d)
  <2>1. PICK i \in 1 .. n + m : d \in Carried(q[i])[s]
    BY <1>1, <1>2 DEF Holds
  <2>2. CASE i <= n
    <3>1. i \in 1..n /\ q[i] = a[i]
      BY <1>1, <2>2
    <3> QED BY <2>1, <3>1 DEF Holds, n
  <2>3. CASE ~(i <= n)
    <3>1. i - n \in 1..m /\ q[i] = b[i - n]
      BY <1>1, <2>3
    <3> QED BY <2>1, <3>1 DEF Holds, m
  <2> QED BY <2>2, <2>3
<1>3. ASSUME Holds(a, s, d) PROVE Holds(q, s, d)
  <2>1. PICK i \in 1..n : d \in Carried(a[i])[s]
    BY <1>3 DEF Holds, n
  <2>2. i \in 1 .. n + m /\ q[i] = a[i]
    BY <1>1
  <2> QED BY <1>1, <2>1, <2>2 DEF Holds
<1>4. ASSUME Holds(b, s, d) PROVE Holds(q, s, d)
  <2>1. PICK i \in 1..m : d \in Carried(b[i])[s]
    BY <1>4 DEF Holds, m
  <2>2. i + n \in 1 .. n + m /\ ~(i + n <= n) /\ (i + n) - n = i
    BY <1>1
  <2>3. q[i + n] = b[i]
    BY <1>1, <2>2
  <2> QED BY <1>1, <2>1, <2>2, <2>3 DEF Holds
<1> QED BY <1>2, <1>3, <1>4 DEF q

LEMMA RingHolds ==
    ASSUME NEW ring \in Seq(Event), NEW d
    PROVE  /\ Holds(ring, "block", d) <=> d \in Nums(ring)
           /\ Holds(ring, "tx", d) <=> d \in Ids(ring)
<1>1. DOMAIN ring = 1..Len(ring)
  OBVIOUS
<1>2. \A i \in 1..Len(ring) : ring[i] \in Event
  OBVIOUS
<1>3. \A i \in 1..Len(ring) : /\ Carried(ring[i])["block"] = {ring[i].num}
                              /\ Carried(ring[i])["tx"] = ring[i].tx
  BY <1>2, CarriedTyped
<1>4. Holds(ring, "block", d) <=> d \in Nums(ring)
  BY <1>1, <1>3 DEF Holds, Nums
<1>5. Holds(ring, "tx", d) <=> d \in Ids(ring)
  BY <1>1, <1>3 DEF Holds, Ids
<1> QED BY <1>4, <1>5

LEMMA QueueHolds ==
    ASSUME Typed, Importing, NEW s \in Services, NEW d
    PROVE  /\ Holds(Queue, s, d) => Holds(persistenceRing, s, d) \/ Holds(complementRing, s, d)
           /\ Holds(complementRing, s, d) => Holds(Queue, s, d)
           /\ Holds(persistenceRing, s, d) => d \in Stage[s] \/ Holds(Queue, s, d)
<1>1. complementRing \in Seq(Event) /\ persistenceRing \in Seq(Event) /\ Unstaged \in Seq(Event)
  BY QueueTyped
<1>2. Holds(Queue, s, d) <=> Holds(Unstaged, s, d) \/ Holds(complementRing, s, d)
  BY <1>1, HoldsConcat DEF Queue
<1>3. CASE import = "idle"
  BY <1>2, <1>3 DEF Unstaged
<1>4. CASE import # "idle"
  <2>1. persistenceRing # <<>> /\ Carried(Head(persistenceRing))[s] \subseteq Stage[s]
    BY <1>4 DEF Importing
  <2>2. Holds(persistenceRing, s, d) <=>
           d \in Carried(Head(persistenceRing))[s] \/ Holds(Tail(persistenceRing), s, d)
    BY <1>1, <2>1, TakeHead
  <2> QED BY <1>2, <1>4, <2>1, <2>2 DEF Unstaged
<1> QED BY <1>3, <1>4

\* Ids on the queue were given before.
LEMMA QueueIds ==
    ASSUME Typed, Importing, NEW d, Holds(Queue, "tx", d)
    PROVE  d \in 1 .. nextId - 1
<1>1. complementRing \in Seq(Event) /\ persistenceRing \in Seq(Event)
  BY QueueTyped
<1>2. d \in Ids(persistenceRing) \cup Ids(complementRing)
  BY <1>1, QueueHolds, RingHolds, ServicesAre
<1> QED BY <1>2 DEF Typed, TypeOK

-----------------------------------------------------------------------------
\* The analysed block is published.
LEMMA PublishStep == ASSUME PipelineInv, PublishBlock PROVE Downstream'
<1> USE DEF PipelineInv
<1> DEFINE h == Head(collectionRing)
<1>1. /\ UNCHANGED <<txBak, persistenceRing, stageVars, maxBlockNumber, batchSize,
                     importVars, storeVars>>
      /\ Len(complementRing) < RingSize
      /\ Chain!PublishBlock
      /\ openTx' = IF h \in TxBlocks THEN {nextId} ELSE {}
      /\ nextId' = nextId + Cardinality(openTx')
      /\ complementRing' = Append(complementRing, [num |-> h, tx |-> openTx'])
  BY ChainActions DEF PublishBlock
<1>2. /\ UNCHANGED <<blockStage, transactionStage, maxBlockNumber, batchSize, import, pending,
                     late, es, redis, excused, refusals>>
      /\ Stage' = Stage
  BY <1>1 DEF stageVars, importVars, storeVars, Stage
<1>3. /\ transaction = "none" /\ Chain!Alive /\ Chain!Alive'
      /\ Reached' = h /\ Reached = curNumber
      /\ UNCHANGED <<collected, curNumber, dropped>>
      /\ h \in ToPublish
      /\ \A u \in ToPublish' : u \in ToPublish /\ h < u
      /\ \A b \in curNumber + 1 .. h - 1 : b \in dropped \/ b = 0
  BY <1>1, PublishesNext
<1>4. /\ h \in Blocks /\ h \in Nat /\ curNumber \in Int /\ curNumber < h
      /\ collected \in Int /\ h <= collected
  BY <1>3, ToPublishIs, ChainFacts, PipelineAssumption DEF Blocks
<1> HIDE DEF h
<1>5. PICK ids, next : ids = openTx' /\ next = nextId' /\ next = nextId + Cardinality(ids)
  BY <1>1
<1>6. /\ nextId \in Nat \ {0} /\ next \in Nat \ {0} /\ ids \subseteq {nextId}
      /\ ids \subseteq 1 .. next - 1 /\ 1 .. nextId - 1 \subseteq 1 .. next - 1
      /\ ids \subseteq Nat \ {0}
  <2>1. nextId \in Nat \ {0}
    BY StoresTyped
  <2>2. CASE ids = {nextId}
    <3>1. next = nextId + 1
      BY <1>5, <2>2, FS_Singleton
    <3> QED BY <2>1, <2>2, <3>1
  <2>3. CASE ids = {}
    <3>1. next = nextId + 0
      BY <1>5, <2>3, FS_EmptySet
    <3> QED BY <2>1, <2>3, <3>1
  <2> QED BY <1>1, <1>5, <2>2, <2>3
<1> DEFINE new == [num |-> h, tx |-> ids]
<1>7. new \in Event /\ new.tx = ids /\ Carried(new)["block"] = {h} /\ Carried(new)["tx"] = ids
  <2>1. new \in Event /\ new.num = h /\ new.tx = ids
    BY <1>4, <1>6 DEF Event
  <2> QED BY <2>1, CarriedTyped
<1>8. complementRing' = Append(complementRing, new)
  BY <1>1, <1>5
<1> HIDE DEF new
<1>9. RingTyped(complementRing', next - 1) /\ RingTyped(persistenceRing, next - 1)
  <2>1. RingTyped(complementRing, next - 1) /\ RingTyped(persistenceRing, next - 1)
    <3>1. RingTyped(complementRing, nextId - 1) /\ RingTyped(persistenceRing, nextId - 1)
      BY RingsTyped DEF Typed
    <3> QED BY <1>6, <3>1 DEF RingTyped
  <2>2. RingTyped(Append(complementRing, new), next - 1)
    BY <1>1, <1>6, <1>7, <2>1, AppendTyped
  <2> QED BY <1>8, <2>1, <2>2
<1>10. Typed'
  <2>1. /\ transactionStage \subseteq 1 .. next - 1 /\ txBak \subseteq 1 .. next - 1
        /\ es \in Docs([block |-> Blocks, tx |-> 1 .. next - 1])
        /\ excused \in Docs([block |-> Blocks, tx |-> 1 .. next - 1])
    BY <1>6 DEF Typed, TypeOK, Docs
  <2>2. /\ blockStage \subseteq Blocks
        /\ maxBlockNumber \in Blocks
        /\ batchSize \in {CatchUpSize, BehindSize}
        /\ import \in {"idle", "waiting", "returned"}
        /\ pending \subseteq Services
        /\ late \subseteq Services
        /\ redis \subseteq Blocks
        /\ refusals \in 0..MaxRefusal
    BY DEF Typed, TypeOK
  <2>3. TypeOK'
    BY <1>1, <1>2, <1>5, <1>6, <1>9, <2>1, <2>2 DEF TypeOK, RingTyped
  <2> QED BY <1>1, <1>9, <2>3 DEF Typed, RingTyped
<1>11. Importing'
  <2>1. transaction' = "published"
    BY <1>1 DEF Chain!PublishBlock
  <2> QED BY <1>1, <1>2, <1>3, <2>1 DEF Importing
<1>12. Queue \in Seq(Event) /\ Queue' = Append(Queue, new)
  <2>1. Unstaged \in Seq(Event) /\ complementRing \in Seq(Event) /\ Queue \in Seq(Event)
    BY QueueTyped
  <2>2. Unstaged \o Append(complementRing, new) = Append(Unstaged \o complementRing, new)
    BY <1>7, <2>1, QueueMoves
  <2>3. Unstaged' = Unstaged
    BY <1>1, <1>2 DEF Unstaged
  <2> QED BY <1>8, <2>1, <2>2, <2>3 DEF Queue
\* What was published before is behind the new event.
<1>13. ASSUME NEW s \in Services, NEW d, d \in Stage[s] \/ Holds(Queue, s, d), NEW e \in Carried(new)[s]
       PROVE  d < e
  <2>1. CASE s = "block"
    <3>1. d \in blockStage \/ Holds(Queue, "block", d)
      BY <1>13, <2>1, StoresTyped
    <3>2. d \in Blocks
      BY <1>12, <3>1, StoresTyped, HoldsTyped, ServicesAre
    <3> QED BY <1>3, <1>7, <1>13, <2>1, <3>1, <3>2 DEF Published
  <2>2. CASE s = "tx"
    <3>1. d \in 1 .. nextId - 1
      BY <1>13, <2>2, StoresTyped, QueueIds
    <3>2. e = nextId
      BY <1>6, <1>7, <1>13, <2>2
    <3> QED BY <1>6, <3>1, <3>2
  <2> QED BY <2>1, <2>2, ServicesAre
<1>14. \A s, d : Holds(Queue', s, d) <=> Holds(Queue, s, d) \/ d \in Carried(new)[s]
  BY <1>7, <1>12, PutLast
<1>15. InOrder'
  <2>1. Ascending(Queue')
    <3>1. Ascending(Queue)
      BY DEF InOrder
    <3>2. \A s \in Services : \A d, e : Holds(Queue, s, d) /\ e \in Carried(new)[s] => d < e
      BY <1>13
    <3> QED BY <1>7, <1>12, <3>1, <3>2, PutLast
  <2>2. ASSUME NEW s \in Services, NEW d \in Stage'[s], NEW e \in Nat, Holds(Queue', s, e)
        PROVE  d < e
    <3>1. d \in Stage[s]
      BY <1>2
    <3>2. CASE Holds(Queue, s, e)
      BY <3>1, <3>2 DEF InOrder
    <3>3. CASE e \in Carried(new)[s]
      BY <1>13, <3>1, <3>3
    <3> QED BY <1>14, <2>2, <3>2, <3>3
  <2> QED BY <2>1, <2>2 DEF InOrder
<1>16. Published'
  <2> SUFFICES ASSUME NEW n \in Blocks, n \in blockStage' \/ Holds(Queue', "block", n)
               PROVE  /\ n <= collected
                      /\ n = 0 \/ n <= h
                      /\ \A u \in ToPublish' : n < u
                      /\ dropped = {} => n <= curNumber + 1 \/ n <= 1
    BY <1>3 DEF Published
  <2>1. n \in Nat
    BY PipelineAssumption DEF Blocks
  <2>2. CASE n \in blockStage \/ Holds(Queue, "block", n)
    <3>1. /\ n <= collected
          /\ \A u \in ToPublish : n < u
          /\ dropped = {} => n <= curNumber + 1 \/ n <= 1
      BY <2>2 DEF Published
    <3>2. n < h
      BY <1>3, <3>1
    <3>3. n <= h
      BY <1>4, <2>1, <3>2
    <3>4. \A u \in ToPublish' : n < u
      BY <1>3, <3>1
    <3> QED BY <3>1, <3>3, <3>4
  <2>3. CASE n = h
    <3>1. ASSUME dropped = {}, h > curNumber + 1 PROVE h = 1
      <4>1. h - 1 \in curNumber + 1 .. h - 1
        BY <1>4, <3>1
      <4>2. h - 1 = 0
        BY <1>3, <3>1, <4>1
      <4> QED BY <1>4, <4>2
    <3> QED BY <1>3, <1>4, <2>3, <3>1
  <2> QED BY <1>2, <1>7, <1>14, <2>2, <2>3
<1>17. Covered'
  <2> SUFFICES ASSUME NEW s \in Services, NEW d \in Wanted'[s]
               PROVE  d \in es[s] \cup Excepted[s] \cup Stage[s] \/ Holds(Queue', s, d)
    BY <1>2, <1>3 DEF Covered, Excepted
  <2>1. CASE d \in Wanted[s]
    BY <1>3, <1>14, <2>1 DEF Covered
  <2>2. CASE s = "block" /\ d \notin Wanted[s]
    <3>1. d \in 1..h /\ ~(d \in 1..curNumber)
      BY <1>3, <2>2 DEF Wanted
    <3>2. d = h \/ d \in curNumber + 1 .. h - 1
      BY <1>4, <3>1
    <3>3. d # 0
      BY <3>1
    <3> QED BY <1>3, <1>7, <1>14, <2>2, <3>2, <3>3 DEF Excepted
  <2>3. CASE s = "tx" /\ d \notin Wanted[s]
    <3>1. d \in ids
      BY <1>1, <1>5, <2>3 DEF Wanted, Rows
    <3> QED BY <1>7, <1>14, <2>3, <3>1
  <2> QED BY <2>1, <2>2, <2>3, ServicesAre
<1>18. Holes'
  <2> SUFFICES ASSUME NEW s \in Services, NEW d \in Claims'[s]
               PROVE  d \in es[s] \cup Excepted[s] \/ \A x \in es[s] : x < d
    BY <1>2, <1>3 DEF Holes, Excepted
  <2>1. CASE d \in Claims[s]
    BY <2>1 DEF Holes
  <2>2. CASE s = "tx" /\ d \notin Claims[s]
    <3>1. d = nextId
      BY <1>1, <1>5, <1>6, <2>2 DEF Claims, Rows
    <3>2. es["tx"] \subseteq 1 .. nextId - 1
      BY StoresTyped
    <3> QED BY <1>6, <2>2, <3>1, <3>2
  <2>3. CASE s = "block"
    BY <2>1, <2>3 DEF Claims
  <2> QED BY <2>1, <2>2, <2>3, ServicesAre
<1>19. Ahead'
  BY <1>2, <1>3 DEF Ahead
<1> QED BY <1>10, <1>11, <1>15, <1>16, <1>17, <1>18, <1>19 DEF Downstream

-----------------------------------------------------------------------------
\* The self-check.

\* What it finds missing, and what that leaves.
LEMMA SyncIs ==
    ASSUME PipelineInv, agent = "post", NEW s \in Services
    PROVE  /\ transaction = "none" /\ Rows = txBak
           /\ SyncData["block"] \subseteq Blocks /\ SyncData["tx"] \subseteq txBak
           /\ \A l \in SyncData["block"] : l <= curNumber
           /\ Claims[s] \subseteq Nat \ {0} /\ Wanted[s] \subseteq Claims[s]
           /\ \A d \in Wanted[s] : d \in es[s] \cup Excepted[s] \cup SyncData[s]
           /\ \A d \in Claims[s] : \A l \in SyncData[s] : d <= l => d \in Wanted[s]
<1> USE DEF PipelineInv
<1>1. /\ transaction = "none" /\ Rows = txBak /\ Reached = curNumber
      /\ curNumber \in Int /\ curNumber <= MaxBlock /\ MaxBlock \in Nat
  <2>1. transaction = "none" /\ Reached = curNumber
    BY ChainFacts, ReachedIs DEF Chain!Alive
  <2>2. openTx = {}
    BY <2>1 DEF Importing
  <2> QED BY <2>1, <2>2, ChainFacts, PipelineAssumption DEF Rows
<1>2. /\ Newest(es["block"]) \in Nat /\ Newest(es["tx"]) \in Nat
      /\ \A d \in Nat \ {0} :
            /\ (\A x \in es["block"] : x < d) <=> d > Newest(es["block"])
            /\ (\A x \in es["tx"] : x < d) <=> d > Newest(es["tx"])
  BY StoresTyped, NewestIs, AboveNewest, ServicesAre
<1> DEFINE newest == Newest(es["block"])
<1>3. /\ SyncData["block"] = IF curNumber > newest THEN newest .. curNumber ELSE {}
      /\ SyncData["tx"] = {id \in txBak : id > Newest(es["tx"])}
  BY DEF SyncData
<1>4. newest \in Nat
  BY <1>2
<1> HIDE DEF newest
<1>5. SyncData["block"] \subseteq Blocks /\ \A l \in SyncData["block"] : l <= curNumber
  BY <1>1, <1>3, <1>4 DEF Blocks
<1>6. txBak \subseteq Nat \ {0}
  BY StoresTyped
<1>7. CASE s = "block"
  <2>1. Claims[s] = 1..MaxBlock /\ Wanted[s] = 1..curNumber
    BY <1>1, <1>7 DEF Claims, Wanted
  <2>2. Claims[s] \subseteq Nat \ {0} /\ Wanted[s] \subseteq Claims[s]
    BY <1>1, <2>1
  <2>3. ASSUME NEW d \in Wanted[s], d \notin es[s] \cup Excepted[s] PROVE d \in SyncData[s]
    <3>1. \A x \in es["block"] : x < d
      BY <1>7, <2>2, <2>3 DEF Holes
    <3>2. d > newest /\ d \in 1..curNumber
      BY <1>2, <2>1, <2>2, <3>1 DEF newest
    <3> QED BY <1>1, <1>3, <1>4, <1>7, <3>2
  <2>4. ASSUME NEW d \in Claims[s], NEW l \in SyncData[s], d <= l PROVE d \in Wanted[s]
    <3>1. l \in Nat /\ l <= curNumber /\ d \in 1..MaxBlock
      BY <1>5, <1>7, <2>1, <1>1 DEF Blocks
    <3> QED BY <1>1, <2>1, <2>4, <3>1
  <2> QED BY <1>1, <1>3, <1>5, <2>2, <2>3, <2>4
<1>8. CASE s = "tx"
  <2>1. Claims[s] = txBak /\ Wanted[s] = txBak
    BY <1>1, <1>8 DEF Claims, Wanted
  <2>2. ASSUME NEW d \in Wanted[s], d \notin es[s] \cup Excepted[s] PROVE d \in SyncData[s]
    <3>1. \A x \in es["tx"] : x < d
      BY <1>8, <2>1, <2>2 DEF Holes
    <3>2. d > Newest(es["tx"])
      BY <1>2, <1>6, <2>1, <3>1
    <3> QED BY <1>3, <1>8, <2>1, <3>2
  <2> QED BY <1>1, <1>3, <1>5, <1>6, <2>1, <2>2
<1> QED BY <1>7, <1>8, ServicesAre

LEMMA SyncRequest ==
    ASSUME PipelineInv, agent = "post", NEW s \in Services, NEW landed, landed \subseteq SyncData[s],
           NEW after, Excepted[s] \cup Torn(SyncData[s], landed) \subseteq after
    PROVE  \A d \in Claims[s] :
              d \in (es[s] \cup landed) \cup after \/ \A x \in es[s] \cup landed : x < d
<1> DEFINE claims == Claims[s]
           docs == es[s]
           before == Excepted[s]
           request == SyncData[s]
<1>1. claims \subseteq Nat /\ docs \subseteq Nat /\ request \subseteq Nat
  <2>1. SyncData["block"] \subseteq Nat /\ SyncData["tx"] \subseteq Nat
    BY SyncIs, StoresTyped, PipelineAssumption DEF PipelineInv, Blocks
  <2>2. SyncData[s] \subseteq Nat
    BY <2>1, ServicesAre
  <2> QED BY <2>2, SyncIs, StoresTyped DEF PipelineInv
<1>2. \A d \in claims : d \in docs \cup before \/ \A x \in docs : x < d
  BY DEF Holes, PipelineInv
<1>3. \A d \in claims : \A l \in request : d <= l => d \in docs \cup before \cup request \cup {}
  BY SyncIs
<1>4. landed \subseteq request /\ before \cup Torn(request, landed) \subseteq after
  OBVIOUS
<1> HIDE DEF claims, docs, before, request
<1>5. SafeLanding(claims, docs, before, request, {}, landed, after)
  BY <1>1, <1>2, <1>3, <1>4 DEF SafeLanding
<1>6. \A d \in claims : d \in (docs \cup landed) \cup after \/ \A x \in docs \cup landed : x < d
  BY <1>5, LandingKeepsHoles
<1> QED BY <1>6 DEF claims, docs

\* What is in ES after documents landed, by type.
LEMMA AddedTyped ==
    ASSUME Typed, NEW more, more["block"] \subseteq Blocks, more["tx"] \subseteq 1 .. nextId - 1
    PROVE  /\ [s \in Services |-> es[s] \cup more[s]]
                 \in Docs([block |-> Blocks, tx |-> 1 .. nextId - 1])
           /\ [s \in Services |-> excused[s] \cup more[s]]
                 \in Docs([block |-> Blocks, tx |-> 1 .. nextId - 1])
<1>1. /\ es["block"] \subseteq Blocks /\ es["tx"] \subseteq 1 .. nextId - 1
      /\ excused["block"] \subseteq Blocks /\ excused["tx"] \subseteq 1 .. nextId - 1
  BY StoresTyped
<1> DEFINE a == [s \in Services |-> es[s] \cup more[s]]
           b == [s \in Services |-> excused[s] \cup more[s]]
<1>2. /\ a = [s \in {"block", "tx"} |-> a[s]]
      /\ a["block"] = es["block"] \cup more["block"] /\ a["tx"] = es["tx"] \cup more["tx"]
  BY ServicesAre
<1>3. /\ b = [s \in {"block", "tx"} |-> b[s]]
      /\ b["block"] = excused["block"] \cup more["block"]
      /\ b["tx"] = excused["tx"] \cup more["tx"]
  BY ServicesAre
<1> HIDE DEF a, b
<1>4. a = [block |-> a["block"], tx |-> a["tx"]] /\ b = [block |-> b["block"], tx |-> b["tx"]]
  BY <1>2, <1>3
<1>5. a \in Docs([block |-> Blocks, tx |-> 1 .. nextId - 1])
  BY <1>1, <1>2, <1>4 DEF Docs
<1>6. b \in Docs([block |-> Blocks, tx |-> 1 .. nextId - 1])
  BY <1>1, <1>3, <1>4 DEF Docs
<1> QED BY <1>5, <1>6 DEF a, b

LEMMA PostStep == ASSUME PipelineInv, PostSucceeds PROVE Downstream'
<1> USE DEF PipelineInv
<1>1. /\ UNCHANGED <<nextId, openTx, txBak, complementRing, persistenceRing, blockStage,
                     transactionStage, maxBlockNumber, batchSize, import, pending, late,
                     excused, refusals>>
      /\ es' = [s \in Services |-> es[s] \cup SyncData[s]]
      /\ redis' = redis \cup SyncData["block"]
      /\ agent = "post" /\ ~Chain!Alive
      /\ UNCHANGED <<transaction, curNumber, dropped>>
  BY ChainActions DEF PostSucceeds, Chain!PostSucceeds, Chain!Alive, Chain!mysqlVars,
     idVars, stageVars, importVars
<1>2. /\ complementRing = <<>> /\ persistenceRing = <<>> /\ import = "idle"
      /\ blockStage = {} /\ transactionStage = {} /\ late = {}
      /\ pending = {} /\ transaction = "none" /\ openTx = {}
  BY <1>1, SyncIs, ServicesAre DEF Importing
<1>3. /\ SyncData["block"] \subseteq Blocks /\ SyncData["tx"] \subseteq txBak
      /\ \A l \in SyncData["block"] : l <= curNumber
  BY <1>1, SyncIs, ServicesAre
<1>4. Typed'
  <2>1. SyncData["tx"] \subseteq 1 .. nextId - 1
    BY <1>3, StoresTyped
  <2>2. [s \in Services |-> es[s] \cup SyncData[s]]
           \in Docs([block |-> Blocks, tx |-> 1 .. nextId - 1])
    BY <1>3, <2>1, AddedTyped
  <2>3. es' \in Docs([block |-> Blocks, tx |-> 1 .. nextId - 1])
    BY <1>1, <2>2
  <2>4. redis' \subseteq Blocks
    BY <1>1, <1>3 DEF Typed, TypeOK
  <2> QED BY <1>1, <2>3, <2>4 DEF Typed, TypeOK
<1>5. Importing'
  BY <1>1, <1>2 DEF Importing
<1>6. Queue' = <<>> /\ blockStage' = {} /\ \A s \in Services : Stage'[s] = {}
  BY <1>1, <1>2, QueueMoves, EmptySeq, ServicesAre DEF Queue, Unstaged, Stage
<1>7. InOrder' /\ Published'
  BY <1>6, OrderEmpty, PublishedEmpty
<1>8. Reached' = Reached /\ Excepted' = Excepted /\ Rows' = Rows
  BY <1>1, <1>2 DEF Reached, Excepted, Rows
<1>9. \A s \in Services : es'[s] = es[s] \cup SyncData[s]
  BY <1>1
<1>10. Covered'
  <2>1. Wanted' = Wanted
    BY <1>8 DEF Wanted
  <2>2. ASSUME NEW s \in Services, NEW d \in Wanted[s] PROVE d \in es'[s] \cup Excepted[s]
    BY <1>1, <1>9, SyncIs
  <2> QED BY <1>8, <2>1, <2>2 DEF Covered
<1>11. Holes'
  <2>1. Claims' = Claims
    BY <1>8 DEF Claims
  <2>2. ASSUME NEW s \in Services, NEW d \in Claims[s]
        PROVE  d \in es'[s] \cup Excepted[s] \/ \A x \in es'[s] : x < d
    <3> DEFINE request == SyncData[s]
    <3>1. Torn(request, request) = {}
      BY DEF Torn
    <3>2. Excepted[s] \cup Torn(request, request) \subseteq Excepted[s]
      BY <3>1
    <3>3. \A c \in Claims[s] : c \in (es[s] \cup SyncData[s]) \cup Excepted[s]
                               \/ \A x \in es[s] \cup SyncData[s] : x < c
      BY <1>1, <3>2, SyncRequest
    <3> QED BY <1>9, <3>3
  <2> QED BY <1>8, <2>1, <2>2 DEF Holes
<1>12. Ahead'
  <2>1. es'["block"] = es["block"] \cup SyncData["block"] /\ es["block"] \subseteq Blocks
    BY <1>9, ServicesAre, StoresTyped
  <2>2. es'["block"] \subseteq Blocks /\ \A n \in es'["block"] : n \in es["block"] \/ n <= curNumber
    BY <1>3, <2>1
  <2>3. curNumber' \in Int /\ curNumber <= curNumber'
    BY <1>1, ChainFacts
  <2> QED BY <1>1, <2>2, <2>3, AheadFrame
<1> QED BY <1>4, <1>5, <1>7, <1>10, <1>11, <1>12 DEF Downstream

\* The process dies, in the middle of what its services were doing.
LEMMA CrashStep == ASSUME PipelineInv, Crash PROVE Downstream'
<1> USE DEF PipelineInv
<1>1. /\ openTx' = {} /\ complementRing' = <<>> /\ persistenceRing' = <<>>
      /\ blockStage' = {} /\ transactionStage' = {} /\ maxBlockNumber' = 0
      /\ batchSize' = BehindSize /\ import' = "idle" /\ pending' = {} /\ late' = {}
      /\ UNCHANGED <<nextId, txBak, redis, refusals>>
      /\ ~Chain!Alive' /\ UNCHANGED <<curNumber, dropped>>
  BY ChainActions DEF Crash, Chain!Crash, Chain!Alive, Chain!mysqlVars
<1>2. PICK blocks \in SUBSET InFlight("block"), txs \in SUBSET InFlight("tx") :
         LET landed == [block |-> blocks, tx |-> txs]
         IN  /\ es' = [s \in Services |-> es[s] \cup landed[s]]
             /\ excused' = [s \in Services |-> excused[s] \cup Torn(InFlight(s), landed[s])]
  BY DEF Crash
<1> DEFINE landed == [block |-> blocks, tx |-> txs]
           torn == [s \in Services |-> Torn(InFlight(s), landed[s])]
<1>3. \A s \in Services : landed[s] \subseteq InFlight(s) /\ torn[s] = Torn(InFlight(s), landed[s])
  BY ServicesAre
<1>4. /\ es' = [s \in Services |-> es[s] \cup landed[s]]
      /\ excused' = [s \in Services |-> excused[s] \cup torn[s]]
  BY <1>2
<1>5. \A s \in Services : torn[s] \subseteq InFlight(s)
  BY <1>3 DEF Torn
<1> HIDE DEF landed, torn
\* A request in flight is the self-check's or the import's.
<1>6. ASSUME NEW s \in Services
      PROVE  \/ agent = "post" /\ InFlight(s) = SyncData[s]
             \/ Chain!Alive /\ InFlight(s) = Stage[s]
             \/ InFlight(s) = {}
  <2>1. CASE agent = "post"
    <3>1. s \notin pending \cup late
      BY <2>1 DEF Chain!Alive, Importing
    <3> QED BY <2>1, <3>1 DEF InFlight
  <2>2. CASE agent # "post" /\ s \in pending \cup late
    <3>1. Chain!Alive
      BY <2>2 DEF Importing
    <3> QED BY <2>2, <3>1 DEF InFlight
  <2>3. CASE agent # "post" /\ s \notin pending \cup late
    BY <2>3 DEF InFlight
  <2> QED BY <2>1, <2>2, <2>3
<1>7. /\ InFlight("block") \subseteq Blocks /\ InFlight("tx") \subseteq 1 .. nextId - 1
      /\ \A n \in InFlight("block") : n \in blockStage \/ n <= curNumber
  <2>1. ASSUME agent = "post"
        PROVE  /\ SyncData["block"] \subseteq Blocks /\ SyncData["tx"] \subseteq 1 .. nextId - 1
               /\ \A l \in SyncData["block"] : l <= curNumber
    BY <2>1, SyncIs, StoresTyped, ServicesAre
  <2>2. InFlight("block") \subseteq Blocks /\ \A n \in InFlight("block") : n \in blockStage \/ n <= curNumber
    BY <1>6, <2>1, StoresTyped, ServicesAre
  <2>3. InFlight("tx") \subseteq 1 .. nextId - 1
    BY <1>6, <2>1, StoresTyped, ServicesAre
  <2> QED BY <2>2, <2>3
<1>8. /\ landed["block"] \subseteq InFlight("block") /\ landed["tx"] \subseteq InFlight("tx")
      /\ torn["block"] \subseteq InFlight("block") /\ torn["tx"] \subseteq InFlight("tx")
  BY <1>3, <1>5, ServicesAre
<1>9. Typed'
  <2>1. /\ es' \in Docs([block |-> Blocks, tx |-> 1 .. nextId - 1])
        /\ excused' \in Docs([block |-> Blocks, tx |-> 1 .. nextId - 1])
    <3>1. /\ landed["block"] \subseteq Blocks /\ landed["tx"] \subseteq 1 .. nextId - 1
          /\ torn["block"] \subseteq Blocks /\ torn["tx"] \subseteq 1 .. nextId - 1
      BY <1>7, <1>8
    <3> QED BY <1>4, <3>1, AddedTyped
  <2>2. RingTyped(<<>>, nextId - 1)
    <3>1. <<>> \in Seq(Event) /\ Len(<<>>) = 0 /\ DOMAIN <<>> = {}
      OBVIOUS
    <3>2. Nums(<<>>) = {} /\ Ids(<<>>) = {}
      BY <3>1 DEF Nums, Ids
    <3> QED BY <3>1, <3>2, PipelineAssumption DEF RingTyped
  <2>3. 0 \in Blocks
    BY PipelineAssumption DEF Blocks
  <2> QED BY <1>1, <2>1, <2>2, <2>3 DEF Typed, TypeOK, RingTyped
<1>10. Importing'
  BY <1>1 DEF Importing
<1>11. Queue' = <<>> /\ \A s \in Services : Stage'[s] = {}
  BY <1>1, QueueMoves, EmptySeq, ServicesAre DEF Queue, Unstaged, Stage
<1>12. InOrder' /\ Published'
  BY <1>1, <1>11, OrderEmpty, PublishedEmpty
<1>13. Covered'
  BY <1>1 DEF Covered
<1>14. ASSUME NEW s \in Services
       PROVE  /\ Claims'[s] \subseteq Claims[s]
              /\ es'[s] = es[s] \cup landed[s]
              /\ Excepted[s] \cup Torn(InFlight(s), landed[s]) \subseteq Excepted'[s]
  <2>1. es'[s] = es[s] \cup landed[s] /\ excused'[s] = excused[s] \cup Torn(InFlight(s), landed[s])
    BY <1>3, <1>4
  <2>2. CASE s = "block"
    BY <1>1, <2>1, <2>2 DEF Claims, Excepted
  <2>3. CASE s = "tx"
    BY <1>1, <2>1, <2>3 DEF Claims, Excepted, Rows
  <2> QED BY <2>1, <2>2, <2>3, ServicesAre
<1>15. Holes'
  <2> SUFFICES ASSUME NEW s \in Services, NEW d \in Claims[s]
               PROVE  d \in es'[s] \cup Excepted'[s] \/ \A x \in es'[s] : x < d
    BY <1>14 DEF Holes
  <2>1. CASE agent = "post" /\ InFlight(s) = SyncData[s]
    <3>1. landed[s] \subseteq SyncData[s]
          /\ Excepted[s] \cup Torn(SyncData[s], landed[s]) \subseteq Excepted'[s]
      BY <1>3, <1>14, <2>1
    <3>2. \A c \in Claims[s] : c \in (es[s] \cup landed[s]) \cup Excepted'[s]
                               \/ \A x \in es[s] \cup landed[s] : x < c
      BY <2>1, <3>1, SyncRequest
    <3> QED BY <1>14, <3>2
  <2>2. CASE Chain!Alive /\ InFlight(s) = Stage[s]
    <3>1. landed[s] \subseteq Stage[s]
          /\ Excepted[s] \cup Torn(Stage[s], landed[s]) \subseteq Excepted'[s]
      BY <1>3, <1>14, <2>2
    <3>2. \A c \in Claims[s] : c \in (es[s] \cup landed[s]) \cup Excepted'[s]
                               \/ \A x \in es[s] \cup landed[s] : x < c
      BY <2>2, <3>1, StageRequest
    <3> QED BY <1>14, <3>2
  <2>3. CASE InFlight(s) = {}
    <3>1. landed[s] = {} /\ es'[s] = es[s]
      BY <1>3, <1>14, <2>3
    <3> QED BY <1>14, <3>1 DEF Holes
  <2> QED BY <1>6, <2>1, <2>2, <2>3
<1>16. Ahead'
  <2>1. es'["block"] = es["block"] \cup landed["block"] /\ es["block"] \subseteq Blocks
    BY <1>14, ServicesAre, StoresTyped
  <2>2. es'["block"] \subseteq Blocks
        /\ \A n \in es'["block"] : n \in es["block"] \cup blockStage \/ n <= curNumber
    BY <1>7, <1>8, <2>1
  <2>3. curNumber' \in Int /\ curNumber <= curNumber'
    BY <1>1, ChainFacts
  <2> QED BY <1>1, <2>2, <2>3, AheadFrame
<1> QED BY <1>9, <1>10, <1>12, <1>13, <1>15, <1>16 DEF Downstream

-----------------------------------------------------------------------------
\* The invariant holds in every state.

LEMMA InvStart == Init => PipelineInv
<1> SUFFICES ASSUME Init PROVE PipelineInv
  OBVIOUS
<1> USE DEF Init
<1>1. Chain!Init
  BY ChainInit
<1>2. Chain!IInv
  BY <1>1, ChainAssumption, Chain!InitIInv
<1>3. /\ agent = "down" /\ transaction = "none" /\ curNumber = -1
  BY <1>1 DEF Chain!Init
<1>4. <<>> \in Seq(Event) /\ Len(<<>>) = 0 /\ DOMAIN <<>> = {}
  OBVIOUS
<1>5. Nums(<<>>) = {} /\ Ids(<<>>) = {}
  BY <1>4 DEF Nums, Ids
<1>6. Typed
  <2>1. /\ es \in Docs([block |-> Blocks, tx |-> 1 .. nextId - 1])
        /\ excused \in Docs([block |-> Blocks, tx |-> 1 .. nextId - 1])
    BY DEF Docs
  <2>2. 0 \in Blocks /\ refusals \in 0..MaxRefusal
    BY PipelineAssumption DEF Blocks
  <2>3. \A ring \in {complementRing, persistenceRing} :
          /\ Len(ring) <= RingSize
          /\ Nums(ring) \subseteq Blocks
          /\ Ids(ring) \subseteq 1 .. nextId - 1
    BY <1>4, <1>5, PipelineAssumption
  <2> QED BY <1>4, <2>1, <2>2, <2>3 DEF Typed, TypeOK
<1>7. Importing
  BY DEF Importing
<1>8. Queue = <<>> /\ Stage["block"] = {} /\ Stage["tx"] = {}
  BY QueueMoves, EmptySeq DEF Queue, Unstaged, Stage
<1>9. InOrder
  BY <1>8, ServicesAre DEF InOrder, Ascending
<1>10. Published
  BY <1>8, HoldsNothing DEF Published
<1>11. Covered
  BY <1>3 DEF Covered, Chain!Alive
<1>12. es["block"] = {} /\ es["tx"] = {}
  OBVIOUS
<1>13. Holes /\ Ahead
  BY <1>12, ServicesAre DEF Holes, Ahead
<1> QED BY <1>2, <1>6, <1>7, <1>9, <1>10, <1>11, <1>13 DEF PipelineInv

LEMMA InvStep == PipelineInv /\ [Next]_vars => PipelineInv'
<1> SUFFICES ASSUME PipelineInv, [Next]_vars PROVE PipelineInv'
  OBVIOUS
<1>1. Chain!IInv'
  <2>1. Chain!IInv
    BY DEF PipelineInv
  <2>2. [Chain!Next]_(Chain!vars)
    BY ChainStep
  <2> QED BY <2>1, <2>2, ChainAssumption, Chain!NextIInv
<1>2. Downstream'
  <2>1. CASE CollectionOnly
    BY <2>1, CollectionStep
  <2>2. CASE PostSucceeds
    BY <2>2, PostStep
  <2>3. CASE PostFails
    BY <2>3, PostFailsStep
  <2>4. CASE AttemptFails
    BY <2>4, AttemptStep
  <2>5. CASE PublishBlock
    BY <2>5, PublishStep
  <2>6. CASE CommitBlock
    BY <2>6, CommitStep
  <2>7. CASE ForwardEvent
    BY <2>7, ForwardStep
  <2>8. CASE StageEvent
    BY <2>8, StageStep
  <2>9. CASE \E s \in Services : EsSave(s) \/ EsSaveRefused(s) \/ LateSave(s)
    BY <2>9, SaveStep
  <2>10. CASE EsReturns \/ BatchSizeAdjust
    BY <2>10, ReturnStep
  <2>11. CASE RedisImport
    BY <2>11, RedisStep
  <2>12. CASE Crash
    BY <2>12, CrashStep
  <2>13. CASE UNCHANGED vars
    BY <2>13, StutterStep
  <2> QED
    BY <2>1, <2>2, <2>3, <2>4, <2>5, <2>6, <2>7, <2>8, <2>9, <2>10, <2>11, <2>12, <2>13 DEF Next
<1> QED BY <1>1, <1>2 DEF PipelineInv, Downstream

LEMMA PipelineInvariance == Spec => []PipelineInv
  BY InvStart, InvStep, PTL DEF Spec

-----------------------------------------------------------------------------
\* What follows from it.

(***************************************************************************)
(* Every variable keeps its type: rings within their size, ids below the   *)
(* next id, blocks within the chain.                                       *)
(***************************************************************************)
THEOREM PipelineTypes == Spec => []TypeOK
<1>1. PipelineInv => TypeOK
  BY DEF PipelineInv, Typed
<1> QED BY <1>1, PipelineInvariance, PTL

(***************************************************************************)
(* The self-check of ConsistencyService may look only above the newest     *)
(* document: a committed block or row that ES lacks is above it, unless it *)
(* was given up on or an ES fault took it.                                 *)
(***************************************************************************)
THEOREM NoHoleBelow == Spec => []HolesAboveNewest
<1>1. PipelineInv => HolesAboveNewest
  <2> SUFFICES ASSUME PipelineInv PROVE HolesAboveNewest
    OBVIOUS
  <2> USE DEF PipelineInv
  <2>1. /\ \A d \in Nat \ {0} : (\A x \in es.block : x < d) <=> d > Newest(es.block)
        /\ \A d \in Nat \ {0} : (\A x \in es.tx : x < d) <=> d > Newest(es.tx)
    BY StoresTyped, AboveNewest, ServicesAre
  <2>2. ASSUME NEW b \in 1..curNumber
        PROVE  b \in es.block \cup dropped \cup excused.block \/ b > Newest(es.block)
    <3>1. b \in 1..MaxBlock /\ b \in Nat \ {0}
      BY ChainFacts, PipelineAssumption
    <3>2. b \in es["block"] \cup (dropped \cup excused.block) \/ \A x \in es["block"] : x < b
      BY <3>1, ServicesAre DEF Holes, Claims, Excepted
    <3> QED BY <2>1, <3>1, <3>2
  <2>3. ASSUME NEW id \in txBak
        PROVE  id \in es.tx \cup excused.tx \/ id > Newest(es.tx)
    <3>1. id \in Nat \ {0}
      BY StoresTyped
    <3>2. id \in es["tx"] \cup excused.tx \/ \A x \in es["tx"] : x < id
      BY ServicesAre DEF Holes, Claims, Excepted, Rows
    <3> QED BY <2>1, <3>1, <3>2
  <2> QED BY <2>2, <2>3 DEF HolesAboveNewest
<1> QED BY <1>1, PipelineInvariance, PTL

(***************************************************************************)
(* While the agent is up, what MySQL has and ES lacks is staged or on one  *)
(* of the rings before the staging area.                                   *)
(***************************************************************************)
THEOREM NothingCommittedIsLost == Spec => []CommittedIsIndexedOrStaged
<1>1. PipelineInv => CommittedIsIndexedOrStaged
  <2> SUFFICES ASSUME PipelineInv PROVE CommittedIsIndexedOrStaged
    OBVIOUS
  <2> USE DEF PipelineInv
  <2>1. complementRing \in Seq(Event) /\ persistenceRing \in Seq(Event)
    BY QueueTyped
  <2> SUFFICES ASSUME Chain!Alive
               PROVE  /\ 1..curNumber \subseteq
                            es.block \cup dropped \cup excused.block \cup blockStage
                                 \cup Nums(persistenceRing) \cup Nums(complementRing)
                      /\ txBak \subseteq
                            es.tx \cup excused.tx \cup transactionStage
                                 \cup Ids(persistenceRing) \cup Ids(complementRing)
    BY ChainActions DEF CommittedIsIndexedOrStaged
  <2>2. ASSUME NEW b \in 1..curNumber
        PROVE  b \in es.block \cup dropped \cup excused.block \cup blockStage
                        \cup Nums(persistenceRing) \cup Nums(complementRing)
    <3>1. b \in Wanted["block"]
      BY ReachedIs, ChainFacts DEF Wanted
    <3>2. b \in es["block"] \cup Excepted["block"] \cup Stage["block"] \/ Holds(Queue, "block", b)
      BY <3>1, ServicesAre DEF Covered
    <3>3. Holds(Queue, "block", b) => b \in Nums(persistenceRing) \cup Nums(complementRing)
      BY <2>1, QueueHolds, RingHolds, ServicesAre
    <3> QED BY <3>2, <3>3 DEF Excepted, Stage
  <2>3. ASSUME NEW id \in txBak
        PROVE  id \in es.tx \cup excused.tx \cup transactionStage
                         \cup Ids(persistenceRing) \cup Ids(complementRing)
    <3>1. id \in Wanted["tx"]
      BY DEF Wanted, Rows
    <3>2. id \in es["tx"] \cup Excepted["tx"] \cup Stage["tx"] \/ Holds(Queue, "tx", id)
      BY <3>1, ServicesAre DEF Covered
    <3>3. Holds(Queue, "tx", id) => id \in Ids(persistenceRing) \cup Ids(complementRing)
      BY <2>1, QueueHolds, RingHolds, ServicesAre
    <3> QED BY <3>2, <3>3 DEF Excepted, Stage
  <2> QED BY <2>2, <2>3
<1> QED BY <1>1, PipelineInvariance, PTL

(***************************************************************************)
(* ES and the Persistence ring are at most the one block ahead of MySQL    *)
(* whose transaction is open, if no block was dropped.                     *)
(***************************************************************************)
THEOREM AheadByOneAtMost == Spec => []EsAheadByOneBlock
<1>1. PipelineInv => EsAheadByOneBlock
  <2> SUFFICES ASSUME PipelineInv PROVE EsAheadByOneBlock
    OBVIOUS
  <2> USE DEF PipelineInv
  <2> SUFFICES ASSUME dropped = {}, NEW n \in es.block \cup Nums(persistenceRing)
               PROVE  n \in 0 .. Max({curNumber, 0}) + 1
    BY DEF EsAheadByOneBlock
  <2>1. n \in Blocks /\ (n <= curNumber + 1 \/ n <= 1)
    <3>1. CASE n \in es.block
      BY <3>1, StoresTyped DEF Ahead
    <3>2. CASE n \in Nums(persistenceRing)
      <4>1. Holds(persistenceRing, "block", n) /\ persistenceRing \in Seq(Event)
        BY <3>2, QueueTyped, RingHolds
      <4>2. n \in Blocks
        BY <4>1, HoldsTyped, ServicesAre
      <4>3. n \in blockStage \/ Holds(Queue, "block", n)
        BY <4>1, QueueHolds, StoresTyped, ServicesAre
      <4> QED BY <4>2, <4>3 DEF Published
    <3> QED BY <3>1, <3>2
  <2>2. Max({curNumber, 0}) \in Int /\ Max({curNumber, 0}) >= curNumber /\ Max({curNumber, 0}) >= 0
    <3> DEFINE S == {curNumber, 0}
    <3>1. curNumber \in Int
      BY ChainFacts
    <3>2. \E m \in S : \A d \in S : m >= d
      <4>1. CASE curNumber >= 0
        BY <3>1, <4>1
      <4>2. CASE ~(curNumber >= 0)
        BY <3>1, <4>2
      <4> QED BY <4>1, <4>2
    <3>3. Max(S) = CHOOSE m \in S : \A d \in S : m >= d
      BY DEF Max
    <3>4. Max(S) \in S /\ \A d \in S : Max(S) >= d
      BY <3>2, <3>3
    <3> QED BY <3>1, <3>4
  <2>3. n \in Nat /\ curNumber \in Int
    BY <2>1, ChainFacts, PipelineAssumption DEF Blocks
  <2> QED BY <2>1, <2>2, <2>3
<1> QED BY <1>1, PipelineInvariance, PTL

(***************************************************************************)
(* No step, a crash and restart included, takes a document out of ES, a    *)
(* row out of n_tx_bak, or a block from the committed height.              *)
(***************************************************************************)
THEOREM OnlyGrows == Spec => StoresOnlyGrow
<1> DEFINE Grows == /\ curNumber' >= curNumber
                    /\ txBak \subseteq txBak'
                    /\ \A s \in Services : es[s] \subseteq es'[s]
<1>1. PipelineInv /\ [Next]_vars => Grows
  <2> SUFFICES ASSUME PipelineInv, [Next]_vars PROVE Grows
    OBVIOUS
  <2> USE DEF PipelineInv
  <2>1. curNumber \in Int /\ (UNCHANGED curNumber => curNumber' >= curNumber)
    BY ChainFacts
  <2>2. curNumber' >= curNumber
    <3>1. CASE ChainMove
      <4>1. curNumber' \in Int /\ curNumber <= curNumber'
        BY <3>1, ChainMoves
      <4> QED BY <2>1, <4>1
    <3>2. CASE UNCHANGED curNumber
      BY <2>1, <3>2
    <3>3. ChainMove \/ UNCHANGED curNumber
      <4>1. [Chain!Next]_(Chain!vars)
        BY ChainStep
      <4> QED BY <4>1 DEF ChainMove, Chain!Next, Chain!Boot, Chain!PostSucceeds, Chain!PostFails,
                          Chain!PublishBlock, Chain!Crash, Chain!AnalysisStuck,
                          Chain!mysqlVars
    <3> QED BY <3>1, <3>2, <3>3
  <2>3. txBak \subseteq txBak'
    BY DEF Next, vars, idVars, downstreamVars, CollectionOnly, PostSucceeds, PostFails,
           AttemptFails, PublishBlock, CommitBlock, ForwardEvent, StageEvent, EsSave,
           EsSaveRefused, LateSave, EsReturns, RedisImport, BatchSizeAdjust, Crash
  <2>4. ASSUME NEW s \in Services PROVE es[s] \subseteq es'[s]
    <3>1. CASE UNCHANGED es
      BY <3>1
    <3>2. CASE PostSucceeds
      BY <3>2 DEF PostSucceeds
    <3>3. CASE Crash
      BY <3>3 DEF Crash
    <3>4. CASE \E t \in Services : EsSave(t) \/ EsSaveRefused(t) \/ LateSave(t)
      <4>1. PICK t \in Services : EsSave(t) \/ EsSaveRefused(t) \/ LateSave(t)
        BY <3>4
      <4>2. PICK docs : es' = Import!AddDocs(docs, t)
        BY <4>1 DEF EsSave, EsSaveRefused, LateSave, Import!Save, Import!LateSave
      <4> QED BY <4>2, AddDocsIs
    <3>5. \/ UNCHANGED es \/ PostSucceeds \/ Crash
          \/ \E t \in Services : EsSave(t) \/ EsSaveRefused(t) \/ LateSave(t)
      BY DEF Next, vars, storeVars, downstreamVars, CollectionOnly, PostFails, AttemptFails,
             PublishBlock, CommitBlock, ForwardEvent, StageEvent, EsReturns, RedisImport,
             BatchSizeAdjust, Import!Collect, Import!Call, Import!Return, Import!Clear
    <3> QED BY <3>1, <3>2, <3>3, <3>4, <3>5
  <2> QED BY <2>2, <2>3, <2>4
<1>2. PipelineInv /\ [Next]_vars => [Grows]_vars
  BY <1>1
<1> QED BY <1>2, PipelineInvariance, PTL DEF Spec, StoresOnlyGrow

(***************************************************************************)
(* Composed with everything behind it, block collection still does only    *)
(* what BlockCollection says, and so implements the ledger.                *)
(***************************************************************************)
THEOREM CollectionImplemented == Spec => Chain!ImplementsLedger
<1>1. Spec => Chain!Spec
  BY ChainInit, ChainStep, PTL DEF Spec, Chain!Spec
<1> QED BY <1>1, ChainAssumption, Chain!Refinement
=============================================================================
