--------------------------- MODULE EsImportProofs ---------------------------
(***************************************************************************)
(* Theorems about EsImport, for every number of services, every size of    *)
(* the latch and every number of batches.                                  *)
(***************************************************************************)
EXTENDS EsImport, FiniteSetTheorems, SequenceTheorems, TLAPS

Count == Cardinality(Services)

LEMMA ServicesFinite ==
    /\ IsFiniteSet(Services) /\ Count \in Nat
    /\ Cardinality(Shared) \in Nat /\ Cardinality(Own) \in Nat
    /\ Count = Cardinality(Shared) + Cardinality(Own)
<1>1. IsFiniteSet(Services) /\ Count = Cardinality(Shared) + Cardinality(Own) - Cardinality({})
  BY ImportAssumption, FS_Union DEF Services, Count
<1>2. Cardinality({}) = 0
  BY FS_EmptySet
<1>3. Cardinality(Shared) \in Nat /\ Cardinality(Own) \in Nat
  BY ImportAssumption, FS_CardinalityType
<1> QED BY <1>1, <1>2, <1>3

IsOrder(order) ==
    /\ order \in [1..Count -> Services]
    /\ {order[i] : i \in 1..Cardinality(Shared)} = Shared
    /\ {order[i] : i \in DOMAIN order} = Services

(***************************************************************************)
(* There is an order to submit the services in, and every such order       *)
(* submits each service exactly once.                                      *)
(***************************************************************************)
LEMMA OrderExists == \E order : IsOrder(order)
<1> DEFINE a == Cardinality(Shared)
           b == Cardinality(Own)
<1>1. a \in Nat /\ b \in Nat /\ Count = a + b
  BY ServicesFinite
<1>2. PICK f : f \in Bijection(1..a, Shared)
  BY ImportAssumption, FS_CardinalityType DEF ExistsBijection
<1>3. PICK g : g \in Bijection(1..b, Own)
  BY ImportAssumption, FS_CardinalityType DEF ExistsBijection
<1>4. /\ f \in [1..a -> Shared] /\ \A s \in Shared : \E i \in 1..a : f[i] = s
      /\ g \in [1..b -> Own] /\ \A s \in Own : \E i \in 1..b : g[i] = s
  BY <1>2, <1>3 DEF Bijection, Surjection
<1> HIDE DEF a, b
<1> DEFINE order == [i \in 1..Count |-> IF i <= a THEN f[i] ELSE g[i - a]]
<1>5. ASSUME NEW i \in 1..Count PROVE order[i] = IF i <= a THEN f[i] ELSE g[i - a]
  OBVIOUS
<1>6. order \in [1..Count -> Services]
  <2>1. ASSUME NEW i \in 1..Count PROVE order[i] \in Services
    <3>1. CASE i <= a
      BY <1>1, <1>4, <1>5, <3>1 DEF Services
    <3>2. CASE ~(i <= a)
      <4>1. i - a \in 1..b
        BY <1>1, <3>2
      <4> QED BY <1>4, <1>5, <3>2, <4>1 DEF Services
    <3> QED BY <3>1, <3>2
  <2> QED BY <2>1
<1>7. {order[i] : i \in 1..a} = Shared
  <2>1. \A i \in 1..a : i \in 1..Count /\ order[i] = f[i]
    BY <1>1, <1>5
  <2> QED BY <1>4, <2>1
<1>8. Services \subseteq {order[i] : i \in 1..Count}
  <2>1. ASSUME NEW s \in Shared PROVE \E i \in 1..Count : order[i] = s
    BY <1>1, <1>4, <1>5
  <2>2. ASSUME NEW s \in Own PROVE \E i \in 1..Count : order[i] = s
    <3>1. PICK j \in 1..b : g[j] = s
      BY <1>4
    <3>2. a + j \in 1..Count /\ ~(a + j <= a) /\ (a + j) - a = j
      BY <1>1
    <3>3. order[a + j] = s
      BY <1>5, <3>1, <3>2
    <3> QED BY <3>2, <3>3
  <2> QED BY <2>1, <2>2 DEF Services
<1>9. DOMAIN order = 1..Count
  OBVIOUS
<1> HIDE DEF order
<1>10. {order[i] : i \in 1..Count} = Services
  BY <1>6, <1>8
<1>11. IsOrder(order)
  BY <1>6, <1>7, <1>9, <1>10 DEF IsOrder, a
<1> QED BY <1>11

LEMMA OrderIsBijection ==
    /\ SubmitOrder \in [1..Count -> Services]
    /\ \A s \in Services : \E i \in 1..Count : SubmitOrder[i] = s
    /\ \A i, j \in 1..Count : SubmitOrder[i] = SubmitOrder[j] => i = j
<1>1. IsOrder(SubmitOrder)
  BY OrderExists DEF IsOrder, SubmitOrder, Count
<1>2. /\ SubmitOrder \in [1..Count -> Services]
      /\ \A s \in Services : \E i \in 1..Count : SubmitOrder[i] = s
  BY <1>1 DEF IsOrder
<1>3. SubmitOrder \in Surjection(1..Count, Services)
  BY <1>2 DEF Surjection
<1>4. IsFiniteSet(1..Count) /\ Cardinality(1..Count) = Count
  BY ServicesFinite, FS_Interval
<1>5. SubmitOrder \in Injection(1..Count, Services)
  BY <1>3, <1>4, FS_Surjection DEF Count
<1>6. \A i, j \in 1..Count : SubmitOrder[i] = SubmitOrder[j] => i = j
  BY <1>5 DEF Injection, IsInjective
<1> QED BY <1>2, <1>6
-----------------------------------------------------------------------------
(***************************************************************************)
(* No task is submitted twice, or waits while it runs.                     *)
(***************************************************************************)
TasksOnce ==
    /\ queue \in Seq(Tasks)
    /\ running \subseteq Tasks
    /\ \A i, j \in 1..Len(queue) : queue[i] = queue[j] => i = j
    /\ \A i \in 1..Len(queue) : queue[i] \notin running
    /\ \A task \in AtWork : task.batch <= batch

Open == {s \in Services : [svc |-> s, batch |-> batch] \in AtWork}

\* The latch counts what is left of the batch, up to the services it leaves
\* out; who is done with the batch has saved it.
LatchCounts ==
    /\ caller = "idle" => stage = {}
    /\ caller = "returned" => latch = 0
    /\ caller # "idle" =>
          /\ batch >= 1
          /\ stage = {batch}
          /\ Cardinality(Open) <= latch + Count - ServiceCount
          /\ \A s \in Services \ Open : <<s, batch>> \in saved

ImportInv == TypeOK /\ TasksOnce /\ LatchCounts /\ OwnSetsAreKept

LEMMA AtWorkIs == TasksOnce => AtWork = running \cup {queue[i] : i \in 1..Len(queue)}
  BY DEF TasksOnce, AtWork

LEMMA ImportStart == Init => ImportInv
<1> SUFFICES ASSUME Init PROVE ImportInv
  OBVIOUS
<1>1. queue = <<>> /\ running = {} /\ AtWork = {}
  BY DEF Init, AtWork
<1>2. TypeOK /\ LatchCounts /\ OwnSetsAreKept
  BY <1>1, ImportAssumption DEF Init, TypeOK, LatchCounts, OwnSetsAreKept
<1>3. TasksOnce
  BY <1>1 DEF TasksOnce
<1> QED BY <1>2, <1>3 DEF ImportInv

(***************************************************************************)
(* What the steps do to the set of tasks at work.                          *)
(***************************************************************************)
LEMMA ImportTasks ==
    ASSUME ImportInv, BatchImport
    PROVE  /\ TasksOnce'
           /\ AtWork' = AtWork \cup {[svc |-> s, batch |-> batch + 1] : s \in Services}
<1> DEFINE new == [i \in DOMAIN SubmitOrder |-> [svc |-> SubmitOrder[i], batch |-> batch + 1]]
<1>1. batch + 1 \in 1..MaxBatch /\ batch \in Nat
  BY ImportAssumption DEF ImportInv, TypeOK, BatchImport
<1>2. Count \in Nat /\ DOMAIN SubmitOrder = 1..Count
  BY ServicesFinite, OrderIsBijection
<1>3. /\ new \in Seq(Tasks) /\ Len(new) = Count
      /\ \A i \in 1..Count : new[i] = [svc |-> SubmitOrder[i], batch |-> batch + 1]
  BY <1>1, <1>2, OrderIsBijection DEF Tasks
<1>4. \A i, j \in 1..Count : new[i] = new[j] => i = j
  BY <1>3, OrderIsBijection
<1>5. \A i \in 1..Count : new[i].batch = batch + 1
  BY <1>3
<1>6. {new[i] : i \in 1..Count} = {[svc |-> s, batch |-> batch + 1] : s \in Services}
  BY <1>3, OrderIsBijection
<1>7. queue' = queue \o new /\ running' = running /\ batch' = batch + 1
  BY DEF BatchImport
<1> HIDE DEF new
<1> DEFINE m == Len(queue)
<1>8. /\ queue \in Seq(Tasks) /\ m \in Nat /\ running \subseteq Tasks
      /\ \A i, j \in 1..m : queue[i] = queue[j] => i = j
      /\ \A i \in 1..m : queue[i] \notin running
  BY DEF ImportInv, TasksOnce
<1>9. /\ AtWork = running \cup {queue[i] : i \in 1..m}
      /\ \A task \in AtWork : task.batch <= batch
      /\ \A task \in AtWork : task.batch \in Nat
  BY AtWorkIs, ImportAssumption DEF ImportInv, TasksOnce, TypeOK, Tasks
<1>10. /\ queue' \in Seq(Tasks) /\ Len(queue') = m + Count
       /\ \A i \in 1..m : queue'[i] = queue[i]
       /\ \A i \in m + 1 .. m + Count : queue'[i] = new[i - m] /\ i - m \in 1..Count
       /\ \A i \in 1..Count : queue'[m + i] = new[i] /\ m + i \in 1 .. m + Count
  <2>1. /\ queue' \in Seq(Tasks) /\ Len(queue') = m + Count
        /\ \A i \in 1 .. m + Count : queue'[i] = IF i <= m THEN queue[i] ELSE new[i - m]
    BY <1>3, <1>7, <1>8, ConcatProperties
  <2>2. \A i \in m + 1 .. m + Count :
           i \in 1 .. m + Count /\ ~(i <= m) /\ i - m \in 1..Count
    BY <1>2, <1>8
  <2>3. \A i \in 1..Count : m + i \in 1 .. m + Count /\ ~(m + i <= m) /\ (m + i) - m = i
    BY <1>2, <1>8
  <2>4. \A i \in 1..m : i \in 1 .. m + Count
    BY <1>2, <1>8
  <2> HIDE DEF m
  <2> QED BY <2>1, <2>2, <2>3, <2>4
<1>11. \A i \in 1..Count : new[i] \notin AtWork
  BY <1>1, <1>5, <1>9
<1>12. \A i \in 1..m : queue[i] \in AtWork
  BY <1>9
<1> HIDE DEF m
<1>13. ASSUME NEW i \in 1..Len(queue'), NEW j \in 1..Len(queue'), queue'[i] = queue'[j] PROVE i = j
  <2>1. CASE i <= m /\ j <= m
    BY <1>8, <1>10, <1>13, <2>1
  <2>2. CASE ~(i <= m) /\ ~(j <= m)
    <3>1. i - m \in 1..Count /\ j - m \in 1..Count /\ new[i - m] = new[j - m]
      BY <1>2, <1>8, <1>10, <1>13, <2>2
    <3>2. i - m = j - m
      BY <1>4, <3>1
    <3> QED BY <1>2, <1>8, <1>10, <3>2
  <2>3. CASE i <= m /\ ~(j <= m)
    <3>1. queue'[i] \in AtWork
      BY <1>2, <1>8, <1>10, <1>12, <2>3
    <3>2. j \in m + 1 .. m + Count
      BY <1>2, <1>8, <1>10, <2>3
    <3>3. queue'[j] \notin AtWork
      BY <1>10, <1>11, <3>2
    <3> QED BY <1>13, <3>1, <3>3
  <2>4. CASE ~(i <= m) /\ j <= m
    <3>1. queue'[j] \in AtWork
      BY <1>2, <1>8, <1>10, <1>12, <2>4
    <3>2. i \in m + 1 .. m + Count
      BY <1>2, <1>8, <1>10, <2>4
    <3>3. queue'[i] \notin AtWork
      BY <1>10, <1>11, <3>2
    <3> QED BY <1>13, <3>1, <3>3
  <2> QED BY <2>1, <2>2, <2>3, <2>4
<1>14. ASSUME NEW i \in 1..Len(queue') PROVE queue'[i] \notin running'
  <2>1. CASE i <= m
    BY <1>2, <1>7, <1>8, <1>10, <2>1
  <2>2. CASE ~(i <= m)
    <3>1. i \in m + 1 .. m + Count
      BY <1>2, <1>8, <1>10, <2>2
    <3>2. queue'[i] \notin AtWork
      BY <1>10, <1>11, <3>1
    <3> QED BY <1>7, <1>9, <3>2
  <2> QED BY <2>1, <2>2
<1>15. {queue'[i] : i \in 1..Len(queue')} = {queue[i] : i \in 1..m} \cup {new[i] : i \in 1..Count}
  <2>1. ASSUME NEW i \in 1..Len(queue')
        PROVE  queue'[i] \in {queue[j] : j \in 1..m} \cup {new[j] : j \in 1..Count}
    <3>1. i \in 1..m \/ i \in m + 1 .. m + Count
      BY <1>2, <1>8, <1>10
    <3> QED BY <1>10, <3>1
  <2>2. \A i \in 1..m : i \in 1..Len(queue')
    BY <1>2, <1>8, <1>10
  <2>3. \A i \in 1..Count : m + i \in 1..Len(queue')
    BY <1>2, <1>8, <1>10
  <2> QED BY <1>10, <2>1, <2>2, <2>3
<1>16. AtWork' = running' \cup {queue'[i] : i \in 1..Len(queue')}
  BY <1>10 DEF AtWork
<1>17. AtWork' = AtWork \cup {[svc |-> s, batch |-> batch + 1] : s \in Services}
  BY <1>6, <1>7, <1>9, <1>15, <1>16
<1>18. \A task \in AtWork' : task.batch <= batch'
  BY <1>1, <1>7, <1>9, <1>17
<1> QED BY <1>7, <1>8, <1>10, <1>13, <1>14, <1>17, <1>18 DEF TasksOnce

LEMMA StartTasks ==
    ASSUME ImportInv, Start
    PROVE  TasksOnce' /\ AtWork' = AtWork
<1> DEFINE m == Len(queue)
           h == Head(queue)
<1>1. /\ queue \in Seq(Tasks) /\ m \in Nat /\ running \subseteq Tasks
      /\ \A i, j \in 1..m : queue[i] = queue[j] => i = j
      /\ \A i \in 1..m : queue[i] \notin running
      /\ \A task \in AtWork : task.batch <= batch
      /\ AtWork = running \cup {queue[i] : i \in 1..m}
  BY AtWorkIs DEF ImportInv, TasksOnce
<1>2. m >= 1 /\ h = queue[1] /\ h \in Tasks
  BY <1>1 DEF Start
<1>3. running' = running \cup {h} /\ queue' = Tail(queue) /\ batch' = batch
  BY DEF Start
<1>4. /\ queue' \in Seq(Tasks) /\ Len(queue') = m - 1
      /\ \A i \in 1 .. m - 1 : queue'[i] = queue[i + 1] /\ i + 1 \in 1..m
  BY <1>1, <1>2, <1>3
<1> HIDE DEF m, h
<1>5. \A i, j \in 1..Len(queue') : queue'[i] = queue'[j] => i = j
  BY <1>1, <1>4
<1>6. \A i \in 1..Len(queue') : queue'[i] \notin running'
  BY <1>1, <1>2, <1>3, <1>4
<1>7. AtWork' = running' \cup {queue'[i] : i \in 1..Len(queue')}
  BY <1>4 DEF AtWork
<1>8. {queue[i] : i \in 1..m} = {h} \cup {queue'[i] : i \in 1..Len(queue')}
  <2>1. ASSUME NEW i \in 1..m PROVE queue[i] \in {h} \cup {queue'[j] : j \in 1..Len(queue')}
    <3>1. CASE i = 1
      BY <1>2, <3>1
    <3>2. CASE i # 1
      <4>1. i - 1 \in 1 .. m - 1 /\ (i - 1) + 1 = i
        BY <1>1, <3>2
      <4> QED BY <1>4, <4>1
    <3> QED BY <3>1, <3>2
  <2>2. {queue[i] : i \in 1..m} \subseteq {h} \cup {queue'[i] : i \in 1..Len(queue')}
    BY <2>1
  <2>3. 1 \in 1..m /\ \A i \in 1..Len(queue') : i + 1 \in 1..m /\ queue'[i] = queue[i + 1]
    BY <1>1, <1>2, <1>4
  <2>4. h \in {queue[i] : i \in 1..m}
    BY <1>2, <2>3
  <2>5. {queue'[i] : i \in 1..Len(queue')} \subseteq {queue[i] : i \in 1..m}
    BY <2>3
  <2> QED BY <2>2, <2>4, <2>5
<1>9. AtWork' = AtWork
  BY <1>1, <1>3, <1>7, <1>8
<1> QED BY <1>1, <1>2, <1>3, <1>4, <1>5, <1>6, <1>9 DEF TasksOnce

LEMMA SaveTasks ==
    ASSUME ImportInv, NEW task \in Tasks, Save(task)
    PROVE  TasksOnce' /\ AtWork' = AtWork \ {task} /\ task \in AtWork
<1>1. /\ queue \in Seq(Tasks)
      /\ \A i \in 1..Len(queue) : queue[i] \notin running
      /\ \A other \in AtWork : other.batch <= batch
      /\ AtWork = running \cup {queue[i] : i \in 1..Len(queue)}
  BY AtWorkIs DEF ImportInv, TasksOnce
<1>2. task \in running /\ running' = running \ {task} /\ queue' = queue /\ batch' = batch
  BY DEF Save
<1>3. AtWork' = running' \cup {queue'[i] : i \in 1..Len(queue')}
  BY <1>1, <1>2 DEF AtWork
<1>4. AtWork' = AtWork \ {task}
  BY <1>1, <1>2, <1>3
<1> QED BY <1>1, <1>2, <1>4 DEF ImportInv, TasksOnce
-----------------------------------------------------------------------------
LEMMA OpenFinite ==
    ASSUME NEW S, S \subseteq Services
    PROVE  IsFiniteSet(S) /\ Cardinality(S) \in Nat /\ Cardinality(S) <= Count
  BY ServicesFinite, FS_Subset, FS_CardinalityType DEF Count

LEMMA ImportStep == ImportInv /\ BatchImport => ImportInv'
<1> SUFFICES ASSUME ImportInv, BatchImport PROVE ImportInv'
  OBVIOUS
<1> DEFINE new == {[svc |-> s, batch |-> batch + 1] : s \in Services}
<1>1. TasksOnce' /\ AtWork' = AtWork \cup new
  BY ImportTasks
<1>2. /\ batch \in Nat /\ batch' = batch + 1 /\ batch' \in 1..MaxBatch /\ stage' = {batch'}
      /\ caller' = "waiting" /\ latch' = ServiceCount /\ saved' = saved
  BY ImportAssumption DEF ImportInv, TypeOK, BatchImport
<1>3. TypeOK'
  <2>1. AtWork' \subseteq Tasks
    BY <1>1, <1>2 DEF ImportInv, TypeOK, Tasks
  <2>2. MaxBatch \in Nat /\ ServiceCount \in Nat /\ saved \subseteq Services \X (1..MaxBatch)
    BY ImportAssumption DEF ImportInv, TypeOK
  <2> QED BY <1>2, <2>1, <2>2 DEF TypeOK
<1>4. Open' = Services
  <2>1. \A s \in Services : [svc |-> s, batch |-> batch'] \in AtWork'
    BY <1>1, <1>2
  <2> QED BY <2>1 DEF Open
<1>5. LatchCounts'
  BY <1>2, <1>4, ServicesFinite, ImportAssumption DEF LatchCounts, Count
<1>6. OwnSetsAreKept'
  <2> SUFFICES ASSUME NEW s \in Own, NEW b \in 1..batch'
               PROVE  <<s, b>> \in saved \/ [svc |-> s, batch |-> b] \in AtWork'
    BY <1>2 DEF OwnSetsAreKept
  <2>1. CASE b = batch + 1
    BY <1>1, <2>1 DEF Services
  <2>2. CASE b # batch + 1
    <3>1. b \in 1..batch
      BY <1>2, <2>2
    <3> QED BY <1>1, <3>1 DEF ImportInv, OwnSetsAreKept
  <2> QED BY <2>1, <2>2
<1> QED BY <1>1, <1>3, <1>5, <1>6 DEF ImportInv

LEMMA TakeStep == ImportInv /\ Start => ImportInv'
<1> SUFFICES ASSUME ImportInv, Start PROVE ImportInv'
  OBVIOUS
<1>1. TasksOnce' /\ AtWork' = AtWork
  BY StartTasks
<1>2. UNCHANGED <<batch, stage, caller, latch, saved>>
  BY DEF Start
<1>3. TypeOK' /\ OwnSetsAreKept' /\ Open' = Open
  BY <1>1, <1>2 DEF ImportInv, TypeOK, OwnSetsAreKept, Open
<1>4. LatchCounts'
  BY <1>2, <1>3 DEF ImportInv, LatchCounts, Count
<1> QED BY <1>1, <1>3, <1>4 DEF ImportInv

LEMMA SaveStep == ASSUME NEW task \in Tasks, ImportInv, Save(task) PROVE ImportInv'
<1>1. TasksOnce' /\ AtWork' = AtWork \ {task} /\ task \in AtWork
  BY SaveTasks
<1>2. /\ UNCHANGED <<batch, stage, caller>>
      /\ saved' = saved \cup {<<task.svc, b>> : b \in Read(task)}
      /\ latch' = IF task.batch = batch /\ latch > 0 THEN latch - 1 ELSE latch
  BY DEF Save
<1>3. /\ task.svc \in Services /\ task.batch \in 1..MaxBatch
      /\ \A s, b : task = [svc |-> s, batch |-> b] => s = task.svc /\ b = task.batch
      /\ task = [svc |-> task.svc, batch |-> task.batch]
  BY DEF Tasks
<1>4. latch \in 0..ServiceCount /\ latch' \in 0..ServiceCount /\ ServiceCount \in Nat
  BY <1>2, ImportAssumption DEF ImportInv, TypeOK
<1>5. Read(task) \subseteq 1..MaxBatch
  BY <1>3 DEF Read, ImportInv, TypeOK
<1>6. TypeOK'
  BY <1>1, <1>2, <1>3, <1>4, <1>5 DEF ImportInv, TypeOK
<1>7. OwnSetsAreKept'
  <2> SUFFICES ASSUME NEW s \in Own, NEW b \in 1..batch
               PROVE  <<s, b>> \in saved' \/ [svc |-> s, batch |-> b] \in AtWork'
    BY <1>2 DEF OwnSetsAreKept
  <2>1. CASE [svc |-> s, batch |-> b] = task
    <3>1. s = task.svc /\ b = task.batch /\ s \notin Shared
      BY <1>3, <2>1, ImportAssumption
    <3> QED BY <1>2, <3>1 DEF Read
  <2>2. CASE [svc |-> s, batch |-> b] # task
    BY <1>1, <1>2, <2>2 DEF ImportInv, OwnSetsAreKept
  <2> QED BY <2>1, <2>2
<1>8. LatchCounts'
  <2>1. CASE caller = "idle"
    BY <1>2, <2>1 DEF ImportInv, LatchCounts
  <2>2. CASE caller # "idle" /\ task.batch # batch
    <3>1. Open' = Open
      BY <1>1, <1>2, <2>2 DEF Open
    <3> QED BY <1>2, <2>2, <3>1 DEF ImportInv, LatchCounts, Count
  <2>3. CASE caller # "idle" /\ task.batch = batch
    <3>1. Open' = Open \ {task.svc} /\ task.svc \in Open /\ Open \subseteq Services
      BY <1>1, <1>2, <1>3, <2>3 DEF Open
    <3>2. Cardinality(Open') = Cardinality(Open) - 1 /\ Cardinality(Open) \in Nat
      BY <3>1, OpenFinite, FS_RemoveElement
    <3>3. Cardinality(Open) <= latch + Count - ServiceCount /\ batch >= 1 /\ stage = {batch}
      BY <2>3 DEF ImportInv, LatchCounts
    <3>4. Cardinality(Open') <= latch' + Count - ServiceCount
      BY <1>2, <1>4, <3>2, <3>3, ServicesFinite
    <3>5. <<task.svc, batch>> \in saved'
      BY <1>2, <2>3, <3>3 DEF Read
    <3>6. \A s \in Services \ Open' : <<s, batch>> \in saved'
      BY <1>2, <2>3, <3>1, <3>5 DEF ImportInv, LatchCounts
    <3>7. Count' = Count
      BY DEF Count, Services
    <3>8. caller' = "returned" => latch' = 0
      BY <1>2 DEF ImportInv, LatchCounts
    <3> QED BY <1>2, <2>3, <3>3, <3>4, <3>6, <3>7, <3>8 DEF LatchCounts
  <2> QED BY <2>1, <2>2, <2>3
<1> QED BY <1>1, <1>6, <1>7, <1>8 DEF ImportInv

LEMMA CallerStep == ImportInv /\ (AwaitReturns \/ Clear) => ImportInv'
<1> SUFFICES ASSUME ImportInv, AwaitReturns \/ Clear PROVE ImportInv'
  OBVIOUS
<1>1. UNCHANGED <<batch, latch, queue, running, saved>>
  BY DEF AwaitReturns, Clear
<1>2. TasksOnce' /\ AtWork' = AtWork /\ Open' = Open
  BY <1>1 DEF ImportInv, TasksOnce, AtWork, Open
<1>3. TypeOK' /\ OwnSetsAreKept'
  BY <1>1, <1>2 DEF ImportInv, TypeOK, OwnSetsAreKept, AwaitReturns, Clear
<1>4. LatchCounts'
  BY <1>1, <1>2 DEF ImportInv, LatchCounts, AwaitReturns, Clear, Count
<1> QED BY <1>2, <1>3, <1>4 DEF ImportInv

LEMMA ImportStays == ImportInv /\ UNCHANGED vars => ImportInv'
<1> SUFFICES ASSUME ImportInv, UNCHANGED vars PROVE ImportInv'
  OBVIOUS
<1>1. UNCHANGED <<batch, stage, caller, latch, queue, running, saved>>
  BY DEF vars
<1>2. TasksOnce' /\ AtWork' = AtWork /\ Open' = Open
  BY <1>1 DEF ImportInv, TasksOnce, AtWork, Open
<1>3. TypeOK' /\ OwnSetsAreKept' /\ LatchCounts'
  BY <1>1, <1>2 DEF ImportInv, TypeOK, OwnSetsAreKept, LatchCounts, Count
<1> QED BY <1>2, <1>3 DEF ImportInv

LEMMA ImportInvariant == Spec => []ImportInv
<1>1. ImportInv /\ [Next]_vars => ImportInv'
  BY ImportStep, TakeStep, SaveStep, CallerStep, ImportStays DEF Next
<1> QED BY ImportStart, <1>1, PTL DEF Spec
-----------------------------------------------------------------------------
(***************************************************************************)
(* The types of the module, for every size of the latch and of the pool.   *)
(***************************************************************************)
THEOREM ImportTypes == Spec => []TypeOK
<1>1. ImportInv => TypeOK
  BY DEF ImportInv
<1> QED BY <1>1, ImportInvariant, PTL

(***************************************************************************)
(* When batchImport has returned, no more services are behind with the     *)
(* batch than the latch leaves out, for every number of services and every *)
(* SERVICE_COUNT.                                                          *)
(***************************************************************************)
THEOREM ReturnsInTime == Spec => []ReturnsAfterAllButOne
<1>1. ASSUME ImportInv, caller = "returned"
      PROVE  Cardinality({s \in Services : <<s, batch>> \notin saved})
                 <= Cardinality(Services) - ServiceCount
  <2> DEFINE behind == {s \in Services : <<s, batch>> \notin saved}
  <2>1. latch = 0 /\ Cardinality(Open) <= latch + Count - ServiceCount /\ behind \subseteq Open
    BY <1>1 DEF ImportInv, LatchCounts
  <2>2. Open \subseteq Services
    BY DEF Open
  <2>3. IsFiniteSet(Open) /\ Cardinality(Open) \in Nat /\ Cardinality(behind) \in Nat
    BY <2>1, <2>2, OpenFinite
  <2>4. Cardinality(behind) <= Cardinality(Open)
    BY <2>1, <2>3, FS_Subset
  <2> HIDE DEF behind
  <2>5. Cardinality(behind) <= Count - ServiceCount
    BY <2>1, <2>3, <2>4, ServicesFinite, ImportAssumption
  <2> QED BY <2>5 DEF behind, Count
<1>2. ImportInv => ReturnsAfterAllButOne
  BY <1>1 DEF ReturnsAfterAllButOne
<1> QED BY <1>2, ImportInvariant, PTL

(***************************************************************************)
(* What a service reads from a set of its own is never lost.               *)
(***************************************************************************)
THEOREM OwnSetsKept == Spec => []OwnSetsAreKept
<1>1. ImportInv => OwnSetsAreKept
  BY DEF ImportInv
<1> QED BY <1>1, ImportInvariant, PTL
-----------------------------------------------------------------------------
\* The variables of StagedImport as EsImport shows them.
StageOf   == [s \in Shared |-> stage]
PendingOf == {s \in Shared : caller # "idle" /\ AtWorkOn(s, batch)}
LateOf    == {s \in Shared : \E b \in 1..batch : AtWorkOn(s, b) /\ (caller = "idle" \/ b # batch)}
DocsOf    == [s \in Shared |-> {b \in 1..MaxBatch : <<s, b>> \in saved}]

LEMMA ShownStart == Init => Import!Init
<1> SUFFICES ASSUME Init PROVE Import!Init
  OBVIOUS
<1>1. /\ caller = "idle" /\ stage = {} /\ saved = {}
      /\ \A s, b : ~AtWorkOn(s, b)
  BY DEF Init, AtWork, AtWorkOn
<1>2. PendingOf = {} /\ LateOf = {}
  BY <1>1 DEF PendingOf, LateOf
<1>3. StageOf = Import!nothing /\ DocsOf = Import!nothing
  BY <1>1 DEF StageOf, DocsOf, Import!nothing
<1> QED BY <1>1, <1>2, <1>3 DEF Import!Init, PendingOf, LateOf, StageOf, DocsOf

\* What is at work belongs to a batch that has been submitted.
LEMMA SubmittedOnly ==
    ASSUME ImportInv, NEW s, NEW b, AtWorkOn(s, b)
    PROVE  s \in Services /\ b \in 1..batch
<1>1. [svc |-> s, batch |-> b] \in Tasks /\ b <= batch
  BY DEF ImportInv, TypeOK, TasksOnce, AtWorkOn
<1> QED BY <1>1, ImportAssumption DEF ImportInv, TypeOK, Tasks

LEMMA ShownCall == ImportInv /\ BatchImport => Import!Call
<1> SUFFICES ASSUME ImportInv, BatchImport PROVE Import!Call
  OBVIOUS
<1>1. /\ caller = "idle" /\ caller' = "waiting" /\ stage = {}
      /\ batch \in Nat /\ batch' = batch + 1 /\ saved' = saved
  BY ImportAssumption DEF BatchImport, ImportInv, TypeOK, LatchCounts
<1>2. AtWork' = AtWork \cup {[svc |-> s, batch |-> batch + 1] : s \in Services}
  BY ImportTasks
<1>3. \A s \in Shared : AtWorkOn(s, batch)'
  BY <1>1, <1>2 DEF AtWorkOn, Services
<1>4. ASSUME NEW s \in Shared, NEW b \in 1..batch PROVE AtWorkOn(s, b)' <=> AtWorkOn(s, b)
  <2>1. b # batch + 1
    BY <1>1
  <2>2. \A t : [svc |-> s, batch |-> b] # [svc |-> t, batch |-> batch + 1]
    BY <2>1
  <2> QED BY <1>2, <2>2 DEF AtWorkOn
<1>5. PendingOf' = Shared
  BY <1>1, <1>3 DEF PendingOf
<1>6. LateOf' = LateOf
  <2>1. \A b \in 1..batch' : b # batch' => b \in 1..batch
    BY <1>1
  <2>2. \A b \in 1..batch : b \in 1..batch' /\ b # batch'
    BY <1>1
  <2>3. \A s \in Shared : s \in LateOf' <=> s \in LateOf
    BY <1>1, <1>4, <2>1, <2>2 DEF LateOf
  <2> QED BY <2>3 DEF LateOf
<1>7. DocsOf' = DocsOf
  BY <1>1 DEF DocsOf
<1>8. \A s \in Shared : StageOf[s] \subseteq StageOf'[s]
  BY <1>1 DEF StageOf
<1> QED BY <1>1, <1>5, <1>6, <1>7, <1>8
        DEF Import!Call, Import!Grows, PendingOf, LateOf, StageOf, DocsOf

LEMMA ShownTake == ImportInv /\ Start => UNCHANGED <<caller, StageOf, PendingOf, LateOf, DocsOf>>
<1> SUFFICES ASSUME ImportInv, Start PROVE UNCHANGED <<caller, StageOf, PendingOf, LateOf, DocsOf>>
  OBVIOUS
<1>1. AtWork' = AtWork
  BY StartTasks
<1>2. UNCHANGED <<batch, stage, caller, saved>>
  BY DEF Start
<1> QED BY <1>1, <1>2 DEF StageOf, PendingOf, LateOf, DocsOf, AtWorkOn

\* A save adds what the service read to its index, and to no other.
LEMMA ShownDocs ==
    ASSUME ImportInv, NEW task \in Tasks, Save(task)
    PROVE  /\ task.svc \notin Shared => DocsOf' = DocsOf
           /\ task.svc \in Shared => DocsOf' = [DocsOf EXCEPT ![task.svc] = @ \cup stage]
<1>1. saved' = saved \cup {<<task.svc, b>> : b \in Read(task)}
  BY DEF Save
<1>2. stage \subseteq 1..MaxBatch
  BY DEF ImportInv, TypeOK
<1>3. ASSUME NEW s \in Shared, s # task.svc, NEW b
      PROVE  <<s, b>> \in saved' <=> <<s, b>> \in saved
  BY <1>1, <1>3
<1>4. \A s \in Shared : s # task.svc =>
         {b \in 1..MaxBatch : <<s, b>> \in saved'} = {b \in 1..MaxBatch : <<s, b>> \in saved}
  BY <1>3
<1>5. CASE task.svc \notin Shared
  BY <1>4, <1>5 DEF DocsOf
<1>6. CASE task.svc \in Shared
  <2>1. \A b : <<task.svc, b>> \in saved' <=> <<task.svc, b>> \in saved \/ b \in stage
    BY <1>1, <1>6 DEF Read
  <2>2. {b \in 1..MaxBatch : <<task.svc, b>> \in saved'}
           = {b \in 1..MaxBatch : <<task.svc, b>> \in saved} \cup stage
    BY <1>2, <2>1
  <2> QED BY <1>4, <1>6, <2>2 DEF DocsOf
<1> QED BY <1>5, <1>6

LEMMA ShownSave ==
    ASSUME ImportInv, NEW task \in Tasks, Save(task)
    PROVE  \/ UNCHANGED <<caller, StageOf, PendingOf, LateOf, DocsOf>>
           \/ \E s \in Shared : Import!Save(s) \/ Import!LateSave(s)
<1>1. AtWork' = AtWork \ {task} /\ task \in AtWork
  BY SaveTasks
<1>2. UNCHANGED <<batch, stage, caller>> /\ StageOf' = StageOf
  BY DEF Save, StageOf
<1> DEFINE s == task.svc
           b == task.batch
<1>3. /\ AtWorkOn(s, b) /\ b \in 1..batch
      /\ \A t, c : AtWorkOn(t, c)' <=> AtWorkOn(t, c) /\ ~(t = s /\ c = b)
  <2>1. task = [svc |-> s, batch |-> b]
    BY DEF Tasks
  <2> HIDE DEF s, b
  <2>2. AtWorkOn(s, b)
    BY <1>1, <2>1 DEF AtWorkOn
  <2>3. \A t, c : [svc |-> t, batch |-> c] = task <=> t = s /\ c = b
    BY <2>1
  <2> QED BY <1>1, <2>2, <2>3, SubmittedOnly DEF AtWorkOn
<1>4. /\ s \notin Shared => DocsOf' = DocsOf
      /\ s \in Shared => DocsOf' = [DocsOf EXCEPT ![s] = @ \cup stage]
  BY ShownDocs
<1>5. s \in Shared => StageOf[s] = stage
  BY DEF StageOf
<1> HIDE DEF s, b
<1>6. CASE s \notin Shared
  <2>1. PendingOf' = PendingOf /\ LateOf' = LateOf
    BY <1>2, <1>3, <1>6 DEF PendingOf, LateOf
  <2> QED BY <1>2, <1>4, <1>6, <2>1
<1>7. CASE s \in Shared /\ caller # "idle" /\ b = batch
  <2>1. s \in PendingOf /\ PendingOf' = PendingOf \ {s}
    BY <1>2, <1>3, <1>7 DEF PendingOf
  <2>2. LateOf' = LateOf
    BY <1>2, <1>3, <1>7 DEF LateOf
  <2>3. Import!Save(s)
    BY <1>2, <1>4, <1>5, <1>7, <2>1, <2>2
       DEF Import!Save, Import!AddDocs, PendingOf, LateOf, StageOf, DocsOf
  <2> QED BY <1>7, <2>3
<1>8. CASE s \in Shared /\ (caller = "idle" \/ b # batch)
  <2>1. PendingOf' = PendingOf
    BY <1>2, <1>3, <1>8 DEF PendingOf
  <2>2. s \in LateOf
    BY <1>3, <1>8 DEF LateOf
  <2>3. LateOf' \subseteq LateOf /\ LateOf \ {s} \subseteq LateOf'
    BY <1>2, <1>3 DEF LateOf
  <2>4. LateOf' \in {LateOf, LateOf \ {s}}
    BY <2>2, <2>3
  <2>5. Import!LateSave(s)
    BY <1>2, <1>4, <1>5, <1>8, <2>1, <2>2, <2>4
       DEF Import!LateSave, Import!AddDocs, PendingOf, LateOf, StageOf, DocsOf
  <2> QED BY <1>8, <2>5
<1> QED BY <1>6, <1>7, <1>8

\* Cardinality as StagedImport extends it.
LEMMA SameCardinality == \A S : Import!Cardinality(S) = Cardinality(S)
  BY DEF Cardinality, Import!Cardinality

LEMMA ShownReturn == ImportInv /\ AwaitReturns => Import!Return
<1> SUFFICES ASSUME ImportInv, AwaitReturns PROVE Import!Return
  OBVIOUS
<1>1. caller = "waiting" /\ latch = 0 /\ caller' = "returned"
      /\ UNCHANGED <<batch, stage, queue, running, saved>>
  BY DEF AwaitReturns
<1>2. Cardinality(Open) <= Count - ServiceCount
  BY <1>1, ServicesFinite, ImportAssumption DEF ImportInv, LatchCounts
<1>3. PendingOf \subseteq Open /\ Open \subseteq Services
  BY DEF PendingOf, Open, AtWorkOn, Services
<1>4. Cardinality(PendingOf) <= Count - ServiceCount
  <2>1. IsFiniteSet(Open) /\ Cardinality(Open) \in Nat /\ Cardinality(PendingOf) \in Nat
    BY <1>3, OpenFinite
  <2>2. Cardinality(PendingOf) <= Cardinality(Open)
    BY <1>3, <2>1, FS_Subset
  <2> QED BY <1>2, <2>1, <2>2, ServicesFinite, ImportAssumption
<1>5. AtWork' = AtWork
  BY <1>1 DEF AtWork
<1>6. UNCHANGED <<StageOf, PendingOf, LateOf, DocsOf>>
  BY <1>1, <1>5 DEF StageOf, PendingOf, LateOf, DocsOf, AtWorkOn
<1>7. Cardinality(PendingOf) <= Cardinality(Services) - ServiceCount
  BY <1>4 DEF Count
<1>8. Cardinality({s \in Shared : caller # "idle" /\ AtWorkOn(s, batch)})
         <= Cardinality(Services) - ServiceCount
  BY <1>7 DEF PendingOf
<1> QED BY <1>1, <1>6, <1>8, SameCardinality DEF Import!Return, PendingOf, LateOf, StageOf, DocsOf

LEMMA ShownClear == ImportInv /\ Clear => Import!Clear
<1> SUFFICES ASSUME ImportInv, Clear PROVE Import!Clear
  OBVIOUS
<1>1. caller = "returned" /\ caller' = "idle" /\ stage' = {}
      /\ UNCHANGED <<batch, queue, running, saved>>
  BY DEF Clear
<1>2. AtWork' = AtWork
  BY <1>1 DEF AtWork
<1>3. batch \in 1..batch
  BY <1>1, ImportAssumption DEF ImportInv, TypeOK, LatchCounts
<1>4. PendingOf' = {} /\ LateOf' = LateOf \cup PendingOf
  BY <1>1, <1>2, <1>3 DEF PendingOf, LateOf, AtWorkOn
<1>5. DocsOf' = DocsOf /\ StageOf' = Import!nothing
  BY <1>1 DEF DocsOf, StageOf, Import!nothing
<1> QED BY <1>1, <1>4, <1>5 DEF Import!Clear, PendingOf, LateOf, StageOf, DocsOf

(***************************************************************************)
(* The pool of SERVICE_COUNT threads, its queue and the latch implement    *)
(* what SyncPipeline is composed from, for every number of services, every *)
(* size of the latch and every number of batches.                          *)
(***************************************************************************)
THEOREM ImportImplemented == Spec => ImplementsImport
<1>1. ImportInv /\ [Next]_vars => [Import!Next]_(Import!vars)
  <2> SUFFICES ASSUME ImportInv, [Next]_vars PROVE [Import!Next]_(Import!vars)
    OBVIOUS
  <2> DEFINE Quiet == UNCHANGED <<caller, StageOf, PendingOf, LateOf, DocsOf>>
  <2>1. Quiet => [Import!Next]_(Import!vars)
    BY DEF Import!vars, StageOf, PendingOf, LateOf, DocsOf
  <2> HIDE DEF Quiet
  <2>2. CASE BatchImport
    BY <2>2, ShownCall DEF Import!Next
  <2>3. CASE Start
    BY <2>1, <2>3, ShownTake DEF Quiet
  <2>4. ASSUME NEW task \in Tasks, Save(task) PROVE [Import!Next]_(Import!vars)
    BY <2>1, <2>4, ShownSave DEF Import!Next, Quiet
  <2>5. CASE AwaitReturns
    BY <2>5, ShownReturn DEF Import!Next
  <2>6. CASE Clear
    BY <2>6, ShownClear DEF Import!Next
  <2>7. CASE UNCHANGED vars
    <3>1. AtWork' = AtWork
      BY <2>7 DEF vars, AtWork
    <3>2. Quiet
      BY <2>7, <3>1 DEF vars, StageOf, PendingOf, LateOf, DocsOf, AtWorkOn, Quiet
    <3> QED BY <2>1, <3>2
  <2> QED BY <2>2, <2>3, <2>4, <2>5, <2>6, <2>7 DEF Next
<1> QED BY <1>1, ShownStart, ImportInvariant, PTL DEF Spec, ImplementsImport, Import!Spec
=============================================================================
