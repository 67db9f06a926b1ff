-------------------------- MODULE RedisImportProofs --------------------------
(***************************************************************************)
(* Theorems about RedisImport, for every number of caches, every maxItem,  *)
(* every length of a batch up to it and every number of failures.          *)
(***************************************************************************)
EXTENDS RedisImport, SetTheorems, TLAPS

-----------------------------------------------------------------------------
(***************************************************************************)
(* removeRange(0, n - 1) takes exactly n members: a member's rank counts   *)
(* the members below it, and no rank is skipped.                           *)
(***************************************************************************)
LEMMA OldestCounts ==
    ASSUME NEW S, IsFiniteSet(S), S \subseteq Int, NEW n \in 0..Cardinality(S)
    PROVE  Cardinality(S \ Oldest(n, S)) = Cardinality(S) - n
<1> DEFINE size == Cardinality(S)
           rank == [d \in S |-> Rank(d, S)]
<1>1. size \in Nat
  BY FS_CardinalityType
<1>2. rank \in [S -> 0 .. size - 1]
  BY RankIsBijection
<1>3. \A d, f \in S : rank[d] = rank[f] => d = f
  BY RankIsBijection
<1>4. \A i \in 0 .. size - 1 : \E d \in S : rank[d] = i
  BY RankIsBijection
<1>5. Oldest(n, S) = {d \in S : rank[d] < n}
  BY DEF Oldest, Rank, Below
<1> DEFINE old == {d \in S : rank[d] < n}
           place == [d \in old |-> rank[d]]
<1> HIDE DEF rank
<1>6. place \in [old -> 0 .. n - 1]
  <2>1. ASSUME NEW d \in old PROVE rank[d] \in 0 .. n - 1
    BY <1>1, <1>2
  <2> QED BY <2>1
<1>7. \A d, f \in old : place[d] = place[f] => d = f
  BY <1>3
<1>8. ASSUME NEW i \in 0 .. n - 1 PROVE \E d \in old : place[d] = i
  <2>1. i \in 0 .. size - 1 /\ i < n
    BY <1>1
  <2> QED BY <1>4, <2>1
<1> HIDE DEF place
<1>9. place \in Injection(old, 0 .. n - 1) /\ place \in Surjection(old, 0 .. n - 1)
  BY <1>6, <1>7, <1>8 DEF Injection, IsInjective, Surjection
<1>10. IsFiniteSet(0 .. n - 1) /\ Cardinality(0 .. n - 1) = n
  BY <1>1, UpTo
<1>11. Cardinality(old) = n
  BY <1>9, <1>10, FS_Injection
<1>12. S \cap old = old
  OBVIOUS
<1>13. Cardinality(S \ old) = size - Cardinality(S \cap old)
  BY FS_Difference
<1> QED BY <1>5, <1>11, <1>12, <1>13

(***************************************************************************)
(* From an unbroken run it takes the beginning.                            *)
(***************************************************************************)
LEMMA OldestOfRun ==
    ASSUME NEW a \in Nat, NEW b \in Nat, NEW n \in Nat
    PROVE  (a..b) \ Oldest(n, a..b) = (a + n)..b
<1>1. ASSUME NEW d \in a..b PROVE Cardinality({e \in a..b : e < d}) = d - a
  <2>1. {e \in a..b : e < d} = a .. d - 1
    OBVIOUS
  <2>2. a \in Int /\ d - 1 \in Int /\ d \in Int /\ a <= d
    OBVIOUS
  <2>3. Cardinality(a .. d - 1) = IF a > d - 1 THEN 0 ELSE (d - 1) - a + 1
    BY <2>2, FS_Interval
  <2>4. Cardinality(a .. d - 1) = d - a
    BY <2>2, <2>3
  <2> DEFINE under == {e \in a..b : e < d}
  <2>5. under = a .. d - 1
    BY <2>1
  <2> HIDE DEF under
  <2>6. Cardinality(under) = d - a
    BY <2>4, <2>5
  <2> QED BY <2>6 DEF under
<1>2. Oldest(n, a..b) = {d \in a..b : d - a < n}
  BY <1>1 DEF Oldest
<1> QED BY <1>2
-----------------------------------------------------------------------------
(***************************************************************************)
(* A cache that no batch passed over is an unbroken run that ends in       *)
(* from..newest, and it begins with the first document of all or was cut   *)
(* to no less than maxItem - 1.  An empty run is lo..lo - 1.               *)
(***************************************************************************)
Run(docs, from) ==
    \E lo \in 1 .. newest + 1, hi \in from..newest :
        /\ docs = lo..hi
        /\ lo <= hi + 1
        /\ lo = 1 \/ hi - lo + 1 >= MaxItem - 1

\* While a batch is imported, who has not saved it still reaches up to it.
Windows ==
    /\ caller = "idle" =>
          /\ pending = {}
          /\ \A s \in Caches \ holed : Run(cache[s], newest)
    /\ caller = "waiting" =>
          \E first \in 1..newest :
             /\ data = first..newest
             /\ newest - first < BatchLen
             /\ \A s \in Caches \ holed :
                   /\ Run(cache[s], first - 1)
                   /\ s \notin pending \cup failed => Run(cache[s], newest)

Limit(k) == MaxItem + (k + 1) * BatchLen

Sizes == \A s \in Caches : Cardinality(cache[s]) <= Limit(failures)

RedisInv == TypeOK /\ Windows /\ Sizes

LEMMA RedisConstants ==
    /\ MaxItem \in Nat /\ MaxItem >= 1 /\ BatchLen \in Nat /\ BatchLen >= 1 /\ BatchLen <= MaxItem
    /\ MaxScore \in Nat /\ MaxFail \in Nat
  BY RedisAssumption

LEMMA LimitGrows ==
    ASSUME NEW k \in Nat
    PROVE  /\ Limit(k) \in Nat /\ Limit(k + 1) = Limit(k) + BatchLen
           /\ Limit(k) >= MaxItem + BatchLen
<1>1. /\ (k + 1) * BatchLen \in Nat
      /\ (k + 1 + 1) * BatchLen = (k + 1) * BatchLen + BatchLen
      /\ (k + 1) * BatchLen = k * BatchLen + BatchLen
      /\ k * BatchLen \in Nat
  BY RedisConstants
<1> QED BY <1>1, RedisConstants DEF Limit

LEMMA DocsFinite ==
    ASSUME NEW S, S \subseteq 1..MaxScore
    PROVE  IsFiniteSet(S) /\ Cardinality(S) \in Nat /\ S \subseteq Int
<1>1. IsFiniteSet(1..MaxScore)
  BY RedisConstants, FS_Interval
<1>2. IsFiniteSet(S)
  BY <1>1, FS_Subset
<1>3. S \subseteq Int
  BY RedisConstants
<1> QED BY <1>2, <1>3, FS_CardinalityType

LEMMA RunSize ==
    ASSUME NEW a \in Nat, NEW b \in Nat, a <= b + 1
    PROVE  Cardinality(a..b) = b - a + 1
<1>1. Cardinality(a..b) = IF a > b THEN 0 ELSE b - a + 1
  BY FS_Interval
<1> QED BY <1>1

(***************************************************************************)
(* Adding a batch that follows on to a run gives the run up to its end.    *)
(***************************************************************************)
LEMMA AddedRun ==
    ASSUME newest \in Nat, NEW first \in 1..newest, data = first..newest,
           NEW docs, Run(docs, first - 1)
    PROVE  Run(docs \cup data, newest)
<1>1. PICK lo \in 1 .. newest + 1, hi \in first - 1 .. newest :
         /\ docs = lo..hi /\ lo <= hi + 1
         /\ lo = 1 \/ hi - lo + 1 >= MaxItem - 1
  BY DEF Run
<1> DEFINE m == IF lo <= first THEN lo ELSE first
<1>2. docs \cup data = m..newest
  <2>1. \A x \in Int : (lo <= x /\ x <= hi) \/ (first <= x /\ x <= newest)
                          <=> m <= x /\ x <= newest
    BY <1>1
  <2>2. m \in Int /\ lo \in Int /\ hi \in Int /\ first \in Int /\ newest \in Int
    BY <1>1
  <2> HIDE DEF m
  <2>3. \A x : x \in docs <=> x \in Int /\ lo <= x /\ x <= hi
    BY <1>1, <2>2
  <2>4. \A x : x \in data <=> x \in Int /\ first <= x /\ x <= newest
    BY <2>2
  <2>5. \A x : x \in m..newest <=> x \in Int /\ m <= x /\ x <= newest
    BY <2>2
  <2> QED BY <2>1, <2>3, <2>4, <2>5
<1>3. m \in 1 .. newest + 1 /\ m <= newest + 1 /\ newest \in newest..newest
  BY <1>1
<1>4. m = 1 \/ newest - m + 1 >= MaxItem - 1
  BY <1>1, RedisConstants
<1> QED BY <1>2, <1>3, <1>4 DEF Run

LEMMA SavedRun ==
    ASSUME newest \in Nat, NEW first \in 1..newest, data = first..newest,
           NEW docs, Run(docs, first - 1)
    PROVE  Run(Saved(docs), newest)
<1> DEFINE added == docs \cup data
           count == Cardinality(docs)
<1>1. Run(added, newest)
  BY AddedRun
<1>2. PICK lo \in 1 .. newest + 1, hi \in first - 1 .. newest : docs = lo..hi /\ lo <= hi + 1
  BY DEF Run
<1>3. count = hi - lo + 1 /\ count \in Nat
  <2>1. lo \in Nat /\ hi \in Nat
    OBVIOUS
  <2>2. Cardinality(lo..hi) = hi - lo + 1
    BY <1>2, <2>1, RunSize
  <2> QED BY <1>2, <2>1, <2>2
<1>4. PICK m \in 1 .. newest + 1 : added = m..newest
  BY <1>1 DEF Run
<1>5. CASE count <= MaxItem
  <2>1. Saved(docs) = added
    BY <1>3, <1>5, RedisConstants DEF Saved
  <2> QED BY <1>1, <2>1
<1>6. CASE count > MaxItem
  <2> DEFINE n == count - MaxItem + 1
  <2>1. n \in Nat /\ count >= 1
    BY <1>3, <1>6, RedisConstants
  <2>2. Saved(docs) = added \ Oldest(n, added)
    BY <1>6 DEF Saved
  <2> HIDE DEF added, count
  <2>3. Saved(docs) = (m + n)..newest
    BY <1>4, <2>1, <2>2, OldestOfRun
  <2>4. lo \in docs /\ lo \in added
    BY <1>2, <1>3, <2>1 DEF added
  <2>5. m <= lo
    BY <1>4, <2>4
  <2>6. newest - m + 1 >= count
    BY <1>2, <1>3, <2>5
  <2>7. newest - (m + n) + 1 >= MaxItem - 1 /\ m + n \in 1 .. newest + 1
    BY <1>3, <2>1, <2>6, RedisConstants
  <2>8. newest \in newest..newest /\ m + n <= newest + 1
    BY <2>7
  <2> QED BY <2>3, <2>7, <2>8 DEF Run
<1> QED BY <1>3, <1>5, <1>6, RedisConstants

(***************************************************************************)
(* A save that succeeds leaves no more than maxItem and one batch, or no   *)
(* more than one batch over what was there.                                *)
(***************************************************************************)
LEMMA AddedSize ==
    ASSUME NEW docs, IsFiniteSet(docs), IsFiniteSet(data), Cardinality(data) <= BatchLen
    PROVE  /\ IsFiniteSet(docs \cup data)
           /\ Cardinality(docs \cup data) \in Nat /\ Cardinality(docs) \in Nat
           /\ Cardinality(docs \cup data) <= Cardinality(docs) + BatchLen
           /\ Cardinality(docs \cup data) >= Cardinality(docs)
<1>1. /\ IsFiniteSet(docs \cup data) /\ IsFiniteSet(docs \cap data)
      /\ Cardinality(docs \cup data)
            = Cardinality(docs) + Cardinality(data) - Cardinality(docs \cap data)
  BY FS_Union, FS_Intersection
<1>2. /\ Cardinality(docs) \in Nat /\ Cardinality(data) \in Nat
      /\ Cardinality(docs \cap data) \in Nat /\ Cardinality(docs \cup data) \in Nat
  BY <1>1, FS_CardinalityType
<1>3. docs \subseteq docs \cup data
  OBVIOUS
<1>4. Cardinality(docs) <= Cardinality(docs \cup data)
  BY <1>1, <1>3, FS_Subset
<1> QED BY <1>1, <1>2, <1>4, RedisConstants

LEMMA SavedSize ==
    ASSUME NEW docs, docs \subseteq 1..MaxScore, data \subseteq 1..MaxScore,
           Cardinality(data) <= BatchLen
    PROVE  /\ Saved(docs) \subseteq 1..MaxScore
           /\ Cardinality(Saved(docs)) <= MaxItem + BatchLen
<1> DEFINE added == docs \cup data
           count == Cardinality(docs)
           n == count - MaxItem + 1
<1>1. /\ IsFiniteSet(docs) /\ IsFiniteSet(data) /\ added \subseteq 1..MaxScore
      /\ IsFiniteSet(added) /\ added \subseteq Int
  BY DocsFinite
<1>2. /\ Cardinality(added) \in Nat /\ count \in Nat
      /\ Cardinality(added) <= count + BatchLen /\ Cardinality(added) >= count
  BY <1>1, AddedSize
<1>3. Saved(docs) = IF count > MaxItem THEN added \ Oldest(n, added) ELSE added
  BY DEF Saved
<1> HIDE DEF added, count
<1>4. CASE count <= MaxItem
  <2>1. ~(count > MaxItem)
    BY <1>2, <1>4, RedisConstants
  <2>2. Saved(docs) = added
    BY <1>3, <2>1
  <2>3. Cardinality(added) <= MaxItem + BatchLen
    BY <1>2, <1>4, RedisConstants
  <2> QED BY <1>1, <2>2, <2>3
<1>5. CASE count > MaxItem
  <2>1. n \in 0..Cardinality(added)
    BY <1>2, <1>5, RedisConstants
  <2>2. Cardinality(added \ Oldest(n, added)) = Cardinality(added) - n
    BY <1>1, <2>1, OldestCounts
  <2>3. Cardinality(added) - n <= MaxItem + BatchLen
    BY <1>2, <1>5, RedisConstants
  <2> HIDE DEF n
  <2> QED BY <1>1, <1>2, <1>3, <1>5, <2>2, <2>3, RedisConstants
<1> QED BY <1>2, <1>4, <1>5, RedisConstants
-----------------------------------------------------------------------------
LEMMA RedisStart == Init => RedisInv
<1> SUFFICES ASSUME Init PROVE RedisInv
  OBVIOUS
<1> USE DEF Init
<1>1. TypeOK
  <2>1. cache \in [Caches -> SUBSET (1..MaxScore)]
    OBVIOUS
  <2>2. 0 \in 0..MaxScore /\ 0 \in 0..MaxFail
    BY RedisConstants
  <2> QED BY <2>1, <2>2 DEF TypeOK
<1>2. \A s \in Caches : cache[s] = {} /\ Cardinality(cache[s]) = 0
  BY FS_EmptySet
<1>3. Run({}, newest)
  <2>1. {} = 1..0 /\ 1 \in 1 .. newest + 1 /\ 0 \in newest..newest
    OBVIOUS
  <2> QED BY <2>1 DEF Run
<1>4. Windows
  BY <1>2, <1>3 DEF Windows
<1>5. Sizes
  BY <1>2, LimitGrows, RedisConstants DEF Sizes
<1> QED BY <1>1, <1>4, <1>5 DEF RedisInv

(***************************************************************************)
(* A run that ends at the newest document reaches up to the next batch.    *)
(***************************************************************************)
LEMMA RunBefore ==
    ASSUME newest \in Nat, NEW top \in Nat, newest <= top,
           NEW from \in Nat, from <= newest,
           NEW docs, Run(docs, newest)
    PROVE  \E lo \in 1 .. top + 1, hi \in from..top :
              docs = lo..hi /\ lo <= hi + 1 /\ (lo = 1 \/ hi - lo + 1 >= MaxItem - 1)
<1>1. PICK lo \in 1 .. newest + 1, hi \in newest..newest :
         docs = lo..hi /\ lo <= hi + 1 /\ (lo = 1 \/ hi - lo + 1 >= MaxItem - 1)
  BY DEF Run
<1>2. hi = newest /\ lo \in Int /\ 1 <= lo /\ lo <= newest + 1
  OBVIOUS
<1>3. lo \in 1 .. top + 1 /\ hi \in from..top
  BY <1>2
<1> QED BY <1>1, <1>3

LEMMA RunWeaker ==
    ASSUME newest \in Nat, NEW first \in 1..newest, NEW docs, Run(docs, newest)
    PROVE  Run(docs, first - 1)
<1>1. first - 1 \in Nat /\ first - 1 <= newest
  OBVIOUS
<1> QED BY <1>1, RunBefore DEF Run

LEMMA BatchStep == RedisInv /\ BatchImport => RedisInv'
<1> SUFFICES ASSUME RedisInv, BatchImport PROVE RedisInv'
  OBVIOUS
<1>1. PICK first \in {newest, newest + 1} \ {0}, last \in newest + 1 .. MaxScore :
         last - first < BatchLen /\ data' = first..last /\ newest' = last
  BY DEF BatchImport
<1>2. /\ caller = "idle" /\ caller' = "waiting" /\ pending' = Caches /\ failed' = {}
      /\ UNCHANGED <<isRetry, cache, holed, failures>>
  BY DEF BatchImport
<1>3. newest \in 0..MaxScore
  BY DEF RedisInv, TypeOK
<1>4. /\ newest' \in 0..MaxScore /\ first \in 1..newest' /\ newest <= newest' /\ first - 1 \in Nat
      /\ first - 1 <= newest
  BY <1>1, <1>3, RedisConstants
<1>5. data' \subseteq 1..MaxScore
  BY <1>1, <1>3, <1>4, RedisConstants
<1>6. TypeOK'
  BY <1>2, <1>4, <1>5 DEF RedisInv, TypeOK
<1>7. ASSUME NEW s \in Caches \ holed PROVE Run(cache[s], first - 1)'
  <2>1. Run(cache[s], newest)
    BY <1>2 DEF RedisInv, Windows
  <2>2. \E lo \in 1 .. newest' + 1, hi \in first - 1 .. newest' :
           cache[s] = lo..hi /\ lo <= hi + 1 /\ (lo = 1 \/ hi - lo + 1 >= MaxItem - 1)
    <3>1. newest \in Nat /\ newest' \in Nat
      BY <1>3, <1>4, RedisConstants
    <3> QED BY <1>4, <2>1, <3>1, RunBefore
  <2> QED BY <1>2, <2>2 DEF Run
<1>8. Windows'
  BY <1>1, <1>2, <1>4, <1>7 DEF Windows
<1>9. Sizes'
  BY <1>2 DEF RedisInv, Sizes, Limit
<1> QED BY <1>6, <1>8, <1>9 DEF RedisInv

(***************************************************************************)
(* What a save does to its cache, if it is known to be an unbroken run     *)
(* and to be no larger than the new limit.                                 *)
(***************************************************************************)
LEMMA OneCache ==
    ASSUME RedisInv, NEW s \in pending, pending' = pending \ {s},
           UNCHANGED <<newest, data, caller, holed>>,
           NEW docs, docs \subseteq 1..MaxScore, cache' = [cache EXCEPT ![s] = docs],
           failed' \in {failed, failed \cup {s}},
           isRetry' \in BOOLEAN, failures' \in 0..MaxFail,
           failures' \in {failures, failures + 1},
           Cardinality(docs) <= Limit(failures'),
           \A first \in 1..newest : (data = first..newest /\ Run(cache[s], first - 1)) =>
               /\ Run(docs, first - 1)
               /\ s \notin failed' => Run(docs, newest)
    PROVE  RedisInv'
<1>1. /\ cache \in [Caches -> SUBSET (1..MaxScore)] /\ s \in Caches /\ failures \in 0..MaxFail
      /\ newest \in Nat
  BY DEF RedisInv, TypeOK
<1>2. cache'[s] = docs /\ \A other \in Caches \ {s} : cache'[other] = cache[other]
  BY <1>1
<1>3. TypeOK'
  BY <1>1 DEF RedisInv, TypeOK
<1>4. Limit(failures) <= Limit(failures') /\ Limit(failures) \in Nat /\ Limit(failures') \in Nat
  <2>1. failures \in Nat /\ Limit(failures) \in Nat /\ Limit(failures + 1) = Limit(failures) + BatchLen
    <3>1. failures \in Nat
      BY <1>1, RedisConstants
    <3> QED BY <3>1, LimitGrows
  <2>2. CASE failures' = failures
    <3>1. Limit(failures') = Limit(failures)
      BY <2>2 DEF Limit
    <3> QED BY <2>1, <3>1, RedisConstants
  <2>3. CASE failures' = failures + 1
    <3>1. Limit(failures') = Limit(failures + 1)
      BY <2>3 DEF Limit
    <3> QED BY <2>1, <3>1, RedisConstants
  <2> QED BY <2>2, <2>3
<1>5. Sizes'
  <2>1. ASSUME NEW other \in Caches PROVE Cardinality(cache'[other]) <= Limit(failures')
    <3>1. CASE other = s
      BY <1>2, <3>1
    <3>2. CASE other # s
      <4>1. Cardinality(cache[other]) <= Limit(failures) /\ Cardinality(cache[other]) \in Nat
        BY <1>1, DocsFinite DEF RedisInv, Sizes
      <4> QED BY <1>2, <1>4, <3>2, <4>1
    <3> QED BY <3>1, <3>2
  <2> QED BY <2>1 DEF Sizes, Limit
<1>6. caller = "waiting"
  BY DEF RedisInv, Windows, TypeOK
<1>7. PICK first \in 1..newest :
         /\ data = first..newest
         /\ newest - first < BatchLen
         /\ \A other \in Caches \ holed :
               /\ Run(cache[other], first - 1)
               /\ other \notin pending \cup failed => Run(cache[other], newest)
  BY <1>6 DEF RedisInv, Windows
<1>8. ASSUME NEW other \in Caches \ holed
      PROVE  /\ Run(cache'[other], first - 1)
             /\ other \notin pending' \cup failed' => Run(cache'[other], newest)
  <2>1. CASE other = s
    BY <1>2, <1>7, <2>1
  <2>2. CASE other # s
    BY <1>2, <1>7, <2>2
  <2> QED BY <2>1, <2>2
<1>9. Windows'
  <2>1. \A other \in Caches \ holed' :
           /\ Run(cache[other], first - 1)'
           /\ other \notin pending' \cup failed' => Run(cache[other], newest)'
    BY <1>8 DEF Run
  <2> QED BY <1>6, <1>7, <2>1 DEF Windows
<1> QED BY <1>3, <1>5, <1>9 DEF RedisInv

LEMMA DataSize ==
    ASSUME RedisInv, caller = "waiting"
    PROVE  IsFiniteSet(data) /\ Cardinality(data) <= BatchLen /\ data \subseteq 1..MaxScore
<1>1. PICK first \in 1..newest : data = first..newest /\ newest - first < BatchLen
  BY DEF RedisInv, Windows
<1>2. newest \in Nat /\ data \subseteq 1..MaxScore
  BY RedisConstants DEF RedisInv, TypeOK
<1>3. Cardinality(data) = newest - first + 1
  BY <1>1, <1>2, RunSize
<1> QED BY <1>1, <1>2, <1>3, DocsFinite, RedisConstants

\* What is known of the cache a service is about to write.
LEMMA PendingCache ==
    ASSUME RedisInv, NEW s \in pending
    PROVE  /\ caller = "waiting" /\ s \in Caches /\ newest \in Nat /\ failures \in Nat
           /\ cache \in [Caches -> SUBSET (1..MaxScore)]
           /\ cache[s] \subseteq 1..MaxScore
           /\ Cardinality(cache[s]) <= Limit(failures)
  BY RedisConstants DEF RedisInv, TypeOK, Windows, Sizes

LEMMA SaveStep == ASSUME NEW s \in Caches, RedisInv, Save(s) PROVE RedisInv'
<1>1. /\ s \in pending /\ pending' = pending \ {s} /\ cache' = [cache EXCEPT ![s] = Saved(@)]
      /\ isRetry' = FALSE /\ UNCHANGED <<newest, data, caller, failed, holed, failures>>
  BY DEF Save
<1>2. /\ caller = "waiting" /\ newest \in Nat /\ failures \in Nat
      /\ cache \in [Caches -> SUBSET (1..MaxScore)] /\ cache[s] \subseteq 1..MaxScore
  BY <1>1, PendingCache
<1> DEFINE docs == Saved(cache[s])
<1>3. docs \subseteq 1..MaxScore /\ Cardinality(docs) <= MaxItem + BatchLen
  BY <1>2, DataSize, SavedSize
<1>4. cache' = [cache EXCEPT ![s] = docs]
  BY <1>1, <1>2
<1>5. IsFiniteSet(docs) /\ Cardinality(docs) \in Nat
  BY <1>3, DocsFinite
<1>6. \A first \in 1..newest : (data = first..newest /\ Run(cache[s], first - 1)) => Run(docs, newest)
  BY <1>2, SavedRun
<1>7. \A first \in 1..newest : Run(docs, newest) => Run(docs, first - 1)
  BY <1>2, RunWeaker
<1> HIDE DEF docs
<1>8. Cardinality(docs) <= Limit(failures)
  BY <1>2, <1>3, <1>5, LimitGrows, RedisConstants
<1>9. failures' \in 0..MaxFail /\ failures' = failures
  BY <1>1 DEF RedisInv, TypeOK
<1> QED BY <1>1, <1>3, <1>4, <1>6, <1>7, <1>8, <1>9, OneCache

LEMMA FailStep == ASSUME NEW s \in Caches, RedisInv, SaveFails(s) PROVE RedisInv'
<1>1. /\ s \in pending /\ pending' = pending \ {s} /\ failures < MaxFail /\ failures' = failures + 1
      /\ isRetry' = TRUE /\ UNCHANGED <<newest, data, caller, holed>>
  BY DEF SaveFails
<1>2. PICK docs \in {cache[s], cache[s] \cup data} :
         /\ cache' = [cache EXCEPT ![s] = docs]
         /\ failed' = IF data \subseteq docs THEN failed ELSE failed \cup {s}
  BY DEF SaveFails
<1>3. /\ caller = "waiting" /\ newest \in Nat /\ failures \in Nat /\ failures' \in 0..MaxFail
      /\ cache[s] \subseteq 1..MaxScore /\ Cardinality(cache[s]) <= Limit(failures)
  BY <1>1, PendingCache, RedisConstants
<1>4. IsFiniteSet(data) /\ Cardinality(data) <= BatchLen /\ data \subseteq 1..MaxScore
  BY <1>3, DataSize
<1>5. docs \subseteq 1..MaxScore
  BY <1>2, <1>3, <1>4
<1>6. Cardinality(docs) <= Limit(failures')
  <2>1. IsFiniteSet(cache[s]) /\ Cardinality(cache[s]) \in Nat
    BY <1>3, DocsFinite
  <2>2. /\ Cardinality(cache[s] \cup data) \in Nat
        /\ Cardinality(cache[s] \cup data) <= Cardinality(cache[s]) + BatchLen
    BY <1>4, <2>1, AddedSize
  <2>3. Limit(failures') = Limit(failures) + BatchLen /\ Limit(failures) \in Nat
    BY <1>1, <1>3, LimitGrows
  <2>4. /\ Cardinality(cache[s]) <= Limit(failures')
        /\ Cardinality(cache[s] \cup data) <= Limit(failures')
    BY <1>3, <2>1, <2>2, <2>3, RedisConstants
  <2> QED BY <1>2, <2>4
<1>7. ASSUME NEW first \in 1..newest, data = first..newest, Run(cache[s], first - 1)
      PROVE  Run(docs, first - 1) /\ (s \notin failed' => Run(docs, newest))
  <2>1. Run(cache[s] \cup data, newest)
    BY <1>3, <1>7, AddedRun
  <2>2. Run(cache[s] \cup data, first - 1)
    BY <1>3, <2>1, RunWeaker
  <2>3. CASE data \subseteq docs
    <3>1. docs = cache[s] \cup data
      BY <1>2, <2>3
    <3> QED BY <2>1, <2>2, <3>1
  <2>4. CASE ~(data \subseteq docs)
    <3>1. docs = cache[s] /\ s \in failed'
      BY <1>2, <2>4
    <3> QED BY <1>7, <3>1
  <2> QED BY <2>3, <2>4
<1>8. failed' \in {failed, failed \cup {s}} /\ isRetry' \in BOOLEAN /\ failures' \in {failures, failures + 1}
  BY <1>1, <1>2
<1> QED BY <1>1, <1>2, <1>3, <1>5, <1>6, <1>7, <1>8, OneCache

LEMMA RetryStep == RedisInv /\ Retry => RedisInv'
<1> SUFFICES ASSUME RedisInv, Retry PROVE RedisInv'
  OBVIOUS
<1>1. /\ caller = "waiting" /\ pending' = Caches /\ failed' = {}
      /\ UNCHANGED <<newest, data, caller, isRetry, cache, holed, failures>>
  BY DEF Retry
<1>2. TypeOK' /\ Sizes'
  BY <1>1 DEF RedisInv, TypeOK, Sizes, Limit
<1>3. Windows'
  BY <1>1 DEF RedisInv, Windows, Run
<1> QED BY <1>2, <1>3 DEF RedisInv

LEMMA ReturnStep == RedisInv /\ Return => RedisInv'
<1> SUFFICES ASSUME RedisInv, Return PROVE RedisInv'
  OBVIOUS
<1>1. /\ caller = "waiting" /\ caller' = "idle" /\ pending = {} /\ holed' = holed \cup failed
      /\ UNCHANGED <<newest, data, pending, isRetry, cache, failed, failures>>
  BY DEF Return
<1>2. TypeOK' /\ Sizes'
  BY <1>1 DEF RedisInv, TypeOK, Sizes, Limit
<1>3. \A s \in Caches \ holed' : Run(cache[s], newest)
  BY <1>1 DEF RedisInv, Windows
<1>4. \A s \in Caches \ holed' : Run(cache[s], newest)'
  BY <1>1, <1>3 DEF Run
<1>5. Windows'
  BY <1>1, <1>4 DEF Windows
<1> QED BY <1>2, <1>5 DEF RedisInv

LEMMA RedisStays == RedisInv /\ UNCHANGED vars => RedisInv'
<1> SUFFICES ASSUME RedisInv, UNCHANGED vars PROVE RedisInv'
  OBVIOUS
<1>1. UNCHANGED <<newest, data, caller, pending, isRetry, cache, failed, holed, failures>>
  BY DEF vars
<1>2. TypeOK' /\ Sizes' /\ Windows'
  BY <1>1 DEF RedisInv, TypeOK, Sizes, Windows, Limit, Run
<1> QED BY <1>2 DEF RedisInv

LEMMA RedisInvariant == Spec => []RedisInv
<1>1. RedisInv /\ [Next]_vars => RedisInv'
  BY BatchStep, SaveStep, FailStep, RetryStep, ReturnStep, RedisStays DEF Next
<1> QED BY RedisStart, <1>1, PTL DEF Spec
-----------------------------------------------------------------------------
(***************************************************************************)
(* The types of the module, for every bound.                               *)
(***************************************************************************)
THEOREM RedisTypes == Spec => []TypeOK
<1>1. RedisInv => TypeOK
  BY DEF RedisInv
<1> QED BY <1>1, RedisInvariant, PTL

(***************************************************************************)
(* Between imports a cache that was not passed over is an unbroken run of  *)
(* documents up to the newest, for every maxItem, batch length and history *)
(* of failures and retries.                                                *)
(***************************************************************************)
THEOREM CacheIsRun == Spec => []CacheIsRecentWindow
<1>1. ASSUME RedisInv, caller = "idle", NEW s \in Caches \ holed, cache[s] # {}
      PROVE  cache[s] = Min(cache[s])..newest
  <2>1. PICK lo \in 1 .. newest + 1, hi \in newest..newest : cache[s] = lo..hi
    BY <1>1 DEF RedisInv, Windows, Run
  <2>2. hi = newest /\ newest \in Nat /\ lo \in Int
    BY <1>1, <2>1, RedisConstants DEF RedisInv, TypeOK
  <2>3. lo \in cache[s] /\ \A d \in cache[s] : lo <= d /\ d \in Int
    BY <1>1, <2>1, <2>2
  <2>4. Min(cache[s]) \in cache[s] /\ \A d \in cache[s] : Min(cache[s]) <= d
    BY <2>3 DEF Min
  <2>5. Min(cache[s]) = lo
    BY <2>2, <2>3, <2>4
  <2> QED BY <2>1, <2>2, <2>5
<1>2. RedisInv => CacheIsRecentWindow
  BY <1>1 DEF CacheIsRecentWindow
<1> QED BY <1>2, RedisInvariant, PTL

(***************************************************************************)
(* A cache grows by at most one batch per failure over maxItem and the     *)
(* last batch, and a full one keeps at least maxItem - 1 documents.        *)
(***************************************************************************)
THEOREM CachesAreBounded == Spec => []CacheBounded
<1>1. ASSUME RedisInv, NEW s \in Caches, s \notin holed \cup failed, newest >= MaxItem, caller = "idle"
      PROVE  Cardinality(cache[s]) >= MaxItem - 1
  <2>1. PICK lo \in 1 .. newest + 1, hi \in newest..newest :
           cache[s] = lo..hi /\ lo <= hi + 1 /\ (lo = 1 \/ hi - lo + 1 >= MaxItem - 1)
    BY <1>1 DEF RedisInv, Windows, Run
  <2>2. hi = newest /\ newest \in Nat /\ lo \in Nat
    BY <1>1, <2>1, RedisConstants DEF RedisInv, TypeOK
  <2>3. Cardinality(cache[s]) = newest - lo + 1
    BY <2>1, <2>2, RunSize
  <2> QED BY <1>1, <2>1, <2>2, <2>3, RedisConstants
<1>2. RedisInv => CacheBounded
  BY <1>1 DEF CacheBounded, RedisInv, Sizes, Limit
<1> QED BY <1>2, RedisInvariant, PTL
=============================================================================
